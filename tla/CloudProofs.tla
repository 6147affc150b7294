----------------------------- MODULE CloudProofs -----------------------------
(***************************************************************************)
(* What holds of the uploads, the reads and the imports of MCCloud for any *)
(* number of them: of BaiduUpload that no permit of an account is lost and *)
(* that an Ok means the volume is stored; of BaiduLinks that links are     *)
(* located once per need and that reads fail for a cause; of Shares that a *)
(* link works and that imports are whole and leave other entries alone.    *)
(***************************************************************************)
EXTENDS MCCloud, FiniteSetTheorems, SequenceTheorems, WellFoundedInduction, TLAPS

(***************************************************************************)
(* Uploads: the permits.                                                   *)
(***************************************************************************)

Places == {"new", "vip", "spool", "precreate", "locate", "send", "create", "again"} \cup Final

\* A block is under way only while the upload sends its blocks.
Shape ==
  /\ pc \in [Uploads -> Places] /\ sem \in [Uploads -> Uploads] /\ free \in [Uploads -> Int]
  /\ current \in Uploads \cup {Nil}
  /\ block \in [Uploads -> [Parts -> {"none", "todo", "want", "sent", "ok"}]]
  /\ \A u \in Uploads, p \in Parts : block[u][p] \in {"want", "sent"} => pc[u] = "send"

\* Whoever is at work has a semaphore that somebody made, and so has the account.
Made(s) == sem[s] = s /\ pc[s] # "new"
Users ==
  /\ current # Nil => Made(current)
  /\ \A u \in Uploads : IF pc[u] = "new" THEN sem[u] = u ELSE Made(sem[u])

PermitsInv == Shape /\ Users /\ PermitsComeBack

-----------------------------------------------------------------------------
LEMMA FewParts == IsFiniteSet(Parts) /\ Parts \subseteq Int
BY FS_Interval, UploadsAssumption DEF Parts

\* The first block of a list: intervals from 1 are finite, and inclusion orders them.
LEMMA LeastIsIn ==
  ASSUME NEW numbers \in SUBSET Nat, numbers # {}
  PROVE  Min(numbers) \in numbers /\ \A n \in numbers : Min(numbers) <= n
<1> DEFINE W == {1..n : n \in numbers}
           R == StrictSubsetOrdering(Nat)
<1>1. W \subseteq FiniteSubsetsOf(Nat) /\ W # {}
  <2>1. ASSUME NEW n \in numbers PROVE 1..n \in FiniteSubsetsOf(Nat)
    <3>1. IsFiniteSet(1..n)
          BY FS_Interval
    <3> QED BY <3>1 DEF FiniteSubsetsOf
  <2> QED BY <2>1
<1>2. PICK w \in W : \A y \in W : ~(<<y, w>> \in R)
  <2> HIDE DEF W, R
  <2> QED BY <1>1, FS_StrictSubsetOrderingWellFounded, WFMin DEF R
<1>3. PICK m \in numbers : w = 1..m
      BY <1>2
<1>4. ASSUME NEW n \in numbers, n < m PROVE FALSE
  <2>1. 1..n \in W /\ 1..n \subseteq 1..m /\ m \in 1..m /\ m \notin 1..n
        BY <1>4
  <2>2. <<1..n, 1..m>> \in R
        BY <2>1 DEF StrictSubsetOrdering
  <2> QED BY <1>2, <1>3, <2>1, <2>2
<1>5. \A n \in numbers : m <= n
      BY <1>4
<1> HIDE DEF W, R
<1> QED BY <1>5 DEF Min

\* The requests of one upload, among those of others.
LEMMA Counting ==
  ASSUME NEW requests \in SUBSET (Uploads \X Parts), NEW u \in Uploads, NEW own \in SUBSET Parts,
         requests \cap ({u} \X Parts) = {u} \X own
  PROVE  /\ Cardinality(requests) \in Nat /\ Cardinality(own) \in Nat
         /\ Cardinality(requests \ ({u} \X Parts)) \in Nat
         /\ Cardinality(requests) = Cardinality(requests \ ({u} \X Parts)) + Cardinality(own)
<1>1. IsFiniteSet(Uploads \X Parts)
      BY FewParts, UploadsAssumption, FS_Product
<1>2. IsFiniteSet(requests) /\ Cardinality(requests) \in Nat
      BY <1>1, FS_Subset, FS_CardinalityType
<1>3. IsFiniteSet(own) /\ Cardinality(own) \in Nat
      BY FewParts, FS_Subset, FS_CardinalityType
<1>4. IsFiniteSet({u}) /\ Cardinality({u}) = 1
      BY FS_Singleton
<1>5. Cardinality({u} \X own) = 1 * Cardinality(own)
      BY <1>3, <1>4, FS_Product
<1>6. Cardinality(requests \ ({u} \X Parts)) = Cardinality(requests) - Cardinality({u} \X own)
      BY <1>2, FS_Difference
<1>7. Cardinality(requests \ ({u} \X Parts)) \in Nat
      BY <1>2, FS_Difference, FS_CardinalityType
<1> QED BY <1>2, <1>3, <1>5, <1>6, <1>7

LEMMA Balance ==
  \A a, b, c, m, n \in Nat, f, g \in Int : b = c + m /\ a = c + n /\ g + n = f + m => g + a = f + b
OBVIOUS

LEMMA SentIsFinite ==
  ASSUME NEW u
  PROVE  IsFiniteSet(Sent(u)) /\ Cardinality(Sent(u)) \in Nat
<1>1. Sent(u) \in SUBSET Parts
      BY DEF Sent
<1> QED BY <1>1, FewParts, FS_Subset, FS_CardinalityType

\* What follows from the balance of each semaphore being what it was.
LEMMA Balanced ==
  ASSUME PermitsInv, UNCHANGED sem, Shape', Users',
         \A u \in Uploads : pc'[u] = "new" <=> pc[u] = "new",
         \A s \in Uploads : free'[s] + Cardinality(InUse(s)') = free[s] + Cardinality(InUse(s))
  PROVE  PermitsInv'
BY DEF PermitsInv, PermitsComeBack

\* A step of one upload that is at work: a block more under way is a permit less.
BlockMoves(u) ==
  /\ UNCHANGED <<sem, current>>
  /\ pc' \in [Uploads -> Places] /\ \A v \in Uploads \ {u} : pc'[v] = pc[v]
  /\ pc[u] # "new" /\ pc'[u] # "new"
  /\ block' \in [Uploads -> [Parts -> {"none", "todo", "want", "sent", "ok"}]]
  /\ \A v \in Uploads \ {u} : block'[v] = block[v]
  /\ \A p \in Parts : block'[u][p] \in {"want", "sent"} => pc'[u] = "send"
  /\ free' \in [Uploads -> Int] /\ \A s \in Uploads \ {sem[u]} : free'[s] = free[s]
  /\ free'[sem[u]] + Cardinality(Sent(u)') = free[sem[u]] + Cardinality(Sent(u))

LEMMA BlockStep ==
  ASSUME PermitsInv, NEW u \in Uploads, BlockMoves(u)
  PROVE  PermitsInv'
<1>1. Shape'
      BY DEF BlockMoves, PermitsInv, Shape
<1>2. Users'
      BY DEF BlockMoves, PermitsInv, Shape, Users, Made
<1>3. \A v \in Uploads : pc'[v] = "new" <=> pc[v] = "new"
      BY DEF BlockMoves, PermitsInv, Shape
<1>4. ASSUME NEW s \in Uploads, s # sem[u]
      PROVE  free'[s] + Cardinality(InUse(s)') = free[s] + Cardinality(InUse(s))
  <2>1. InUse(s)' = InUse(s)
        BY <1>4 DEF BlockMoves, InUse, PermitsInv, Shape
  <2>2. free'[s] = free[s]
        BY <1>4 DEF BlockMoves, PermitsInv, Shape
  <2> QED BY <2>1, <2>2
<1>5. free'[sem[u]] + Cardinality(InUse(sem[u])') = free[sem[u]] + Cardinality(InUse(sem[u]))
  <2>1. PICK before, after, mine, mineAfter :
          /\ before = InUse(sem[u]) /\ after = InUse(sem[u])'
          /\ mine = Sent(u) /\ mineAfter = Sent(u)'
        OBVIOUS
  <2>3. /\ before \in SUBSET (Uploads \X Parts) /\ after \in SUBSET (Uploads \X Parts)
        /\ mine \in SUBSET Parts /\ mineAfter \in SUBSET Parts
        BY <2>1 DEF InUse, Sent
  <2>4. \A v \in Uploads, p \in Parts :
          /\ <<v, p>> \in before <=> sem[v] = sem[u] /\ block[v][p] = "sent"
          /\ <<v, p>> \in after <=> sem[v] = sem[u] /\ block'[v][p] = "sent"
        BY <2>1 DEF InUse, BlockMoves
  <2>5. before \cap ({u} \X Parts) = {u} \X mine
        BY <2>1, <2>3, <2>4 DEF Sent
  <2>6. after \cap ({u} \X Parts) = {u} \X mineAfter
        BY <2>1, <2>3, <2>4 DEF Sent
  <2>7. after \ ({u} \X Parts) = before \ ({u} \X Parts)
        BY <2>3, <2>4 DEF BlockMoves
  <2>8. /\ Cardinality(before \ ({u} \X Parts)) \in Nat
        /\ Cardinality(before) \in Nat /\ Cardinality(mine) \in Nat
        /\ Cardinality(before) = Cardinality(before \ ({u} \X Parts)) + Cardinality(mine)
        BY <2>3, <2>5, Counting
  <2>9. /\ Cardinality(after) \in Nat /\ Cardinality(mineAfter) \in Nat
        /\ Cardinality(after) = Cardinality(after \ ({u} \X Parts)) + Cardinality(mineAfter)
        BY <2>3, <2>6, Counting
  <2>10. PICK b \in Nat, a \in Nat, m \in Nat, n \in Nat, c \in Nat :
           /\ b = Cardinality(before) /\ a = Cardinality(after) /\ m = Cardinality(mine)
           /\ n = Cardinality(mineAfter) /\ c = Cardinality(before \ ({u} \X Parts))
         BY <2>8, <2>9
  <2>11. b = c + m /\ a = c + n
         BY <2>7, <2>8, <2>9, <2>10
  <2>12. PICK f \in Int, g \in Int : f = free[sem[u]] /\ g = free'[sem[u]]
         BY DEF BlockMoves, PermitsInv, Shape
  <2>13. g + n = f + m
         BY <2>1, <2>10, <2>12 DEF BlockMoves
  <2>14. g + a = f + b
         BY <2>10, <2>11, <2>12, <2>13, Balance
  <2> QED BY <2>1, <2>10, <2>12, <2>14
<1> QED BY <1>1, <1>2, <1>3, <1>4, <1>5, Balanced DEF BlockMoves

\* A step that leaves blocks and permits as they are.
LEMMA QuietStep ==
  ASSUME PermitsInv, NEW u \in Uploads, UNCHANGED <<sem, current, block, free>>,
         NEW where \in Places, pc' = [pc EXCEPT ![u] = where], pc[u] # "new", where # "new",
         (\E p \in Parts : block[u][p] \in {"want", "sent"}) => where = "send"
  PROVE  PermitsInv'
<1>1. Shape' /\ Users'
      BY DEF PermitsInv, Shape, Users, Made
<1>2. \A v \in Uploads : pc'[v] = "new" <=> pc[v] = "new"
      BY DEF PermitsInv, Shape
<1>3. \A s \in Uploads : InUse(s)' = InUse(s)
      BY DEF InUse
<1> QED BY <1>1, <1>2, <1>3, Balanced

\* An upload that ends or is dropped gives back what it holds.
LEMMA DropStep ==
  ASSUME PermitsInv, NEW u \in Uploads, UNCHANGED <<sem, current>>, Drop(u),
         NEW where \in Places, pc' = [pc EXCEPT ![u] = where], pc[u] # "new", where # "new",
         \/ GiveBack(u, Cardinality(Sent(u)))
         \/ Sent(u) = {} /\ UNCHANGED free
  PROVE  PermitsInv'
<1>1. block' = [block EXCEPT ![u] = NoBlocks] /\ \A p \in Parts : NoBlocks[p] = "none"
      BY DEF Drop, NoBlocks
<1>2. NoBlocks \in [Parts -> {"none", "todo", "want", "sent", "ok"}]
      BY DEF NoBlocks
<1> HIDE DEF NoBlocks
<1>3. block' \in [Uploads -> [Parts -> {"none", "todo", "want", "sent", "ok"}]]
      /\ block'[u] = NoBlocks /\ \A v \in Uploads \ {u} : block'[v] = block[v]
      BY <1>1, <1>2 DEF PermitsInv, Shape
<1>4. Sent(u)' = {} /\ Cardinality(Sent(u)') = 0
      BY <1>1, <1>3, FS_EmptySet DEF Sent
<1>5. Cardinality(Sent(u)) \in Nat /\ (Sent(u) = {} => Cardinality(Sent(u)) = 0)
      BY SentIsFinite, FS_EmptySet
<1>6. /\ free' \in [Uploads -> Int] /\ \A s \in Uploads \ {sem[u]} : free'[s] = free[s]
      /\ free'[sem[u]] = free[sem[u]] + Cardinality(Sent(u)) /\ free[sem[u]] \in Int
      BY <1>5 DEF GiveBack, PermitsInv, Shape
<1>7. pc' \in [Uploads -> Places] /\ pc'[u] = where /\ \A v \in Uploads \ {u} : pc'[v] = pc[v]
      BY DEF PermitsInv, Shape
<1>8. free'[sem[u]] + Cardinality(Sent(u)') = free[sem[u]] + Cardinality(Sent(u))
      BY <1>4, <1>5, <1>6
<1>9. \A p \in Parts : ~(block'[u][p] \in {"want", "sent"})
      BY <1>1, <1>3
<1> QED BY <1>3, <1>6, <1>7, <1>8, <1>9, BlockStep DEF BlockMoves

\* One block goes from being sent to something else, or comes to be sent.
LEMMA OneBlock ==
  ASSUME PermitsInv, NEW u \in Uploads, NEW p \in Parts, UNCHANGED <<sem, current, pc>>,
         NEW x \in {"none", "todo", "want", "sent", "ok"}, block' = [block EXCEPT ![u][p] = x],
         pc[u] = "send",
         \/ block[u][p] = "sent" /\ x # "sent" /\ GiveBack(u, 1)
         \/ block[u][p] # "sent" /\ x = "sent" /\ free' = [free EXCEPT ![sem[u]] = @ - 1]
         \/ block[u][p] # "sent" /\ x # "sent" /\ UNCHANGED free
  PROVE  PermitsInv'
<1>1. /\ block' \in [Uploads -> [Parts -> {"none", "todo", "want", "sent", "ok"}]]
      /\ \A v \in Uploads \ {u} : block'[v] = block[v]
      /\ block'[u][p] = x /\ \A q \in Parts \ {p} : block'[u][q] = block[u][q]
      BY DEF PermitsInv, Shape
<1>2. /\ IsFiniteSet(Sent(u)) /\ Cardinality(Sent(u)) \in Nat
      /\ sem[u] \in Uploads /\ free[sem[u]] \in Int
      BY SentIsFinite DEF PermitsInv, Shape
<1>3. /\ free' \in [Uploads -> Int] /\ \A s \in Uploads \ {sem[u]} : free'[s] = free[s]
      /\ pc' \in [Uploads -> Places]
      BY <1>2 DEF GiveBack, PermitsInv, Shape
<1>4. free'[sem[u]] + Cardinality(Sent(u)') = free[sem[u]] + Cardinality(Sent(u))
  <2>1. CASE block[u][p] = "sent" /\ x # "sent" /\ GiveBack(u, 1)
    <3>1. Sent(u)' = Sent(u) \ {p} /\ p \in Sent(u)
          BY <1>1, <2>1 DEF Sent
    <3>2. Cardinality(Sent(u)') = Cardinality(Sent(u)) - 1
          BY <1>2, <3>1, FS_RemoveElement
    <3>3. free'[sem[u]] = free[sem[u]] + 1
          BY <1>2, <2>1 DEF GiveBack, PermitsInv, Shape
    <3> QED BY <1>2, <3>2, <3>3
  <2>2. CASE block[u][p] # "sent" /\ x = "sent" /\ free' = [free EXCEPT ![sem[u]] = @ - 1]
    <3>1. Sent(u)' = Sent(u) \cup {p} /\ p \notin Sent(u)
          BY <1>1, <2>2 DEF Sent
    <3>2. Cardinality(Sent(u)') = Cardinality(Sent(u)) + 1
          BY <1>2, <3>1, FS_AddElement
    <3>3. free'[sem[u]] = free[sem[u]] - 1
          BY <1>2, <2>2 DEF PermitsInv, Shape
    <3> QED BY <1>2, <3>2, <3>3
  <2>3. CASE block[u][p] # "sent" /\ x # "sent" /\ UNCHANGED free
    <3>1. Sent(u)' = Sent(u)
          BY <1>1, <2>3 DEF Sent
    <3> QED BY <2>3, <3>1
  <2> QED BY <2>1, <2>2, <2>3
<1>5. \A q \in Parts : block'[u][q] \in {"want", "sent"} => pc'[u] = "send"
      OBVIOUS
<1> QED BY <1>1, <1>3, <1>4, <1>5, BlockStep DEF BlockMoves

LEMMA PermitsInitially == UploadInit => PermitsInv
<1> SUFFICES ASSUME UploadInit PROVE PermitsInv
    OBVIOUS
<1>1. \A u \in Uploads, p \in Parts : block[u][p] = "none"
      BY DEF UploadInit, NoBlocks
<1>2. Shape
      BY <1>1 DEF UploadInit, NoBlocks, Shape, Places
<1>3. Users
      BY DEF UploadInit, Users
<1>4. \A s \in Uploads : InUse(s) = {}
      BY <1>1 DEF InUse
<1>5. PermitsComeBack
      BY <1>4, FS_EmptySet DEF UploadInit, PermitsComeBack
<1> QED BY <1>2, <1>3, <1>5 DEF PermitsInv

\* A new adapter joins the semaphore of its account, or makes the next one.
LEMMA OpenStep ==
  ASSUME PermitsInv, NEW u \in Uploads, Open(u)
  PROVE  PermitsInv'
<1>1. pc[u] = "new" /\ pc' = [pc EXCEPT ![u] = "vip"] /\ UNCHANGED block
      BY DEF Open
<1>2. sem[u] = u /\ \A p \in Parts : block[u][p] \notin {"want", "sent"}
      BY <1>1 DEF PermitsInv, Shape, Users
<1>3. \A s \in Uploads \ {u} : Made(s) => Made(s)'
      BY <1>1 DEF Made, Open, PermitsInv, Shape
<1>4. pc' \in [Uploads -> Places] /\ pc'[u] = "vip" /\ \A v \in Uploads \ {u} : pc'[v] = pc[v]
      BY <1>1 DEF PermitsInv, Shape, Places
<1>5. PermitsComeBack
      BY DEF PermitsInv
<1>6. \A s \in Uploads : InUse(s)' = {x \in Uploads \X Parts : sem'[x[1]] = s /\ block[x[1]][x[2]] = "sent"}
      BY <1>1 DEF InUse
<1>7. CASE /\ current # Nil /\ Threads[current] = Threads[u]
           /\ sem' = [sem EXCEPT ![u] = current] /\ UNCHANGED <<current, free>>
  <2>1. current \in Uploads /\ current # u /\ Made(current)
        BY <1>1, <1>7 DEF PermitsInv, Shape, Users, Made
  <2>2. sem'[u] = current /\ (\A v \in Uploads \ {u} : sem'[v] = sem[v]) /\ sem' \in [Uploads -> Uploads]
        BY <1>7, <2>1 DEF PermitsInv, Shape
  <2>3. Shape'
        BY <1>1, <1>2, <1>4, <1>7, <2>2 DEF PermitsInv, Shape
  <2>4. Users'
    <3>1. Made(current)'
      <4>1. PICK c \in Uploads \ {u} : c = current /\ Made(c)
            BY <2>1
      <4>2. Made(c)'
            BY <1>3, <4>1
      <4> QED BY <1>7, <4>1, <4>2 DEF Made
    <3>2. ASSUME NEW v \in Uploads \ {u}
          PROVE  IF pc'[v] = "new" THEN sem'[v] = v ELSE Made(sem[v])'
      <4>1. pc[v] # "new" => Made(sem[v]) /\ sem[v] \in Uploads \ {u}
            BY <1>1 DEF PermitsInv, Shape, Users, Made
      <4> QED BY <1>3, <1>4, <2>2, <4>1 DEF PermitsInv, Users
    <3> QED BY <1>4, <1>7, <2>2, <3>1, <3>2 DEF Users, Made
  <2>5. \A s \in Uploads : InUse(s)' = InUse(s)
        BY <1>2, <1>6, <2>2 DEF InUse
  <2>6. \A s \in Uploads : (sem'[s] = s /\ pc'[s] # "new") <=> (sem[s] = s /\ pc[s] # "new")
        BY <1>1, <1>4, <2>1, <2>2
  <2>7. PermitsComeBack'
        BY <1>5, <1>7, <2>5, <2>6 DEF PermitsComeBack
  <2> QED BY <2>3, <2>4, <2>7 DEF PermitsInv
<1>8. CASE /\ sem' = [sem EXCEPT ![u] = u] /\ current' = u
           /\ free' = [free EXCEPT ![u] = Threads[u]]
  <2>1. sem' = sem
        BY <1>2, <1>8 DEF PermitsInv, Shape
  <2>2. Threads[u] \in Int
        BY UploadsAssumption
  <2>3. free'[u] = Threads[u] /\ (\A s \in Uploads \ {u} : free'[s] = free[s]) /\ free' \in [Uploads -> Int]
        BY <1>8, <2>2 DEF PermitsInv, Shape
  <2>4. Shape'
        BY <1>1, <1>2, <1>4, <1>8, <2>1, <2>3 DEF PermitsInv, Shape
  <2>5. Made(u)'
        BY <1>2, <1>4, <2>1 DEF Made
  <2>6. Users'
    <3>1. ASSUME NEW v \in Uploads \ {u}
          PROVE  IF pc'[v] = "new" THEN sem'[v] = v ELSE Made(sem[v])'
      <4>1. pc[v] # "new" => Made(sem[v]) /\ sem[v] \in Uploads \ {u}
            BY <1>1 DEF PermitsInv, Shape, Users, Made
      <4> QED BY <1>3, <1>4, <2>1, <4>1 DEF PermitsInv, Users
    <3> QED BY <1>2, <1>4, <1>8, <2>1, <2>5, <3>1 DEF Users, Made
  <2>7. \A s \in Uploads : InUse(s)' = InUse(s)
        BY <1>6, <2>1 DEF InUse
  <2>8. InUse(u) = {}
    <3>1. \A v \in Uploads \ {u} : sem[v] # u
          BY <1>1 DEF PermitsInv, Users, Made
    <3> QED BY <1>2, <3>1 DEF InUse
  <2>9. ASSUME NEW s \in Uploads
        PROVE  free'[s] + Cardinality(InUse(s)') = IF sem'[s] = s /\ pc'[s] # "new" THEN Threads[s] ELSE 0
    <3>1. CASE s = u
      <4>1. Cardinality(InUse(s)') = 0
            BY <2>7, <2>8, <3>1, FS_EmptySet
      <4>2. sem'[s] = s /\ pc'[s] # "new" /\ free'[s] = Threads[s] /\ Threads[s] \in Int
            BY <1>2, <1>4, <2>1, <2>2, <2>3, <3>1
      <4> QED BY <4>1, <4>2
    <3>2. CASE s # u
          BY <1>4, <1>5, <2>1, <2>3, <2>7, <3>2 DEF PermitsComeBack
    <3> QED BY <3>1, <3>2
  <2>10. PermitsComeBack'
         BY <2>9 DEF PermitsComeBack
  <2> QED BY <2>4, <2>6, <2>10 DEF PermitsInv
<1> QED BY <1>7, <1>8 DEF Open

\* A block that is not under way has nothing sent.
LEMMA NothingSent ==
  ASSUME PermitsInv, NEW u \in Uploads, pc[u] # "send"
  PROVE  Sent(u) = {} /\ \A p \in Parts : block[u][p] \notin {"want", "sent"}
BY DEF PermitsInv, Shape, Sent

LEMMA PermitsStep == PermitsInv /\ [UploadNext]_upVars => PermitsInv'
<1> SUFFICES ASSUME PermitsInv, [UploadNext]_upVars PROVE PermitsInv'
    OBVIOUS
<1>1. ASSUME NEW u \in Uploads, Open(u) PROVE PermitsInv'
      BY <1>1, OpenStep
<1>2. ASSUME NEW u \in Uploads, LearnVip(u) \/ Spool(u) \/ Locate(u) \/ BlocksDone(u) \/ Again(u)
      PROVE  PermitsInv'
  <2>1. PICK where \in Places \ {"new"} : pc' = [pc EXCEPT ![u] = where] /\ (pc[u] = "send" => Busy(u) = {})
        BY <1>2 DEF LearnVip, Spool, Locate, BlocksDone, Again, Places, Final
  <2>2. UNCHANGED <<sem, current, block, free>> /\ pc[u] # "new"
        BY <1>2 DEF LearnVip, Spool, Locate, BlocksDone, Again
  <2>3. \A p \in Parts : ~(block[u][p] \in {"want", "sent"})
        BY <2>1, NothingSent DEF Busy
  <2> QED BY <2>1, <2>2, <2>3, QuietStep
<1>3. ASSUME NEW u \in Uploads, Precreate(u) PROVE PermitsInv'
  <2>1. pc[u] = "precreate" /\ UNCHANGED <<sem, current, free>> /\ Sent(u) = {}
        /\ \A p \in Parts : ~(block[u][p] \in {"want", "sent"})
        BY <1>3, NothingSent DEF Precreate
  <2>2. CASE pc' = [pc EXCEPT ![u] = "ok"] /\ UNCHANGED block
        BY <2>1, <2>2, QuietStep DEF Places, Final
  <2>3. ASSUME NEW missing \in SUBSET BlocksOf(u),
               block' = [block EXCEPT ![u] = [p \in Parts |-> IF p \in missing THEN "todo" ELSE "none"]],
               pc' = [pc EXCEPT ![u] = "locate"]
        PROVE  PermitsInv'
    <3>1. /\ block' \in [Uploads -> [Parts -> {"none", "todo", "want", "sent", "ok"}]]
          /\ \A v \in Uploads \ {u} : block'[v] = block[v]
          /\ \A p \in Parts : block'[u][p] \notin {"want", "sent"}
          BY <2>3 DEF PermitsInv, Shape
    <3>2. pc' \in [Uploads -> Places] /\ pc'[u] = "locate" /\ \A v \in Uploads \ {u} : pc'[v] = pc[v]
          BY <2>3 DEF PermitsInv, Shape, Places
    <3>3. Sent(u)' = {}
          BY <3>1 DEF Sent
    <3>4. BlockMoves(u)
          BY <2>1, <3>1, <3>2, <3>3 DEF BlockMoves, PermitsInv, Shape
    <3> QED BY <3>4, BlockStep
  <2>4. CASE Fail(u)
        BY <2>1, <2>4, DropStep DEF Fail, Places, Final
  <2> QED BY <1>3, <2>2, <2>3, <2>4 DEF Precreate
<1>4. ASSUME NEW u \in Uploads, Start(u) PROVE PermitsInv'
  <2>1. PICK p : p = Min({q \in Parts : block[u][q] = "todo"})
        OBVIOUS
  <2>2. /\ {q \in Parts : block[u][q] = "todo"} # {} /\ pc[u] = "send"
        /\ block' = [block EXCEPT ![u][p] = "want"] /\ UNCHANGED <<sem, current, pc, free>>
        BY <1>4, <2>1 DEF Start
  <2>3. p \in Parts /\ block[u][p] = "todo"
    <3>1. {q \in Parts : block[u][q] = "todo"} \subseteq Nat
          BY DEF Parts
    <3> QED BY <2>1, <2>2, <3>1, LeastIsIn
  <2> QED BY <2>2, <2>3, OneBlock
<1>5. ASSUME NEW u \in Uploads, NEW p \in Parts, Acquire(u, p) PROVE PermitsInv'
  <2>1. pc[u] = "send"
        BY <1>5 DEF Acquire, PermitsInv, Shape
  <2> QED BY <1>5, <2>1, OneBlock DEF Acquire
<1>6. ASSUME NEW u \in Uploads, NEW p \in Parts, Stored(u, p) PROVE PermitsInv'
  <2>1. pc[u] = "send"
        BY <1>6 DEF Stored, PermitsInv, Shape
  <2> QED BY <1>6, <2>1, OneBlock DEF Stored
<1>7. ASSUME NEW u \in Uploads, NEW p \in Parts, BlockFails(u, p) \/ BlockRefused(u, p)
      PROVE  PermitsInv'
  <2>1. pc[u] = "send" /\ block[u][p] = "sent" /\ UNCHANGED <<sem, current>>
        BY <1>7 DEF BlockFails, BlockRefused, PermitsInv, Shape
  <2>2. CASE TryAgain(u, p)
        BY <2>1, <2>2, OneBlock DEF TryAgain
  <2>3. CASE GiveUp(u)
        BY <2>1, <2>3, DropStep DEF GiveUp, Fail, Places, Final
  <2> QED BY <1>7, <2>2, <2>3 DEF BlockFails, BlockRefused
<1>8. ASSUME NEW u \in Uploads, Create(u) PROVE PermitsInv'
  <2>1. pc[u] = "create" /\ UNCHANGED <<sem, current, free>> /\ Sent(u) = {}
        /\ \A p \in Parts : ~(block[u][p] \in {"want", "sent"})
        BY <1>8, NothingSent DEF Create
  <2>2. CASE pc' = [pc EXCEPT ![u] = "ok"] /\ UNCHANGED block
        BY <2>1, <2>2, QuietStep DEF Places, Final
  <2>3. CASE Fail(u)
        BY <2>1, <2>3, DropStep DEF Fail, Places, Final
  <2> QED BY <1>8, <2>2, <2>3 DEF Create
<1>9. ASSUME NEW u \in Uploads, Leave(u) PROVE PermitsInv'
      BY <1>9, DropStep DEF Leave, Places, Final
<1>10. ASSUME NEW u \in Uploads, NEW p \in Parts, BlockUnasked(u, p) PROVE PermitsInv'
  <2>1. pc[u] = "send" /\ UNCHANGED <<sem, current>> /\ GiveUp(u)
        BY <1>10 DEF BlockUnasked, PermitsInv, Shape
  <2> QED BY <2>1, DropStep DEF GiveUp, Fail, Places, Final
<1>11. CASE UNCHANGED upVars
       BY <1>11 DEF upVars, PermitsInv, Shape, Users, Made, PermitsComeBack, InUse
<1> QED
  BY <1>1, <1>2, <1>3, <1>4, <1>5, <1>6, <1>7, <1>8, <1>9, <1>10, <1>11
  DEF UploadNext, UploadStep

LEMMA PermitsInvariance == UploadSpec => []PermitsInv
BY PermitsInitially, PermitsStep, PTL DEF UploadSpec

\* However blocks fail, are refused, retried or dropped, every permit of the account is
\* free again or behind a request under way (upload_block, UPLOAD_SLOTS).
THEOREM NoPermitLost == UploadSpec => []PermitsComeBack
<1>1. PermitsInv => PermitsComeBack
      BY DEF PermitsInv
<1> QED BY <1>1, PermitsInvariance, PTL

(***************************************************************************)
(* Uploads: the bytes.                                                     *)
(***************************************************************************)
\* The bytes of block p of n bytes cut into slices of s, and how many some blocks have.
Length(n, s, p) == Min({n - p * s, s})
Span(n, s, p) == (p * s) .. (p * s + Length(n, s, p) - 1)
Amount(n, s, ps) == Cardinality(UNION {Span(n, s, p) : p \in ps})
Blocks(n, s) == 0..(Ceil(n, s) - 1)
Undone(bl) == {p \in Parts : bl[p] \in {"todo", "want", "sent"}}

\* While blocks are sent, what is confirmed and what is still to come make up the
\* volume, the provider has all blocks that are not to come, and no less has been
\* reported than is confirmed.
Counted(n, s, where, bl, done, told, has, obj) ==
  /\ told <= n
  /\ where \in {"locate", "send"} =>
       /\ Undone(bl) \subseteq Blocks(n, s) /\ has \cup Undone(bl) = Blocks(n, s)
       /\ done + Amount(n, s, Undone(bl)) = n /\ done <= told
  /\ where = "create" => has = Blocks(n, s) /\ told = n
  /\ where = "ok" => obj /\ told = n

Measures ==
  /\ slice \in [Uploads -> Nat \ {0}] /\ confirmed \in [Uploads -> Int]
  /\ reported \in [Uploads -> Int] /\ held \in [Uploads -> SUBSET Int] /\ object \in [Uploads -> BOOLEAN]
CountedFor(u) ==
  Counted(Size[u], slice[u], pc[u], block[u], confirmed[u], reported[u], held[u], object[u])
StoredInv == (vip = Nil \/ vip \in Nat \ {0}) /\ Measures /\ \A u \in Uploads : CountedFor(u)

LEMMA OfTwo ==
  \A a, b \in Int : /\ Min({a, b}) = IF a <= b THEN a ELSE b
                   /\ Max({a, b}) = IF a >= b THEN a ELSE b
BY DEF Min, Max

LEMMA Scaled == \A a, b, c \in Nat : a <= b => a * c <= b * c
OBVIOUS

LEMMA Spans ==
  ASSUME NEW n \in Nat, NEW s \in Nat \ {0}, NEW p \in Blocks(n, s)
  PROVE  /\ p \in Nat /\ Length(n, s, p) \in Nat \ {0}
         /\ Span(n, s, p) \subseteq 0 .. n - 1 /\ Span(n, s, p) \subseteq (p * s) .. ((p + 1) * s - 1)
         /\ IsFiniteSet(Span(n, s, p)) /\ Cardinality(Span(n, s, p)) = Length(n, s, p)
<1>1. p \in Nat /\ p * s < n /\ p * s \in Nat /\ n - p * s \in Int /\ (p + 1) * s = p * s + s
      BY DEF Blocks, Ceil
<1>2. Length(n, s, p) = IF n - p * s <= s THEN n - p * s ELSE s
      BY <1>1, OfTwo DEF Length
<1>3. PICK at \in Nat : at = p * s
      BY <1>1
<1>4. at < n /\ Length(n, s, p) = IF n - at <= s THEN n - at ELSE s
      BY <1>1, <1>2, <1>3
<1>5. PICK len \in Nat \ {0} : len = Length(n, s, p) /\ at + len <= n /\ len <= s
      BY <1>4
<1>6. Span(n, s, p) = at .. (at + len - 1) /\ (p + 1) * s = at + s
      BY <1>1, <1>3, <1>5 DEF Span
<1>7. Cardinality(at .. (at + len - 1)) = len /\ IsFiniteSet(at .. (at + len - 1))
      BY FS_Interval
<1>8. /\ Span(n, s, p) \subseteq 0 .. n - 1
      /\ Span(n, s, p) \subseteq (p * s) .. ((p + 1) * s - 1)
      BY <1>3, <1>5, <1>6
<1> QED BY <1>1, <1>5, <1>6, <1>7, <1>8

LEMMA Apart ==
  ASSUME NEW n \in Nat, NEW s \in Nat \ {0}, NEW p \in Blocks(n, s), NEW q \in Blocks(n, s), p # q
  PROVE  Span(n, s, p) \cap Span(n, s, q) = {}
<1>1. p \in Nat /\ q \in Nat
      BY Spans
<1>2. (p + 1) * s <= q * s \/ (q + 1) * s <= p * s
  <2>1. p + 1 <= q \/ q + 1 <= p
        BY <1>1
  <2> QED BY <1>1, <2>1, Scaled
<1>3. PICK a \in Nat, b \in Nat, c \in Nat, d \in Nat :
        a = p * s /\ b = (p + 1) * s /\ c = q * s /\ d = (q + 1) * s
      BY <1>1
<1> QED BY <1>2, <1>3, Spans

\* A block less is its length less.
LEMMA OneLess ==
  ASSUME NEW n \in Nat, NEW s \in Nat \ {0}, NEW ps \in SUBSET Blocks(n, s), NEW p \in ps
  PROVE  Amount(n, s, ps) = Amount(n, s, ps \ {p}) + Length(n, s, p)
<1> DEFINE All == UNION {Span(n, s, q) : q \in ps}
           Rest == UNION {Span(n, s, q) : q \in ps \ {p}}
<1>1. All \subseteq 0 .. n - 1 /\ Rest \subseteq 0 .. n - 1
      BY Spans
<1>2. IsFiniteSet(0 .. n - 1)
      BY FS_Interval
<1>3. Rest \cap Span(n, s, p) = {} /\ All = Rest \cup Span(n, s, p)
      BY Apart
<1>4. IsFiniteSet(Rest) /\ IsFiniteSet(Span(n, s, p)) /\ IsFiniteSet(All)
      BY <1>1, <1>2, Spans, FS_Subset
<1>5. Cardinality(All) = Cardinality(Rest) + Cardinality(Span(n, s, p))
  <2> HIDE DEF All, Rest
  <2>1. PICK a, b, c : a = All /\ b = Rest /\ c = Span(n, s, p)
        OBVIOUS
  <2>2. Cardinality(b \cup c) = Cardinality(b) + Cardinality(c) - Cardinality(b \cap c)
        BY <1>4, <2>1, FS_Union
  <2>3. Cardinality(b \cap c) = 0 /\ a = b \cup c
        BY <1>3, <2>1, FS_EmptySet
  <2>4. Cardinality(b) \in Nat /\ Cardinality(c) \in Nat
        BY <1>4, <2>1, FS_CardinalityType
  <2> QED BY <2>1, <2>2, <2>3, <2>4
<1> QED BY <1>5, Spans DEF Amount

LEMMA Bounded ==
  ASSUME NEW n \in Nat, NEW s \in Nat \ {0}, NEW ps \in SUBSET Blocks(n, s)
  PROVE  Amount(n, s, ps) \in 0..n /\ (ps = {} => Amount(n, s, ps) = 0)
<1> DEFINE All == UNION {Span(n, s, q) : q \in ps}
<1>1. All \subseteq 0 .. n - 1 /\ (ps = {} => All = {})
      BY Spans
<1>2. IsFiniteSet(0 .. n - 1) /\ Cardinality(0 .. n - 1) = n
      BY FS_Interval, n - 1 \in Int
<1> HIDE DEF All
<1>3. IsFiniteSet(All) /\ Cardinality(All) <= n /\ Cardinality(All) \in Nat
  <2>1. IsFiniteSet(All) /\ Cardinality(All) <= Cardinality(0 .. n - 1)
        BY <1>1, <1>2, FS_Subset
  <2> QED BY <1>2, <2>1, FS_CardinalityType
<1>4. Amount(n, s, ps) = Cardinality(All)
      BY DEF Amount, All
<1>5. ps = {} => Cardinality(All) = 0
      BY <1>1, FS_EmptySet
<1> QED BY <1>3, <1>4, <1>5

\* What becomes of one upload.
Becomes(u, s, where, bl, done, told, has, obj) ==
  /\ slice' = [slice EXCEPT ![u] = s] /\ pc' = [pc EXCEPT ![u] = where]
  /\ block' = [block EXCEPT ![u] = bl] /\ confirmed' = [confirmed EXCEPT ![u] = done]
  /\ reported' = [reported EXCEPT ![u] = told] /\ held' = [held EXCEPT ![u] = has]
  /\ object' = [object EXCEPT ![u] = obj]
  /\ s \in Nat \ {0} /\ done \in Int /\ told \in Int /\ has \in SUBSET Int
  /\ obj \in BOOLEAN /\ vip' \in {vip, VipSlice}
  /\ Counted(Size[u], s, where, bl, done, told, has, obj)

LEMMA OneUpload ==
  ASSUME PermitsInv, StoredInv, NEW u \in Uploads, NEW s, NEW where, NEW bl, NEW done,
         NEW told, NEW has, NEW obj, Becomes(u, s, where, bl, done, told, has, obj)
  PROVE  StoredInv'
<1>1. Measures'
      BY DEF Becomes, StoredInv, Measures
<1>2. CountedFor(u)'
  <2>1. /\ slice'[u] = s /\ pc'[u] = where /\ block'[u] = bl /\ confirmed'[u] = done
        /\ reported'[u] = told /\ held'[u] = has /\ object'[u] = obj
        BY DEF Becomes, StoredInv, Measures, PermitsInv, Shape
  <2> QED BY <2>1 DEF Becomes, CountedFor
<1>3. ASSUME NEW v \in Uploads \ {u} PROVE CountedFor(v)'
  <2>1. /\ slice'[v] = slice[v] /\ pc'[v] = pc[v] /\ block'[v] = block[v]
        /\ confirmed'[v] = confirmed[v] /\ reported'[v] = reported[v] /\ held'[v] = held[v]
        /\ object'[v] = object[v]
        BY DEF Becomes, StoredInv, Measures, PermitsInv, Shape
  <2>2. CountedFor(v)
        BY DEF StoredInv
  <2> QED BY <2>1, <2>2 DEF CountedFor
<1>4. vip' = Nil \/ vip' \in Nat \ {0}
      BY UploadsAssumption DEF Becomes, StoredInv
<1> QED BY <1>1, <1>2, <1>3, <1>4 DEF StoredInv

LEMMA StoredInitially == UploadInit => StoredInv
<1> SUFFICES ASSUME UploadInit PROVE StoredInv
    OBVIOUS
<1>1. Measures
      BY DEF UploadInit, Measures
<1>2. ASSUME NEW u \in Uploads PROVE CountedFor(u)
  <2>1. pc[u] = "new" /\ reported[u] = 0 /\ Size[u] >= 0
        BY UploadsAssumption DEF UploadInit
  <2> QED BY <2>1 DEF CountedFor, Counted
<1> QED BY <1>1, <1>2 DEF StoredInv, UploadInit

\* The components of one upload, each of its kind.
LEMMA Parted ==
  ASSUME PermitsInv, StoredInv, NEW u \in Uploads
  PROVE  /\ slice[u] \in Nat \ {0} /\ confirmed[u] \in Int /\ reported[u] \in Int
         /\ held[u] \in SUBSET Int /\ object[u] \in BOOLEAN /\ CountedFor(u)
         /\ Size[u] \in Nat
         /\ BlocksOf(u) = Blocks(Size[u], slice[u]) /\ BlocksOf(u) \subseteq Parts
         /\ block[u] \in [Parts -> {"none", "todo", "want", "sent", "ok"}]
         /\ \A ps : Bytes(u, ps) = Amount(Size[u], slice[u], ps)
         /\ \A p : BlockLen(u, p) = Length(Size[u], slice[u], p)
         /\ UNCHANGED slice => slice' = [slice EXCEPT ![u] = slice[u]]
         /\ UNCHANGED pc => pc' = [pc EXCEPT ![u] = pc[u]]
         /\ UNCHANGED block => block' = [block EXCEPT ![u] = block[u]]
         /\ UNCHANGED confirmed => confirmed' = [confirmed EXCEPT ![u] = confirmed[u]]
         /\ UNCHANGED reported => reported' = [reported EXCEPT ![u] = reported[u]]
         /\ UNCHANGED held => held' = [held EXCEPT ![u] = held[u]]
         /\ UNCHANGED object => object' = [object EXCEPT ![u] = object[u]]
<1>1. /\ slice[u] \in Nat \ {0} /\ confirmed[u] \in Int /\ reported[u] \in Int
      /\ held[u] \in SUBSET Int /\ object[u] \in BOOLEAN /\ CountedFor(u)
      BY DEF StoredInv, Measures
<1>2. Size[u] \in Nat /\ Size[u] <= MaxSize /\ MaxSize \in Nat
      BY UploadsAssumption
<1>3. \A n \in Nat, s \in Nat \ {0} : Ceil(n, s) <= n
      BY DEF Ceil
<1>4. BlocksOf(u) = Blocks(Size[u], slice[u]) /\ BlocksOf(u) \subseteq Parts
      BY <1>1, <1>2, <1>3 DEF BlocksOf, Blocks, Parts, Ceil
<1>5. block[u] \in [Parts -> {"none", "todo", "want", "sent", "ok"}]
      BY DEF PermitsInv, Shape
<1>6. /\ \A ps : Bytes(u, ps) = Amount(Size[u], slice[u], ps)
      /\ \A p : BlockLen(u, p) = Length(Size[u], slice[u], p)
      BY DEF Bytes, BlockBytes, BlockLen, Amount, Span, Length
<1>7. /\ UNCHANGED slice => slice' = [slice EXCEPT ![u] = slice[u]]
      /\ UNCHANGED pc => pc' = [pc EXCEPT ![u] = pc[u]]
      /\ UNCHANGED block => block' = [block EXCEPT ![u] = block[u]]
      /\ UNCHANGED confirmed => confirmed' = [confirmed EXCEPT ![u] = confirmed[u]]
      /\ UNCHANGED reported => reported' = [reported EXCEPT ![u] = reported[u]]
      /\ UNCHANGED held => held' = [held EXCEPT ![u] = held[u]]
      /\ UNCHANGED object => object' = [object EXCEPT ![u] = object[u]]
      BY DEF StoredInv, Measures, PermitsInv, Shape
<1> QED BY <1>1, <1>2, <1>4, <1>5, <1>6, <1>7

\* A step to where nothing is said of the blocks.
LEMMA Elsewhere ==
  ASSUME PermitsInv, StoredInv, NEW u \in Uploads, NEW s, NEW where, NEW bl, NEW done, NEW has, NEW obj,
         where \notin {"locate", "send", "create", "ok"}
  PROVE  Counted(Size[u], s, where, bl, done, reported[u], has, obj)
<1>1. reported[u] <= Size[u]
      BY Parted DEF CountedFor, Counted
<1> QED BY <1>1 DEF Counted

\* What a failed attempt leaves behind.
LEMMA FailCounts ==
  ASSUME PermitsInv, StoredInv, NEW u \in Uploads, Fail(u), UNCHANGED <<slice, reported, vip>>,
         NEW has \in SUBSET Int, held' = [held EXCEPT ![u] = has],
         NEW obj, obj \in BOOLEAN, object' = [object EXCEPT ![u] = obj]
  PROVE  StoredInv'
<1>1. PICK where \in {"again", "error"} : pc' = [pc EXCEPT ![u] = where]
      BY DEF Fail
<1>2. block' = [block EXCEPT ![u] = NoBlocks] /\ confirmed' = [confirmed EXCEPT ![u] = 0]
      BY DEF Fail, Drop
<1>3. slice[u] \in Nat \ {0} /\ reported[u] \in Int /\ slice' = [slice EXCEPT ![u] = slice[u]]
      /\ reported' = [reported EXCEPT ![u] = reported[u]] 
      BY Parted
<1>4. Counted(Size[u], slice[u], where, NoBlocks, 0, reported[u], has, obj)
  <2>1. where \notin {"locate", "send", "create", "ok"}
        OBVIOUS
  <2> QED BY <2>1, Elsewhere
<1>5. vip' \in {vip, VipSlice} /\ 0 \in Int
      OBVIOUS
<1>6. Becomes(u, slice[u], where, NoBlocks, 0, reported[u], has, obj)
      BY <1>1, <1>2, <1>3, <1>4, <1>5 DEF Becomes
<1> QED BY <1>6, OneUpload

LEMMA StoredStep == PermitsInv /\ StoredInv /\ [UploadNext]_upVars => StoredInv'
<1> SUFFICES ASSUME PermitsInv, StoredInv, [UploadNext]_upVars PROVE StoredInv'
    OBVIOUS
<1>1. ASSUME NEW u \in Uploads, Open(u) \/ LearnVip(u) \/ Spool(u) PROVE StoredInv'
  <2>1. /\ \E where \in {"vip", "spool", "precreate", "error"} : pc' = [pc EXCEPT ![u] = where]
        /\ UNCHANGED <<block, confirmed, reported, held, object>> /\ vip' \in {vip, VipSlice}
        BY <1>1 DEF Open, LearnVip, Spool
  <2>2. \E s \in Nat \ {0} : slice' = [slice EXCEPT ![u] = s]
    <3>1. CASE LearnVip(u)
      <4>1. vip # Nil => vip \in Nat \ {0}
            BY DEF StoredInv, Measures
      <4> QED BY <3>1, <4>1, UploadsAssumption DEF LearnVip
    <3>2. CASE Open(u) \/ Spool(u)
          BY <3>2, Parted DEF Open, Spool
    <3> QED BY <1>1, <3>1, <3>2
  <2>3. PICK where \in {"vip", "spool", "precreate", "error"}, s \in Nat \ {0} :
          pc' = [pc EXCEPT ![u] = where] /\ slice' = [slice EXCEPT ![u] = s]
        BY <2>1, <2>2
  <2>4. Counted(Size[u], s, where, block[u], confirmed[u], reported[u], held[u], object[u])
    <3>1. where \notin {"locate", "send", "create", "ok"}
          OBVIOUS
    <3> QED BY <3>1, Elsewhere
  <2>5. Becomes(u, s, where, block[u], confirmed[u], reported[u], held[u], object[u])
        BY <2>1, <2>3, <2>4, Parted DEF Becomes
  <2> QED BY <2>5, OneUpload
<1>2. ASSUME NEW u \in Uploads, Precreate(u) PROVE StoredInv'
  <2>1. /\ CountedFor(u) /\ pc[u] = "precreate" /\ UNCHANGED slice /\ Size[u] \in Nat /\ reported[u] <= Size[u]
        /\ UNCHANGED vip
        BY <1>2, Parted DEF Precreate, CountedFor, Counted
  <2>2. CASE /\ object' = [object EXCEPT ![u] = TRUE] /\ Report(u, Size[u])
             /\ pc' = [pc EXCEPT ![u] = "ok"] /\ UNCHANGED <<block, confirmed, held>>
    <3>1. Max({reported[u], Size[u]}) = Size[u]
      <4>1. PICK a \in Int, b \in Int : a = reported[u] /\ b = Size[u] /\ a <= b
            BY <2>1, Parted
      <4>2. Max({a, b}) = b
            BY <4>1, OfTwo
      <4> QED BY <4>1, <4>2
    <3>2. Counted(Size[u], slice[u], "ok", block[u], confirmed[u], Size[u], held[u], TRUE)
          BY <2>1 DEF Counted
    <3>3. reported' = [reported EXCEPT ![u] = Size[u]]
          BY <2>2, <3>1 DEF Report
    <3>4. /\ slice[u] \in Nat \ {0} /\ confirmed[u] \in Int /\ held[u] \in SUBSET Int
          /\ slice' = [slice EXCEPT ![u] = slice[u]] /\ block' = [block EXCEPT ![u] = block[u]]
          /\ confirmed' = [confirmed EXCEPT ![u] = confirmed[u]] /\ held' = [held EXCEPT ![u] = held[u]]
          BY <2>1, <2>2, Parted
    <3>5. Size[u] \in Int /\ TRUE \in BOOLEAN /\ vip' \in {vip, VipSlice}
          BY <2>1
    <3>6. Becomes(u, slice[u], "ok", block[u], confirmed[u], Size[u], held[u], TRUE)
          BY <2>1, <2>2, <3>2, <3>3, <3>4, <3>5 DEF Becomes
    <3> QED BY <3>6, OneUpload
  <2>3. ASSUME NEW missing \in SUBSET BlocksOf(u),
               held' = [held EXCEPT ![u] = BlocksOf(u) \ missing],
               block' = [block EXCEPT ![u] = [p \in Parts |-> IF p \in missing THEN "todo" ELSE "none"]],
               confirmed' = [confirmed EXCEPT ![u] = Size[u] - Bytes(u, missing)],
               Report(u, Size[u] - Bytes(u, missing)),
               pc' = [pc EXCEPT ![u] = "locate"], UNCHANGED object
        PROVE  StoredInv'
    <3>1. PICK s \in Nat \ {0}, n \in Nat :
            /\ s = slice[u] /\ n = Size[u] /\ BlocksOf(u) = Blocks(n, s) /\ BlocksOf(u) \subseteq Parts
            /\ Bytes(u, missing) = Amount(n, s, missing) /\ reported[u] \in Int /\ object[u] \in BOOLEAN
          BY Parted
    <3>2. PICK len : len = Amount(n, s, missing) /\ len \in 0..n
          BY <3>1, Bounded
    <3>3. PICK had \in Int : had = n - len /\ had \in 0..n
          BY <3>2
    <3>4. PICK told : told = Max({reported[u], had}) /\ told \in Int /\ told <= n /\ had <= told
      <4>1. PICK a \in Int : a = reported[u] /\ a <= n
            BY <2>1, <3>1
      <4>2. Max({a, had}) = IF a >= had THEN a ELSE had
            BY OfTwo
      <4>3. Max({a, had}) \in Int /\ Max({a, had}) <= n /\ had <= Max({a, had})
            BY <3>3, <4>1, <4>2
      <4> QED BY <4>1, <4>3
    <3>5. PICK bl : bl = [p \in Parts |-> IF p \in missing THEN "todo" ELSE "none"]
          OBVIOUS
    <3>6. Undone(bl) = missing
          BY <3>1, <3>5 DEF Undone
    <3>7. Counted(n, s, "locate", bl, had, told, Blocks(n, s) \ missing, object[u])
          BY <3>1, <3>2, <3>3, <3>4, <3>6 DEF Counted
    <3>8. Blocks(n, s) \ missing \in SUBSET Int
          BY DEF Blocks
    <3>9. reported' = [reported EXCEPT ![u] = told] /\ confirmed' = [confirmed EXCEPT ![u] = had]
          BY <2>3, <3>1, <3>2, <3>3, <3>4 DEF Report
    <3>10. slice' = [slice EXCEPT ![u] = s] /\ object' = [object EXCEPT ![u] = object[u]]
           BY <2>1, <2>3, <3>1, Parted
    <3>11. Becomes(u, s, "locate", bl, had, told, Blocks(n, s) \ missing, object[u])
           BY <2>1, <2>3, <3>1, <3>4, <3>5, <3>7, <3>8, <3>9, <3>10 DEF Becomes
    <3> QED BY <3>11, OneUpload
  <2>4. CASE Fail(u) /\ UNCHANGED <<reported, held, object>>
    <3>1. held[u] \in SUBSET Int /\ object[u] \in BOOLEAN /\ held' = [held EXCEPT ![u] = held[u]]
          /\ object' = [object EXCEPT ![u] = object[u]]
          BY <2>4, Parted
    <3> QED BY <2>1, <2>4, <3>1, FailCounts
  <2> QED BY <1>2, <2>2, <2>3, <2>4 DEF Precreate
<1>3. ASSUME NEW u \in Uploads, Locate(u) PROVE StoredInv'
  <2>1. Counted(Size[u], slice[u], "send", block[u], confirmed[u], reported[u], held[u], object[u])
        BY <1>3, Parted DEF Locate, CountedFor, Counted
  <2>2. Becomes(u, slice[u], "send", block[u], confirmed[u], reported[u], held[u], object[u])
        BY <1>3, <2>1, Parted DEF Locate, Becomes
  <2> QED BY <2>2, OneUpload
<1>4. ASSUME NEW u \in Uploads, NEW p \in Parts, NEW before \in {"todo", "want", "sent"}, NEW after \in {"todo", "want", "sent"},
             block[u][p] = before, block' = [block EXCEPT ![u][p] = after],
             UNCHANGED <<slice, pc, confirmed, reported, object>>,
             held' \in {held, [held EXCEPT ![u] = @ \cup {p}]}, pc[u] = "send", UNCHANGED vip
      PROVE  StoredInv'
  <2>1. /\ CountedFor(u) /\ block[u] \in [Parts -> {"none", "todo", "want", "sent", "ok"}] /\ held[u] \in SUBSET Int
        BY Parted
  <2>2. PICK bl : bl = [block[u] EXCEPT ![p] = after]
        OBVIOUS
  <2>3. Undone(bl) = Undone(block[u]) /\ p \in Undone(bl)
        BY <1>4, <2>1, <2>2 DEF Undone
  <2>4. block' = [block EXCEPT ![u] = bl]
        BY <1>4, <2>1, <2>2 DEF PermitsInv, Shape
  <2>5. PICK has : has \in {held[u], held[u] \cup {p}} /\ held' = [held EXCEPT ![u] = has]
        BY <1>4, Parted
  <2>6. has \in SUBSET Int
        BY <2>1, <2>5 DEF Parts
  <2>7. Counted(Size[u], slice[u], "send", bl, confirmed[u], reported[u], has, object[u])
        BY <1>4, <2>1, <2>3, <2>5 DEF CountedFor, Counted
  <2>8. Becomes(u, slice[u], "send", bl, confirmed[u], reported[u], has, object[u])
        BY <1>4, <2>4, <2>5, <2>6, <2>7, Parted DEF Becomes
  <2> QED BY <2>8, OneUpload
<1>5. ASSUME NEW u \in Uploads, Start(u) PROVE StoredInv'
  <2>1. PICK p : p = Min({q \in Parts : block[u][q] = "todo"})
        OBVIOUS
  <2>2. p \in Parts /\ block[u][p] = "todo"
    <3>1. {q \in Parts : block[u][q] = "todo"} \subseteq Nat
          BY DEF Parts
    <3> QED BY <1>5, <2>1, <3>1, LeastIsIn DEF Start
  <2>3. /\ block' = [block EXCEPT ![u][p] = "want"] /\ pc[u] = "send"
        /\ UNCHANGED <<slice, pc, confirmed, reported, object, held, vip>>
        BY <1>5, <2>1 DEF Start
  <2> QED BY <1>4, <2>2, <2>3
<1>6. ASSUME NEW u \in Uploads, NEW p \in Parts, Acquire(u, p) PROVE StoredInv'
  <2>1. /\ block[u][p] = "want" /\ block' = [block EXCEPT ![u][p] = "sent"] /\ pc[u] = "send"
        /\ UNCHANGED <<slice, pc, confirmed, reported, object, held, vip>>
        BY <1>6 DEF Acquire, PermitsInv, Shape
  <2> QED BY <1>4, <2>1
<1>7. ASSUME NEW u \in Uploads, NEW p \in Parts, Stored(u, p) PROVE StoredInv'
  <2>1. /\ CountedFor(u) /\ block[u] \in [Parts -> {"none", "todo", "want", "sent", "ok"}]
        /\ held[u] \in SUBSET Int /\ pc[u] = "send" /\ block[u][p] = "sent"
        BY <1>7, Parted DEF Stored, PermitsInv, Shape
  <2>2. PICK s \in Nat \ {0}, n \in Nat, conf \in Int, told \in Int :
          /\ s = slice[u] /\ n = Size[u] /\ conf = confirmed[u] /\ told = reported[u]
          /\ BlockLen(u, p) = Length(n, s, p)
        BY Parted
  <2>3. PICK bl : bl = [block[u] EXCEPT ![p] = "ok"]
        OBVIOUS
  <2>4. Undone(bl) = Undone(block[u]) \ {p} /\ p \in Undone(block[u])
        BY <2>1, <2>3 DEF Undone
  <2>5. block' = [block EXCEPT ![u] = bl]
        BY <1>7, <2>1, <2>3 DEF Stored, PermitsInv, Shape
  <2>6. /\ Undone(block[u]) \subseteq Blocks(n, s) /\ held[u] \cup Undone(block[u]) = Blocks(n, s)
        /\ conf + Amount(n, s, Undone(block[u])) = n /\ told <= n
        BY <2>1, <2>2 DEF CountedFor, Counted
  <2>7. PICK left \in Nat, rest \in Nat, len \in Nat :
          /\ left = Amount(n, s, Undone(block[u])) /\ rest = Amount(n, s, Undone(bl)) /\ len = Length(n, s, p)
          /\ left = rest + len
    <3>1. Undone(bl) \in SUBSET Blocks(n, s) /\ p \in Blocks(n, s)
          BY <2>4, <2>6
    <3>2. Amount(n, s, Undone(bl)) \in Nat /\ Amount(n, s, Undone(block[u])) \in Nat /\ Length(n, s, p) \in Nat
          BY <2>2, <2>6, <3>1, Bounded, Spans
    <3>3. Amount(n, s, Undone(block[u])) = Amount(n, s, Undone(bl)) + Length(n, s, p)
          BY <2>4, <2>6, OneLess
    <3> QED BY <3>2, <3>3
  <2>8. PICK sum \in Int : sum = conf + len /\ sum + rest = n /\ sum <= n
        BY <2>6, <2>7
  <2>9. PICK now \in Int : now = Max({told, sum}) /\ now <= n /\ sum <= now
    <3>1. Max({told, sum}) = IF told >= sum THEN told ELSE sum
          BY <2>8, OfTwo
    <3>2. told <= n /\ sum <= n /\ told \in Int /\ sum \in Int /\ n \in Int
          BY <2>6, <2>8
    <3>3. Max({told, sum}) \in Int /\ Max({told, sum}) <= n /\ sum <= Max({told, sum})
          BY <3>1, <3>2
    <3> QED BY <3>3
  <2>10. PICK has : has = held[u] \cup {p} /\ has \in SUBSET Int
    <3>1. held[u] \cup {p} \in SUBSET Int
          BY <2>1 DEF Parts
    <3> QED BY <3>1
  <2>11. /\ held' = [held EXCEPT ![u] = has] /\ confirmed' = [confirmed EXCEPT ![u] = sum]
         /\ reported' = [reported EXCEPT ![u] = now]
         BY <1>7, <2>2, <2>7, <2>8, <2>9, <2>10 DEF Stored, Report
  <2>12. Counted(n, s, "send", bl, sum, now, has, object[u])
         BY <2>4, <2>6, <2>7, <2>8, <2>9, <2>10 DEF Counted
  <2>13. pc' = [pc EXCEPT ![u] = "send"] /\ slice' = [slice EXCEPT ![u] = s] /\ object[u] \in BOOLEAN
         /\ object' = [object EXCEPT ![u] = object[u]] /\ UNCHANGED vip
         BY <1>7, <2>1, <2>2, Parted DEF Stored
  <2>14. Becomes(u, s, "send", bl, sum, now, has, object[u])
         BY <2>2, <2>5, <2>10, <2>11, <2>12, <2>13 DEF Becomes
  <2> QED BY <2>14, OneUpload
<1>8. ASSUME NEW u \in Uploads, NEW p \in Parts, BlockFails(u, p) \/ BlockRefused(u, p) PROVE StoredInv'
  <2>1. /\ pc[u] = "send" /\ block[u][p] = "sent" /\ UNCHANGED <<slice, reported, object, vip>>
        /\ held' \in {held, [held EXCEPT ![u] = @ \cup {p}]}
        BY <1>8 DEF BlockFails, BlockRefused, PermitsInv, Shape
  <2>2. CASE TryAgain(u, p)
    <3>1. block' = [block EXCEPT ![u][p] = "want"] /\ UNCHANGED <<pc, confirmed>>
          BY <2>2 DEF TryAgain
    <3> QED BY <1>4, <2>1, <3>1
  <2>3. CASE GiveUp(u)
    <3>1. /\ object[u] \in BOOLEAN /\ object' = [object EXCEPT ![u] = object[u]] /\ held[u] \in SUBSET Int
          BY <2>1, Parted
    <3>2. held[u] \cup {p} \in SUBSET Int
          BY <3>1 DEF Parts
    <3>3. \E has \in SUBSET Int : held' = [held EXCEPT ![u] = has]
          BY <2>1, <3>1, <3>2, Parted
    <3> QED BY <2>1, <2>3, <3>1, <3>3, FailCounts DEF GiveUp
  <2> QED BY <1>8, <2>2, <2>3 DEF BlockFails, BlockRefused
<1>9. ASSUME NEW u \in Uploads, BlocksDone(u) PROVE StoredInv'
  <2>1. /\ CountedFor(u) /\ block[u] \in [Parts -> {"none", "todo", "want", "sent", "ok"}] /\ pc[u] = "send"
        BY <1>9, Parted DEF BlocksDone
  <2>2. Undone(block[u]) = {}
        BY <1>9, <2>1 DEF BlocksDone, Busy, Undone
  <2>3. PICK s \in Nat \ {0}, n \in Nat : s = slice[u] /\ n = Size[u]
        BY Parted
  <2>4. Amount(n, s, {}) = 0
        BY Bounded
  <2>5. Counted(n, s, "create", block[u], confirmed[u], reported[u], held[u], object[u])
    <3>1. confirmed[u] \in Int /\ reported[u] \in Int
          BY Parted
    <3> QED BY <2>1, <2>2, <2>3, <2>4, <3>1 DEF CountedFor, Counted
  <2>6. Becomes(u, slice[u], "create", block[u], confirmed[u], reported[u], held[u], object[u])
        BY <1>9, <2>3, <2>5, Parted DEF Becomes, BlocksDone
  <2> QED BY <2>6, OneUpload
<1>10. ASSUME NEW u \in Uploads, Create(u) PROVE StoredInv'
  <2>1. CountedFor(u) /\ pc[u] = "create" /\ UNCHANGED <<slice, reported, held, vip>>
        BY <1>10, Parted DEF Create
  <2>2. CASE /\ object' = [object EXCEPT ![u] = TRUE] /\ pc' = [pc EXCEPT ![u] = "ok"]
             /\ UNCHANGED <<block, confirmed>>
    <3>1. Counted(Size[u], slice[u], "ok", block[u], confirmed[u], reported[u], held[u], TRUE)
          BY <2>1 DEF CountedFor, Counted
    <3>2. Becomes(u, slice[u], "ok", block[u], confirmed[u], reported[u], held[u], TRUE)
          BY <2>1, <2>2, <3>1, Parted DEF Becomes
    <3> QED BY <3>2, OneUpload
  <2>3. CASE Fail(u) /\ object' \in {object, [object EXCEPT ![u] = @ \/ held[u] = BlocksOf(u)]}
    <3>1. held[u] \in SUBSET Int /\ held' = [held EXCEPT ![u] = held[u]] /\ object[u] \in BOOLEAN
          BY <2>1, Parted
    <3>2. \E obj \in BOOLEAN : object' = [object EXCEPT ![u] = obj]
      <4>1. CASE object' = object
            BY <3>1, <4>1, Parted
      <4>2. CASE object' = [object EXCEPT ![u] = @ \/ held[u] = BlocksOf(u)]
        <5>1. (object[u] \/ held[u] = BlocksOf(u)) \in BOOLEAN
              OBVIOUS
        <5> QED BY <4>2, <5>1
      <4> QED BY <2>3, <4>1, <4>2
    <3> QED BY <2>1, <2>3, <3>1, <3>2, FailCounts
  <2> QED BY <1>10, <2>2, <2>3 DEF Create
<1>11. ASSUME NEW u \in Uploads, Again(u) PROVE StoredInv'
  <2>1. Counted(Size[u], slice[u], "precreate", block[u], confirmed[u], reported[u], {}, object[u])
        BY Parted DEF CountedFor, Counted
  <2>2. Becomes(u, slice[u], "precreate", block[u], confirmed[u], reported[u], {}, object[u])
        BY <1>11, <2>1, Parted DEF Becomes, Again
  <2> QED BY <2>2, OneUpload
<1>12. ASSUME NEW u \in Uploads, Leave(u) PROVE StoredInv'
  <2>1. Counted(Size[u], slice[u], "dropped", NoBlocks, 0, reported[u], held[u], object[u])
        BY Parted DEF CountedFor, Counted
  <2>2. /\ pc' = [pc EXCEPT ![u] = "dropped"] /\ UNCHANGED <<vip, slice, reported, held, object>>
        /\ block' = [block EXCEPT ![u] = NoBlocks] /\ confirmed' = [confirmed EXCEPT ![u] = 0]
        BY <1>12 DEF Leave, Drop
  <2>3. /\ slice[u] \in Nat \ {0} /\ reported[u] \in Int /\ held[u] \in SUBSET Int /\ object[u] \in BOOLEAN
        /\ slice' = [slice EXCEPT ![u] = slice[u]] /\ reported' = [reported EXCEPT ![u] = reported[u]]
        /\ held' = [held EXCEPT ![u] = held[u]] /\ object' = [object EXCEPT ![u] = object[u]]
        BY <2>2, Parted
  <2>4. vip' \in {vip, VipSlice} /\ 0 \in Int
        BY <2>2
  <2>5. Becomes(u, slice[u], "dropped", NoBlocks, 0, reported[u], held[u], object[u])
        BY <2>1, <2>2, <2>3, <2>4 DEF Becomes
  <2> QED BY <2>5, OneUpload
<1>13. ASSUME NEW u \in Uploads, NEW p \in Parts, BlockUnasked(u, p) PROVE StoredInv'
  <2>1. GiveUp(u) /\ UNCHANGED <<slice, reported, held, object, vip>>
        BY <1>13 DEF BlockUnasked
  <2>2. /\ held[u] \in SUBSET Int /\ held' = [held EXCEPT ![u] = held[u]]
        /\ object[u] \in BOOLEAN /\ object' = [object EXCEPT ![u] = object[u]]
        BY <2>1, Parted
  <2> QED BY <2>1, <2>2, FailCounts DEF GiveUp
<1>14. CASE UNCHANGED upVars
       BY <1>14 DEF upVars, StoredInv, Measures, CountedFor
<1> QED
  BY <1>1, <1>2, <1>3, <1>5, <1>6, <1>7, <1>8, <1>9, <1>10, <1>11, <1>12, <1>13, <1>14
  DEF UploadNext, UploadStep

LEMMA StoredInvariance == UploadSpec => []StoredInv
BY PermitsInitially, PermitsStep, StoredInitially, StoredStep, PTL DEF UploadSpec

\* For any number of uploads, of any sizes, an upload that answers Ok is stored whole and
\* was reported whole, create is asked with every block of this attempt at the provider,
\* and no byte is reported twice (upload_spooled, upload_sized; OkIsStored).
THEOREM UploadsStored == UploadSpec => []OkIsStored
<1>1. StoredInv /\ PermitsInv => OkIsStored
  <2> SUFFICES ASSUME StoredInv, PermitsInv, NEW u \in Uploads
               PROVE  /\ pc[u] = "ok" => object[u] /\ reported[u] = Size[u]
                      /\ pc[u] = "create" => held[u] = BlocksOf(u)
                      /\ reported[u] <= Size[u]
      BY DEF OkIsStored
  <2> QED BY Parted DEF CountedFor, Counted
<1> QED BY <1>1, PermitsInvariance, StoredInvariance, PTL

(***************************************************************************)
(* Uploads: what is counted of them.                                       *)
(***************************************************************************)
\* Attempts at a block are counted from when it is sent for the first time, and one that
\* waits has an attempt left.
Unsent == {"new", "vip", "spool", "precreate", "again"}
Attempted(where, bl, tr) ==
  \A p \in Parts : /\ where \in Unsent \/ bl[p] = "todo" => tr[p] = 0
                   /\ bl[p] = "want" => tr[p] < MaxTries
Typed(u) ==
  /\ confirmed[u] \in 0..Size[u] /\ reported[u] \in 0..Size[u]
  /\ pc[u] = "again" => volume[u] < MaxTries
  /\ Attempted(pc[u], block[u], tries[u])
UploadKinds ==
  /\ vip \in {Nil, VipSlice} /\ slice \in [Uploads -> {1, VipSlice}]
  /\ volume \in [Uploads -> 1..MaxTries] /\ tries \in [Uploads -> [Parts -> 0..MaxTries]]
  /\ renewed \in [Uploads -> SUBSET Parts] /\ held \in [Uploads -> SUBSET Parts]
  /\ \A s \in Uploads : free[s] >= 0
UploadTyped == UploadKinds /\ \A u \in Uploads : Typed(u)

Others(u) ==
  \A v \in Uploads \ {u} :
    /\ pc'[v] = pc[v] /\ block'[v] = block[v] /\ tries'[v] = tries[v] /\ volume'[v] = volume[v]
    /\ confirmed'[v] = confirmed[v] /\ reported'[v] = reported[v]

LEMMA OneTyped ==
  ASSUME UploadTyped, NEW u \in Uploads, UploadKinds', Others(u), Typed(u)'
  PROVE  UploadTyped'
<1>1. ASSUME NEW v \in Uploads \ {u} PROVE Typed(v)'
  <2>1. Typed(v)
        BY DEF UploadTyped
  <2>2. /\ pc'[v] = pc[v] /\ block'[v] = block[v] /\ tries'[v] = tries[v] /\ volume'[v] = volume[v]
        /\ confirmed'[v] = confirmed[v] /\ reported'[v] = reported[v]
        BY DEF Others
  <2> QED BY <2>1, <2>2 DEF Typed, Attempted
<1> QED BY <1>1 DEF UploadTyped

\* No more has been confirmed or reported than there is.
LEMMA Told ==
  ASSUME StoredInv, NEW u \in Uploads
  PROVE  /\ reported[u] \in Int /\ confirmed[u] \in Int /\ reported[u] <= Size[u] /\ Size[u] \in Nat
         /\ pc[u] \in {"locate", "send"} /\ confirmed[u] >= 0 => confirmed[u] \in 0..Size[u]
<1>1. reported[u] \in Int /\ confirmed[u] \in Int /\ Size[u] \in Nat
      BY UploadsAssumption DEF StoredInv, Measures
<1>2. Counted(Size[u], slice[u], pc[u], block[u], confirmed[u], reported[u], held[u], object[u])
      BY DEF StoredInv, CountedFor
<1>3. pc[u] \in {"locate", "send"} => confirmed[u] <= reported[u]
      BY <1>2 DEF Counted
<1> QED BY <1>1, <1>2, <1>3 DEF Counted

LEMMA FailTyped ==
  ASSUME PermitsInv, StoredInv, UploadTyped, NEW u \in Uploads, Fail(u),
         UNCHANGED <<vip, slice, volume, reported>>,
         held' \in [Uploads -> SUBSET Parts], \A s \in Uploads : free'[s] >= 0
  PROVE  UploadTyped'
<1>1. /\ block' = [block EXCEPT ![u] = NoBlocks] /\ confirmed' = [confirmed EXCEPT ![u] = 0]
      /\ tries' = [tries EXCEPT ![u] = [p \in Parts |-> 0]]
      /\ renewed' = [renewed EXCEPT ![u] = {}]
      BY DEF Fail, Drop
<1>2. PICK where : pc' = [pc EXCEPT ![u] = where] /\ (where = "again" => volume[u] < MaxTries)
      BY DEF Fail
<1>3. UploadKinds
      BY DEF UploadTyped
<1>4. tries' \in [Uploads -> [Parts -> 0..MaxTries]] /\ renewed' \in [Uploads -> SUBSET Parts]
      BY <1>1, <1>3, UploadsAssumption DEF UploadKinds
<1>5. UploadKinds'
      BY <1>3, <1>4 DEF UploadKinds
<1>6. Others(u)
      BY <1>1, <1>2, <1>3 DEF Others, UploadKinds, PermitsInv, Shape, StoredInv, Measures
<1>7. /\ pc'[u] = where /\ block'[u] = NoBlocks /\ tries'[u] = [p \in Parts |-> 0]
      /\ confirmed'[u] = 0 /\ reported'[u] = reported[u] /\ volume'[u] = volume[u]
      BY <1>1, <1>2, <1>3 DEF UploadKinds, PermitsInv, Shape, StoredInv, Measures
<1>8. Attempted(pc'[u], block'[u], tries'[u])
      BY <1>7 DEF Attempted, NoBlocks
<1>9. confirmed'[u] \in 0..Size[u] /\ reported'[u] \in 0..Size[u]
      BY <1>7, Told DEF UploadTyped, Typed
<1>10. Typed(u)'
       BY <1>2, <1>7, <1>8, <1>9 DEF Typed
<1> QED BY <1>5, <1>6, <1>10, OneTyped

\* The permits given back were taken.
LEMMA GivenBack ==
  ASSUME PermitsInv, UploadTyped, NEW u \in Uploads, NEW n \in Nat, GiveBack(u, n)
  PROVE  \A s \in Uploads : free'[s] >= 0
BY DEF GiveBack, PermitsInv, Shape, UploadTyped, UploadKinds

LEMMA TypedInitially == UploadInit => UploadTyped
<1> SUFFICES ASSUME UploadInit PROVE UploadTyped
    OBVIOUS
<1>1. UploadKinds
      BY UploadsAssumption DEF UploadInit, UploadKinds
<1>2. ASSUME NEW u \in Uploads PROVE Typed(u)
      BY UploadsAssumption DEF UploadInit, Typed, Attempted, NoBlocks
<1> QED BY <1>1, <1>2 DEF UploadTyped

LEMMA LargerOf == \A n \in Nat : \A a, b \in 0..n : Max({a, b}) \in 0..n
<1> SUFFICES ASSUME NEW n \in Nat, NEW a \in 0..n, NEW b \in 0..n PROVE Max({a, b}) \in 0..n
    OBVIOUS
<1>1. Max({a, b}) = IF a >= b THEN a ELSE b
      BY OfTwo
<1> QED BY <1>1

LEMMA TypedStep ==
  ASSUME PermitsInv, StoredInv, PermitsInv', StoredInv', UploadTyped, [UploadNext]_upVars
  PROVE  UploadTyped'
<1>0. UploadKinds /\ \A u \in Uploads : Typed(u)
      BY DEF UploadTyped
<1>1. ASSUME NEW u \in Uploads, Open(u) \/ LearnVip(u) \/ Spool(u) \/ Locate(u) \/ BlocksDone(u)
      PROVE UploadTyped'
  <2>1. UNCHANGED <<volume, block, tries, renewed, confirmed, reported, held>>
        BY <1>1 DEF Open, LearnVip, Spool, Locate, BlocksDone
  <2>2. PICK where : /\ pc' = [pc EXCEPT ![u] = where] /\ where # "again"
                     /\ where \in Unsent => pc[u] \in Unsent
        BY <1>1 DEF Open, LearnVip, Spool, Locate, BlocksDone, Unsent
  <2>3. vip' \in {Nil, VipSlice} /\ slice' \in [Uploads -> {1, VipSlice}]
        BY <1>0, <1>1, UploadsAssumption
        DEF Open, LearnVip, Spool, Locate, BlocksDone, UploadKinds
  <2>4. \A s \in Uploads : free'[s] >= 0
    <3>1. CASE Open(u)
      <4>1. free' = free \/ free' = [free EXCEPT ![u] = Threads[u]]
            BY <3>1 DEF Open
      <4>2. PICK n \in Nat : n = Threads[u]
            BY UploadsAssumption
      <4>3. free' = free \/ free' = [free EXCEPT ![u] = n]
            BY <4>1, <4>2
      <4>4. free \in [Uploads -> Int] /\ \A s \in Uploads : free[s] >= 0
            BY <1>0 DEF UploadKinds, PermitsInv, Shape
      <4> QED BY <4>3, <4>4
    <3>2. CASE ~Open(u)
          BY <1>0, <1>1, <3>2 DEF LearnVip, Spool, Locate, BlocksDone, UploadKinds
    <3> QED BY <3>1, <3>2
  <2>5. UploadKinds'
        BY <1>0, <2>1, <2>3, <2>4 DEF UploadKinds
  <2>6. Others(u)
        BY <2>1, <2>2 DEF Others, PermitsInv, Shape
  <2>7. pc'[u] = where
        BY <2>2 DEF PermitsInv, Shape
  <2>8. Typed(u)'
        BY <1>0, <2>1, <2>2, <2>7 DEF Typed, Attempted
  <2> QED BY <2>5, <2>6, <2>8, OneTyped
<1>2. ASSUME NEW u \in Uploads, Precreate(u) PROVE UploadTyped'
  <2>1. UNCHANGED <<vip, slice, free, volume>> /\ pc[u] = "precreate"
        BY <1>2 DEF Precreate
  <2>2. CASE /\ object' = [object EXCEPT ![u] = TRUE] /\ Report(u, Size[u])
             /\ pc' = [pc EXCEPT ![u] = "ok"]
             /\ UNCHANGED <<block, tries, renewed, confirmed, held>>
    <3>1. UploadKinds'
          BY <1>0, <2>1, <2>2 DEF UploadKinds
    <3>2. Others(u) /\ pc'[u] = "ok" /\ reported'[u] = Max({reported[u], Size[u]})
          BY <2>1, <2>2 DEF Others, PermitsInv, Shape, StoredInv, Measures, Report
    <3>3. reported'[u] \in 0..Size[u]
      <4>1. reported[u] \in 0..Size[u] /\ Size[u] \in Nat
            BY <1>0, Told DEF Typed
      <4> QED BY <3>2, <4>1, LargerOf
    <3>4. Typed(u)'
          BY <1>0, <2>1, <2>2, <3>2, <3>3 DEF Typed, Attempted, Unsent
    <3> QED BY <3>1, <3>2, <3>4, OneTyped
  <2>3. ASSUME NEW missing \in SUBSET BlocksOf(u),
               held' = [held EXCEPT ![u] = BlocksOf(u) \ missing],
               block' = [block EXCEPT ![u] = [p \in Parts |-> IF p \in missing THEN "todo" ELSE "none"]],
               confirmed' = [confirmed EXCEPT ![u] = Size[u] - Bytes(u, missing)],
               Report(u, Size[u] - Bytes(u, missing)),
               pc' = [pc EXCEPT ![u] = "locate"], UNCHANGED <<tries, renewed, object>>
        PROVE  UploadTyped'
    <3> DEFINE had == Size[u] - Bytes(u, missing)
    <3>1. BlocksOf(u) \subseteq Parts
          BY Parted
    <3>2. UploadKinds'
          BY <1>0, <2>1, <2>3, <3>1 DEF UploadKinds
    <3>3. had \in 0..Size[u]
      <4>1. missing \in SUBSET Blocks(Size[u], slice[u]) /\ Bytes(u, missing) = Amount(Size[u], slice[u], missing)
            BY Parted
      <4>2. Amount(Size[u], slice[u], missing) \in 0..Size[u]
            BY <4>1, Parted, Bounded
      <4> QED BY <4>1, <4>2, Told
    <3>4. /\ Others(u) /\ pc'[u] = "locate" /\ confirmed'[u] = had
          /\ reported'[u] = Max({reported[u], had}) /\ tries'[u] = tries[u]
          /\ block'[u] = [p \in Parts |-> IF p \in missing THEN "todo" ELSE "none"]
          BY <2>1, <2>3 DEF Others, PermitsInv, Shape, StoredInv, Measures, Report
    <3> HIDE DEF had
    <3>5. reported'[u] \in 0..Size[u]
      <4>1. reported[u] \in 0..Size[u] /\ Size[u] \in Nat
            BY <1>0, Told DEF Typed
      <4> QED BY <3>3, <3>4, <4>1, LargerOf
    <3>6. Attempted(pc'[u], block'[u], tries'[u])
          BY <1>0, <2>1, <3>4 DEF Typed, Attempted, Unsent
    <3>7. Typed(u)'
          BY <3>3, <3>4, <3>5, <3>6 DEF Typed
    <3> QED BY <3>2, <3>4, <3>7, OneTyped
  <2>4. CASE Fail(u) /\ UNCHANGED <<reported, held, object>>
        BY <1>0, <2>1, <2>4, FailTyped DEF UploadKinds
  <2> QED BY <1>2, <2>2, <2>3, <2>4 DEF Precreate
<1>3. ASSUME NEW u \in Uploads, Start(u) PROVE UploadTyped'
  <2>1. /\ UNCHANGED <<pc, vip, slice, free, volume, tries, renewed, confirmed, reported, held>>
        /\ pc[u] = "send"
        BY <1>3 DEF Start
  <2>2. PICK p \in Parts : block[u][p] = "todo" /\ block' = [block EXCEPT ![u][p] = "want"]
    <3> DEFINE todo == {p \in Parts : block[u][p] = "todo"}
    <3>1. todo # {} /\ todo \in SUBSET Nat /\ block' = [block EXCEPT ![u][Min(todo)] = "want"]
          BY <1>3 DEF Start, Parts
    <3>2. Min(todo) \in todo
      <4> HIDE DEF todo
      <4> QED BY <3>1, LeastIsIn
    <3> QED BY <3>1, <3>2
  <2>3. UploadKinds'
        BY <1>0, <2>1 DEF UploadKinds
  <2>4. Others(u) /\ block'[u] = [block[u] EXCEPT ![p] = "want"]
        BY <2>1, <2>2 DEF Others, PermitsInv, Shape
  <2>5. block[u] \in [Parts -> {"none", "todo", "want", "sent", "ok"}]
        BY DEF PermitsInv, Shape
  <2>6. Attempted(pc'[u], block'[u], tries'[u])
        BY <1>0, <2>1, <2>2, <2>4, <2>5, UploadsAssumption DEF Typed, Attempted, Unsent
  <2>7. Typed(u)'
        BY <1>0, <2>1, <2>6 DEF Typed
  <2> QED BY <2>3, <2>4, <2>7, OneTyped
<1>4. ASSUME NEW u \in Uploads, NEW p \in Parts, Acquire(u, p) PROVE UploadTyped'
  <2>1. /\ UNCHANGED <<pc, vip, slice, volume, renewed, confirmed, reported, held>>
        /\ block[u][p] = "want" /\ free[sem[u]] > 0
        /\ free' = [free EXCEPT ![sem[u]] = @ - 1]
        /\ block' = [block EXCEPT ![u][p] = "sent"] /\ tries' = [tries EXCEPT ![u][p] = @ + 1]
        BY <1>4 DEF Acquire
  <2>2. pc[u] = "send" /\ free \in [Uploads -> Int] /\ sem[u] \in Uploads
        /\ block[u] \in [Parts -> {"none", "todo", "want", "sent", "ok"}]
        BY <2>1 DEF PermitsInv, Shape
  <2>3. tries[u] \in [Parts -> 0..MaxTries] /\ tries[u][p] < MaxTries /\ MaxTries \in Nat
        BY <1>0, <2>1, UploadsAssumption DEF UploadKinds, Typed, Attempted
  <2>4. \A s \in Uploads : free'[s] >= 0
        BY <1>0, <2>1, <2>2 DEF UploadKinds
  <2>5. tries' \in [Uploads -> [Parts -> 0..MaxTries]]
    <3>1. tries[u][p] + 1 \in 0..MaxTries
          BY <2>3
    <3> QED BY <1>0, <2>1, <3>1 DEF UploadKinds
  <2>6. UploadKinds'
        BY <1>0, <2>1, <2>4, <2>5 DEF UploadKinds
  <2>7. /\ Others(u) /\ block'[u] = [block[u] EXCEPT ![p] = "sent"]
        /\ tries'[u] = [tries[u] EXCEPT ![p] = @ + 1]
        BY <1>0, <2>1 DEF Others, PermitsInv, Shape, UploadKinds
  <2>8. Attempted(pc'[u], block'[u], tries'[u])
        BY <1>0, <2>1, <2>2, <2>3, <2>7 DEF Typed, Attempted, Unsent
  <2>9. Typed(u)'
        BY <1>0, <2>1, <2>8 DEF Typed
  <2> QED BY <2>6, <2>7, <2>9, OneTyped
<1>5. ASSUME NEW u \in Uploads, NEW p \in Parts, Stored(u, p) PROVE UploadTyped'
  <2> DEFINE sum == confirmed[u] + BlockLen(u, p)
  <2>1. /\ UNCHANGED <<pc, vip, slice, volume, tries, renewed>> /\ block[u][p] = "sent"
        /\ held' = [held EXCEPT ![u] = @ \cup {p}] /\ block' = [block EXCEPT ![u][p] = "ok"]
        /\ GiveBack(u, 1) /\ confirmed' = [confirmed EXCEPT ![u] = sum] /\ Report(u, sum)
        BY <1>5 DEF Stored
  <2>2. pc[u] = "send" /\ block[u] \in [Parts -> {"none", "todo", "want", "sent", "ok"}]
        BY <2>1 DEF PermitsInv, Shape
  <2>3. \A s \in Uploads : free'[s] >= 0
        BY <2>1, GivenBack
  <2>4. UploadKinds'
        BY <1>0, <2>1, <2>3 DEF UploadKinds
  <2>5. /\ Others(u) /\ block'[u] = [block[u] EXCEPT ![p] = "ok"]
        /\ confirmed'[u] = sum /\ reported'[u] = Max({reported[u], sum})
        BY <2>1 DEF Others, PermitsInv, Shape, StoredInv, Measures, Report
  <2>6. sum \in Nat
    <3>1. p \in Blocks(Size[u], slice[u]) /\ BlockLen(u, p) = Length(Size[u], slice[u], p)
      <4>1. CountedFor(u) /\ p \in Undone(block[u])
            BY <2>1, Parted DEF Undone
      <4> QED BY <2>2, <4>1, Parted DEF CountedFor, Counted
    <3>2. BlockLen(u, p) \in Nat
          BY <3>1, Parted, Spans
    <3>3. confirmed[u] \in Nat
          BY <1>0 DEF Typed
    <3> QED BY <3>2, <3>3
  <2> HIDE DEF sum
  <2>7. /\ confirmed'[u] >= 0 /\ confirmed'[u] <= reported'[u] /\ reported'[u] <= Size[u]
        /\ reported'[u] \in Int /\ reported'[u] >= 0
    <3>1. Counted(Size[u], slice'[u], pc'[u], block'[u], confirmed'[u], reported'[u], held'[u], object'[u])
          BY DEF StoredInv, CountedFor
    <3>2. confirmed'[u] <= reported'[u] /\ reported'[u] <= Size[u]
          BY <2>1, <2>2, <3>1 DEF Counted
    <3>3. reported'[u] \in Int
          BY DEF StoredInv, Measures
    <3> QED BY <2>5, <2>6, <3>2, <3>3
  <2>8. Attempted(pc'[u], block'[u], tries'[u])
        BY <1>0, <2>1, <2>2, <2>5 DEF Typed, Attempted, Unsent
  <2>9. Typed(u)'
        BY <2>1, <2>2, <2>5, <2>6, <2>7, <2>8, Told DEF Typed
  <2> QED BY <2>4, <2>5, <2>9, OneTyped
<1>6. ASSUME NEW u \in Uploads, NEW p \in Parts, BlockFails(u, p) \/ BlockRefused(u, p)
      PROVE UploadTyped'
  <2>1. /\ UNCHANGED <<vip, slice, volume, reported>> /\ block[u][p] = "sent"
        /\ held' \in {held, [held EXCEPT ![u] = @ \cup {p}]}
        /\ (TryAgain(u, p) /\ renewed' \in {renewed, [renewed EXCEPT ![u] = @ \cup {p}]}) \/ GiveUp(u)
        BY <1>6 DEF BlockFails, BlockRefused
  <2>2. held' \in [Uploads -> SUBSET Parts]
        BY <1>0, <2>1 DEF UploadKinds
  <2>3. CASE GiveUp(u)
    <3>1. Fail(u) /\ GiveBack(u, Cardinality(Sent(u))) /\ Cardinality(Sent(u)) \in Nat
          BY <2>3, SentIsFinite DEF GiveUp
    <3>2. \A s \in Uploads : free'[s] >= 0
          BY <3>1, GivenBack
    <3> QED BY <2>1, <2>2, <3>1, <3>2, FailTyped
  <2>4. CASE TryAgain(u, p) /\ renewed' \in {renewed, [renewed EXCEPT ![u] = @ \cup {p}]}
    <3>1. /\ UNCHANGED <<pc, tries, confirmed>> /\ tries[u][p] < MaxTries /\ GiveBack(u, 1)
          /\ block' = [block EXCEPT ![u][p] = "want"]
          BY <2>4 DEF TryAgain
    <3>2. pc[u] = "send" /\ block[u] \in [Parts -> {"none", "todo", "want", "sent", "ok"}]
          BY <2>1 DEF PermitsInv, Shape
    <3>3. \A s \in Uploads : free'[s] >= 0
          BY <3>1, GivenBack
    <3>4. renewed' \in [Uploads -> SUBSET Parts]
          BY <1>0, <2>4 DEF UploadKinds
    <3>5. UploadKinds'
          BY <1>0, <2>1, <2>2, <3>1, <3>3, <3>4 DEF UploadKinds
    <3>6. Others(u) /\ block'[u] = [block[u] EXCEPT ![p] = "want"]
          BY <2>1, <3>1 DEF Others, PermitsInv, Shape
    <3>7. Attempted(pc'[u], block'[u], tries'[u])
          BY <1>0, <3>1, <3>2, <3>6 DEF Typed, Attempted, Unsent
    <3>8. Typed(u)'
          BY <1>0, <2>1, <3>1, <3>2, <3>7 DEF Typed
    <3> QED BY <3>5, <3>6, <3>8, OneTyped
  <2> QED BY <2>1, <2>3, <2>4
<1>7. ASSUME NEW u \in Uploads, Create(u) PROVE UploadTyped'
  <2>1. UNCHANGED <<vip, slice, free, volume, reported, held>>
        BY <1>7 DEF Create
  <2>2. CASE pc' = [pc EXCEPT ![u] = "ok"] /\ UNCHANGED <<block, tries, renewed, confirmed>>
    <3>1. UploadKinds'
          BY <1>0, <2>1, <2>2 DEF UploadKinds
    <3>2. Others(u) /\ pc'[u] = "ok"
          BY <2>1, <2>2 DEF Others, PermitsInv, Shape
    <3>3. Typed(u)'
          BY <1>0, <2>1, <2>2, <3>2 DEF Typed, Attempted, Unsent
    <3> QED BY <3>1, <3>2, <3>3, OneTyped
  <2>3. CASE Fail(u)
        BY <1>0, <2>1, <2>3, FailTyped DEF UploadKinds
  <2> QED BY <1>7, <2>2, <2>3 DEF Create
<1>8. ASSUME NEW u \in Uploads, Again(u) PROVE UploadTyped'
  <2>1. /\ UNCHANGED <<vip, slice, free, block, tries, renewed, confirmed, reported>>
        /\ pc[u] = "again" /\ pc' = [pc EXCEPT ![u] = "precreate"]
        /\ volume' = [volume EXCEPT ![u] = @ + 1] /\ held' = [held EXCEPT ![u] = {}]
        BY <1>8 DEF Again
  <2>2. volume[u] \in 1..MaxTries /\ volume[u] < MaxTries /\ MaxTries \in Nat
        BY <1>0, <2>1, UploadsAssumption DEF UploadKinds, Typed
  <2>3. volume' \in [Uploads -> 1..MaxTries] /\ held' \in [Uploads -> SUBSET Parts]
    <3>1. volume[u] + 1 \in 1..MaxTries
          BY <2>2
    <3> QED BY <1>0, <2>1, <3>1 DEF UploadKinds
  <2>4. UploadKinds'
        BY <1>0, <2>1, <2>3 DEF UploadKinds
  <2>5. Others(u) /\ pc'[u] = "precreate"
        BY <1>0, <2>1 DEF Others, UploadKinds, PermitsInv, Shape
  <2>6. Typed(u)'
        BY <1>0, <2>1, <2>5 DEF Typed, Attempted, Unsent
  <2> QED BY <2>4, <2>5, <2>6, OneTyped
<1>9. ASSUME NEW u \in Uploads, Leave(u) PROVE UploadTyped'
  <2>1. /\ UNCHANGED <<vip, slice, volume, reported, held>> /\ pc' = [pc EXCEPT ![u] = "dropped"]
        /\ Drop(u) /\ GiveBack(u, Cardinality(Sent(u)))
        BY <1>9 DEF Leave
  <2>2. \A s \in Uploads : free'[s] >= 0
        BY <2>1, GivenBack, SentIsFinite
  <2>3. /\ block' = [block EXCEPT ![u] = NoBlocks] /\ confirmed' = [confirmed EXCEPT ![u] = 0]
        /\ tries' = [tries EXCEPT ![u] = [p \in Parts |-> 0]]
        /\ renewed' = [renewed EXCEPT ![u] = {}]
        BY <2>1 DEF Drop
  <2>4. tries' \in [Uploads -> [Parts -> 0..MaxTries]] /\ renewed' \in [Uploads -> SUBSET Parts]
        BY <1>0, <2>3, UploadsAssumption DEF UploadKinds
  <2>5. UploadKinds'
        BY <1>0, <2>1, <2>2, <2>4 DEF UploadKinds
  <2>6. /\ Others(u) /\ pc'[u] = "dropped" /\ block'[u] = NoBlocks
        /\ tries'[u] = [p \in Parts |-> 0] /\ confirmed'[u] = 0
        BY <1>0, <2>1, <2>3 DEF Others, UploadKinds, PermitsInv, Shape, StoredInv, Measures
  <2>7. Attempted(pc'[u], block'[u], tries'[u])
        BY <2>6 DEF Attempted, NoBlocks
  <2>8. Typed(u)'
        BY <1>0, <2>1, <2>6, <2>7, Told DEF Typed
  <2> QED BY <2>5, <2>6, <2>8, OneTyped
<1>10. ASSUME NEW u \in Uploads, NEW p \in Parts, BlockUnasked(u, p) PROVE UploadTyped'
  <2>1. /\ UNCHANGED <<vip, slice, volume, reported, held>>
        /\ Fail(u) /\ GiveBack(u, Cardinality(Sent(u))) /\ Cardinality(Sent(u)) \in Nat
        BY <1>10, SentIsFinite DEF BlockUnasked, GiveUp
  <2>2. held' \in [Uploads -> SUBSET Parts] /\ \A s \in Uploads : free'[s] >= 0
        BY <1>0, <2>1, GivenBack DEF UploadKinds
  <2> QED BY <2>1, <2>2, FailTyped
<1>11. CASE UNCHANGED upVars
       BY <1>0, <1>11 DEF upVars, UploadTyped, UploadKinds, Typed, Attempted
<1> QED
  BY <1>1, <1>2, <1>3, <1>4, <1>5, <1>6, <1>7, <1>8, <1>9, <1>10, <1>11
  DEF UploadNext, UploadStep

LEMMA UploadsTyped ==
  ASSUME PermitsInv, StoredInv, UploadTyped
  PROVE  UploadTypeOK
<1>1. /\ pc \in [Uploads -> Places] /\ sem \in [Uploads -> Uploads] /\ current \in Uploads \cup {Nil}
      /\ block \in [Uploads -> [Parts -> {"none", "todo", "want", "sent", "ok"}]]
      BY DEF PermitsInv, Shape
<1>2. UploadKinds
      BY DEF UploadTyped
<1>3. ASSUME NEW s \in Uploads PROVE free[s] \in 0..Threads[s]
  <2>1. IsFiniteSet(InUse(s)) /\ Cardinality(InUse(s)) \in Nat
    <3>1. IsFiniteSet(Uploads \X Parts) /\ InUse(s) \in SUBSET (Uploads \X Parts)
          BY FewParts, UploadsAssumption, FS_Product DEF InUse
    <3> QED BY <3>1, FS_Subset, FS_CardinalityType
  <2>2. free[s] + Cardinality(InUse(s)) \in {0, Threads[s]}
        BY DEF PermitsInv, PermitsComeBack
  <2>3. free[s] \in Int /\ free[s] >= 0 /\ Threads[s] \in Nat
        BY <1>2, UploadsAssumption DEF PermitsInv, Shape, UploadKinds
  <2> QED BY <2>1, <2>2, <2>3
<1>4. confirmed \in [Uploads -> 0..MaxSize] /\ reported \in [Uploads -> 0..MaxSize]
  <2>1. ASSUME NEW u \in Uploads PROVE confirmed[u] \in 0..MaxSize /\ reported[u] \in 0..MaxSize
        BY UploadsAssumption DEF UploadTyped, Typed
  <2> QED BY <2>1 DEF StoredInv, Measures
<1>5. object \in [Uploads -> BOOLEAN]
      BY DEF StoredInv, Measures
<1> QED BY <1>1, <1>2, <1>3, <1>4, <1>5 DEF UploadTypeOK, UploadKinds, Places

(***************************************************************************)
(* Reads: the links.                                                       *)
(***************************************************************************)

Stages == {"look", "want", "ask", "race", "body"} \cup Answers

\* What a read is made of.
ReadOK(r) ==
  /\ DOMAIN r = {"pc", "got", "try", "bias", "order", "asked", "lost", "stale", "was", "cause"}
  /\ r.pc \in Stages /\ r.got \in Nat /\ r.try \in {0, 1} /\ r.bias \in Nat
  /\ r.stale \in BOOLEAN /\ r.cause \in BOOLEAN

NumbersOK ==
  /\ links \in Nat /\ located \in Nat /\ withdrawn \in Nat /\ aged \in Nat /\ ended \in Nat
  /\ withdrawn <= located /\ links <= located
  /\ attempts \in [Reads -> Nat]

\* Links that are cached are the last that were located; each answer of the provider
\* that is cached no more was withdrawn or grew old.
Accounted ==
  /\ links # 0 => links = located /\ located <= 1 + ended + aged
  /\ links = 0 \/ links <= withdrawn => located <= ended + aged

\* In a race a refusal is one of links that were withdrawn, and a candidate that is lost
\* was refused its links or is a cause; in the second round a refusal is a cause, for the
\* links it takes were not withdrawn when it began.
Raced(r, gone) ==
  /\ Len(r.order) = 2 /\ r.got # 0
  /\ r.lost # {} => r.stale \/ r.cause
  /\ r.stale => r.got <= gone
  /\ r.try = 1 => r.cause \/ (~r.stale /\ r.got > gone)

\* Only the task that holds the lock asks for links, and while it does there are none.
Sound(t, r, cached, holders, gone) ==
  /\ ReadOK(r)
  /\ r.pc = "ask" => cached = 0 /\ holders = {t}
  /\ r.pc = "race" => Raced(r, gone)
  /\ r.pc \in {"look", "want", "ask"} /\ r.try = 1 => r.cause \/ cached = 0 \/ cached > gone
  /\ r.pc = "error" => r.cause

LinksInv ==
  /\ NumbersOK /\ Accounted /\ DOMAIN read = Reads
  /\ \A t \in Reads : Sound(t, read[t], links, lock, withdrawn)

-----------------------------------------------------------------------------
LEMMA TwoCandidates == ASSUME NEW b \in Nat PROVE Len(Candidates(b)) = 2
BY DEF Candidates

LEMMA RestingOK == ReadOK(Resting) /\ Resting.pc = "idle" /\ Resting.try = 0
BY DEF Resting, ReadOK, Stages, Answers

\* One read changes, the others stay.
LEMMA OneRead ==
  ASSUME LinksInv, NEW t \in Reads, NEW r, SetRead(t, r)
  PROVE  /\ DOMAIN read' = Reads
         /\ read'[t] = r /\ \A u \in Reads \ {t} : read'[u] = read[u]
BY DEF LinksInv, SetRead

\* What happens to one read leaves another one sound as long as links are not withdrawn,
\* the cached ones stay or go, and the lock stays with whoever asks.
LEMMA OthersSound ==
  ASSUME LinksInv, NEW u \in Reads, read'[u] = read[u], withdrawn' = withdrawn,
         links' = links \/ links' = 0, lock = {u} => lock' = lock
  PROVE  Sound(u, read'[u], links', lock', withdrawn')
BY DEF LinksInv, Sound, Raced, ReadOK

\* A race that begins with links that were not withdrawn unless there is a cause.
LEMMA RaceBegins ==
  ASSUME LinksInv, NEW t \in Reads, NEW g \in Nat
  PROVE  /\ ReadOK(Race(t, g)) /\ Race(t, g).pc = "race" /\ Race(t, g).got = g
         /\ Race(t, g).lost = {} /\ Race(t, g).stale = FALSE /\ Len(Race(t, g).order) = 2
         /\ Race(t, g).try = read[t].try /\ Race(t, g).cause = read[t].cause
<1>1. ReadOK(read[t])
      BY DEF LinksInv, Sound
<1>2. Len(Candidates(read[t].bias)) = 2
      BY <1>1, TwoCandidates DEF ReadOK
<1> QED BY <1>1, <1>2 DEF Race, At, ReadOK, Stages

LEMMA MovesOn ==
  ASSUME LinksInv, NEW t \in Reads, NEW p \in Stages
  PROVE  /\ ReadOK(At(t, p)) /\ At(t, p).pc = p
         /\ At(t, p).try = read[t].try /\ At(t, p).cause = read[t].cause
BY DEF LinksInv, Sound, At, ReadOK

LEMMA ErrorOK ==
  LET r == [Resting EXCEPT !.pc = "error", !.cause = TRUE]
  IN  ReadOK(r) /\ r.pc = "error" /\ r.cause
BY DEF Resting, ReadOK, Stages, Answers

\* When nothing but the place of one read, the lock it gives back and what the hosts are
\* remembered for changes, the invariant is that read's matter.
LEMMA OneStep ==
  ASSUME LinksInv, NEW t \in Reads, NEW r, SetRead(t, r),
         NumbersOK', Accounted', withdrawn' = withdrawn, links' = links \/ links' = 0,
         lock' = lock \/ lock = {} \/ lock' = lock \ {t}, Sound(t, r, links', lock', withdrawn')
  PROVE  LinksInv'
<1>1. /\ DOMAIN read' = Reads
      /\ read'[t] = r /\ \A u \in Reads \ {t} : read'[u] = read[u]
      BY OneRead
<1>2. ASSUME NEW u \in Reads \ {t} PROVE Sound(u, read'[u], links', lock', withdrawn')
  <2>1. lock = {u} => lock' = lock
        BY <1>2
  <2> QED BY <1>1, <1>2, <2>1, OthersSound
<1>3. Sound(t, read'[t], links', lock', withdrawn')
      BY <1>1 DEF Sound, Raced, ReadOK
<1> QED BY <1>1, <1>2, <1>3 DEF LinksInv

LEMMA LinksInitially == LinksInit => LinksInv
<1> SUFFICES ASSUME LinksInit PROVE LinksInv
    OBVIOUS
<1>1. NumbersOK /\ Accounted /\ DOMAIN read = Reads
      BY DEF LinksInit, NumbersOK, Accounted
<1>2. ASSUME NEW t \in Reads PROVE Sound(t, read[t], links, lock, withdrawn)
  <2>1. read[t] = Resting
        BY DEF LinksInit
  <2> QED BY <2>1, RestingOK DEF Sound
<1> QED BY <1>1, <1>2 DEF LinksInv

LEMMA LinksStep == LinksInv /\ [LinksNext]_linkVars => LinksInv'
<1> SUFFICES ASSUME LinksInv, [LinksNext]_linkVars PROVE LinksInv'
    OBVIOUS
<1>0. NumbersOK /\ Accounted /\ \A t \in Reads : Sound(t, read[t], links, lock, withdrawn) /\ ReadOK(read[t])
      BY DEF LinksInv, Sound
<1>1. ASSUME NEW t \in Reads, StartRead(t) PROVE LinksInv'
  <2> DEFINE new == [Resting EXCEPT !.pc = "look", !.bias = attempts[t], !.was = read[t].was]
  <2>1. attempts[t] \in Nat
        BY <1>0 DEF NumbersOK
  <2>2. ReadOK(new) /\ new.pc = "look" /\ new.try = 0
        BY <2>1 DEF ReadOK, Stages, Resting
  <2>3. SetRead(t, new)
        BY <1>1 DEF StartRead
  <2> HIDE DEF new
  <2>4. NumbersOK' /\ Accounted'
        BY <1>0, <1>1, <2>1 DEF StartRead, NumbersOK, Accounted
  <2>5. Sound(t, new, links', lock', withdrawn')
        BY <2>2 DEF Sound, ReadOK
  <2> QED BY <1>1, <2>3, <2>4, <2>5, OneStep DEF StartRead
<1>2. ASSUME NEW t \in Reads, Look(t) PROVE LinksInv'
  <2>1. NumbersOK' /\ Accounted'
        BY <1>0, <1>2 DEF Look, NumbersOK, Accounted
  <2>2. CASE links # 0
    <3>1. Sound(t, Race(t, links), links', lock', withdrawn')
      <4>1. links \in Nat /\ withdrawn \in Nat
            BY <1>0 DEF NumbersOK
      <4>2. read[t].try = 1 => read[t].cause \/ links > withdrawn
            BY <1>0, <1>2, <2>2 DEF Look, Sound
      <4>3. Raced(Race(t, links), withdrawn)
            BY <2>2, <4>1, <4>2, RaceBegins DEF Raced
      <4> QED BY <1>2, <4>1, <4>3, RaceBegins DEF Sound, Raced, ReadOK, Look, Race, At
    <3> QED BY <1>2, <2>1, <2>2, <3>1, OneStep DEF Look
  <2>3. CASE links = 0
    <3>1. Sound(t, At(t, "want"), links', lock', withdrawn')
          BY <1>2, <2>3, MovesOn DEF Stages, Sound, ReadOK, Look, At
    <3> QED BY <1>2, <2>1, <2>3, <3>1, OneStep DEF Look
  <2> QED BY <2>2, <2>3
<1>3. ASSUME NEW t \in Reads, LockPath(t) PROVE LinksInv'
  <2>1. NumbersOK' /\ Accounted'
        BY <1>0, <1>3 DEF LockPath, NumbersOK, Accounted
  <2>2. CASE links # 0
    <3>1. Sound(t, Race(t, links), links', lock', withdrawn')
      <4>1. links \in Nat /\ withdrawn \in Nat
            BY <1>0 DEF NumbersOK
      <4>2. read[t].try = 1 => read[t].cause \/ links > withdrawn
            BY <1>0, <1>3, <2>2 DEF LockPath, Sound
      <4>3. Raced(Race(t, links), withdrawn)
            BY <2>2, <4>1, <4>2, RaceBegins DEF Raced
      <4> QED BY <1>3, <4>1, <4>3, RaceBegins DEF Sound, Raced, ReadOK, LockPath, Race, At
    <3> QED BY <1>3, <2>1, <2>2, <3>1, OneStep DEF LockPath
  <2>3. CASE links = 0
    <3>1. Sound(t, At(t, "ask"), links', lock', withdrawn')
          BY <1>3, <2>3, MovesOn DEF Stages, Sound, ReadOK, LockPath, At
    <3> QED BY <1>3, <2>1, <2>3, <3>1, OneStep DEF LockPath
  <2> QED BY <2>2, <2>3
<1>4. ASSUME NEW t \in Reads, Located(t) PROVE LinksInv'
  <2> DEFINE new == Race(t, located + 1)
  <2>1. links = 0 /\ lock = {t} /\ located \in Nat /\ withdrawn \in Nat /\ withdrawn <= located
        BY <1>0, <1>4 DEF Located, Sound, NumbersOK
  <2>2. SetRead(t, new)
        BY <1>4 DEF Located
  <2>3. ReadOK(new) /\ new.pc = "race" /\ Raced(new, withdrawn)
    <3>1. located + 1 \in Nat /\ located + 1 # 0 /\ located + 1 > withdrawn
          BY <2>1
    <3>2. /\ ReadOK(new) /\ new.pc = "race" /\ new.got = located + 1 /\ new.lost = {}
          /\ new.stale = FALSE /\ Len(new.order) = 2
          BY <3>1, RaceBegins
    <3> HIDE DEF new
    <3> QED BY <3>1, <3>2 DEF Raced
  <2> HIDE DEF new
  <2>4. /\ DOMAIN read' = Reads
        /\ read'[t] = new /\ \A u \in Reads \ {t} : read'[u] = read[u]
        BY <2>2, OneRead
  <2>5. NumbersOK' /\ Accounted'
        BY <1>0, <1>4, <2>1 DEF Located, NumbersOK, Accounted
  <2>6. Sound(t, new, links', lock', withdrawn')
        BY <1>4, <2>3 DEF Sound, Raced, ReadOK, Located
  <2>7. ASSUME NEW u \in Reads \ {t} PROVE Sound(u, read'[u], links', lock', withdrawn')
        BY <1>0, <1>4, <2>1, <2>4 DEF Sound, Raced, ReadOK, Located
  <2> QED BY <2>4, <2>5, <2>6, <2>7 DEF LinksInv
<1>5. ASSUME NEW t \in Reads, LocateFails(t) PROVE LinksInv'
  <2> DEFINE new == [Resting EXCEPT !.pc = "error", !.cause = TRUE]
  <2>1. SetRead(t, new) /\ ReadOK(new) /\ new.pc = "error" /\ new.cause
        BY <1>5, ErrorOK DEF LocateFails
  <2> HIDE DEF new
  <2>2. NumbersOK' /\ Accounted'
        BY <1>0, <1>5 DEF LocateFails, NumbersOK, Accounted
  <2>3. lock' = lock \ {t}
        BY <1>0, <1>5 DEF LocateFails, Sound
  <2>4. Sound(t, new, links', lock', withdrawn')
        BY <2>1 DEF Sound, ReadOK
  <2> QED BY <1>5, <2>1, <2>2, <2>3, <2>4, OneStep DEF LocateFails
<1>6. ASSUME NEW t \in Reads, Hedge(t) PROVE LinksInv'
  <2> DEFINE new == [read[t] EXCEPT !.asked = 2]
  <2>1. SetRead(t, new) /\ Sound(t, read[t], links, lock, withdrawn) /\ ReadOK(read[t])
        BY <1>0, <1>6 DEF Hedge
  <2>2. ReadOK(new) /\ \A f \in {"pc", "got", "try", "order", "lost", "stale", "cause"} : new[f] = read[t][f]
        BY <2>1 DEF ReadOK
  <2> HIDE DEF new
  <2>3. NumbersOK' /\ Accounted'
        BY <1>0, <1>6 DEF Hedge, NumbersOK, Accounted
  <2>4. Sound(t, new, links', lock', withdrawn')
        BY <1>6, <2>1, <2>2 DEF Hedge, Sound, Raced, ReadOK
  <2> QED BY <1>6, <2>1, <2>3, <2>4, OneStep DEF Hedge
<1>7. ASSUME NEW t \in Reads, NEW i \in 1..2, Win(t, i) PROVE LinksInv'
  <2> DEFINE new == [Resting EXCEPT !.pc = "body", !.order = <<read[t].order[i]>>]
  <2>1. SetRead(t, new)
        BY <1>7 DEF Win
  <2>2. ReadOK(new) /\ new.pc = "body"
        BY DEF Resting, ReadOK, Stages
  <2> HIDE DEF new
  <2>3. NumbersOK' /\ Accounted'
        BY <1>0, <1>7 DEF Win, NumbersOK, Accounted
  <2>4. Sound(t, new, links', lock', withdrawn')
        BY <2>2 DEF Sound, ReadOK
  <2> QED BY <1>7, <2>1, <2>3, <2>4, OneStep DEF Win
<1>8. ASSUME NEW t \in Reads, NEW i \in 1..2, WinsWrongly(t, i) PROVE LinksInv'
  <2> DEFINE new == [Resting EXCEPT !.pc = "error", !.cause = TRUE]
  <2>1. SetRead(t, new) /\ ReadOK(new) /\ new.pc = "error" /\ new.cause
        BY <1>8, ErrorOK DEF WinsWrongly
  <2> HIDE DEF new
  <2>2. NumbersOK' /\ Accounted'
        BY <1>0, <1>8 DEF WinsWrongly, NumbersOK, Accounted
  <2>3. Sound(t, new, links', lock', withdrawn')
        BY <2>1 DEF Sound, ReadOK
  <2> QED BY <1>8, <2>1, <2>2, <2>3, OneStep DEF WinsWrongly
<1>9. ASSUME NEW t \in Reads, NEW i \in 1..2, NEW refused \in BOOLEAN, Lose(t, i, refused)
      PROVE  LinksInv'
  <2> DEFINE new == [read[t] EXCEPT !.lost = @ \cup {i}, !.stale = @ \/ refused, !.cause = @ \/ ~refused]
  <2>1. SetRead(t, new) /\ Sound(t, read[t], links, lock, withdrawn) /\ ReadOK(read[t])
        BY <1>0, <1>9 DEF Lose
  <2>2. /\ ReadOK(new) /\ \A f \in {"pc", "got", "try", "order"} : new[f] = read[t][f]
        /\ new.stale <=> (read[t].stale \/ refused)
        /\ new.cause <=> (read[t].cause \/ ~refused)
        BY <2>1 DEF ReadOK
  <2> HIDE DEF new
  <2>3. NumbersOK' /\ Accounted'
        BY <1>0, <1>9 DEF Lose, NumbersOK, Accounted
  <2>4. read[t].pc = "race" /\ Raced(read[t], withdrawn) /\ (refused => read[t].got <= withdrawn)
        BY <1>9, <2>1 DEF Lose, Out, Sound
  <2>5. Raced(new, withdrawn)
        BY <1>0, <2>1, <2>2, <2>4 DEF Raced, ReadOK, NumbersOK
  <2>6. Sound(t, new, links', lock', withdrawn')
        BY <1>9, <2>2, <2>4, <2>5 DEF Lose, Sound, Raced, ReadOK
  <2> QED BY <1>9, <2>1, <2>3, <2>6, OneStep DEF Lose
<1>10. ASSUME NEW t \in Reads, LeaveRead(t) PROVE LinksInv'
  <2>1. SetRead(t, Resting) /\ NumbersOK' /\ Accounted'
        BY <1>0, <1>10 DEF LeaveRead, NumbersOK, Accounted
  <2>2. Sound(t, Resting, links', lock', withdrawn')
        BY RestingOK DEF Sound, ReadOK, Resting
  <2> QED BY <1>10, <2>1, <2>2, OneStep DEF LeaveRead
<1>11. ASSUME NEW t \in Reads, RaceLost(t) PROVE LinksInv'
  <2>1. /\ read[t].pc = "race" /\ read[t].lost = 1..Len(read[t].order)
        /\ withdrawn' = withdrawn /\ lock' = lock
        BY <1>11 DEF RaceLost
  <2>2. ReadOK(read[t]) /\ Raced(read[t], withdrawn)
        BY <1>0, <2>1 DEF Sound
  <2>3. CASE read[t].try = 0 /\ read[t].stale
    <3> DEFINE again == read[t].cause \/ (links # read[t].got /\ links \in 1..withdrawn)
               new == [Resting EXCEPT !.pc = "look", !.try = 1, !.bias = read[t].bias, !.cause = again]
    <3>1. SetRead(t, new) /\ links' = IF links = read[t].got THEN 0 ELSE links
          BY <1>11, <2>3 DEF RaceLost, InvalidateIfSame
    <3>2. again \in BOOLEAN
          BY <2>2 DEF ReadOK
    <3>3. read[t].got <= withdrawn /\ read[t].got # 0 /\ read[t].got \in Nat
          BY <2>2, <2>3 DEF Raced, ReadOK
    <3>4. again \/ links' = 0 \/ links' > withdrawn
          BY <1>0, <3>1, <3>3 DEF NumbersOK
    <3> HIDE DEF again
    <3>5. ReadOK(new) /\ new.pc = "look" /\ new.cause = again
          BY <2>2, <3>2 DEF Resting, ReadOK, Stages
    <3> HIDE DEF new
    <3>6. NumbersOK' /\ Accounted'
          BY <1>0, <1>11, <3>1, <3>3 DEF RaceLost, NumbersOK, Accounted
    <3>7. Sound(t, new, links', lock', withdrawn')
          BY <2>1, <3>4, <3>5 DEF Sound, ReadOK
    <3> QED BY <2>1, <3>1, <3>6, <3>7, OneStep
  <2>4. CASE ~(read[t].try = 0 /\ read[t].stale)
    <3> DEFINE new == Answered(t, "error")
    <3>1. SetRead(t, new) /\ links' = links
          BY <1>11, <2>4 DEF RaceLost
    <3>2. read[t].cause
      <4>1. read[t].lost # {}
            BY <2>1, <2>2 DEF Raced
      <4> QED BY <2>2, <2>4, <4>1 DEF Raced, ReadOK
    <3>3. ReadOK(new) /\ new.pc = "error" /\ new.cause
          BY <2>2, <3>2 DEF Answered, Resting, ReadOK, Stages, Answers
    <3> HIDE DEF new
    <3>4. NumbersOK' /\ Accounted'
          BY <1>0, <1>11, <3>1 DEF RaceLost, NumbersOK, Accounted
    <3>5. Sound(t, new, links', lock', withdrawn')
          BY <3>3 DEF Sound, ReadOK
    <3> QED BY <2>1, <3>1, <3>4, <3>5, OneStep
  <2> QED BY <2>3, <2>4
<1>12. ASSUME NEW t \in Reads, Body(t) PROVE LinksInv'
  <2>1. NumbersOK' /\ Accounted' /\ links' = links /\ withdrawn' = withdrawn /\ lock' = lock
        BY <1>0, <1>12 DEF Body, NumbersOK, Accounted
  <2>2. ASSUME NEW r, SetRead(t, r), ReadOK(r), r.pc \in {"ok", "error", "stalled"},
               r.pc = "error" => r.cause
        PROVE  LinksInv'
    <3>1. Sound(t, r, links', lock', withdrawn')
          BY <2>2 DEF Sound, ReadOK
    <3> QED BY <2>1, <2>2, <3>1, OneStep
  <2>3. LET r == Answered(t, "ok") IN ReadOK(r) /\ r.pc = "ok"
        BY <1>0 DEF Answered, Resting, ReadOK, Stages, Answers
  <2>4. \A h : LET r == [Resting EXCEPT !.pc = "stalled", !.was = {h}] IN ReadOK(r) /\ r.pc = "stalled"
        BY DEF Resting, ReadOK, Stages, Answers
  <2> QED BY <1>12, <2>2, <2>3, <2>4, ErrorOK DEF Body
<1>13. CASE Age
  <2>1. NumbersOK' /\ Accounted'
        BY <1>0, <1>13 DEF Age, NumbersOK, Accounted
  <2>2. ASSUME NEW u \in Reads PROVE Sound(u, read'[u], links', lock', withdrawn')
        BY <1>13, OthersSound DEF Age
  <2> QED BY <1>13, <2>1, <2>2 DEF LinksInv, Age
<1>14. CASE Calm
  <2>1. NumbersOK' /\ Accounted'
        BY <1>0, <1>14 DEF Calm, NumbersOK, Accounted
  <2>2. ASSUME NEW u \in Reads PROVE Sound(u, read'[u], links', lock', withdrawn')
        BY <1>14, OthersSound DEF Calm
  <2> QED BY <1>14, <2>1, <2>2 DEF LinksInv, Calm
<1>15. CASE Withdraw
  <2>1. DOMAIN read' = Reads
        BY <1>15 DEF Withdraw
  <2>2. NumbersOK' /\ Accounted'
        BY <1>0, <1>15 DEF Withdraw, NumbersOK, Accounted
  <2>3. ASSUME NEW u \in Reads PROVE Sound(u, read'[u], links', lock', withdrawn')
    <3>1. ReadOK(read[u]) /\ Sound(u, read[u], links, lock, withdrawn)
          BY <1>0
    <3>2. read'[u] = [read[u] EXCEPT !.cause = @ \/ read[u].try = 1]
          BY <1>15 DEF Withdraw
    <3>3. /\ ReadOK(read'[u])
          /\ \A f \in {"pc", "got", "try", "order", "lost", "stale"} : read'[u][f] = read[u][f]
          /\ read'[u].cause <=> (read[u].cause \/ read[u].try = 1)
          BY <3>1, <3>2 DEF ReadOK
    <3>4. lock' = lock /\ links' = links /\ withdrawn' = located /\ withdrawn <= located
          BY <1>0, <1>15 DEF Withdraw, NumbersOK
    <3>5. read'[u].pc = "race" => Raced(read'[u], withdrawn')
          BY <1>0, <3>1, <3>3, <3>4 DEF Sound, Raced, ReadOK, NumbersOK
    <3> QED BY <3>1, <3>3, <3>4, <3>5 DEF Sound, ReadOK
  <2> QED BY <2>1, <2>2, <2>3 DEF LinksInv
<1>16. CASE UNCHANGED linkVars
  <2>1. NumbersOK' /\ Accounted'
        BY <1>0, <1>16 DEF linkVars, NumbersOK, Accounted
  <2>2. ASSUME NEW u \in Reads PROVE Sound(u, read'[u], links', lock', withdrawn')
        BY <1>16, OthersSound DEF linkVars
  <2> QED BY <1>16, <2>1, <2>2 DEF LinksInv, linkVars
<1> QED BY <1>1, <1>2, <1>3, <1>4, <1>5, <1>6, <1>7, <1>8, <1>9, <1>10, <1>11, <1>12, <1>13,
           <1>14, <1>15, <1>16 DEF LinksNext, ReadStep

LEMMA LinksInvariance == LinksSpec => []LinksInv
BY LinksInitially, LinksStep, PTL DEF LinksSpec

\* However many tasks read, links are located once and once more for every time they
\* were withdrawn or grew old (locatedownload, invalidate_links_if_same).
THEOREM LocatedOnce == LinksSpec => []OneLocateForAll
<1>1. LinksInv => OneLocateForAll
      BY DEF LinksInv, NumbersOK, Accounted, OneLocateForAll
<1> QED BY <1>1, LinksInvariance, PTL

\* No read fails for links that were withdrawn before it began (download_response_tracked).
THEOREM FailsForCause == LinksSpec => []ReadFailsForCause
<1>1. LinksInv => ReadFailsForCause
      BY DEF LinksInv, Sound, ReadFailsForCause
<1> QED BY <1>1, LinksInvariance, PTL

(***************************************************************************)
(* Reads: what is known of links and hosts.                                *)
(***************************************************************************)
\* The places of the hosts are all different, so there is a host at each of them.
LEMMA SomeHost ==
  ASSUME NEW m \in 0 .. Len(Hosts) - 1
  PROVE  \E i \in DOMAIN Hosts : Place(i) = m
<1> DEFINE P == 1..Len(Hosts)
           below(i) == {j \in P : Before(j, i)}
           place == [i \in P |-> Place(i)]
<1>1. Len(Hosts) \in Nat /\ DOMAIN Hosts = P
      BY HostsAssumption
<1>2. IsFiniteSet(P) /\ Cardinality(P) = Len(Hosts)
      BY <1>1, FS_Interval
<1>3. IsFiniteSet(0 .. Len(Hosts) - 1) /\ Cardinality(0 .. Len(Hosts) - 1) = Len(Hosts)
  <2>1. PICK n \in Nat : n = Len(Hosts)
        BY <1>1
  <2>2. n - 1 \in Int /\ Cardinality(0 .. n - 1) = n /\ IsFiniteSet(0 .. n - 1)
        BY FS_Interval
  <2> QED BY <2>1, <2>2
<1>4. ASSUME NEW i \in P
      PROVE  /\ IsFiniteSet(below(i)) /\ Place(i) = Cardinality(below(i))
             /\ Place(i) \in 0 .. Len(Hosts) - 1
  <2>1. below(i) \subseteq P \ {i}
        BY <1>1 DEF Before
  <2>2. IsFiniteSet(P \ {i}) /\ Cardinality(P \ {i}) = Len(Hosts) - 1
        BY <1>2, FS_RemoveElement
  <2>3. Place(i) = Cardinality(below(i))
        BY <1>1 DEF Place
  <2> HIDE DEF below
  <2>4. IsFiniteSet(below(i)) /\ Cardinality(below(i)) <= Cardinality(P \ {i})
        BY <2>1, <2>2, FS_Subset
  <2>5. Cardinality(below(i)) \in Nat
        BY <2>4, FS_CardinalityType
  <2> QED BY <1>1, <2>2, <2>3, <2>4, <2>5
<1>5. ASSUME NEW i \in P, NEW j \in P, Before(i, j) PROVE Place(i) < Place(j)
  <2>1. below(i) \subseteq below(j) \ {i} /\ i \in below(j)
        BY <1>1, <1>5 DEF Before
  <2> HIDE DEF below
  <2>2. IsFiniteSet(below(j) \ {i}) /\ Cardinality(below(j) \ {i}) = Cardinality(below(j)) - 1
        BY <1>4, <2>1, FS_RemoveElement
  <2>3. Cardinality(below(i)) <= Cardinality(below(j) \ {i})
        BY <2>1, <2>2, FS_Subset
  <2>4. Cardinality(below(i)) \in Nat /\ Cardinality(below(j)) \in Nat
        BY <1>4, FS_CardinalityType
  <2> QED BY <1>4, <2>2, <2>3, <2>4
<1>6. ASSUME NEW i \in P, NEW j \in P, Place(i) = Place(j) PROVE i = j
  <2>1. Place(i) \in Nat
        BY <1>4, FS_CardinalityType
  <2>2. ~Before(i, j) /\ ~Before(j, i)
        BY <1>5, <1>6, <2>1
  <2> QED BY <1>1, <2>2 DEF Before
<1>7. place \in Injection(P, 0 .. Len(Hosts) - 1)
      BY <1>4, <1>6 DEF Injection, IsInjective
<1>8. place \in Surjection(P, 0 .. Len(Hosts) - 1)
  <2> HIDE DEF P, place
  <2> QED BY <1>2, <1>3, <1>7, FS_Injection
<1>9. \E i \in P : place[i] = m
  <2> HIDE DEF place
  <2> QED BY <1>8 DEF Surjection
<1> QED BY <1>1, <1>9

LEMMA CandidatesAreHosts ==
  ASSUME NEW b \in Nat, NEW k \in 1..2
  PROVE  Candidates(b)[k] \in ToSet(Hosts)
<1>1. PICK n \in Nat \ {0} : n = Len(Hosts)
      BY HostsAssumption
<1>2. b + (k - 1) \in Nat
      OBVIOUS
<1>3. (b + (k - 1)) % n \in 0 .. n - 1
      BY <1>1, <1>2
<1>4. \E i \in DOMAIN Hosts : Place(i) = (b + (k - 1)) % Len(Hosts)
      BY <1>1, <1>3, SomeHost
<1>5. (CHOOSE i \in DOMAIN Hosts : Place(i) = (b + (k - 1)) % Len(Hosts)) \in DOMAIN Hosts
      BY <1>4
<1> QED BY <1>5 DEF Candidates, ToSet

\* What a read knows of links and hosts.
HostsOK(r) ==
  /\ r.got \in 0..MaxLinks /\ r.lost \subseteq 1..2
  /\ r.pc = "race" => \A i \in 1..2 : r.order[i] \in ToSet(Hosts)
  /\ r.pc = "body" => r.order[1] \in ToSet(Hosts)
LinkKinds ==
  /\ located <= MaxLinks /\ aged \in 0..1 /\ ended <= withdrawn /\ lock \subseteq Reads
  /\ failing \subseteq ToSet(Hosts) /\ attempts \in [Reads -> 0..MaxAttempts]
LinksTyped == LinkKinds /\ \A t \in Reads : HostsOK(read[t])

LEMMA OneLinkTyped ==
  ASSUME LinksInv, LinksTyped, NEW t \in Reads, NEW r, SetRead(t, r), HostsOK(r), LinkKinds'
  PROVE  LinksTyped'
BY OneRead DEF LinksTyped

LEMMA RestHosts ==
  ASSUME NEW p, p \notin {"race", "body"}
  PROVE  /\ HostsOK([Resting EXCEPT !.pc = p])
         /\ \A b, w : HostsOK([Resting EXCEPT !.pc = p, !.bias = b, !.was = w])
         /\ \A c : HostsOK([Resting EXCEPT !.pc = p, !.cause = c])
         /\ \A b, n, c : HostsOK([Resting EXCEPT !.pc = p, !.try = n, !.bias = b, !.cause = c])
         /\ \A w : HostsOK([Resting EXCEPT !.pc = p, !.was = w])
BY HostsAssumption DEF HostsOK, Resting

LEMMA RaceHosts ==
  ASSUME LinksInv, NEW t \in Reads, NEW g \in 0..MaxLinks
  PROVE  HostsOK(Race(t, g))
<1>1. ReadOK(read[t])
      BY DEF LinksInv, Sound
<1>2. \A i \in 1..2 : Candidates(read[t].bias)[i] \in ToSet(Hosts)
      BY <1>1, CandidatesAreHosts DEF ReadOK
<1>3. /\ Race(t, g).got = g /\ Race(t, g).lost = {} /\ Race(t, g).pc = "race"
      /\ Race(t, g).order = Candidates(read[t].bias)
      BY <1>1 DEF Race, At, ReadOK
<1> QED BY <1>2, <1>3 DEF HostsOK

LEMMA MoveHosts ==
  ASSUME LinksInv, LinksTyped, NEW t \in Reads, NEW p, p \notin {"race", "body"}
  PROVE  HostsOK(At(t, p))
<1>1. ReadOK(read[t]) /\ HostsOK(read[t])
      BY DEF LinksInv, Sound, LinksTyped
<1>2. At(t, p).got = read[t].got /\ At(t, p).lost = read[t].lost /\ At(t, p).pc = p
      BY <1>1 DEF At, ReadOK
<1> QED BY <1>1, <1>2 DEF HostsOK

LEMMA LinksTypedInitially == LinksInit => LinksTyped
<1> SUFFICES ASSUME LinksInit PROVE LinksTyped
    OBVIOUS
<1>1. LinkKinds
      BY HostsAssumption DEF LinksInit, LinkKinds
<1>2. Resting = [Resting EXCEPT !.pc = "idle"]
      BY DEF Resting
<1>3. HostsOK(Resting)
      BY <1>2, RestHosts
<1> QED BY <1>1, <1>3 DEF LinksInit, LinksTyped

LEMMA LinksTypedStep ==
  ASSUME LinksInv, LinksTyped, [LinksNext]_linkVars
  PROVE  LinksTyped'
<1>0. /\ LinkKinds /\ NumbersOK /\ MaxLinks \in Nat /\ MaxAttempts \in Nat
      /\ \A t \in Reads : HostsOK(read[t]) /\ ReadOK(read[t])
      BY HostsAssumption DEF LinksInv, Sound, LinksTyped
<1>1. ASSUME NEW t \in Reads, StartRead(t) PROVE LinksTyped'
  <2>1. attempts[t] \in 0..MaxAttempts /\ attempts[t] < MaxAttempts
        BY <1>0, <1>1 DEF StartRead, LinkKinds
  <2>2. attempts[t] + 1 \in 0..MaxAttempts
        BY <1>0, <2>1
  <2>3. LinkKinds'
        BY <1>0, <1>1, <2>2 DEF StartRead, LinkKinds
  <2>4. HostsOK([Resting EXCEPT !.pc = "look", !.bias = attempts[t], !.was = read[t].was])
        BY RestHosts
  <2> QED BY <1>1, <2>3, <2>4, OneLinkTyped DEF StartRead
<1>2. ASSUME NEW t \in Reads, Look(t) PROVE LinksTyped'
  <2>1. LinkKinds'
        BY <1>0, <1>2 DEF Look, LinkKinds
  <2>2. links \in 0..MaxLinks
        BY <1>0 DEF NumbersOK, LinkKinds
  <2>3. HostsOK(Race(t, links)) /\ HostsOK(At(t, "want"))
        BY <2>2, RaceHosts, MoveHosts
  <2> QED BY <1>2, <2>1, <2>3, OneLinkTyped DEF Look
<1>3. ASSUME NEW t \in Reads, LockPath(t) PROVE LinksTyped'
  <2>1. LinkKinds'
        BY <1>0, <1>3 DEF LockPath, LinkKinds
  <2>2. links \in 0..MaxLinks
        BY <1>0 DEF NumbersOK, LinkKinds
  <2>3. HostsOK(Race(t, links)) /\ HostsOK(At(t, "ask"))
        BY <2>2, RaceHosts, MoveHosts
  <2> QED BY <1>3, <2>1, <2>3, OneLinkTyped DEF LockPath
<1>4. ASSUME NEW t \in Reads, Located(t) PROVE LinksTyped'
  <2>1. located + 1 \in 0..MaxLinks
        BY <1>0, <1>4 DEF Located, NumbersOK
  <2>2. LinkKinds'
        BY <1>0, <1>4, <2>1 DEF Located, LinkKinds
  <2>3. HostsOK(Race(t, located + 1))
        BY <2>1, RaceHosts
  <2> QED BY <1>4, <2>2, <2>3, OneLinkTyped DEF Located
<1>5. ASSUME NEW t \in Reads, LocateFails(t) PROVE LinksTyped'
  <2>1. LinkKinds'
        BY <1>0, <1>5 DEF LocateFails, LinkKinds
  <2>2. HostsOK([Resting EXCEPT !.pc = "error", !.cause = TRUE])
        BY RestHosts
  <2> QED BY <1>5, <2>1, <2>2, OneLinkTyped DEF LocateFails
<1>6. ASSUME NEW t \in Reads, Hedge(t) PROVE LinksTyped'
  <2>1. LinkKinds'
        BY <1>0, <1>6 DEF Hedge, LinkKinds
  <2> DEFINE r == [read[t] EXCEPT !.asked = 2]
  <2>2. r.got = read[t].got /\ r.lost = read[t].lost /\ r.pc = read[t].pc /\ r.order = read[t].order
        BY <1>0 DEF ReadOK
  <2>3. SetRead(t, r)
        BY <1>6 DEF Hedge
  <2> HIDE DEF r
  <2>4. HostsOK(r)
        BY <1>0, <2>2 DEF HostsOK
  <2> QED BY <2>1, <2>3, <2>4, OneLinkTyped
<1>7. ASSUME NEW t \in Reads, NEW i \in 1..2, Win(t, i) PROVE LinksTyped'
  <2>1. LinkKinds'
        BY <1>0, <1>7 DEF Win, LinkKinds
  <2>2. read[t].order[i] \in ToSet(Hosts)
        BY <1>0, <1>7 DEF Win, Out, HostsOK
  <2> DEFINE r == [Resting EXCEPT !.pc = "body", !.order = <<read[t].order[i]>>]
  <2>3. r.got = 0 /\ r.lost = {} /\ r.pc = "body" /\ r.order[1] = read[t].order[i]
        BY DEF Resting
  <2>4. SetRead(t, r)
        BY <1>7 DEF Win
  <2> HIDE DEF r
  <2>5. HostsOK(r)
        BY <1>0, <2>2, <2>3 DEF HostsOK
  <2> QED BY <2>1, <2>4, <2>5, OneLinkTyped
<1>8. ASSUME NEW t \in Reads, NEW i \in 1..2, WinsWrongly(t, i) PROVE LinksTyped'
  <2>1. read[t].order[i] \in ToSet(Hosts)
        BY <1>0, <1>8 DEF WinsWrongly, Out, HostsOK
  <2>2. LinkKinds'
        BY <1>0, <1>8, <2>1 DEF WinsWrongly, LinkKinds
  <2>3. HostsOK([Resting EXCEPT !.pc = "error", !.cause = TRUE])
        BY RestHosts
  <2> QED BY <1>8, <2>2, <2>3, OneLinkTyped DEF WinsWrongly
<1>9. ASSUME NEW t \in Reads, NEW i \in 1..2, NEW refused \in BOOLEAN, Lose(t, i, refused)
      PROVE LinksTyped'
  <2>1. read[t].order[i] \in ToSet(Hosts)
        BY <1>0, <1>9 DEF Lose, Out, HostsOK
  <2>2. LinkKinds'
        BY <1>0, <1>9, <2>1 DEF Lose, LinkKinds
  <2> DEFINE r == [read[t] EXCEPT !.lost = @ \cup {i}, !.stale = @ \/ refused, !.cause = @ \/ ~refused]
  <2>3. /\ r.got = read[t].got /\ r.lost = read[t].lost \cup {i} /\ r.pc = read[t].pc
        /\ r.order = read[t].order
        BY <1>0 DEF ReadOK
  <2>4. SetRead(t, r)
        BY <1>9 DEF Lose
  <2> HIDE DEF r
  <2>5. HostsOK(r)
        BY <1>0, <2>3 DEF HostsOK
  <2> QED BY <2>2, <2>4, <2>5, OneLinkTyped
<1>10. ASSUME NEW t \in Reads, RaceLost(t) PROVE LinksTyped'
  <2>1. LinkKinds'
        BY <1>0, <1>10 DEF RaceLost, LinkKinds
  <2> DEFINE why == read[t].cause \/ (links # read[t].got /\ links \in 1..withdrawn)
             anew == [Resting EXCEPT !.pc = "look", !.try = 1, !.bias = read[t].bias, !.cause = why]
  <2>2. SetRead(t, anew) \/ SetRead(t, Answered(t, "error"))
        BY <1>10 DEF RaceLost
  <2>3. HostsOK(anew) /\ HostsOK(Answered(t, "error"))
        BY RestHosts DEF Answered
  <2> HIDE DEF anew
  <2> QED BY <2>1, <2>2, <2>3, OneLinkTyped
<1>11. ASSUME NEW t \in Reads, Body(t) PROVE LinksTyped'
  <2>1. read[t].order[1] \in ToSet(Hosts)
        BY <1>0, <1>11 DEF Body, HostsOK
  <2>2. LinkKinds'
        BY <1>0, <1>11, <2>1 DEF Body, LinkKinds
  <2>3. \E r : SetRead(t, r) /\ HostsOK(r)
        BY <1>11, RestHosts DEF Body, Answered
  <2> QED BY <2>2, <2>3, OneLinkTyped
<1>12. ASSUME NEW t \in Reads, LeaveRead(t) PROVE LinksTyped'
  <2>1. LinkKinds'
        BY <1>0, <1>12 DEF LeaveRead, LinkKinds
  <2>2. Resting = [Resting EXCEPT !.pc = "idle"]
        BY DEF Resting
  <2>3. HostsOK(Resting)
        BY <2>2, RestHosts
  <2> QED BY <1>12, <2>1, <2>3, OneLinkTyped DEF LeaveRead
<1>13. CASE Age \/ Calm
       BY <1>0, <1>13 DEF Age, Calm, LinksTyped, LinkKinds
<1>14. CASE Withdraw
  <2>1. LinkKinds'
        BY <1>0, <1>14 DEF Withdraw, LinkKinds, NumbersOK
  <2>2. ASSUME NEW t \in Reads PROVE HostsOK(read'[t])
    <3> DEFINE r == [read[t] EXCEPT !.cause = @ \/ read[t].try = 1]
    <3>1. /\ r.got = read[t].got /\ r.lost = read[t].lost /\ r.pc = read[t].pc
          /\ r.order = read[t].order
          BY <1>0 DEF ReadOK
    <3>2. read'[t] = r
          BY <1>14 DEF Withdraw
    <3> HIDE DEF r
    <3> QED BY <1>0, <3>1, <3>2 DEF HostsOK
  <2> QED BY <2>1, <2>2 DEF LinksTyped
<1>15. CASE UNCHANGED linkVars
       BY <1>0, <1>15 DEF linkVars, LinksTyped, LinkKinds, HostsOK
<1> QED
  BY <1>1, <1>2, <1>3, <1>4, <1>5, <1>6, <1>7, <1>8, <1>9, <1>10, <1>11, <1>12, <1>13, <1>14, <1>15
  DEF LinksNext, ReadStep

LEMMA LinksAreTyped ==
  ASSUME LinksInv, LinksTyped
  PROVE  LinksTypeOK
<1>1. /\ NumbersOK /\ LinkKinds /\ MaxLinks \in Nat
      /\ \A t \in Reads : HostsOK(read[t]) /\ ReadOK(read[t])
      BY HostsAssumption DEF LinksInv, Sound, LinksTyped
<1>2. /\ links \in 0..MaxLinks /\ located \in 0..MaxLinks /\ withdrawn \in 0..located
      /\ ended \in 0..MaxLinks
      BY <1>1 DEF NumbersOK, LinkKinds
<1>3. \A t \in Reads : read[t].pc \in {"look", "want", "ask", "race", "body"} \cup Answers
      BY <1>1 DEF ReadOK, Stages
<1> QED BY <1>1, <1>2, <1>3 DEF LinksTypeOK, LinkKinds, HostsOK

\* The first of some numbers: intervals from 1 are finite, and inclusion orders them.
\* Induction, in the form of a set.
LEMMA Induction ==
  ASSUME NEW T, 0 \in T, \A n \in Nat : n \in T => n + 1 \in T
  PROVE  Nat \subseteq T
<1> SUFFICES ASSUME Nat \ T # {} PROVE FALSE
    OBVIOUS
<1>1. PICK m \in Nat \ T : \A n \in Nat \ T : m <= n
      BY LeastIsIn
<1>2. m - 1 \in Nat \ T
      BY <1>1
<1> QED BY <1>1, <1>2

-----------------------------------------------------------------------------
\* Lists of different keys.
KeyLists == {q \in Seq(Keys) : S!IsInjective(q)}

\* The fold over the entries 1..n of a list of keys, for every subset of them.
Folds(f, k, n) ==
  /\ f = [s \in SUBSET (1..n) |-> f[s]]
  /\ \A s \in SUBSET (1..n) :
       f[s] = IF s = {} THEN <<>> ELSE S!PushKey(f[s \ {S!Max(s)}], k[S!Max(s)])

LEMMA LastIs ==
  ASSUME NEW n \in Nat, NEW s \in SUBSET (1..n), n \in s
  PROVE  S!Max(s) = n
<1>1. \A y \in s : n >= y
      OBVIOUS
<1>2. ASSUME NEW x \in s, \A y \in s : x >= y PROVE x = n
  <2>1. x >= n /\ n >= x /\ x \in Int
        BY <1>1, <1>2
  <2> QED BY <2>1
<1> QED BY <1>1, <1>2 DEF S!Max

LEMMA Shorter ==
  ASSUME NEW n \in Nat, NEW s \in SUBSET (1 .. n + 1), n + 1 \notin s
  PROVE  s \in SUBSET (1..n)
OBVIOUS

LEMMA LastIn ==
  ASSUME NEW n \in Nat
  PROVE  \A s \in SUBSET (1..n) : s # {} => S!Max(s) \in s
<1> DEFINE T == {m \in Nat : \A s \in SUBSET (1..m) : s # {} => S!Max(s) \in s}
<1>1. 0 \in T
  <2>1. \A s \in SUBSET (1..0) : s = {}
        OBVIOUS
  <2> QED BY <2>1
<1>2. ASSUME NEW m \in Nat, m \in T PROVE m + 1 \in T
  <2> SUFFICES ASSUME NEW s \in SUBSET (1 .. m + 1), s # {} PROVE S!Max(s) \in s
      OBVIOUS
  <2>1. CASE m + 1 \in s
        BY <2>1, LastIs
  <2>2. CASE m + 1 \notin s
        BY <2>2, <1>2, Shorter
  <2> QED BY <2>1, <2>2
<1> HIDE DEF T
<1>3. n \in T
      BY <1>1, <1>2, Induction
<1> QED BY <1>3 DEF T

LEMMA FoldsExist ==
  ASSUME NEW n \in Nat, NEW k
  PROVE  \E f : Folds(f, k, n)
<1> DEFINE T == {m \in Nat : \E f : Folds(f, k, m)}
<1>1. 0 \in T
  <2>1. Folds([s \in SUBSET (1..0) |-> <<>>], k, 0)
        BY DEF Folds
  <2> QED BY <2>1
<1>2. ASSUME NEW m \in Nat, m \in T PROVE m + 1 \in T
  <2>1. PICK f : Folds(f, k, m)
        BY <1>2
  <2> DEFINE g == [s \in SUBSET (1 .. m + 1) |->
                     IF m + 1 \in s THEN S!PushKey(f[s \ {m + 1}], k[m + 1]) ELSE f[s]]
  <2>2. ASSUME NEW s \in SUBSET (1 .. m + 1)
        PROVE  g[s] = IF s = {} THEN <<>> ELSE S!PushKey(g[s \ {S!Max(s)}], k[S!Max(s)])
    <3>1. CASE m + 1 \in s
      <4>1. S!Max(s) = m + 1
            BY <3>1, LastIs
      <4>2. s \ {m + 1} \in SUBSET (1 .. m + 1) /\ m + 1 \notin s \ {m + 1}
            OBVIOUS
      <4>3. g[s \ {m + 1}] = f[s \ {m + 1}]
            BY <4>2
      <4> QED BY <3>1, <4>1, <4>3
    <3>2. CASE m + 1 \notin s
      <4>1. s \in SUBSET (1..m)
            BY <3>2, Shorter
      <4>2. g[s] = f[s]
            BY <3>2
      <4>3. CASE s = {}
            BY <4>1, <4>2, <4>3, <2>1 DEF Folds
      <4>4. CASE s # {}
        <5>1. s \ {S!Max(s)} \in SUBSET (1 .. m + 1) /\ m + 1 \notin s \ {S!Max(s)}
              BY <3>2
        <5>2. g[s \ {S!Max(s)}] = f[s \ {S!Max(s)}]
              BY <5>1
        <5>3. f[s] = S!PushKey(f[s \ {S!Max(s)}], k[S!Max(s)])
              BY <4>1, <4>4, <2>1 DEF Folds
        <5> HIDE DEF g
        <5> QED BY <4>2, <4>4, <5>2, <5>3
      <4> QED BY <4>3, <4>4
    <3> QED BY <3>1, <3>2
  <2>3. g = [s \in SUBSET (1 .. m + 1) |-> g[s]]
        OBVIOUS
  <2> HIDE DEF g
  <2>4. Folds(g, k, m + 1)
        BY <2>2, <2>3 DEF Folds
  <2> QED BY <2>4
<1> HIDE DEF T
<1>3. n \in T
      BY <1>1, <1>2, Induction
<1> QED BY <1>3 DEF T

LEMMA PushedOnce ==
  ASSUME NEW q \in KeyLists, NEW k \in Keys
  PROVE  S!PushKey(q, k) \in KeyLists
<1>1. CASE S!Contains(q, k)
      BY <1>1 DEF S!PushKey
<1>2. CASE ~S!Contains(q, k)
  <2>1. q \in Seq(Keys) /\ Len(q) \in Nat /\ DOMAIN q = 1..Len(q)
        BY DEF KeyLists
  <2>2. \A j \in 1..Len(q) : q[j] # k
        BY <1>2 DEF S!Contains
  <2> DEFINE r == Append(q, k)
  <2>3. r \in Seq(Keys) /\ DOMAIN r = 1 .. Len(q) + 1
        BY <2>1
  <2>4. ASSUME NEW a \in DOMAIN r, NEW b \in DOMAIN r, r[a] = r[b] PROVE a = b
    <3>1. \A j \in 1..Len(q) : r[j] = q[j]
          BY <2>1
    <3>2. r[Len(q) + 1] = k
          BY <2>1
    <3> HIDE DEF r
    <3>3. \A x, y \in 1..Len(q) : q[x] = q[y] => x = y
          BY <2>1 DEF KeyLists, S!IsInjective
    <3> QED BY <2>1, <2>2, <2>3, <2>4, <3>1, <3>2, <3>3
  <2> QED BY <1>2, <2>3, <2>4 DEF S!PushKey, KeyLists, S!IsInjective
<1> QED BY <1>1, <1>2

LEMMA FoldsKeys ==
  ASSUME NEW n \in Nat, NEW k \in [1..n -> Keys], NEW f, Folds(f, k, n)
  PROVE  f[1..n] \in KeyLists
<1> DEFINE T == {m \in Nat : m <= n => \A s \in SUBSET (1..m) : f[s] \in KeyLists}
<1>0. \A m \in Nat : m <= n => SUBSET (1..m) \subseteq SUBSET (1..n)
      OBVIOUS
<1>1. 0 \in T
  <2>1. <<>> \in KeyLists
        BY DEF KeyLists, S!IsInjective
  <2>2. ASSUME NEW s \in SUBSET (1..0) PROVE f[s] \in KeyLists
    <3>1. s = {} /\ s \in SUBSET (1..n)
          OBVIOUS
    <3> QED BY <2>1, <3>1 DEF Folds
  <2> QED BY <2>2
<1>2. ASSUME NEW m \in Nat, m \in T PROVE m + 1 \in T
  <2> SUFFICES ASSUME m + 1 <= n, NEW s \in SUBSET (1 .. m + 1) PROVE f[s] \in KeyLists
      OBVIOUS
  <2>1. CASE m + 1 \in s
    <3>1. S!Max(s) = m + 1
          BY <2>1, LastIs
    <3>2. s \ {m + 1} \in SUBSET (1..m) /\ s \in SUBSET (1..n) /\ s # {} /\ m + 1 \in 1..n
          BY <2>1
    <3>3. f[s] = S!PushKey(f[s \ {m + 1}], k[m + 1])
          BY <3>1, <3>2 DEF Folds
    <3>4. f[s \ {m + 1}] \in KeyLists
          BY <1>2, <3>2
    <3> QED BY <3>2, <3>3, <3>4, PushedOnce
  <2>2. CASE m + 1 \notin s
        BY <2>2, <1>2, Shorter
  <2> QED BY <2>1, <2>2
<1> HIDE DEF T
<1>3. n \in T
      BY <1>1, <1>2, Induction
<1> QED BY <1>3 DEF T

\* SetToSeq lists a finite set.
LEMMA Listed ==
  ASSUME NEW set, IsFiniteSet(set)
  PROVE  /\ Cardinality(set) \in Nat /\ S!Cardinality(set) = Cardinality(set)
         /\ S!SetToSeq(set) \in [1..Cardinality(set) -> set]
         /\ \A a, b \in 1..Cardinality(set) :
              S!SetToSeq(set)[a] = S!SetToSeq(set)[b] => a = b
<1>1. Cardinality(set) \in Nat /\ ExistsBijection(1..Cardinality(set), set)
      BY FS_CardinalityType
<1>2. S!Cardinality(set) = Cardinality(set)
      BY DEF S!Cardinality, Cardinality
<1>3. PICK g \in [1..Cardinality(set) -> set] :
             \A a, b \in 1..Cardinality(set) : g[a] = g[b] => a = b
      BY <1>1 DEF ExistsBijection, Bijection, Injection, IsInjective
<1>4. DOMAIN g = 1..Cardinality(set)
      OBVIOUS
<1>5. g \in [1..S!Cardinality(set) -> set] /\ S!IsInjective(g)
      BY <1>2, <1>3, <1>4 DEF S!IsInjective
<1>6. S!SetToSeq(set) \in [1..S!Cardinality(set) -> set] /\ S!IsInjective(S!SetToSeq(set))
      BY <1>5 DEF S!SetToSeq
<1> QED BY <1>1, <1>2, <1>6 DEF S!IsInjective

\* The keys of a link: each once, and none of a foreign entry.
LEMMA PackedKeys ==
  ASSUME NEW managed, IsFiniteSet(managed), \A i \in managed : key[i] \in Keys
  PROVE  S!FoldLeft(LAMBDA keys, i : S!PushKey(keys, key[i]), <<>>, S!SetToSeq(managed))
           \in KeyLists
<1> DEFINE seq == S!SetToSeq(managed)
           n == Cardinality(managed)
           k == [j \in 1..n |-> key[seq[j]]]
           Folded(f) == f = [s \in SUBSET (1..n) |->
                               IF s = {} THEN <<>>
                               ELSE S!PushKey(f[s \ {S!Max(s)}], key[seq[S!Max(s)]])]
<1>1. n \in Nat /\ seq \in [1..n -> managed] /\ DOMAIN seq = 1..n
      BY Listed
<1>2. S!FoldLeft(LAMBDA keys, i : S!PushKey(keys, key[i]), <<>>, seq) = (CHOOSE f : Folded(f))[1..n]
      BY <1>1 DEF S!FoldLeft, S!MapThenFoldSet
<1> HIDE DEF seq, n
<1>3. k \in [1..n -> Keys]
      BY <1>1
<1>4. ASSUME NEW f PROVE Folds(f, k, n) <=> Folded(f)
  <2>1. \A s \in SUBSET (1..n) : s # {} => S!Max(s) \in 1..n /\ k[S!Max(s)] = key[seq[S!Max(s)]]
        BY <1>1, LastIn
  <2> HIDE DEF k
  <2> QED BY <2>1 DEF Folds
<1>5. \E f : Folded(f)
      BY <1>1, <1>4, FoldsExist
<1>6. Folded(CHOOSE f : Folded(f))
  <2> HIDE DEF Folded
  <2> QED BY <1>5
<1>7. (CHOOSE f : Folded(f))[1..n] \in KeyLists
  <2> HIDE DEF Folded, k
  <2> QED BY <1>1, <1>3, <1>4, <1>6, FoldsKeys
<1> QED BY <1>2, <1>7 DEF seq
-----------------------------------------------------------------------------
(***************************************************************************)
(* Shares: what an import has brought, and what it knows of it.            *)
(***************************************************************************)
Foreign == {i \in Items : key[i] = Literal}

\* The directory: whose name is whose, and no name twice.
EntryOK(o) ==
  /\ DOMAIN o = {"by", "item", "name"}
  /\ o.by \in Imports \cup {Nil} /\ o.item \in Items
  /\ \E k \in Keys \cup {Literal, Home}, n \in Nat :
       o.name = <<o.item, k, n>> /\ (k = Home => n = 0)
DestOK(d) ==
  /\ IsFiniteSet(d) /\ \A o \in d : EntryOK(o)
  /\ \A o, p \in d : o.name = p.name => o = p

Brought(c, d) == {o \in d : o.by = c}
\* Items of which there is an entry with a name under the directory's key.
Homes(d) == {o.item : o \in {p \in d : p.name[2] = Home}}
\* No import gives one to a foreign entry.
ForeignStay(d, foreign) == \A o \in d : o.by # Nil /\ o.item \in foreign => o.name[2] # Home
\* Each entry an import took over is a different item.
OneEach(b) == \A o, p \in b : o.item = p.item => o = p

\* A list of a share: different items, and which of them are foreign.
ListOK(list, foreign) ==
  /\ Len(list) \in 0..Cardinality(Items) /\ DOMAIN list = 1..Len(list)
  /\ \A j \in 1..Len(list) : /\ DOMAIN list[j] = {"item", "key"} /\ list[j].item \in Items
                             /\ list[j].key = Literal <=> list[j].item \in foreign
  /\ \A a, b \in 1..Len(list) : list[a].item = list[b].item => a = b

ItemsOf(list) == {list[j].item : j \in 1..Len(list)}

\* The link: what was selected, of which the share holds what is left.
Selected(l, sel, foreign) ==
  l.items = Cardinality(sel) /\ l.managed = Cardinality(sel \ foreign)
Lists(i) == i.pc \in {"transfer", "names", "rename"}
LinkOK ==
  /\ DOMAIN link = {"native", "encrypted", "disguise", "items", "managed", "keys"}
  /\ link.native \in BOOLEAN /\ link.encrypted = from.encryption /\ link.disguise = from.disguise
  /\ link.keys \in KeyLists
  /\ ~link.native => S!Decodable(link)
  /\ \E sel \in SUBSET Items :
       /\ share \subseteq sel /\ Selected(link, sel, Foreign)
       /\ \A c \in Imports : Lists(imp[c]) => ItemsOf(imp[c].list) \subseteq sel

Rebuilt == ~link.native /\ link.managed # 0 /\ S!Managed(to)
\* What can be read after an import, unless it was forced.
Agreed == (TRUE \notin Forces => from.encryption = to.encryption) /\ from.disguise = to.disguise
Allowed == link # Nil /\ (link.native \/ Agreed)

\* The entries the import has taken when it comes to the next one.
Takes(l, list, j) == S!Contains(l.keys, list[j].key)
Renamed(l, list, next) == {list[j].item : j \in {m \in 1 .. next - 1 : Takes(l, list, m)}}

\* What it has not come to is named as it believes, or the name it is to get is taken;
\* what it has taken has that name.
Renaming(i, b, homes, l) ==
  /\ Len(i.list) = l.items /\ i.next \in 1 .. Len(i.list) + 1
  /\ DOMAIN i.at = 1..Len(i.list)
  /\ \A j \in 1..Len(i.list) : i.at[j][1] = i.list[j].item
  /\ \A j \in i.next .. Len(i.list), o \in b :
       o.item = i.list[j].item /\ o.item \notin i.wrong => o.name = i.at[j] \/ o.item \in homes
  /\ \A o \in b :
       o.item \in Renamed(l, i.list, i.next) /\ o.item \notin i.wrong => o.name[2] = Home
  /\ i.seen = Cardinality(Renamed(l, i.list, i.next))

Whole(b, l, foreign) ==
  /\ Cardinality(b) = l.items
  /\ Cardinality({o \in b : o.name[2] = Home}) = l.managed
  /\ \A o \in b : o.name[2] = Home \/ o.item \in foreign

Early == {"new", "list", "transfer"}
Past == {"names", "rename", "ok", "error"}

ImportOK(i, b, homes, l, foreign, rebuilt, allowed) ==
  /\ DOMAIN i = {"pc", "list", "at", "next", "seen", "landed", "wrong"} /\ i.pc \in Early \cup Past
  /\ OneEach(b)
  /\ i.pc \in Early => b = {}
  /\ i.pc \notin {"new", "error"} => allowed
  /\ i.pc # "rename" => i.next = 1 /\ i.seen = 0
  /\ i.pc \in {"transfer", "names", "rename"} => ListOK(i.list, foreign)
  /\ i.pc \in {"names", "rename"} =>
       i.landed = ItemsOf(i.list) /\ {o.item : o \in b} = i.landed
  /\ i.pc = "rename" => rebuilt /\ Renaming(i, b, homes, l)
  /\ i.pc = "ok" => /\ i.landed = {o.item : o \in b}
                    /\ rebuilt /\ i.wrong = {} => Whole(b, l, foreign)

Kept(c) == ImportOK(imp[c], Brought(c, dest), Homes(dest), link, Foreign, Rebuilt, Allowed)

\* The names are few: each import takes over every item at most once.
Few ==
  /\ Cardinality(dest)
       <= Cardinality(Items) * (2 + Cardinality({c \in Imports : imp[c].pc \in Past}))
  /\ \A o \in dest : o.name[3] <= Cardinality(Items) * (2 + Cardinality(Imports))

SharesInv ==
  /\ from \in Configs /\ to \in Configs /\ key \in [Items -> Keys \cup {Literal}]
  /\ share \subseteq Items /\ DOMAIN imp = Imports
  /\ link = Nil => \A c \in Imports : imp[c].pc = "new"
  /\ link # Nil => LinkOK
  /\ DestOK(dest) /\ ForeignStay(dest, Foreign) /\ Few
  /\ \A c \in Imports : Kept(c)
  /\ (\E o \in dest : o.by # Nil /\ o.name[2] = Home) => Agreed

-----------------------------------------------------------------------------
LEMMA ItemsFinite ==
  /\ Cardinality(Items) \in Nat /\ Cardinality(Imports) \in Nat
  /\ \A s \in SUBSET Items : IsFiniteSet(s) /\ Cardinality(s) \in 0..Cardinality(Items)
  /\ \A s \in SUBSET Imports : IsFiniteSet(s) /\ Cardinality(s) \in 0..Cardinality(Imports)
<1>1. IsFiniteSet(Items) /\ IsFiniteSet(Imports)
      BY SharesAssumption
<1>2. ASSUME NEW s \in SUBSET Items PROVE IsFiniteSet(s) /\ Cardinality(s) \in 0..Cardinality(Items)
      BY <1>1, FS_Subset, FS_CardinalityType
<1>3. ASSUME NEW s \in SUBSET Imports
      PROVE IsFiniteSet(s) /\ Cardinality(s) \in 0..Cardinality(Imports)
      BY <1>1, FS_Subset, FS_CardinalityType
<1> QED BY <1>1, <1>2, <1>3, FS_CardinalityType

LEMMA SameCount == \A s : S!Cardinality(s) = Cardinality(s)
BY DEF S!Cardinality, Cardinality

\* A name that is not taken can be found among as many as there are entries, and one more.
LEMMA NameIsFree ==
  ASSUME DestOK(dest), NEW i \in Items
  PROVE  /\ \E n \in 0..Cardinality(dest) : S!FreeName(i) = <<i, key[i], n>>
         /\ \A o \in dest : o.name # S!FreeName(i)
<1>1. IsFiniteSet(dest) /\ Cardinality(dest) \in Nat
      BY FS_CardinalityType DEF DestOK
<1> DEFINE spare == {n \in 0..Cardinality(dest) : <<i, key[i], n>> \notin S!Names}
<1>2. spare # {}
  <2> SUFFICES ASSUME \A n \in 0..Cardinality(dest) : <<i, key[i], n>> \in S!Names PROVE FALSE
      OBVIOUS
  <2> DEFINE who(n) == CHOOSE o \in dest : o.name = <<i, key[i], n>>
             f == [n \in 0..Cardinality(dest) |-> who(n)]
  <2>1. ASSUME NEW n \in 0..Cardinality(dest)
        PROVE  who(n) \in dest /\ who(n).name = <<i, key[i], n>>
    <3>1. <<i, key[i], n>> \in S!Names
          OBVIOUS
    <3>2. \E o \in dest : o.name = <<i, key[i], n>>
          BY <3>1 DEF S!Names
    <3> QED BY <3>2
  <2> HIDE DEF who
  <2>2. f \in [0..Cardinality(dest) -> dest]
        BY <2>1
  <2>3. IsFiniteSet(0..Cardinality(dest)) /\ Cardinality(0..Cardinality(dest)) = Cardinality(dest) + 1
        BY <1>1, FS_Interval
  <2>4. PICK x, y \in 0..Cardinality(dest) : x # y /\ f[x] = f[y]
    <3>1. Cardinality(dest) < Cardinality(0..Cardinality(dest))
          BY <1>1, <2>3
    <3> HIDE DEF f
    <3> QED BY <1>1, <2>2, <2>3, <3>1, FS_PigeonHole
  <2>5. who(x) = who(y)
        BY <2>4
  <2>6. <<i, key[i], x>> = <<i, key[i], y>>
        BY <2>1, <2>5
  <2> QED BY <2>4, <2>6
<1>3. Min(spare) \in spare
  <2>1. spare \in SUBSET Nat
        BY <1>1
  <2> HIDE DEF spare
  <2> QED BY <1>2, <2>1, LeastIsIn
<1>4. S!FreeName(i) = <<i, key[i], Min(spare)>>
      BY SameCount DEF S!FreeName, S!Min, Min
<1> QED BY <1>3, <1>4 DEF S!Names
LEMMA TwoOf == \A x, y : x # y => IsFiniteSet({x, y}) /\ Cardinality({x, y}) = 2
<1> SUFFICES ASSUME NEW x, NEW y, x # y PROVE IsFiniteSet({x, y}) /\ Cardinality({x, y}) = 2
    OBVIOUS
<1>1. IsFiniteSet({x}) /\ Cardinality({x}) = 1 /\ y \notin {x} /\ {x, y} = {x} \cup {y}
      BY FS_Singleton
<1>2. IsFiniteSet({x} \cup {y}) /\ Cardinality({x} \cup {y}) = 1 + 1
      BY <1>1, FS_AddElement
<1> QED BY <1>1, <1>2

LEMMA NothingBrought ==
  /\ \A homes, l, foreign, rebuilt, allowed :
       ImportOK(S!Waiting, {}, homes, l, foreign, rebuilt, allowed)
  /\ S!Waiting.pc = "new"
BY DEF S!Waiting, ImportOK, OneEach, Early, Past, ItemsOf

LEMMA SharesInitially == S!Init => SharesInv
<1> SUFFICES ASSUME S!Init PROVE SharesInv
    OBVIOUS
<1>1. key \in [Items -> Keys \cup {Literal}] /\ from \in Configs /\ to \in Configs
      /\ share = {} /\ link = Nil /\ DOMAIN imp = Imports
      /\ \A c \in Imports : imp[c] = S!Waiting
      BY DEF S!Init
<1>2. PICK there \in SUBSET (Items \X {TRUE, FALSE}) :
             dest = {[by |-> Nil, item |-> p[1],
                      name |-> <<p[1], IF p[2] THEN key[p[1]] ELSE Home, 0>>] : p \in there}
      BY DEF S!Init
<1> DEFINE first(p) == [by |-> Nil, item |-> p[1],
                        name |-> <<p[1], IF p[2] THEN key[p[1]] ELSE Home, 0>>]
           f == [p \in there |-> first(p)]
           n == Cardinality(Items)
<1>3. IsFiniteSet(there) /\ Cardinality(there) <= n * 2 /\ Cardinality(there) \in Nat
  <2>1. IsFiniteSet({TRUE, FALSE}) /\ Cardinality({TRUE, FALSE}) = 2
        BY TwoOf
  <2>2. IsFiniteSet(Items \X {TRUE, FALSE}) /\ Cardinality(Items \X {TRUE, FALSE}) = n * 2
        BY <2>1, SharesAssumption, FS_Product
  <2> QED BY <2>2, FS_Subset, FS_CardinalityType
<1>4. f \in Surjection(there, dest)
  <2>1. \A p \in there : first(p) \in dest
        BY <1>2
  <2>2. \A o \in dest : \E p \in there : f[p] = o
        BY <1>2
  <2> QED BY <2>1, <2>2 DEF Surjection
<1>5. IsFiniteSet(dest) /\ Cardinality(dest) <= n * 2
  <2>1. IsFiniteSet(dest) /\ Cardinality(dest) <= Cardinality(there)
    <3> HIDE DEF f
    <3> QED BY <1>3, <1>4, FS_Surjection
  <2>2. Cardinality(dest) \in Nat /\ n \in Nat
        BY <2>1, ItemsFinite, FS_CardinalityType
  <2> QED BY <1>3, <2>1, <2>2
<1>6. ASSUME NEW o \in dest
      PROVE  /\ EntryOK(o) /\ o.by = Nil /\ o.name[3] = 0
             /\ o.name[2] = Home \/ o.name[2] = key[o.item]
  <2>1. PICK p \in there : o = first(p)
        BY <1>2
  <2>2. p[1] \in Items /\ key[p[1]] \in Keys \cup {Literal}
        BY <1>1
  <2>3. \E k \in Keys \cup {Literal, Home}, m \in Nat :
          o.name = <<o.item, k, m>> /\ (k = Home => m = 0)
        BY <2>1, <2>2
  <2> QED BY <2>1, <2>2, <2>3 DEF EntryOK
<1>7. ASSUME NEW o \in dest, NEW p \in dest, o.name = p.name PROVE o = p
  <2>1. PICK x \in there : o = first(x)
        BY <1>2
  <2>2. PICK y \in there : p = first(y)
        BY <1>2
  <2>3. o.by = p.by /\ o.item = x[1] /\ p.item = y[1] /\ o.name[1] = x[1] /\ p.name[1] = y[1]
        BY <2>1, <2>2
  <2> QED BY <1>7, <2>1, <2>2, <2>3
<1>8. DestOK(dest)
      BY <1>5, <1>6, <1>7 DEF DestOK
<1>9. Few
  <2>1. {c \in Imports : imp[c].pc \in Past} = {}
        BY <1>1, NothingBrought DEF Past
  <2>2. n \in Nat /\ Cardinality(Imports) \in Nat /\ Cardinality({}) = 0
        BY ItemsFinite, FS_EmptySet
  <2>3. 0 <= n * (2 + Cardinality(Imports)) /\ n * 2 = n * (2 + 0)
        BY <2>2
  <2> QED BY <1>5, <1>6, <2>1, <2>2, <2>3 DEF Few
<1>10. \A c \in Imports : Kept(c)
  <2> SUFFICES ASSUME NEW c \in Imports PROVE Kept(c)
      OBVIOUS
  <2>1. Brought(c, dest) = {}
        BY <1>6, SharesAssumption DEF Brought
  <2> QED BY <1>1, <2>1, NothingBrought DEF Kept
<1>11. (~\E o \in dest : o.by # Nil) /\ ForeignStay(dest, Foreign)
       BY <1>6 DEF ForeignStay
<1> HIDE DEF first, f, n
<1> QED BY <1>1, <1>8, <1>9, <1>10, <1>11, NothingBrought DEF SharesInv

-----------------------------------------------------------------------------
\* A step of one import, or of none, leaves the others what they are.
LEMMA StillKept ==
  ASSUME NEW c \in Imports, Kept(c), imp'[c] = imp[c], dest' = dest,
         link' = link, Foreign' = Foreign, to' = to, from' = from
  PROVE  Kept(c)'
<1>1. Rebuilt' = Rebuilt /\ Allowed' = Allowed
      BY DEF Rebuilt, Allowed, Agreed, S!Managed
<1>2. Kept(c)'
        = ImportOK(imp'[c], Brought(c, dest'), Homes(dest'), link', Foreign', Rebuilt', Allowed')
      BY DEF Kept
<1> QED BY <1>1, <1>2 DEF Kept

LEMMA SameForeign ==
  ASSUME SharesInv, S!Next
  PROVE  Foreign' = Foreign /\ key' \in [Items -> Keys \cup {Literal}]
<1>1. key \in [Items -> Keys \cup {Literal}]
      BY DEF SharesInv
<1>2. CASE key' = key
      BY <1>1, <1>2 DEF Foreign
<1>3. CASE \E i \in Items, k \in Keys : S!Rehome(i, k)
  <2>1. PICK i \in Items, k \in Keys : key[i] # Literal /\ key' = [key EXCEPT ![i] = k]
        BY <1>3 DEF S!Rehome
  <2>2. k # Literal
        BY SharesAssumption
  <2>3. key' \in [Items -> Keys \cup {Literal}]
        BY <1>1, <2>1
  <2>4. \A j \in Items : key'[j] = Literal <=> key[j] = Literal
        BY <1>1, <2>1, <2>2
  <2> QED BY <2>3, <2>4 DEF Foreign
<1>4. key' = key \/ \E i \in Items, k \in Keys : S!Rehome(i, k)
      BY DEF S!Next, S!Export, S!Unshare, S!ImportStep, S!Begin, S!ListShare, S!Transfer,
             S!ReadNames, S!Rename, S!Finish
<1> QED BY <1>2, <1>3, <1>4
-----------------------------------------------------------------------------
\* What a step of an import has to keep.
Moved(c) ==
  /\ \A d \in Imports :
       ImportOK(imp'[d], Brought(d, dest'), Homes(dest'), link, Foreign, Rebuilt, Allowed)
  /\ \A d \in Imports \ {c} : imp'[d] = imp[d]
  /\ DOMAIN imp' = Imports /\ DestOK(dest') /\ ForeignStay(dest', Foreign) /\ Few'
  /\ (\E o \in dest' : o.by # Nil /\ o.name[2] = Home) => Agreed
  /\ \A o \in dest \ dest' : /\ imp'[c] # imp[c] /\ (o.by = c \/ o.item \in imp[c].wrong)
                             /\ \E p \in dest' : p.by = o.by /\ p.item = o.item

LEMMA SetOne ==
  ASSUME NEW c \in Imports, DOMAIN imp = Imports, NEW i, S!SetImp(c, i)
  PROVE  /\ imp'[c] = i /\ DOMAIN imp' = Imports
         /\ \A d \in Imports \ {c} : imp'[d] = imp[d]
BY DEF S!SetImp

LEMMA FewStill ==
  ASSUME Few, NEW c \in Imports, DOMAIN imp' = Imports,
         \A d \in Imports \ {c} : imp'[d] = imp[d],
         imp[c].pc \in Past => imp'[c].pc \in Past,
         IsFiniteSet(dest), Cardinality(dest') \in Nat, Cardinality(dest') <= Cardinality(dest),
         \A o \in dest' : o.name[3] <= Cardinality(Items) * (2 + Cardinality(Imports))
  PROVE  Few'
<1> DEFINE old == {d \in Imports : imp[d].pc \in Past}
           new == {d \in Imports : imp'[d].pc \in Past}
           n == Cardinality(Items)
<1>1. old \subseteq new /\ new \in SUBSET Imports /\ old \in SUBSET Imports
      OBVIOUS
<1>2. IsFiniteSet(new) /\ Cardinality(new) \in Nat /\ Cardinality(old) \in Nat /\ n \in Nat
      BY <1>1, ItemsFinite
<1>3. Cardinality(old) <= Cardinality(new)
      BY <1>1, <1>2, FS_Subset
<1>4. Cardinality(dest) \in Nat /\ Cardinality(dest) <= n * (2 + Cardinality(old))
      BY FS_CardinalityType DEF Few
<1>5. n * (2 + Cardinality(old)) <= n * (2 + Cardinality(new))
  <2> HIDE DEF n, old, new
  <2>1. PICK a, b, m \in Nat : a = 2 + Cardinality(old) /\ b = 2 + Cardinality(new) /\ m = n
        BY <1>2
  <2>2. a <= b
        BY <1>2, <1>3, <2>1
  <2> QED BY <2>1, <2>2, Scaled
<1>6. Cardinality(dest') <= n * (2 + Cardinality(new))
  <2> HIDE DEF n, old, new
  <2> QED BY <1>2, <1>4, <1>5
<1> QED BY <1>6 DEF Few

\* An import that moves without touching the directory.
LEMMA QuietMove ==
  ASSUME SharesInv, NEW c \in Imports, NEW i, S!SetImp(c, i), dest' = dest,
         imp[c].pc \in Past => i.pc \in Past,
         ImportOK(i, Brought(c, dest), Homes(dest), link, Foreign, Rebuilt, Allowed)
  PROVE  Moved(c)
<1>0. \A d \in Imports : Kept(d)
      BY DEF SharesInv
<1>1. /\ imp'[c] = i /\ DOMAIN imp' = Imports
      /\ \A d \in Imports \ {c} : imp'[d] = imp[d]
      BY SetOne DEF SharesInv
<1>2. IsFiniteSet(dest) /\ Cardinality(dest) \in Nat /\ Cardinality(dest) <= Cardinality(dest)
      BY FS_CardinalityType DEF SharesInv, DestOK
<1>3. Few'
      BY <1>1, <1>2, FewStill DEF SharesInv, Few
<1>4. \A d \in Imports :
        ImportOK(imp'[d], Brought(d, dest'), Homes(dest'), link, Foreign, Rebuilt, Allowed)
      BY <1>0, <1>1 DEF Kept
<1> QED BY <1>1, <1>3, <1>4 DEF Moved, SharesInv

LEMMA EndsBadly ==
  \A b, homes, l, foreign, rebuilt, allowed :
    OneEach(b) => ImportOK([S!Waiting EXCEPT !.pc = "error"],
                           b, homes, l, foreign, rebuilt, allowed)
BY DEF S!Waiting, ImportOK, Early, Past, ItemsOf

LEMMA ErrorStep ==
  ASSUME SharesInv, NEW c \in Imports, S!Fails(c), dest' = dest
  PROVE  Moved(c)
<1> DEFINE i == [S!Waiting EXCEPT !.pc = "error"]
<1>1. S!SetImp(c, i)
      BY DEF S!Fails
<1>2. i.pc = "error"
      BY DEF S!Waiting
<1>3. OneEach(Brought(c, dest))
      BY DEF SharesInv, Kept, ImportOK
<1>4. ImportOK(i, Brought(c, dest), Homes(dest), link, Foreign, Rebuilt, Allowed)
      BY <1>3, EndsBadly
<1> HIDE DEF i
<1> QED BY <1>1, <1>2, <1>4, QuietMove DEF Past

LEMMA BeginStep ==
  ASSUME SharesInv, NEW c \in Imports, NEW force \in Forces, S!Begin(c, force)
  PROVE  Moved(c)
<1>1. imp[c].pc = "new" /\ link # Nil /\ dest' = dest
      BY DEF S!Begin
<1>2. CASE S!Fails(c)
      BY <1>1, <1>2, ErrorStep
<1>3. CASE /\ link.native \/ (S!Decodable(link) /\ S!Compatible(force))
           /\ S!SetImp(c, [imp[c] EXCEPT !.pc = "list"])
  <2>1. Allowed
    <3>1. CASE link.native
          BY <1>1, <3>1 DEF Allowed
    <3>2. CASE S!Compatible(force)
      <4>1. link.encrypted = from.encryption /\ link.disguise = from.disguise
            BY <1>1 DEF SharesInv, LinkOK
      <4>2. force \in BOOLEAN
            BY SharesAssumption
      <4> QED BY <1>1, <3>2, <4>1, <4>2 DEF Allowed, Agreed, S!Compatible
    <3> QED BY <1>3, <3>1, <3>2
  <2>2. ImportOK(imp[c], Brought(c, dest), Homes(dest), link, Foreign, Rebuilt, Allowed)
        BY DEF SharesInv, Kept
  <2> DEFINE i == [imp[c] EXCEPT !.pc = "list"]
  <2>3. i.pc = "list" /\ i.next = imp[c].next /\ i.seen = imp[c].seen
        /\ DOMAIN i = {"pc", "list", "at", "next", "seen", "landed", "wrong"}
        BY <2>2 DEF ImportOK
  <2>4. ImportOK(i, Brought(c, dest), Homes(dest), link, Foreign, Rebuilt, Allowed)
    <3> HIDE DEF i
    <3> QED BY <1>1, <2>1, <2>2, <2>3 DEF ImportOK, Early, Past
  <2>5. imp[c].pc \notin Past
        BY <1>1 DEF Past
  <2> QED BY <1>1, <1>3, <2>4, <2>5, QuietMove
<1> QED BY <1>2, <1>3 DEF S!Begin

LEMMA ListStep ==
  ASSUME SharesInv, NEW c \in Imports, S!ListShare(c)
  PROVE  Moved(c)
<1>1. imp[c].pc = "list" /\ dest' = dest
      BY DEF S!ListShare
<1>2. CASE S!Fails(c)
      BY <1>1, <1>2, ErrorStep
<1>3. CASE ~S!Fails(c)
  <2> DEFINE n == Cardinality(share)
             seq == S!SetToSeq(share)
             list == [j \in 1..n |-> [item |-> seq[j], key |-> key[seq[j]]]]
             i == [imp[c] EXCEPT !.pc = "transfer", !.list = list]
  <2>1. S!SetImp(c, i)
        BY <1>3, SameCount DEF S!ListShare
  <2>2. share \in SUBSET Items /\ IsFiniteSet(share) /\ n \in 0..Cardinality(Items)
        BY ItemsFinite DEF SharesInv
  <2>3. /\ seq \in [1..n -> share]
        /\ \A a, b \in 1..n : seq[a] = seq[b] => a = b
        BY <2>2, Listed
  <2>4. Len(list) = n
        BY <2>2, LenProperties
  <2>5. ListOK(list, Foreign)
    <3>1. ASSUME NEW j \in 1..n
          PROVE  /\ list[j].item = seq[j] /\ list[j].item \in Items /\ DOMAIN list[j] = {"item", "key"}
                 /\ list[j].key = Literal <=> list[j].item \in Foreign
          BY <2>2, <2>3 DEF Foreign
    <3>2. DOMAIN list = 1..n
          OBVIOUS
    <3> HIDE DEF list
    <3> QED BY <2>2, <2>3, <2>4, <3>1, <3>2 DEF ListOK
  <2>6. ImportOK(imp[c], Brought(c, dest), Homes(dest), link, Foreign, Rebuilt, Allowed)
        BY DEF SharesInv, Kept
  <2>7. i.pc = "transfer" /\ i.next = imp[c].next /\ i.seen = imp[c].seen /\ i.list = list
        /\ DOMAIN i = {"pc", "list", "at", "next", "seen", "landed", "wrong"}
        BY <2>6 DEF ImportOK
  <2>8. ImportOK(i, Brought(c, dest), Homes(dest), link, Foreign, Rebuilt, Allowed)
    <3> HIDE DEF i, list
    <3> QED BY <1>1, <2>5, <2>6, <2>7 DEF ImportOK, Early, Past
  <2>9. imp[c].pc \notin Past
        BY <1>1 DEF Past
  <2> HIDE DEF i
  <2> QED BY <1>1, <2>1, <2>8, <2>9, QuietMove
<1> QED BY <1>2, <1>3
LEMMA TransferStep ==
  ASSUME SharesInv, NEW c \in Imports, S!Transfer(c)
  PROVE  Moved(c)
<1>1. imp[c].pc = "transfer" /\ DOMAIN imp = Imports /\ DestOK(dest) /\ Few
      BY DEF S!Transfer, SharesInv
<1>2. /\ ImportOK(imp[c], Brought(c, dest), Homes(dest), link, Foreign, Rebuilt, Allowed)
      /\ Brought(c, dest) = {} /\ ListOK(imp[c].list, Foreign) /\ Allowed
      BY <1>1 DEF SharesInv, Kept, ImportOK, Early
<1>3. S!Asked(c) = ItemsOf(imp[c].list) /\ S!Asked(c) \subseteq Items
      BY <1>2 DEF S!Asked, ItemsOf, ListOK
<1>4. PICK some \in SUBSET (S!Asked(c) \cap share), answered \in BOOLEAN :
        /\ dest' = dest \cup {[by |-> c, item |-> i, name |-> S!FreeName(i)] : i \in some}
        /\ IF answered /\ some = S!Asked(c)
           THEN S!SetImp(c, [imp[c] EXCEPT !.pc = "names", !.landed = S!Asked(c)])
           ELSE S!Fails(c)
      BY DEF S!Transfer
<1>5. some \in SUBSET Items
      BY <1>3, <1>4
<1> DEFINE entry(i) == [by |-> c, item |-> i, name |-> S!FreeName(i)]
           f == [i \in some |-> entry(i)]
           more == {entry(i) : i \in some}
           n == Cardinality(Items)
<1>6. ASSUME NEW i \in some
      PROVE  \E m \in 0..Cardinality(dest) : /\ entry(i).name = <<i, key[i], m>>
                                             /\ key[i] \in Keys \cup {Literal}
    <2>1. i \in Items /\ key[i] \in Keys \cup {Literal}
          BY <1>5 DEF SharesInv
    <2> QED BY <1>1, <2>1, NameIsFree
<1>7. IsFiniteSet(dest) /\ Cardinality(dest) \in Nat /\ n \in Nat /\ Cardinality(Imports) \in Nat
      BY <1>1, ItemsFinite, FS_CardinalityType DEF DestOK
<1>8. IsFiniteSet(more) /\ Cardinality(more) \in Nat /\ Cardinality(more) <= n
  <2>1. f \in Surjection(some, more)
        BY DEF Surjection
  <2>2. IsFiniteSet(some) /\ Cardinality(some) \in 0..n
        BY <1>5, ItemsFinite
  <2>3. IsFiniteSet(more) /\ Cardinality(more) <= Cardinality(some)
    <3> HIDE DEF f, more
    <3> QED BY <2>1, <2>2, FS_Surjection
  <2> QED BY <1>7, <2>2, <2>3, FS_CardinalityType
<1>9. ASSUME NEW o \in more
      PROVE  /\ EntryOK(o) /\ o.by = c /\ o.item \in some /\ o = entry(o.item)
             /\ o.name[1] = o.item /\ o.name[2] # Home /\ o.name[3] \in 0..Cardinality(dest)
             /\ o.name = S!FreeName(o.item)
  <2>1. PICK i \in some : o = entry(i)
        OBVIOUS
  <2>2. PICK m \in 0..Cardinality(dest) : entry(i).name = <<i, key[i], m>>
                                          /\ key[i] \in Keys \cup {Literal}
        BY <1>6
  <2>3. o.by = c /\ o.item = i /\ o.name = <<i, key[i], m>> /\ o.name = S!FreeName(i)
        /\ DOMAIN o = {"by", "item", "name"}
        BY <2>1, <2>2
  <2>4. key[i] # Home /\ key[i] \in Keys \cup {Literal, Home} /\ i \in Items /\ m \in Nat
        BY <1>5, <1>7, <2>2, SharesAssumption
  <2>5. \E k \in Keys \cup {Literal, Home}, j \in Nat :
          o.name = <<o.item, k, j>> /\ (k = Home => j = 0)
        BY <2>3, <2>4
  <2>6. EntryOK(o)
        BY <2>3, <2>4, <2>5 DEF EntryOK
  <2>7. o = entry(o.item)
        BY <2>1, <2>3
  <2>8. o.name[1] = o.item /\ o.name[2] = key[i] /\ o.name[3] = m
        BY <2>3
  <2> HIDE DEF entry
  <2> QED BY <2>2, <2>3, <2>4, <2>6, <2>7, <2>8
<1>10. dest' = dest \cup more
       BY <1>4
<1> HIDE DEF more, f
<1>11. DestOK(dest')
  <2>1. IsFiniteSet(dest')
        BY <1>7, <1>8, <1>10, FS_Union
  <2>2. \A o \in dest' : EntryOK(o)
        BY <1>1, <1>9, <1>10 DEF DestOK
  <2>3. \A o \in dest, p \in more : o.name # p.name
    <3>1. ASSUME NEW o \in dest, NEW p \in more PROVE o.name # p.name
      <4>1. p.item \in Items /\ p.name = S!FreeName(p.item)
            BY <1>5, <1>9
      <4> QED BY <1>1, <4>1, NameIsFree
    <3> QED BY <3>1
  <2>4. \A o, p \in more : o.name = p.name => o = p
    <3>1. ASSUME NEW o \in more, NEW p \in more, o.name = p.name PROVE o = p
      <4>1. o.item = p.item
            BY <1>9, <3>1
      <4>2. o = entry(o.item) /\ p = entry(p.item)
            BY <1>9
      <4> QED BY <4>1, <4>2
    <3> QED BY <3>1
  <2>5. \A o, p \in dest : o.name = p.name => o = p
        BY <1>1 DEF DestOK
  <2>6. \A o, p \in dest \cup more : o.name = p.name => o = p
        BY <2>3, <2>4, <2>5
  <2> QED BY <1>10, <2>1, <2>2, <2>6 DEF DestOK
<1>12. /\ Brought(c, dest') = more
       /\ \A d \in Imports \ {c} : Brought(d, dest') = Brought(d, dest)
       /\ Homes(dest') = Homes(dest)
  <2>1. {o \in dest' : o.name[2] = Home} = {o \in dest : o.name[2] = Home}
        BY <1>9, <1>10
  <2> QED BY <1>2, <1>9, <1>10, <2>1 DEF Brought, Homes
<1>13. OneEach(more)
  <2>1. ASSUME NEW o \in more, NEW p \in more, o.item = p.item PROVE o = p
    <3>1. o = entry(o.item) /\ p = entry(p.item)
          BY <1>9
    <3> QED BY <2>1, <3>1
  <2> QED BY <2>1 DEF OneEach
<1>14. /\ DOMAIN imp' = Imports /\ \A d \in Imports \ {c} : imp'[d] = imp[d]
       /\ imp'[c].pc \in Past
       /\ ImportOK(imp'[c], more, Homes(dest), link, Foreign, Rebuilt, Allowed)
  <2>1. CASE answered /\ some = S!Asked(c)
    <3> DEFINE i == [imp[c] EXCEPT !.pc = "names", !.landed = some]
    <3>1. S!SetImp(c, i)
          BY <1>4, <2>1
    <3>2. i.pc = "names" /\ i.next = imp[c].next /\ i.seen = imp[c].seen /\ i.list = imp[c].list
          /\ i.landed = some /\ DOMAIN i = {"pc", "list", "at", "next", "seen", "landed", "wrong"}
          BY <1>2 DEF ImportOK
    <3>3. {o.item : o \in more} = some
      <4>1. \A j \in some : entry(j) \in more /\ entry(j).item = j
            BY DEF more
      <4>2. \A o \in more : o.item \in some
            BY <1>9
      <4> HIDE DEF entry
      <4> QED BY <4>1, <4>2
    <3>4. ImportOK(i, more, Homes(dest), link, Foreign, Rebuilt, Allowed)
      <4> HIDE DEF i
      <4> QED BY <1>1, <1>2, <1>3, <1>9, <1>13, <2>1, <3>2, <3>3 DEF ImportOK, Early, Past
    <3> HIDE DEF i
    <3> QED BY <1>1, <3>1, <3>2, <3>4, SetOne DEF Past
  <2>2. CASE ~(answered /\ some = S!Asked(c))
    <3> DEFINE i == [S!Waiting EXCEPT !.pc = "error"]
    <3>1. S!SetImp(c, i)
          BY <1>4, <2>2 DEF S!Fails
    <3>2. i.pc = "error"
          BY DEF S!Waiting
    <3>3. ImportOK(i, more, Homes(dest), link, Foreign, Rebuilt, Allowed)
          BY <1>13, EndsBadly
    <3> HIDE DEF i
    <3> QED BY <1>1, <3>1, <3>2, <3>3, SetOne DEF Past
  <2> QED BY <2>1, <2>2
<1>15. Few'
  <2> DEFINE old == {d \in Imports : imp[d].pc \in Past}
             new == {d \in Imports : imp'[d].pc \in Past}
  <2>1. new = old \cup {c} /\ c \notin old
        BY <1>1, <1>14 DEF Past
  <2>2. IsFiniteSet(old) /\ Cardinality(old) \in Nat
        BY ItemsFinite
  <2>3. Cardinality(new) = Cardinality(old) + 1 /\ Cardinality(new) \in 0..Cardinality(Imports)
    <3>1. Cardinality(old \cup {c}) = Cardinality(old) + 1
      <4> HIDE DEF old
      <4> QED BY <2>1, <2>2, FS_AddElement
    <3>2. new \in SUBSET Imports
          OBVIOUS
    <3>3. Cardinality(new) \in 0..Cardinality(Imports)
      <4> HIDE DEF new
      <4> QED BY <3>2, ItemsFinite
    <3> QED BY <2>1, <3>1, <3>3
  <2> HIDE DEF new, old, n
  <2>4. Cardinality(dest') \in Nat /\ Cardinality(dest') <= Cardinality(dest) + Cardinality(more)
    <3>1. Cardinality(dest') = Cardinality(dest) + Cardinality(more) - Cardinality(dest \cap more)
          BY <1>7, <1>8, <1>10, FS_Union
    <3>2. Cardinality(dest \cap more) \in Nat
          BY <1>7, FS_Intersection, FS_CardinalityType
    <3>3. Cardinality(dest') \in Nat
          BY <1>11, FS_CardinalityType DEF DestOK
    <3> QED BY <1>7, <1>8, <3>1, <3>2, <3>3
  <2>5. PICK a, b, k, d, m \in Nat :
          /\ a = Cardinality(old) /\ b = Cardinality(Imports) /\ k = n
          /\ d = Cardinality(dest) /\ m = Cardinality(more)
        BY <1>7, <1>8, <2>2
  <2>6. d <= k * (2 + a)
        BY <1>1, <2>5 DEF Few, old, n
  <2>7. d + m <= k * (2 + (a + 1))
    <3>1. k * (2 + (a + 1)) = k * (2 + a) + k /\ m <= k /\ k * (2 + a) \in Nat
          BY <1>8, <2>5
    <3> QED BY <2>6, <3>1
  <2>8. Cardinality(dest') <= n * (2 + Cardinality(new))
        BY <2>3, <2>4, <2>5, <2>7
  <2>9. Cardinality(dest) <= n * (2 + Cardinality(Imports))
    <3>1. (2 + a) * k <= (2 + b) * k
      <4>1. 2 + a <= 2 + b /\ 2 + a \in Nat /\ 2 + b \in Nat
            BY <2>3, <2>5
      <4> QED BY <4>1, Scaled
    <3>2. (2 + a) * k = k * (2 + a) /\ (2 + b) * k = k * (2 + b) /\ k * (2 + a) \in Nat
          /\ k * (2 + b) \in Nat
          OBVIOUS
    <3> QED BY <2>5, <2>6, <3>1, <3>2
  <2>10. \A o \in dest' : o.name[3] <= n * (2 + Cardinality(Imports))
    <3>1. \A o \in dest : o.name[3] <= n * (2 + Cardinality(Imports))
          BY <1>1 DEF Few, n
    <3>2. ASSUME NEW o \in more PROVE o.name[3] <= n * (2 + Cardinality(Imports))
      <4>1. o.name[3] \in 0..Cardinality(dest)
            BY <1>9
      <4>2. n * (2 + Cardinality(Imports)) \in Nat
            BY <1>7
      <4> QED BY <1>7, <2>9, <4>1, <4>2
    <3> QED BY <1>10, <3>1, <3>2
  <2> QED BY <2>8, <2>10 DEF Few, new, n
<1>16. (\E o \in dest' : o.by # Nil /\ o.name[2] = Home) => Agreed
       BY <1>9, <1>10 DEF SharesInv
<1>17. ForeignStay(dest', Foreign)
       BY <1>9, <1>10 DEF SharesInv, ForeignStay
<1>18. ASSUME NEW d \in Imports
       PROVE  ImportOK(imp'[d], Brought(d, dest'), Homes(dest'), link, Foreign, Rebuilt, Allowed)
  <2>1. CASE d = c
        BY <1>12, <1>14, <2>1
  <2>2. CASE d # c
    <3>1. ImportOK(imp[d], Brought(d, dest), Homes(dest), link, Foreign, Rebuilt, Allowed)
          BY DEF SharesInv, Kept
    <3> QED BY <1>12, <1>14, <2>2, <3>1
  <2> QED BY <2>1, <2>2
<1> HIDE DEF entry
<1> QED BY <1>10, <1>11, <1>14, <1>15, <1>16, <1>17, <1>18 DEF Moved
\* What an import waits for its names with.
LEMMA NamesOf ==
  ASSUME NEW i, NEW b, NEW homes, NEW l, NEW foreign, NEW rebuilt, NEW allowed,
         ImportOK(i, b, homes, l, foreign, rebuilt, allowed), i.pc \in {"names", "rename"}
  PROVE  /\ ListOK(i.list, foreign) /\ allowed /\ OneEach(b)
         /\ i.landed = ItemsOf(i.list) /\ {o.item : o \in b} = i.landed
         /\ DOMAIN i = {"pc", "list", "at", "next", "seen", "landed", "wrong"}
         /\ i.pc = "names" => i.next = 1 /\ i.seen = 0
         /\ i.pc = "rename" => rebuilt /\ Renaming(i, b, homes, l)
BY DEF ImportOK

\* The one entry of an item that the import has brought, by the name it was given.
LEMMA OwnName ==
  ASSUME DestOK(dest), NEW c, OneEach(Brought(c, dest)), NEW o \in Brought(c, dest)
  PROVE  S!LandedAs(c, o.item) = o.name /\ o.name[1] = o.item
<1>1. o \in dest /\ o.by = c
      BY DEF Brought
<1>2. \A p \in dest : p.by = c /\ p.item = o.item => p = o
      BY DEF OneEach, Brought
<1>3. (CHOOSE p \in dest : p.by = c /\ p.item = o.item) = o
      BY <1>1, <1>2
<1>4. o.name[1] = o.item
      BY <1>1 DEF DestOK, EntryOK
<1> QED BY <1>3, <1>4 DEF S!LandedAs

LEMMA ReadNamesStep ==
  ASSUME SharesInv, NEW c \in Imports, S!ReadNames(c)
  PROVE  Moved(c)
<1>0. DestOK(dest)
      BY DEF SharesInv
<1>1. imp[c].pc = "names" /\ dest' = dest
      BY DEF S!ReadNames
<1>2. CASE S!Fails(c)
      BY <1>1, <1>2, ErrorStep
<1>3. CASE ~S!Fails(c)
  <2>1. PICK shown \in SUBSET S!Asked(c) :
          S!SetImp(c, [imp[c] EXCEPT
            !.at = [j \in DOMAIN imp[c].list |-> S!LandedName(c, shown, imp[c].list[j])],
            !.wrong = S!Misnamed(c, shown),
            !.pc = IF S!Rebuilds THEN "rename" ELSE "ok"])
        BY <1>3 DEF S!ReadNames
  <2>2. Rebuilt <=> S!Rebuilds
        BY DEF Rebuilt, S!Rebuilds
  <2> DEFINE b == Brought(c, dest)
             list == imp[c].list
             at == [j \in DOMAIN list |-> S!LandedName(c, shown, list[j])]
             wrong == S!Misnamed(c, shown)
             stop == IF S!Rebuilds THEN "rename" ELSE "ok"
             i == [imp[c] EXCEPT !.at = at, !.wrong = wrong, !.pc = stop]
  <2>3. S!SetImp(c, i) /\ (Rebuilt => Len(list) = link.items)
    <3>1. S!Rebuilds => S!AllThere(c)
          BY <1>3 DEF S!ReadNames
    <3> QED BY <2>1, <2>2, <3>1 DEF S!AllThere
  <2>4. ImportOK(imp[c], b, Homes(dest), link, Foreign, Rebuilt, Allowed)
        BY DEF SharesInv, Kept
  <2>5. /\ ListOK(list, Foreign) /\ Allowed /\ OneEach(b)
        /\ imp[c].landed = ItemsOf(list) /\ {o.item : o \in b} = imp[c].landed
        /\ imp[c].next = 1 /\ imp[c].seen = 0
        /\ DOMAIN imp[c] = {"pc", "list", "at", "next", "seen", "landed", "wrong"}
        BY <1>1, <2>4, NamesOf
  <2>6. /\ i.pc = stop /\ i.next = 1 /\ i.seen = 0 /\ i.list = list /\ i.at = at
        /\ i.landed = imp[c].landed /\ i.wrong = wrong
        /\ DOMAIN i = {"pc", "list", "at", "next", "seen", "landed", "wrong"}
        BY <2>5
  <2>7. DOMAIN list = 1..Len(list) /\ Len(list) \in Nat /\ DOMAIN at = 1..Len(list)
        BY <2>5 DEF ListOK
  <2>8. ASSUME NEW j \in 1..Len(list) PROVE at[j][1] = list[j].item
    <3>1. list[j].item \in ItemsOf(list)
          BY DEF ItemsOf
    <3>2. PICK o \in b : o.item = list[j].item
          BY <2>5, <3>1
    <3>3. S!LandedAs(c, list[j].item)[1] = list[j].item
          BY <1>0, <2>5, <3>2, OwnName
    <3>4. S!SharedName(list[j])[1] = list[j].item
          BY DEF S!SharedName
    <3> QED BY <2>7, <3>3, <3>4 DEF S!LandedName
  <2>9. ASSUME NEW j \in 1..Len(list), NEW o \in b, o.item = list[j].item, o.item \notin wrong
        PROVE  o.name = at[j]
    <3>1. S!LandedAs(c, list[j].item) = o.name
          BY <1>0, <2>5, <2>9, OwnName
    <3>2. list[j].item \in S!Asked(c)
          BY <2>7 DEF S!Asked
    <3>3. CASE list[j].item \in shown
          BY <2>7, <3>1, <3>3 DEF S!LandedName
    <3>4. CASE list[j].item \notin shown
      <4>1. S!SharedName(list[j]) = S!LandedAs(c, list[j].item)
            BY <2>7, <2>9, <3>2, <3>4 DEF S!Misnamed
      <4> QED BY <2>7, <3>1, <3>4, <4>1 DEF S!LandedName
    <3> QED BY <3>3, <3>4
  <2>10. Renamed(link, list, 1) = {} /\ Cardinality({}) = 0
    <3>1. 1 .. 1 - 1 = {}
          OBVIOUS
    <3> QED BY <3>1, FS_EmptySet DEF Renamed
  <2> HIDE DEF i, b, list, at, wrong, stop
  <2>11. Rebuilt => Renaming(i, b, Homes(dest), link)
    <3>1. 1 \in 1 .. Len(list) + 1
          BY <2>7
    <3>2. i.seen = Cardinality(Renamed(link, i.list, i.next)) /\ Renamed(link, i.list, i.next) = {}
          BY <2>6, <2>10
    <3>3. \A j \in i.next .. Len(i.list), o \in b :
            o.item = i.list[j].item /\ o.item \notin i.wrong => o.name = i.at[j]
          BY <2>6, <2>9
    <3>4. Rebuilt => Len(i.list) = link.items
          BY <2>3, <2>6
    <3>5. DOMAIN i.at = 1..Len(i.list) /\ i.next \in 1 .. Len(i.list) + 1
          BY <2>6, <2>7, <3>1
    <3>6. \A j \in 1..Len(i.list) : i.at[j][1] = i.list[j].item
          BY <2>6, <2>8
    <3> QED BY <3>2, <3>3, <3>4, <3>5, <3>6 DEF Renaming
  <2>12. ImportOK(i, b, Homes(dest), link, Foreign, Rebuilt, Allowed)
    <3>1. CASE Rebuilt
      <4>1. i.pc = "rename"
            BY <2>2, <2>6, <3>1 DEF stop
      <4> QED BY <2>5, <2>6, <2>11, <3>1, <4>1 DEF ImportOK, Early, Past
    <3>2. CASE ~Rebuilt
      <4>1. i.pc = "ok"
            BY <2>2, <2>6, <3>2 DEF stop
      <4> QED BY <2>5, <2>6, <3>2, <4>1 DEF ImportOK, Early, Past
    <3> QED BY <3>1, <3>2
  <2>13. i.pc \in Past
         BY <2>6 DEF stop, Past
  <2> QED BY <1>1, <2>3, <2>12, <2>13, QuietMove DEF b
<1> QED BY <1>2, <1>3

LEMMA RenamedOne ==
  ASSUME NEW l, NEW list, NEW n \in Nat \ {0}
  PROVE  /\ Takes(l, list, n) => Renamed(l, list, n + 1) = Renamed(l, list, n) \cup {list[n].item}
         /\ ~Takes(l, list, n) => Renamed(l, list, n + 1) = Renamed(l, list, n)
<1>1. 1 .. (n + 1) - 1 = (1 .. n - 1) \cup {n}
      OBVIOUS
<1> QED BY <1>1 DEF Renamed

LEMMA RenamedIn ==
  ASSUME NEW l, NEW list, NEW foreign, ListOK(list, foreign), NEW n \in 1 .. Len(list) + 1
  PROVE  /\ Renamed(l, list, n) \in SUBSET Items /\ IsFiniteSet(Renamed(l, list, n))
         /\ Cardinality(Renamed(l, list, n)) \in 0..Cardinality(Items)
         /\ n <= Len(list) => list[n].item \notin Renamed(l, list, n)
<1>1. Len(list) \in Nat /\ 1 .. n - 1 \subseteq 1..Len(list)
      BY DEF ListOK
<1>2. Renamed(l, list, n) \in SUBSET Items
      BY <1>1 DEF Renamed, ListOK
<1>3. ASSUME n <= Len(list), list[n].item \in Renamed(l, list, n) PROVE FALSE
  <2>1. PICK m \in 1 .. n - 1 : list[m].item = list[n].item
        BY <1>3 DEF Renamed
  <2>2. m \in 1..Len(list) /\ n \in 1..Len(list) /\ m # n
        BY <1>1, <1>3
  <2> QED BY <2>1, <2>2 DEF ListOK
<1> QED BY <1>2, <1>3, ItemsFinite

\* What an import knows still holds when an entry gets a name under the key, whoever's
\* the entry is and whoever gave it the name.
LEMMA NamedAlike ==
  ASSUME NEW i, NEW b, NEW homes, NEW l, NEW foreign, NEW rebuilt, NEW allowed,
         ImportOK(i, b, homes, l, foreign, rebuilt, allowed),
         NEW o, NEW p, p.item = o.item, p.name[2] = Home,
         o.item \notin foreign, o.name[2] # Home,
         NEW now, now = IF o \in b THEN (b \ {o}) \cup {p} ELSE b
  PROVE  ImportOK(i, now, homes \cup {o.item}, l, foreign, rebuilt, allowed)
<1> DEFINE more == homes \cup {o.item}
<1>1. /\ \A q \in now : q = p \/ (q \in b /\ q # o)
      /\ o \notin b => now = b
      /\ o \in b => p \in now
      OBVIOUS
<1>2. \A q \in b : q # o => q \in now
      OBVIOUS
<1>3. OneEach(b)
      BY DEF ImportOK
<1>4. OneEach(now)
  <2>1. CASE o \notin b
        BY <1>1, <1>3, <2>1
  <2>2. CASE o \in b
    <3>1. \A q \in b : q # o => q.item # o.item
          BY <1>3, <2>2 DEF OneEach
    <3> QED BY <1>1, <1>3, <3>1 DEF OneEach
  <2> QED BY <2>1, <2>2
<1>5. {q.item : q \in now} = {q.item : q \in b}
  <2>1. CASE o \notin b
        BY <1>1, <2>1
  <2>2. CASE o \in b
        BY <1>1, <1>2, <2>2
  <2> QED BY <2>1, <2>2
<1>6. b = {} => now = {}
      BY <1>1
<1>7. ASSUME Renaming(i, b, homes, l) PROVE Renaming(i, now, more, l)
  <2>1. ASSUME NEW j \in i.next .. Len(i.list), NEW q \in now, q.item = i.list[j].item, q.item \notin i.wrong
        PROVE  q.name = i.at[j] \/ q.item \in more
    <3>1. CASE q = p
          BY <3>1
    <3>2. CASE q \in b
          BY <1>7, <2>1, <3>2 DEF Renaming
    <3> QED BY <1>1, <3>1, <3>2
  <2>2. ASSUME NEW q \in now, q.item \in Renamed(l, i.list, i.next), q.item \notin i.wrong
        PROVE  q.name[2] = Home
    <3>1. CASE q = p
          BY <3>1
    <3>2. CASE q \in b
          BY <1>7, <2>2, <3>2 DEF Renaming
    <3> QED BY <1>1, <3>1, <3>2
  <2> HIDE DEF more
  <2> QED BY <1>7, <2>1, <2>2 DEF Renaming
<1>8. ASSUME Whole(b, l, foreign) PROVE Whole(now, l, foreign)
  <2>1. o \notin b
        BY <1>8 DEF Whole
  <2> QED BY <1>1, <1>8, <2>1
<1> HIDE DEF more
<1>9. ImportOK(i, now, more, l, foreign, rebuilt, allowed)
      BY <1>4, <1>5, <1>6, <1>7, <1>8 DEF ImportOK
<1> QED BY <1>9 DEF more

\* A name under the key is refused where the item has one.
LEMMA HomeName ==
  ASSUME DestOK(dest), NEW o \in dest
  PROVE  /\ o.name[1] = o.item
         /\ o.name[2] = Home <=> o.name = <<o.item, Home, 0>>
         /\ o.item \in Homes(dest) <=> <<o.item, Home, 0>> \in S!Names
<1>1. \A q \in dest : \E k \in Keys \cup {Literal, Home}, n \in Nat :
        q.name = <<q.item, k, n>> /\ (k = Home => n = 0)
      BY DEF DestOK, EntryOK
<1>2. \A q \in dest : q.name[1] = q.item /\ (q.name[2] = Home <=> q.name = <<q.item, Home, 0>>)
      BY <1>1
<1>3. <<o.item, Home, 0>> \in S!Names => o.item \in Homes(dest)
  <2> SUFFICES ASSUME <<o.item, Home, 0>> \in S!Names PROVE o.item \in Homes(dest)
      OBVIOUS
  <2>1. PICK q \in dest : q.name = <<o.item, Home, 0>>
        BY DEF S!Names
  <2>2. q.name[1] = o.item /\ q.name[2] = Home
        BY <2>1
  <2> QED BY <1>2, <2>2 DEF Homes
<1>4. o.item \in Homes(dest) => <<o.item, Home, 0>> \in S!Names
  <2> SUFFICES ASSUME o.item \in Homes(dest) PROVE <<o.item, Home, 0>> \in S!Names
      OBVIOUS
  <2>1. PICK q \in dest : q.name[2] = Home /\ q.item = o.item
        BY DEF Homes
  <2>2. q.name = <<o.item, Home, 0>>
        BY <1>2, <2>1
  <2> QED BY <2>2 DEF S!Names
<1> QED BY <1>2, <1>3, <1>4

\* An entry gets a name under the key.
LEMMA OneNamed ==
  ASSUME SharesInv, NEW o \in dest, o.item \notin Foreign, o.item \notin Homes(dest),
         NEW p, p = [o EXCEPT !.name = <<o.item, Home, 0>>], dest' = (dest \ {o}) \cup {p}
  PROVE  /\ p.by = o.by /\ p.item = o.item /\ p.name = <<o.item, Home, 0>> /\ p \in dest'
         /\ DestOK(dest') /\ ForeignStay(dest', Foreign)
         /\ Cardinality(dest') \in Nat /\ Cardinality(dest') <= Cardinality(dest)
         /\ \A q \in dest' : q.name[3] <= Cardinality(Items) * (2 + Cardinality(Imports))
         /\ o.item \in Homes(dest')
         /\ \A d \in Imports :
              ImportOK(imp[d], Brought(d, dest'), Homes(dest'), link, Foreign, Rebuilt, Allowed)
<1>1. DestOK(dest) /\ Few /\ ForeignStay(dest, Foreign)
      BY DEF SharesInv
<1>2. EntryOK(o) /\ DOMAIN o = {"by", "item", "name"}
      BY <1>1 DEF DestOK, EntryOK
<1> DEFINE target == <<o.item, Home, 0>>
<1>3. /\ p.by = o.by /\ p.item = o.item /\ p.name = target /\ p \in dest'
      /\ DOMAIN p = {"by", "item", "name"} /\ p.name[2] = Home /\ p.name[3] = 0
      BY <1>2
<1>4. EntryOK(p)
  <2>1. \E k \in Keys \cup {Literal, Home}, n \in Nat : p.name = <<p.item, k, n>> /\ (k = Home => n = 0)
        BY <1>3
  <2> QED BY <1>2, <1>3, <2>1 DEF EntryOK
<1>5. o.name[2] # Home /\ \A q \in dest : q.name # target
  <2>1. target \notin S!Names
        BY <1>1, HomeName
  <2> QED BY <1>1, <2>1, HomeName DEF S!Names
<1> HIDE DEF target
<1>6. IsFiniteSet(dest) /\ IsFiniteSet(dest') /\ Cardinality(dest') \in Nat
      /\ Cardinality(dest') <= Cardinality(dest)
  <2>1. IsFiniteSet(dest) /\ Cardinality(dest) \in Nat
        BY <1>1, FS_CardinalityType DEF DestOK
  <2>2. IsFiniteSet(dest \ {o}) /\ Cardinality(dest \ {o}) = Cardinality(dest) - 1
        BY <2>1, FS_RemoveElement
  <2>3. p \notin dest \ {o}
        BY <1>3, <1>5
  <2>4. IsFiniteSet(dest') /\ Cardinality(dest') = Cardinality(dest \ {o}) + 1
        BY <2>2, <2>3, FS_AddElement
  <2> QED BY <2>1, <2>2, <2>4
<1>7. DestOK(dest')
  <2>1. \A q \in dest' : EntryOK(q)
        BY <1>1, <1>4 DEF DestOK
  <2>2. ASSUME NEW x \in dest', NEW y \in dest', x.name = y.name PROVE x = y
    <3>1. CASE x = p /\ y = p
          BY <3>1
    <3>2. CASE x \in dest /\ y \in dest
          BY <1>1, <2>2, <3>2 DEF DestOK
    <3>3. CASE x = p /\ y \in dest
          BY <1>3, <1>5, <2>2, <3>3
    <3>4. CASE x \in dest /\ y = p
          BY <1>3, <1>5, <2>2, <3>4
    <3> QED BY <3>1, <3>2, <3>3, <3>4
  <2> QED BY <1>6, <2>1, <2>2 DEF DestOK
<1>8. ForeignStay(dest', Foreign)
      BY <1>1, <1>3 DEF ForeignStay
<1>9. ASSUME NEW q \in dest'
      PROVE  q.name[3] <= Cardinality(Items) * (2 + Cardinality(Imports))
  <2>1. CASE q \in dest
        BY <1>1, <2>1 DEF Few
  <2>2. CASE q = p
    <3>1. Cardinality(Items) * (2 + Cardinality(Imports)) \in Nat
          BY ItemsFinite
    <3> QED BY <1>3, <2>2, <3>1
  <2> QED BY <2>1, <2>2
<1>10. Homes(dest') = Homes(dest) \cup {o.item}
  <2>1. {q \in dest' : q.name[2] = Home} = {q \in dest : q.name[2] = Home} \cup {p}
        BY <1>3, <1>5
  <2> QED BY <1>3, <2>1 DEF Homes
<1>11. ASSUME NEW d \in Imports
       PROVE  ImportOK(imp[d], Brought(d, dest'), Homes(dest'), link, Foreign, Rebuilt, Allowed)
  <2> DEFINE b == Brought(d, dest)
  <2>1. ImportOK(imp[d], b, Homes(dest), link, Foreign, Rebuilt, Allowed)
        BY DEF SharesInv, Kept
  <2>2. Brought(d, dest') = IF o \in b THEN (b \ {o}) \cup {p} ELSE b
    <3>1. o \in b <=> o.by = d
          BY DEF Brought
    <3> QED BY <1>3, <3>1 DEF Brought
  <2> HIDE DEF b
  <2>3. ImportOK(imp[d], Brought(d, dest'), Homes(dest) \cup {o.item},
                 link, Foreign, Rebuilt, Allowed)
    <3>1. p.item = o.item /\ p.name[2] = Home /\ o.item \notin Foreign /\ o.name[2] # Home
          BY <1>3, <1>5
    <3> QED BY <2>1, <2>2, <3>1, NamedAlike
  <2> QED BY <1>10, <2>3
<1> QED BY <1>3, <1>6, <1>7, <1>8, <1>9, <1>10, <1>11 DEF target

LEMMA RenameStep ==
  ASSUME SharesInv, NEW c \in Imports, S!Rename(c)
  PROVE  Moved(c)
<1> DEFINE b == Brought(c, dest)
           list == imp[c].list
           n == imp[c].next
           at == imp[c].at
           gone == Renamed(link, list, n)
<1>1. imp[c].pc = "rename" /\ n <= Len(list) /\ DOMAIN imp = Imports /\ DestOK(dest) /\ Few
      BY DEF S!Rename, SharesInv
<1>2. ImportOK(imp[c], b, Homes(dest), link, Foreign, Rebuilt, Allowed)
      BY DEF SharesInv, Kept
<1>3. /\ ListOK(list, Foreign) /\ Allowed /\ OneEach(b)
      /\ imp[c].landed = ItemsOf(list) /\ {o.item : o \in b} = imp[c].landed
      /\ Rebuilt /\ Renaming(imp[c], b, Homes(dest), link)
      /\ DOMAIN imp[c] = {"pc", "list", "at", "next", "seen", "landed", "wrong"}
      BY <1>1, <1>2, NamesOf
<1>4. n \in 1..Len(list) /\ Len(list) \in Nat /\ n \in Nat \ {0} /\ n \in 1 .. Len(list) + 1
      /\ n + 1 \in 1 .. Len(list) + 1
      BY <1>1, <1>3 DEF ListOK, Renaming
<1>5. Takes(link, list, n) <=> S!Contains(link.keys, list[n].key)
      BY DEF Takes
<1>6. CASE ~Takes(link, list, n) /\ dest' = dest
           /\ S!SetImp(c, [imp[c] EXCEPT !.next = @ + 1])
  <2> DEFINE i == [imp[c] EXCEPT !.next = @ + 1]
  <2>1. /\ i.pc = "rename" /\ i.next = n + 1 /\ i.seen = imp[c].seen /\ i.list = list /\ i.at = at
        /\ i.landed = imp[c].landed /\ i.wrong = imp[c].wrong
        /\ DOMAIN i = {"pc", "list", "at", "next", "seen", "landed", "wrong"}
        BY <1>1, <1>3
  <2>2. Renamed(link, list, n + 1) = gone
        BY <1>4, <1>6, RenamedOne
  <2>3. S!SetImp(c, i)
        BY <1>6
  <2> HIDE DEF i, b, list, n, at, gone
  <2>4. \A j \in n + 1 .. Len(list) : j \in n .. Len(list)
        BY <1>4
  <2>5. Renaming(i, b, Homes(dest), link)
        BY <1>3, <1>4, <2>1, <2>2, <2>4 DEF Renaming, list, n, at, gone
  <2>6. ImportOK(i, b, Homes(dest), link, Foreign, Rebuilt, Allowed)
        BY <1>3, <2>1, <2>5 DEF ImportOK, Early, Past
  <2> QED BY <1>6, <2>1, <2>3, <2>6, QuietMove DEF Past, b
<1>7. CASE S!Fails(c) /\ dest' = dest
      BY <1>7, ErrorStep
<1>8. ASSUME Takes(link, list, n), NEW target, target = <<list[n].item, Home, 0>>, target \notin S!Names,
             NEW o \in dest, o.name = at[n],
             dest' = (dest \ {o}) \cup {[o EXCEPT !.name = target]},
             S!SetImp(c, [imp[c] EXCEPT !.next = @ + 1, !.seen = @ + 1])
      PROVE  Moved(c)
  <2> DEFINE i == [imp[c] EXCEPT !.next = @ + 1, !.seen = @ + 1]
             p == [o EXCEPT !.name = target]
             item == list[n].item
             now == Brought(c, dest')
  <2>1. /\ i.pc = "rename" /\ i.next = n + 1 /\ i.seen = imp[c].seen + 1 /\ i.list = list /\ i.at = at
        /\ i.landed = imp[c].landed /\ i.wrong = imp[c].wrong /\ i # imp[c]
        /\ DOMAIN i = {"pc", "list", "at", "next", "seen", "landed", "wrong"}
    <3>1. n + 1 # n
          BY <1>4
    <3> QED BY <1>1, <1>3, <3>1
  <2>2. o.item = item /\ item \notin Homes(dest)
    <3>1. at[n][1] = item
          BY <1>3, <1>4 DEF Renaming
    <3>2. o.name[1] = o.item
          BY <1>1, HomeName
    <3>3. o.item = item
          BY <1>8, <3>1, <3>2
    <3> QED BY <1>1, <1>8, <3>3, HomeName
  <2>3. item \notin Foreign
    <3>1. link.keys \in Seq(Keys)
          BY <1>3 DEF Allowed, SharesInv, LinkOK, KeyLists
    <3>2. list[n].key \in Keys
      <4>1. PICK m \in 1..Len(link.keys) : link.keys[m] = list[n].key
            BY <1>8 DEF Takes, S!Contains
      <4> QED BY <3>1, <4>1
    <3> QED BY <1>3, <1>4, <3>2, SharesAssumption DEF ListOK
  <2>4. \/ o.by = c /\ o \in b
        \/ item \in imp[c].wrong
    <3> SUFFICES ASSUME item \notin imp[c].wrong PROVE o.by = c /\ o \in b
        OBVIOUS
    <3>1. item \in ItemsOf(list)
          BY <1>4 DEF ItemsOf
    <3>2. PICK q \in b : q.item = item
          BY <1>3, <3>1
    <3>3. n \in n .. Len(list)
          BY <1>4
    <3>4. q.name = at[n]
          BY <1>3, <2>2, <3>2, <3>3 DEF Renaming
    <3>5. q \in dest /\ q.by = c
          BY DEF Brought
    <3>6. q = o
          BY <1>1, <1>8, <3>4, <3>5 DEF DestOK
    <3> QED BY <3>2, <3>5, <3>6
  <2>5. p = [o EXCEPT !.name = <<o.item, Home, 0>>] /\ dest' = (dest \ {o}) \cup {p}
        BY <1>8, <2>2
  <2>6. S!SetImp(c, i)
        BY <1>8
  <2> HIDE DEF i, p, b, list, n, at, item, gone, now
  <2>7. /\ imp'[c] = i /\ DOMAIN imp' = Imports
        /\ \A d \in Imports \ {c} : imp'[d] = imp[d]
        BY <1>1, <2>6, SetOne
  <2>8. o.item \notin Foreign /\ o.item \notin Homes(dest)
        BY <2>2, <2>3
  <2>9. /\ p.by = o.by /\ p.item = o.item /\ p.name = <<o.item, Home, 0>> /\ p \in dest'
        /\ DestOK(dest') /\ ForeignStay(dest', Foreign)
        /\ Cardinality(dest') \in Nat /\ Cardinality(dest') <= Cardinality(dest)
        /\ \A q \in dest' : q.name[3] <= Cardinality(Items) * (2 + Cardinality(Imports))
        /\ o.item \in Homes(dest')
        /\ \A d \in Imports :
             ImportOK(imp[d], Brought(d, dest'), Homes(dest'), link, Foreign, Rebuilt, Allowed)
        BY <2>5, <2>8, OneNamed
  <2>10. /\ OneEach(now) /\ {q.item : q \in now} = imp[c].landed
         /\ Renaming(imp[c], now, Homes(dest'), link)
    <3>1. ImportOK(imp[c], now, Homes(dest'), link, Foreign, Rebuilt, Allowed)
          BY <2>9 DEF now
    <3> QED BY <1>1, <3>1, NamesOf
  <2>11. ASSUME NEW q \in now, q.item = item, q.item \notin imp[c].wrong PROVE q.name[2] = Home
    <3>1. p.by = c /\ p.item = item
          BY <2>2, <2>4, <2>9, <2>11
    <3>2. p \in now
          BY <2>9, <3>1 DEF now, Brought
    <3>3. q = p
          BY <2>10, <2>11, <3>1, <3>2 DEF OneEach
    <3> QED BY <2>9, <3>3
  <2>12. Renaming(i, now, Homes(dest'), link)
    <3>1. Renamed(link, list, n + 1) = gone \cup {item}
          BY <1>4, <1>8, RenamedOne DEF item, gone
    <3>2. item \notin gone /\ IsFiniteSet(gone)
          BY <1>3, <1>4, RenamedIn DEF item, gone
    <3>3. Cardinality(Renamed(link, list, n + 1)) = Cardinality(gone) + 1
          BY <3>1, <3>2, FS_AddElement
    <3>4. imp[c].seen = Cardinality(gone)
          BY <1>3 DEF Renaming, gone, list, n
    <3>5. ASSUME NEW q \in now, q.item \in Renamed(link, list, n + 1), q.item \notin imp[c].wrong
          PROVE  q.name[2] = Home
      <4>1. CASE q.item = item
            BY <2>11, <3>5, <4>1
      <4>2. CASE q.item \in gone
            BY <2>10, <3>5, <4>2 DEF Renaming, gone, list, n
      <4> QED BY <3>1, <3>5, <4>1, <4>2
    <3>6. \A j \in n + 1 .. Len(list) : j \in n .. Len(list)
          BY <1>4
    <3>7. \A j \in n + 1 .. Len(list), q \in now :
            q.item = list[j].item /\ q.item \notin imp[c].wrong => q.name = at[j] \/ q.item \in Homes(dest')
          BY <2>10, <3>6 DEF Renaming, list, n, at
    <3>8. /\ Len(list) = link.items /\ DOMAIN at = 1..Len(list)
          /\ \A j \in 1..Len(list) : at[j][1] = list[j].item
          BY <1>3 DEF Renaming, list, at
    <3> QED BY <1>4, <2>1, <3>3, <3>4, <3>5, <3>7, <3>8 DEF Renaming
  <2>13. ImportOK(i, now, Homes(dest'), link, Foreign, Rebuilt, Allowed)
         BY <1>3, <2>1, <2>10, <2>12 DEF ImportOK, Early, Past
  <2>14. \A d \in Imports :
           ImportOK(imp'[d], Brought(d, dest'), Homes(dest'), link, Foreign, Rebuilt, Allowed)
    <3>1. ImportOK(imp'[c], Brought(c, dest'), Homes(dest'), link, Foreign, Rebuilt, Allowed)
          BY <2>7, <2>13 DEF now
    <3> QED BY <2>7, <2>9, <3>1
  <2>15. Few'
    <3>1. IsFiniteSet(dest) /\ imp'[c].pc \in Past
          BY <1>1, <2>1, <2>7 DEF DestOK, Past
    <3> QED BY <1>1, <2>7, <2>9, <3>1, FewStill
  <2>16. Agreed
         BY <1>3 DEF Allowed, Rebuilt
  <2>17. \A q \in dest \ dest' : q = o
         BY <2>5
  <2> QED BY <2>1, <2>2, <2>4, <2>7, <2>9, <2>14, <2>15, <2>16, <2>17 DEF Moved
<1> HIDE DEF b
<1> QED BY <1>5, <1>6, <1>7, <1>8 DEF S!Rename
\* Different items are counted alike.
LEMMA CountItems ==
  ASSUME NEW b, IsFiniteSet(b), OneEach(b)
  PROVE  /\ Cardinality({o.item : o \in b}) = Cardinality(b)
         /\ IsFiniteSet({o.item : o \in b})
<1> DEFINE f == [o \in b |-> o.item]
           items == {o.item : o \in b}
<1>1. f \in Surjection(b, items)
      BY DEF Surjection
<1>2. f \in Injection(b, items)
      BY DEF Injection, IsInjective, OneEach
<1> HIDE DEF f, items
<1>3. IsFiniteSet(items) /\ (Cardinality(items) = Cardinality(b) <=> f \in Injection(b, items))
      BY <1>1, FS_Surjection
<1> QED BY <1>2, <1>3 DEF items

LEMMA CountList ==
  ASSUME NEW list, NEW foreign, ListOK(list, foreign)
  PROVE  Cardinality(ItemsOf(list)) = Len(list)
<1> DEFINE f == [j \in 1..Len(list) |-> list[j].item]
<1>1. Len(list) \in Nat /\ IsFiniteSet(1..Len(list)) /\ Cardinality(1..Len(list)) = Len(list)
  <2>1. Len(list) \in Nat
        BY DEF ListOK
  <2>2. IsFiniteSet(1..Len(list)) /\ Cardinality(1..Len(list)) = Len(list)
        BY <2>1, FS_Interval
  <2> QED BY <2>1, <2>2
<1>2. f \in Surjection(1..Len(list), ItemsOf(list))
      BY DEF Surjection, ItemsOf
<1>3. f \in Injection(1..Len(list), ItemsOf(list))
      BY <1>2 DEF Injection, IsInjective, ListOK, Surjection
<1> HIDE DEF f
<1>4. Cardinality(ItemsOf(list)) = Cardinality(1..Len(list))
      BY <1>1, <1>2, <1>3, FS_Surjection
<1> QED BY <1>1, <1>4

\* When every entry was there and as many were renamed as the link says, all is.
LEMMA AllBrought ==
  ASSUME NEW list, NEW foreign, ListOK(list, foreign), NEW b, IsFiniteSet(b), OneEach(b),
         {o.item : o \in b} = ItemsOf(list), NEW l, l.keys \in KeyLists,
         NEW sel \in SUBSET Items, Selected(l, sel, foreign), ItemsOf(list) \subseteq sel,
         Len(list) = l.items, NEW r, r = Renamed(l, list, Len(list) + 1),
         Cardinality(r) = l.managed, \A o \in b : o.item \in r => o.name[2] = Home,
         \A o \in b : o.item \in foreign => o.name[2] # Home
  PROVE  Whole(b, l, foreign)
<1>1. IsFiniteSet(sel) /\ l.items = Cardinality(sel) /\ l.managed = Cardinality(sel \ foreign)
      BY ItemsFinite DEF Selected
<1>2. ItemsOf(list) = sel
      BY <1>1, CountList, FS_Subset
<1>3. Len(list) \in Nat /\ (Len(list) + 1) - 1 = Len(list)
      BY DEF ListOK
<1>4. r \in SUBSET (sel \ foreign)
  <2>1. ASSUME NEW x \in r PROVE x \in sel \ foreign
    <3>1. PICK j \in 1..Len(list) : x = list[j].item /\ Takes(l, list, j)
          BY <1>3 DEF Renamed
    <3>2. list[j].key \in Keys
      <4>1. l.keys \in Seq(Keys)
            BY DEF KeyLists
      <4>2. PICK m \in 1..Len(l.keys) : l.keys[m] = list[j].key
            BY <3>1 DEF Takes, S!Contains
      <4> QED BY <4>1, <4>2
    <3>3. list[j].key # Literal
          BY <3>2, SharesAssumption
    <3>4. x \notin foreign
          BY <3>1, <3>3 DEF ListOK
    <3>5. x \in ItemsOf(list)
          BY <3>1 DEF ItemsOf
    <3> QED BY <1>2, <3>4, <3>5
  <2> QED BY <2>1
<1>5. r = sel \ foreign
  <2>1. IsFiniteSet(sel \ foreign)
        BY <1>1, FS_Difference
  <2> QED BY <1>1, <1>4, <2>1, FS_Subset
<1>6. Cardinality(b) = l.items
      BY <1>1, <1>2, CountItems
<1> DEFINE homed == {o \in b : o.name[2] = Home}
<1>7. OneEach(homed) /\ IsFiniteSet(homed)
      BY FS_Subset DEF OneEach
<1>8. {o.item : o \in homed} = r
  <2>1. \A x \in r : x \in ItemsOf(list)
        BY <1>2, <1>5
  <2>2. \A o \in homed : o.item \in sel /\ o.item \notin foreign
        BY <1>2
  <2> QED BY <1>5, <2>1, <2>2
<1>9. Cardinality(homed) = l.managed
  <2> HIDE DEF homed
  <2> QED BY <1>7, <1>8, CountItems
<1>10. \A o \in b : o.name[2] = Home \/ o.item \in foreign
       BY <1>2, <1>5
<1> QED BY <1>6, <1>9, <1>10 DEF Whole

LEMMA FinishStep ==
  ASSUME SharesInv, NEW c \in Imports, S!Finish(c)
  PROVE  Moved(c)
<1> DEFINE b == Brought(c, dest)
           list == imp[c].list
<1>1. imp[c].pc = "rename" /\ imp[c].next > Len(list) /\ dest' = dest
      BY DEF S!Finish
<1>2. CASE S!Fails(c)
      BY <1>1, <1>2, ErrorStep
<1>3. CASE S!Succeeds(c) /\ imp[c].seen = link.managed
  <2>1. ImportOK(imp[c], b, Homes(dest), link, Foreign, Rebuilt, Allowed)
        BY DEF SharesInv, Kept
  <2>2. /\ ListOK(list, Foreign) /\ Allowed /\ OneEach(b)
        /\ imp[c].landed = ItemsOf(list) /\ {o.item : o \in b} = imp[c].landed
        /\ Rebuilt /\ Renaming(imp[c], b, Homes(dest), link)
        BY <1>1, <2>1, NamesOf
  <2>3. /\ Len(list) = link.items /\ imp[c].next \in 1 .. Len(list) + 1 /\ Len(list) \in Nat
        /\ \A o \in b : o.item \in Renamed(link, list, imp[c].next) /\ o.item \notin imp[c].wrong
                        => o.name[2] = Home
        /\ imp[c].seen = Cardinality(Renamed(link, list, imp[c].next))
        BY <2>2 DEF Renaming, ListOK
  <2>4. imp[c].next = Len(list) + 1
        BY <1>1, <2>3
  <2>5. link # Nil /\ LinkOK
        BY <2>2 DEF SharesInv, Allowed
  <2>6. PICK sel \in SUBSET Items : Selected(link, sel, Foreign) /\ ItemsOf(list) \subseteq sel
        BY <1>1, <2>5 DEF LinkOK, Lists
  <2>7. IsFiniteSet(b)
        BY FS_Subset DEF Brought, SharesInv, DestOK
  <2>8. link.keys \in KeyLists
        BY <2>5 DEF LinkOK
  <2> DEFINE r == Renamed(link, list, Len(list) + 1)
             i == [S!Waiting EXCEPT !.pc = "ok", !.landed = imp[c].landed, !.wrong = imp[c].wrong]
  <2>9. S!SetImp(c, i)
        BY <1>3 DEF S!Succeeds
  <2>10. /\ i.pc = "ok" /\ i.next = 1 /\ i.seen = 0 /\ i.landed = imp[c].landed
         /\ i.wrong = imp[c].wrong
         /\ DOMAIN i = {"pc", "list", "at", "next", "seen", "landed", "wrong"}
         BY DEF S!Waiting
  <2> HIDE DEF b, list, r, i
  <2>11. ASSUME imp[c].wrong = {} PROVE Whole(b, link, Foreign)
    <3>1. (\A o \in b : o.item \in r => o.name[2] = Home) /\ Cardinality(r) = link.managed
          BY <1>3, <2>3, <2>4, <2>11 DEF r
    <3>2. \A o \in b : o.item \in Foreign => o.name[2] # Home
      <4>1. c # Nil
            BY SharesAssumption
      <4> QED BY <4>1 DEF SharesInv, ForeignStay, b, Brought
    <3> QED BY <3>2, <2>2, <2>3, <2>6, <2>7, <2>8, <3>1, AllBrought DEF r
  <2>12. ImportOK(i, b, Homes(dest), link, Foreign, Rebuilt, Allowed)
         BY <2>2, <2>10, <2>11 DEF ImportOK, Early, Past
  <2> QED BY <1>1, <2>9, <2>10, <2>12, QuietMove DEF Past, b
<1> QED BY <1>2, <1>3 DEF S!Finish
-----------------------------------------------------------------------------
\* What an import lists is what was selected, or what is left of it.
LEMMA ListsKept ==
  ASSUME SharesInv, NEW c \in Imports, S!ImportStep(c), Lists(imp'[c])
  PROVE  \/ Lists(imp[c]) /\ imp'[c].list = imp[c].list
         \/ ItemsOf(imp'[c].list) \subseteq share
<1>1. DOMAIN imp = Imports /\ DOMAIN imp[c] = {"pc", "list", "at", "next", "seen", "landed", "wrong"}
      BY DEF SharesInv, Kept, ImportOK
<1>2. \A i : S!SetImp(c, i) => imp'[c] = i
      BY <1>1, SetOne
<1>3. ASSUME S!Fails(c) \/ S!Succeeds(c) PROVE FALSE
  <2>1. CASE S!Fails(c)
    <3>1. imp'[c] = [S!Waiting EXCEPT !.pc = "error"]
          BY <1>2, <2>1 DEF S!Fails
    <3> QED BY <1>3, <3>1 DEF S!Waiting, Lists
  <2>2. CASE S!Succeeds(c)
    <3>1. imp'[c] = [S!Waiting EXCEPT !.pc = "ok", !.landed = imp[c].landed, !.wrong = imp[c].wrong]
          BY <1>2, <2>2 DEF S!Succeeds
    <3> QED BY <3>1 DEF S!Waiting, Lists
  <2> QED BY <1>3, <2>1, <2>2
<1>4. ASSUME NEW force \in Forces, S!Begin(c, force) PROVE FALSE
  <2>1. S!SetImp(c, [imp[c] EXCEPT !.pc = "list"])
        BY <1>3, <1>4 DEF S!Begin
  <2>2. imp'[c] = [imp[c] EXCEPT !.pc = "list"]
        BY <1>2, <2>1
  <2>3. imp'[c].pc = "list"
        BY <1>1, <2>2
  <2> QED BY <2>3 DEF Lists
<1>5. CASE S!ListShare(c)
  <2> DEFINE n == Cardinality(share)
             seq == S!SetToSeq(share)
             list == [j \in 1..n |-> [item |-> seq[j], key |-> key[seq[j]]]]
             i == [imp[c] EXCEPT !.pc = "transfer", !.list = list]
  <2>1. S!SetImp(c, i)
        BY <1>3, <1>5, SameCount DEF S!ListShare
  <2>2. imp'[c] = i
        BY <1>2, <2>1
  <2>3. imp'[c].list = list
    <3> HIDE DEF list
    <3> QED BY <1>1, <2>2
  <2>4. share \in SUBSET Items /\ IsFiniteSet(share) /\ n \in Nat
        BY ItemsFinite DEF SharesInv
  <2>5. seq \in [1..n -> share]
        BY <2>4, Listed
  <2>6. Len(list) = n /\ \A j \in 1..n : list[j].item \in share
        BY <2>4, <2>5, LenProperties
  <2> HIDE DEF list, n
  <2> QED BY <2>3, <2>6 DEF ItemsOf
<1>6. ASSUME NEW i, S!SetImp(c, i), i.list = imp[c].list PROVE imp'[c].list = imp[c].list
      BY <1>2, <1>6
<1>7. CASE S!Transfer(c)
  <2>1. PICK some : S!SetImp(c, [imp[c] EXCEPT !.pc = "names", !.landed = some])
        BY <1>3, <1>7 DEF S!Transfer
  <2> DEFINE i == [imp[c] EXCEPT !.pc = "names", !.landed = some]
  <2>2. S!SetImp(c, i) /\ i.list = imp[c].list
        BY <1>1, <2>1
  <2> HIDE DEF i
  <2>3. imp'[c].list = imp[c].list
        BY <1>6, <2>2
  <2> QED BY <1>7, <2>3 DEF S!Transfer, Lists
<1>8. CASE S!ReadNames(c)
  <2>1. PICK at, wrong, stop :
          S!SetImp(c, [imp[c] EXCEPT !.at = at, !.wrong = wrong, !.pc = stop])
        BY <1>3, <1>8 DEF S!ReadNames
  <2> DEFINE i == [imp[c] EXCEPT !.at = at, !.wrong = wrong, !.pc = stop]
  <2>2. S!SetImp(c, i) /\ i.list = imp[c].list
        BY <1>1, <2>1
  <2> HIDE DEF i
  <2>3. imp'[c].list = imp[c].list
        BY <1>6, <2>2
  <2>4. PICK stops : imp[c].pc = stops /\ stops = "names"
        BY <1>8 DEF S!ReadNames
  <2> QED BY <2>3, <2>4 DEF Lists
<1>9. CASE S!Rename(c)
  <2>1. PICK next, seen : S!SetImp(c, [imp[c] EXCEPT !.next = next, !.seen = seen])
    <3>1. CASE S!SetImp(c, [imp[c] EXCEPT !.next = @ + 1])
      <4>1. [imp[c] EXCEPT !.next = @ + 1] = [imp[c] EXCEPT !.next = @ + 1, !.seen = imp[c].seen]
            BY <1>1
      <4> QED BY <3>1, <4>1
    <3>2. CASE S!SetImp(c, [imp[c] EXCEPT !.next = @ + 1, !.seen = @ + 1])
          BY <3>2
    <3> QED BY <1>3, <1>9, <3>1, <3>2 DEF S!Rename
  <2> DEFINE i == [imp[c] EXCEPT !.next = next, !.seen = seen]
  <2>2. S!SetImp(c, i) /\ i.list = imp[c].list
        BY <1>1, <2>1
  <2> HIDE DEF i
  <2>3. imp'[c].list = imp[c].list
        BY <1>6, <2>2
  <2> QED BY <1>9, <2>3 DEF S!Rename, Lists
<1>10. CASE S!Finish(c)
  <2>1. S!Fails(c) \/ S!Succeeds(c)
        BY <1>10 DEF S!Finish
  <2> QED BY <1>3, <2>1
<1> QED BY <1>4, <1>5, <1>7, <1>8, <1>9, <1>10 DEF S!ImportStep

LEMMA ImportMoves ==
  ASSUME SharesInv, NEW c \in Imports, S!ImportStep(c)
  PROVE  Moved(c) /\ UNCHANGED <<from, to, key, share, link>>
<1>1. Moved(c)
      BY BeginStep, ListStep, TransferStep, ReadNamesStep, RenameStep, FinishStep DEF S!ImportStep
<1>2. UNCHANGED <<from, to, key, share, link>>
      BY DEF S!ImportStep, S!Begin, S!ListShare, S!Transfer, S!ReadNames, S!Rename, S!Finish
<1> QED BY <1>1, <1>2

LEMMA ImportKeeps ==
  ASSUME SharesInv, NEW c \in Imports, S!ImportStep(c)
  PROVE  SharesInv'
<1>1. Moved(c) /\ from' = from /\ to' = to /\ key' = key /\ share' = share /\ link' = link
      BY ImportMoves
<1>2. Foreign' = Foreign /\ Rebuilt' = Rebuilt /\ Allowed' = Allowed /\ Agreed' = Agreed
      BY <1>1 DEF Foreign, Rebuilt, Allowed, Agreed, S!Managed
<1>3. ASSUME NEW d \in Imports PROVE Kept(d)'
  <2>1. Kept(d)' = ImportOK(imp'[d], Brought(d, dest'), Homes(dest'), link', Foreign', Rebuilt', Allowed')
        BY DEF Kept
  <2> QED BY <1>1, <1>2, <2>1 DEF Moved
<1>5. link # Nil
  <2>1. ImportOK(imp[c], Brought(c, dest), Homes(dest), link, Foreign, Rebuilt, Allowed)
        BY DEF SharesInv, Kept
  <2>2. imp[c].pc \in {"new", "list", "transfer", "names", "rename"}
        BY DEF S!ImportStep, S!Begin, S!ListShare, S!Transfer, S!ReadNames, S!Rename, S!Finish
  <2>3. imp[c].pc # "new" => Allowed
        BY <2>1, <2>2 DEF ImportOK
  <2>4. imp[c].pc = "new" => link # Nil
        BY DEF S!ImportStep, S!Begin, S!ListShare, S!Transfer, S!ReadNames, S!Rename, S!Finish
  <2> QED BY <2>3, <2>4 DEF Allowed
<1>6. LinkOK'
  <2>1. PICK sel \in SUBSET Items :
          /\ share \subseteq sel /\ Selected(link, sel, Foreign)
          /\ \A d \in Imports : Lists(imp[d]) => ItemsOf(imp[d].list) \subseteq sel
        BY <1>5 DEF SharesInv, LinkOK
  <2>2. ASSUME NEW d \in Imports, Lists(imp'[d]) PROVE ItemsOf(imp'[d].list) \subseteq sel
    <3>1. CASE d = c
          BY <2>1, <2>2, <3>1, ListsKept
    <3>2. CASE d # c
          BY <1>1, <2>1, <2>2, <3>2 DEF Moved
    <3> QED BY <3>1, <3>2
  <2>3. LinkOK
        BY <1>5 DEF SharesInv
  <2>4. \E s \in SUBSET Items :
          /\ share' \subseteq s /\ Selected(link', s, Foreign')
          /\ \A d \in Imports : Lists(imp'[d]) => ItemsOf(imp'[d].list) \subseteq s
        BY <1>1, <1>2, <2>1, <2>2
  <2> QED BY <1>1, <2>3, <2>4 DEF LinkOK, S!Decodable
<1> QED BY <1>1, <1>2, <1>3, <1>5, <1>6 DEF SharesInv, Moved

-----------------------------------------------------------------------------
LEMMA NewStays ==
  ASSUME NEW i, NEW b, NEW homes, NEW l, NEW foreign, NEW rebuilt, NEW allowed,
         ImportOK(i, b, homes, l, foreign, rebuilt, allowed), i.pc = "new"
  PROVE  \A m, f, r, a : ImportOK(i, b, homes, m, f, r, a)
BY DEF ImportOK, Early, Past

LEMMA PackOK ==
  ASSUME SharesInv, NEW sel \in SUBSET Items, NEW native \in BOOLEAN,
         native \/ S!Encodable(S!Pack(sel, native))
  PROVE  LET pack == S!Pack(sel, native)
         IN  /\ DOMAIN pack = {"native", "encrypted", "disguise", "items", "managed", "keys"}
             /\ pack.native = native /\ pack.encrypted = from.encryption
             /\ pack.disguise = from.disguise /\ pack.keys \in KeyLists
             /\ ~native => S!Decodable(pack)
             /\ Selected(pack, sel, Foreign)
<1> DEFINE managed == {i \in sel : key[i] # Literal}
           keys == S!FoldLeft(LAMBDA ks, i : S!PushKey(ks, key[i]), <<>>, S!SetToSeq(managed))
           pack == S!Pack(sel, native)
<1>1. managed = sel \ Foreign
      BY DEF Foreign
<1>2. IsFiniteSet(managed) /\ Cardinality(managed) \in Nat /\ Cardinality(sel) \in Nat
      BY ItemsFinite
<1>3. \A i \in managed : key[i] \in Keys
      BY DEF SharesInv
<1>4. keys \in KeyLists
  <2> HIDE DEF managed
  <2> QED BY <1>2, <1>3, PackedKeys
<1>5. pack = [native |-> native, encrypted |-> from.encryption, disguise |-> from.disguise,
              items |-> Cardinality(sel), managed |-> Cardinality(managed), keys |-> keys]
      BY SameCount DEF S!Pack
<1> HIDE DEF managed, keys
<1>6. /\ DOMAIN pack = {"native", "encrypted", "disguise", "items", "managed", "keys"}
      /\ pack.native = native /\ pack.encrypted = from.encryption /\ pack.disguise = from.disguise
      /\ pack.items = Cardinality(sel) /\ pack.managed = Cardinality(managed) /\ pack.keys = keys
      BY <1>5
<1> HIDE DEF pack
<1>7. ASSUME ~native PROVE S!Decodable(pack)
  <2>1. S!Encodable(pack)
        BY <1>7 DEF pack
  <2>2. keys \in Seq(Keys) /\ Len(keys) \in Nat /\ (Len(keys) # 0) = (keys # <<>>)
        BY <1>4 DEF KeyLists
  <2>3. S!IsInjective(keys)
        BY <1>4 DEF KeyLists
  <2>4. (pack.managed = 0) = (keys = <<>>) /\ Len(keys) <= pack.managed /\ pack.items > 0
        /\ pack.managed <= pack.items /\ (pack.encrypted => pack.managed # 0)
        BY <1>6, <2>1 DEF S!Encodable
  <2> QED BY <1>6, <2>2, <2>3, <2>4 DEF S!Decodable
<1>8. Selected(pack, sel, Foreign)
      BY <1>1, <1>6 DEF Selected
<1> QED BY <1>4, <1>6, <1>7, <1>8 DEF pack

LEMMA ExportKeeps == ASSUME SharesInv, S!Export PROVE SharesInv'
<1>1. link = Nil /\ share = {} /\ UNCHANGED <<from, to, key, dest, imp>>
      BY DEF S!Export
<1>2. PICK sel \in SUBSET Items, native \in BOOLEAN, made \in BOOLEAN :
        /\ share' = sel
        /\ link' = IF made THEN S!Pack(sel, native) ELSE Nil
        /\ made => native \/ S!Encodable(S!Pack(sel, native))
  <2>1. PICK sel \in SUBSET Items \ {{}}, wish \in BOOLEAN, coded \in BOOLEAN :
          LET managed == \E i \in sel : key[i] # Literal
              native == wish \/ (S!Managed(from) /\ ~managed)
              pack == S!Pack(sel, native)
          IN  /\ share' = sel
              /\ link' = IF native \/ (S!Encodable(pack) /\ coded) THEN pack ELSE Nil
        BY DEF S!Export
  <2> DEFINE managed == \E i \in sel : key[i] # Literal
             native == wish \/ (S!Managed(from) /\ ~managed)
             made == native \/ (S!Encodable(S!Pack(sel, native)) /\ coded)
  <2>2. native \in BOOLEAN /\ made \in BOOLEAN
        BY DEF S!Encodable
  <2>3. share' = sel /\ link' = (IF made THEN S!Pack(sel, native) ELSE Nil)
        BY <2>1
  <2>4. made => native \/ S!Encodable(S!Pack(sel, native))
        OBVIOUS
  <2> HIDE DEF native, made
  <2> QED BY <2>2, <2>3, <2>4
<1>3. \A c \in Imports : imp[c].pc = "new"
      BY <1>1 DEF SharesInv
<1>4. ASSUME NEW c \in Imports PROVE Kept(c)'
  <2>1. ImportOK(imp[c], Brought(c, dest), Homes(dest), link, Foreign, Rebuilt, Allowed)
        BY DEF SharesInv, Kept
  <2>2. Kept(c)'
          = ImportOK(imp'[c], Brought(c, dest'), Homes(dest'), link', Foreign', Rebuilt', Allowed')
        BY DEF Kept
  <2> QED BY <1>1, <1>3, <2>1, <2>2, NewStays
<1>5. ASSUME link' # Nil PROVE LinkOK'
  <2>1. made /\ link' = S!Pack(sel, native) /\ (native \/ S!Encodable(S!Pack(sel, native)))
        BY <1>2, <1>5
  <2>2. /\ DOMAIN link' = {"native", "encrypted", "disguise", "items", "managed", "keys"}
        /\ link'.native = native /\ link'.encrypted = from.encryption
        /\ link'.disguise = from.disguise /\ link'.keys \in KeyLists
        /\ ~native => S!Decodable(link')
        /\ Selected(link', sel, Foreign)
        BY <2>1, PackOK
  <2>3. Foreign' = Foreign
        BY <1>1 DEF Foreign
  <2>4. \A c \in Imports : ~Lists(imp'[c])
        BY <1>1, <1>3 DEF Lists
  <2>5. \E s \in SUBSET Items :
          /\ share' \subseteq s /\ Selected(link', s, Foreign')
          /\ \A d \in Imports : Lists(imp'[d]) => ItemsOf(imp'[d].list) \subseteq s
        BY <1>2, <2>2, <2>3, <2>4
  <2> QED BY <1>1, <2>2, <2>5 DEF LinkOK, S!Decodable
<1>6. Few' /\ DestOK(dest') /\ ForeignStay(dest', Foreign') /\ Agreed' = Agreed
      BY <1>1 DEF SharesInv, Few, Agreed, Foreign
<1> QED BY <1>1, <1>2, <1>3, <1>4, <1>5, <1>6 DEF SharesInv

LEMMA SharerKeeps ==
  ASSUME SharesInv, NEW i \in Items, S!Unshare(i) \/ \E k \in Keys : S!Rehome(i, k)
  PROVE  SharesInv'
<1>1. link # Nil /\ share' \subseteq share /\ UNCHANGED <<from, to, link, dest, imp>>
      BY DEF S!Unshare, S!Rehome
<1>2. Foreign' = Foreign /\ key' \in [Items -> Keys \cup {Literal}]
      BY SameForeign DEF S!Next
<1>3. Agreed' = Agreed /\ Few' /\ DestOK(dest') /\ ForeignStay(dest', Foreign')
      BY <1>1, <1>2 DEF SharesInv, Few, Agreed
<1>4. \A c \in Imports : Kept(c)'
      BY <1>1, <1>2, StillKept DEF SharesInv
<1>5. LinkOK'
  <2>1. PICK sel \in SUBSET Items :
          /\ share \subseteq sel /\ Selected(link, sel, Foreign)
          /\ \A d \in Imports : Lists(imp[d]) => ItemsOf(imp[d].list) \subseteq sel
        BY <1>1 DEF SharesInv, LinkOK
  <2>2. \E s \in SUBSET Items :
          /\ share' \subseteq s /\ Selected(link', s, Foreign')
          /\ \A d \in Imports : Lists(imp'[d]) => ItemsOf(imp'[d].list) \subseteq s
        BY <1>1, <1>2, <2>1
  <2>3. LinkOK
        BY <1>1 DEF SharesInv
  <2> QED BY <1>1, <2>2, <2>3 DEF LinkOK, S!Decodable
<1> QED BY <1>1, <1>2, <1>3, <1>4, <1>5 DEF SharesInv

LEMMA SharesStep == ASSUME SharesInv, [S!Next]_shareVars PROVE SharesInv'
<1>1. CASE S!Export
      BY <1>1, ExportKeeps
<1>2. ASSUME NEW c \in Imports, S!ImportStep(c) PROVE SharesInv'
      BY <1>2, ImportKeeps
<1>3. ASSUME NEW i \in Items, S!Unshare(i) \/ \E k \in Keys : S!Rehome(i, k) PROVE SharesInv'
      BY <1>3, SharerKeeps
<1>4. CASE UNCHANGED shareVars
  <2>1. UNCHANGED <<from, to, key, share, link, dest, imp>>
        BY <1>4 DEF shareVars
  <2>2. Foreign' = Foreign /\ Agreed' = Agreed /\ Few' = Few
        BY <2>1 DEF Foreign, Agreed, Few
  <2>3. \A c \in Imports : Kept(c)'
        BY <2>1, <2>2, StillKept DEF SharesInv
  <2>4. LinkOK' = LinkOK
        BY <2>1, <2>2 DEF LinkOK, S!Decodable
  <2> QED BY <2>1, <2>2, <2>3, <2>4 DEF SharesInv
<1> QED BY <1>1, <1>2, <1>3, <1>4 DEF S!Next

(***************************************************************************)
(* Shares: the behaviours of MCCloud that are about an import.             *)
(***************************************************************************)
Shared == kind = "share" => SharesInv

LEMMA SharedStep == ASSUME Shared, [MCNext]_all PROVE Shared'
<1>1. kind' = kind /\ (kind = "share" => [S!Next]_shareVars)
      BY DEF MCNext, MCUploads, MCReads, MCShares, MCDone, all
<1>2. CASE kind # "share"
      BY <1>1, <1>2 DEF Shared
<1>3. CASE kind = "share"
      BY <1>1, <1>3, SharesStep DEF Shared
<1> QED BY <1>2, <1>3

LEMMA SharedAlways == MCSpec => []Shared
<1>1. MCInit => Shared
      BY SharesInitially DEF MCInit, ShareInit, Shared
<1>2. Shared /\ [MCNext]_all => Shared'
      BY SharedStep
<1> QED BY <1>1, <1>2, PTL DEF MCSpec

\* For any entries, any number of imports of one link and any data sources at both ends,
\* an import that answers Ok has brought what the share listed when it was asked; where it
\* rebuilds names that is as many entries as the link says, the managed ones with names
\* under the directory's key, but for an import that took a wrong name for one of them
\* (share_import, import_share; ImportIsWhole).
THEOREM ImportsAreWhole == MCSpec => []ImportIsWhole
<1>1. Shared => ImportIsWhole
  <2> SUFFICES ASSUME SharesInv, NEW c \in Imports, imp[c].pc = "ok"
      PROVE LET brought == {o \in dest : o.by = c}
                homed == {o \in brought : o.name[2] = Home}
            IN  /\ imp[c].landed = {o.item : o \in brought}
                /\ S!Rebuilds /\ imp[c].wrong = {} =>
                     /\ S!Cardinality(brought) = link.items
                     /\ S!Cardinality(homed) = link.managed
                     /\ \A o \in brought \ homed : key[o.item] = Literal
      BY DEF Shared, ImportIsWhole, S!ImportIsWhole
  <2> DEFINE brought == {o \in dest : o.by = c}
             homed == {o \in brought : o.name[2] = Home}
  <2>1. /\ imp[c].landed = {o.item : o \in brought}
        /\ Rebuilt /\ imp[c].wrong = {} => Whole(brought, link, Foreign)
        BY DEF SharesInv, Kept, ImportOK, Brought
  <2>2. ASSUME Rebuilt, imp[c].wrong = {}
        PROVE  /\ S!Cardinality(brought) = link.items /\ S!Cardinality(homed) = link.managed
               /\ \A o \in brought \ homed : key[o.item] = Literal
    <3>1. Cardinality(brought) = link.items /\ Cardinality(homed) = link.managed
          BY <2>1, <2>2 DEF Whole
    <3>2. \A o \in brought \ homed : key[o.item] = Literal
          BY <2>1, <2>2 DEF Whole, Foreign
    <3> QED BY <3>1, <3>2, SameCount
  <2> HIDE DEF brought, homed
  <2> QED BY <2>1, <2>2 DEF Rebuilt, S!Rebuilds, brought, homed
<1> QED BY <1>1, SharedAlways, PTL

\* Nothing in the directory is taken away or renamed but by the import that brought it,
\* neither what was there before nor what another import brings at the same time, whatever
\* it is named, unless an import took a wrong name for an entry of its own (import_share of
\* the drives; OthersUntouched).
THEOREM ImportsStayApart == MCSpec => OthersUntouched
<1>1. Shared /\ [MCNext]_all => [kind = "share" => S!Untouched]_all
  <2> SUFFICES ASSUME Shared, [MCNext]_all, kind = "share" PROVE S!Untouched
      OBVIOUS
  <2>1. SharesInv /\ [S!Next]_shareVars
        BY DEF Shared, MCNext, MCUploads, MCReads, MCShares, MCDone, all
  <2>2. dest' = dest \/ \E c \in Imports : S!ImportStep(c)
        BY <2>1 DEF shareVars, S!Next, S!Export, S!Unshare, S!Rehome
  <2>3. ASSUME NEW c \in Imports, S!ImportStep(c) PROVE S!Untouched
        BY <2>1, <2>3, ImportMoves DEF Moved, S!Untouched
  <2> QED BY <2>2, <2>3 DEF S!Untouched
<1> QED BY <1>1, SharedAlways, PTL DEF MCSpec, OthersUntouched

\* What is counted stays within what there is.
LEMMA SharesTyped == ASSUME SharesInv PROVE S!TypeOK
<1>1. from \in S!Config /\ to \in S!Config /\ key \in [Items -> Keys \cup {Literal}] /\ share \subseteq Items
      BY SharesAssumption DEF SharesInv, S!Config
<1>2. ASSUME NEW o \in dest PROVE o.name \in S!Name
  <2>1. PICK k \in Keys \cup {Literal, Home}, n \in Nat : o.name = <<o.item, k, n>>
        BY DEF SharesInv, DestOK, EntryOK
  <2>2. o.item \in Items /\ n <= Cardinality(Items) * (2 + Cardinality(Imports))
        BY <2>1 DEF SharesInv, DestOK, EntryOK, Few
  <2>3. 2 + Cardinality(Imports) = Cardinality(Imports) + 2
        BY ItemsFinite
  <2>4. n \in 0 .. Cardinality(Items) * (Cardinality(Imports) + 2)
        BY <2>2, <2>3
  <2> QED BY <2>1, <2>2, <2>4, SameCount DEF S!Name
<1>3. \A o, p \in dest : o.name = p.name => o = p
      BY DEF SharesInv, DestOK
<1>4. ASSUME NEW c \in Imports
      PROVE  /\ imp[c].pc \in {"new", "list", "transfer", "names", "rename", "ok", "error"}
             /\ imp[c].seen <= Cardinality(Items) /\ imp[c].next <= Cardinality(Items) + 1
  <2>1. ImportOK(imp[c], Brought(c, dest), Homes(dest), link, Foreign, Rebuilt, Allowed)
        BY DEF SharesInv, Kept
  <2>2. imp[c].pc \in {"new", "list", "transfer", "names", "rename", "ok", "error"}
        BY <2>1 DEF ImportOK, Early, Past
  <2>3. CASE imp[c].pc # "rename"
        BY <2>1, <2>2, <2>3, ItemsFinite DEF ImportOK
  <2>4. CASE imp[c].pc = "rename"
    <3>1. ListOK(imp[c].list, Foreign) /\ Renaming(imp[c], Brought(c, dest), Homes(dest), link)
          BY <2>1, <2>4 DEF ImportOK
    <3>2. Renamed(link, imp[c].list, imp[c].next) \in SUBSET Items
          BY <3>1 DEF ListOK, Renaming, Renamed
    <3>3. imp[c].seen \in 0..Cardinality(Items)
          BY <3>1, <3>2, ItemsFinite DEF Renaming
    <3>4. imp[c].next \in 1 .. Cardinality(Items) + 1
          BY <3>1, ItemsFinite DEF ListOK, Renaming
    <3> QED BY <2>2, <3>3, <3>4
  <2> QED BY <2>3, <2>4
<1> QED BY <1>1, <1>2, <1>3, <1>4, SameCount DEF S!TypeOK

(***************************************************************************)
(* Everything that holds of a behaviour of MCCloud, of whatever kind.      *)
(***************************************************************************)
CloudInv ==
  /\ kind \in {"upload", "read", "share"}
  /\ PermitsInv /\ StoredInv /\ UploadTyped /\ LinksInv /\ LinksTyped /\ Shared

LEMMA CloudStep == ASSUME CloudInv, [MCNext]_all PROVE CloudInv'
<1>1. /\ kind' = kind /\ [UploadNext]_upVars /\ [LinksNext]_linkVars
      BY DEF MCNext, MCUploads, MCReads, MCShares, MCDone, all
<1>2. PermitsInv' /\ StoredInv'
      BY <1>1, PermitsStep, StoredStep DEF CloudInv
<1>3. UploadTyped'
      BY <1>1, <1>2, TypedStep DEF CloudInv
<1>4. LinksInv' /\ LinksTyped'
      BY <1>1, LinksStep, LinksTypedStep DEF CloudInv
<1>5. Shared'
      BY SharedStep DEF CloudInv
<1> QED BY <1>1, <1>2, <1>3, <1>4, <1>5 DEF CloudInv

LEMMA CloudAlways == MCSpec => []CloudInv
<1>1. MCInit => CloudInv
  <2>1. MCInit => kind \in {"upload", "read", "share"}
        BY SharesAssumption DEF MCInit
  <2>2. MCInit => PermitsInv /\ StoredInv /\ UploadTyped
        BY PermitsInitially, StoredInitially, TypedInitially DEF MCInit
  <2>3. MCInit => LinksInv /\ LinksTyped
        BY LinksInitially, LinksTypedInitially DEF MCInit
  <2>4. MCInit => Shared
        BY SharesInitially DEF MCInit, ShareInit, Shared
  <2> QED BY <2>1, <2>2, <2>3, <2>4 DEF CloudInv
<1>2. CloudInv /\ [MCNext]_all => CloudInv'
      BY CloudStep
<1> QED BY <1>1, <1>2, PTL DEF MCSpec

\* The variables of every kind stay in their bounds; of an import, that no two entries of
\* the directory ever have one name, and that what it counts stays within what there is
\* (the guards of Transfer and Rename; TypeOK).
THEOREM CloudTypes == MCSpec => []TypeOK
<1>1. CloudInv => TypeOK
  <2> SUFFICES ASSUME CloudInv PROVE TypeOK
      OBVIOUS
  <2>1. UploadTypeOK /\ LinksTypeOK
        BY UploadsTyped, LinksAreTyped DEF CloudInv
  <2>2. kind = "share" => S!TypeOK
        BY SharesTyped DEF CloudInv, Shared
  <2> QED BY <2>1, <2>2 DEF TypeOK, CloudInv
<1> QED BY <1>1, CloudAlways, PTL

\* A link that was given out opens, whatever was selected, and what an import presents as
\* managed is of the data source's encryption and disguise, when nobody forces one:
\* whatever encode lets pass decode accepts, and an import that renames has compared the
\* data sources, whoever's entry gets the name (share_export, share_codec.rs,
\* share_import; LinksWork).  The templates of the leaf names are not compared.
THEOREM EveryLinkWorks == ASSUME TRUE \notin Forces PROVE MCSpec => []LinksWork
<1>1. CloudInv => LinksWork
  <2> SUFFICES ASSUME CloudInv, kind = "share" PROVE S!LinksWork
      BY DEF LinksWork
  <2>1. SharesInv
        BY DEF CloudInv, Shared
  <2>2. S!EveryLinkOpens
        BY <2>1 DEF SharesInv, LinkOK, S!EveryLinkOpens
  <2>3. S!ShownDecodes
        BY <2>1 DEF SharesInv, Agreed, S!ShownDecodes, S!Shown
  <2> QED BY <2>2, <2>3 DEF S!LinksWork
<1> QED BY <1>1, CloudAlways, PTL

=============================================================================
