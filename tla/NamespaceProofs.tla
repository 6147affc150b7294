-------------------------- MODULE NamespaceProofs --------------------------
(***************************************************************************)
(* Namespace: that directories of one name come only by a rename, from     *)
(* another program or from the storage, and that what a request finds was  *)
(* there, for any number of clients, paths and requests and any storage to *)
(* start with.                                                             *)
(***************************************************************************)
EXTENDS Namespace, SequenceTheorems, FiniteSetTheorems, WellFoundedInduction, TLAPS

(***************************************************************************)
(* Nodes of the storage: a path of entries each under the key of the one   *)
(* before, with secrets that were given out; and its plain names.          *)
(***************************************************************************)
Keyed(e, u) ==
  /\ e \in Seq(Node)
  /\ \A n \in 1..Len(e) : /\ e[n].secret \in u \ {0}
                          /\ e[n].key = IF n = 1 THEN 0 ELSE e[n - 1].secret
Named(e, p) == Len(e) = Len(p) /\ \A n \in 1..Len(e) : e[n].name = p[n]
DiskOK(d, u) == \A e \in d : /\ Keyed(e, u) /\ e # Root
                             /\ \A n \in 1..Len(e) : SubSeq(e, 1, n) \in d
CacheOK(k) == k \in [Paths -> Node] /\ \A p \in Paths : Cached(k, p) => k[p].name = Last(p)

(***************************************************************************)
(* A request.  While it resolves a path, the node it is at has the names   *)
(* of the path so far (it may be cached, and nowhere on the storage); what *)
(* it has found or made has been on the storage, with all its keys.        *)
(***************************************************************************)
Operations == {"none", "read", "list", "delete", "mkdir", "upload", "rename"}
Pcs == Listing \cup {"idle", "wait", "lost", "create", "remove", "rename", "done"}
CallType == [op : Operations, path : Paths \cup {Root}, to : Paths \cup {Root},
             overwrite : BOOLEAN, pc : Pcs, goal : Paths \cup {Root}, depth : Nat,
             at : Seq(Node), retried : BOOLEAN,
             stage : {"none", "locate", "name", "parent", "target"},
             from : Seq(Node), parent : Seq(Node),
             answer : [is : {"none", "ok", "missing"}, entries : SUBSET Node],
             outcome : {"none", "ok", "absent", "error"}]

HasParent(x, p, u) == Keyed(x.parent, u) /\ Named(x.parent, Front(p))
Leads(x) == x.path \in Paths /\ x.to \in Paths /\ ~IsPrefix(x.path, x.to)
HasFrom(x, u) == Keyed(x.from, u) /\ Named(x.from, x.path) /\ Leads(x)

Purpose(x, u) ==
  \/ /\ x.stage = "locate" /\ x.op \in {"read", "list", "delete", "rename"}
     /\ x.goal = x.path /\ (x.op = "rename" => Leads(x))
  \/ x.stage = "name" /\ x.op = "upload" /\ x.goal = x.path /\ HasParent(x, x.path, u)
  \/ /\ x.stage = "parent" /\ x.op = "rename" /\ Len(x.to) > 1 /\ x.goal = Front(x.to)
     /\ HasFrom(x, u)
  \/ /\ x.stage = "target" /\ x.op = "rename" /\ x.goal = x.to
     /\ HasFrom(x, u) /\ HasParent(x, x.to, u)
At(x) == /\ x.depth = Len(x.at) /\ x.depth < Len(x.goal)
         /\ \A n \in 1..x.depth : x.at[n].name = x.goal[n]
Makes(x, u) == x.op = "upload" /\ x.path \in Paths /\ HasParent(x, x.path, u)

CallOK(x, u) ==
  /\ x \in CallType
  /\ x.pc # "done" => x.outcome = "none"
  /\ x.pc = "idle" <=> x.op = "none"
  /\ x.pc \in {"descend", "leaf", "lost"} => Purpose(x, u) /\ x.goal \in Paths
  /\ x.pc \in {"descend", "leaf", "ensure"} => At(x)
  /\ x.pc = "leaf" <=> x.pc \in {"descend", "leaf"} /\ x.depth = Len(x.goal) - 1
  /\ x.pc \in {"wait", "ensure"} =>
       /\ x.op \in {"mkdir", "upload"} /\ x.path \in Paths /\ x.goal \in Paths
       /\ x.op = "upload" => Len(x.path) > 1 /\ x.goal = Front(x.path)
  /\ x.pc = "ensure" => Keyed(x.at, u)
  /\ x.pc = "create" => Makes(x, u)
  /\ x.pc = "remove" => x.op = "delete" \/ Makes(x, u)
  /\ x.pc = "rename" => x.op = "rename" /\ HasFrom(x, u) /\ HasParent(x, x.to, u)
  /\ x.pc = "children" => x.op = "list"
  /\ x.pc \in Listing => \A n \in x.answer.entries : Keyed(Append(x.at, n), u)

-----------------------------------------------------------------------------
(***************************************************************************)
(* Sequences.                                                              *)
(***************************************************************************)
\* What Front and Last make of a sequence, and of one with an element more.
LEMMA FrontLast ==
  ASSUME NEW S, NEW s \in Seq(S), s # <<>>
  PROVE  /\ Len(s) \in Nat \ {0} /\ Front(s) \in Seq(S) /\ Len(Front(s)) = Len(s) - 1
         /\ \A i \in 1..Len(s) - 1 : Front(s)[i] = s[i]
         /\ Last(s) = s[Len(s)] /\ Last(s) \in S /\ s = Append(Front(s), Last(s))
<1>1. Len(s) \in Nat \ {0}
  BY EmptySeq
<1>2. /\ Front(s) \in Seq(S) /\ Len(Front(s)) = Len(s) - 1
      /\ \A i \in 1..Len(s) - 1 : Front(s)[i] = s[i]
  <2>1. \A i \in 1..Len(s) - 1 : s[i] \in S
    BY <1>1, LenProperties
  <2>2. 1 \in Int /\ Len(s) - 1 \in Int /\ Len(s) - 1 - 1 + 1 = Len(s) - 1
    BY <1>1
  <2>3. \A i \in 1..Len(s) - 1 : 1 + i - 1 = i
    BY <1>1
  <2> QED
    BY <1>1, <2>1, <2>2, <2>3, SubSeqProperties DEF Front
<1>3. Last(s) = s[Len(s)] /\ Last(s) \in S
  BY <1>1, LenProperties DEF Last
<1>4. s = Append(Front(s), Last(s))
  <2> DEFINE t == Append(Front(s), Last(s))
  <2>1. /\ t \in Seq(S) /\ Len(t) = Len(s) /\ t[Len(s)] = Last(s)
        /\ \A i \in 1..Len(s) - 1 : t[i] = s[i]
    BY <1>1, <1>2, <1>3, AppendProperties
  <2>2. s = t
    <3> HIDE DEF t
    <3>1. \A i \in 1..Len(s) : s[i] = t[i]
      BY <1>1, <1>3, <2>1
    <3> QED
      BY <2>1, <3>1, SeqEqual
  <2> QED
    BY <2>2
<1> QED
  BY <1>1, <1>2, <1>3, <1>4

LEMMA Appended ==
  ASSUME NEW S, NEW s \in Seq(S), NEW n \in S
  PROVE  /\ Append(s, n) \in Seq(S) \ {<<>>} /\ Len(Append(s, n)) = Len(s) + 1
         /\ \A i \in 1..Len(s) : Append(s, n)[i] = s[i]
         /\ Append(s, n)[Len(s) + 1] = n
         /\ Front(Append(s, n)) = s /\ Last(Append(s, n)) = n
<1> DEFINE t == Append(s, n)
<1>1. /\ t \in Seq(S) \ {<<>>} /\ Len(t) = Len(s) + 1
      /\ \A i \in 1..Len(s) : t[i] = s[i]
      /\ t[Len(s) + 1] = n
  BY AppendProperties
<1> HIDE DEF t
<1>2. Last(t) = n
  BY <1>1, LenProperties DEF Last
<1>3. /\ Front(t) \in Seq(S) /\ Len(Front(t)) = Len(t) - 1
      /\ \A i \in 1..Len(t) - 1 : Front(t)[i] = t[i]
  BY <1>1, FrontLast
<1>4. Front(t) = s
  BY <1>1, <1>3, SeqEqual, LenProperties
<1> QED
  BY <1>1, <1>2, <1>4 DEF t

\* The first elements of a sequence, and what it is to begin with another.
LEMMA FirstOf ==
  ASSUME NEW S, NEW s \in Seq(S), NEW n \in 0..Len(s)
  PROVE  /\ SubSeq(s, 1, n) \in Seq(S) /\ Len(SubSeq(s, 1, n)) = n
         /\ \A i \in 1..n : SubSeq(s, 1, n)[i] = s[i]
<1>1. Len(s) \in Nat /\ \A i \in 1..n : s[i] \in S
  BY LenProperties
<1>2. n \in Int /\ 1 \in Int /\ n - 1 + 1 = n
  BY <1>1
<1> QED
  BY <1>1, <1>2, SubSeqProperties

LEMMA PrefixOf ==
  ASSUME NEW S, NEW s \in Seq(S), NEW t \in Seq(S)
  PROVE  IsPrefix(s, t) <=> Len(s) <= Len(t) /\ \A i \in 1..Len(s) : s[i] = t[i]
<1>0. Len(s) \in Nat /\ Len(t) \in Nat
  BY LenProperties
<1>1. CASE Len(s) <= Len(t)
  <2> DEFINE u == SubSeq(s, 1, Len(s))
             v == SubSeq(t, 1, Len(s))
  <2>1. /\ u \in Seq(S) /\ Len(u) = Len(s) /\ \A i \in 1..Len(s) : u[i] = s[i]
        /\ v \in Seq(S) /\ Len(v) = Len(s) /\ \A i \in 1..Len(s) : v[i] = t[i]
    BY <1>0, <1>1, FirstOf
  <2>2. IsPrefix(s, t) <=> u = v
    BY <1>1 DEF IsPrefix
  <2> HIDE DEF u, v
  <2> QED
    BY <1>0, <1>1, <2>1, <2>2, SeqEqual
<1> QED
  BY <1>0, <1>1 DEF IsPrefix

(***************************************************************************)
(* A set of finitely many integers has a least and a greatest, by the      *)
(* number of elements before and behind.                                   *)
(***************************************************************************)
LEMMA LeastNumber ==
  ASSUME NEW T, T \subseteq Nat, T # {}
  PROVE  \E m \in T : \A k \in T : m <= k
<1> DEFINE R == {p \in Nat \X Nat : p[1] < p[2]}
<1>1. IsWellFoundedOn(R, Nat)
  BY NatLessThanWellFounded DEF OpToRel
<1>2. PICK m \in T : \A k \in T : <<k, m>> \notin R
  BY ONLY <1>1, T \subseteq Nat, T # {}, WFMin
<1>3. ASSUME NEW k \in T, ~(m <= k)
      PROVE  FALSE
  <2>1. k \in Nat /\ m \in Nat /\ k < m
    BY <1>3
  <2> DEFINE p == <<k, m>>
  <2>2. p \in Nat \X Nat /\ p[1] < p[2]
    BY <2>1
  <2> QED
    BY <1>2, <2>2
<1> QED
  BY <1>3

LEMMA LeastOf ==
  ASSUME NEW S, IsFiniteSet(S), S \subseteq Int, S # {}
  PROVE  \E x \in S : \A y \in S : x <= y
<1> DEFINE Below(x) == {y \in S : y < x}
           T == {Cardinality(Below(x)) : x \in S}
<1>1. \A x \in S : IsFiniteSet(Below(x)) /\ Cardinality(Below(x)) \in Nat
  BY FS_Subset, FS_CardinalityType
<1>2. T \subseteq Nat /\ T # {}
  BY <1>1
<1>3. PICK m \in T : \A k \in T : m <= k
  <2> HIDE DEF T
  <2> QED
    BY <1>2, LeastNumber
<1>4. PICK x \in S : m = Cardinality(Below(x))
  BY <1>3
<1>5. \A y \in S : x <= y
  <2> SUFFICES ASSUME NEW y \in S, y < x
               PROVE  FALSE
    OBVIOUS
  <2>0. x \in Int /\ y \in Int /\ \A z \in S : z \in Int
    OBVIOUS
  <2>1. Below(y) \subseteq Below(x) /\ y \in Below(x) /\ y \notin Below(y)
    <3> HIDE DEF T
    <3>1. \A z \in S : z < y => z < x
      BY <2>0
    <3>2. ~(y < y)
      BY <2>0
    <3> QED
      BY <3>1, <3>2, Zenon
  <2>2. Cardinality(Below(y)) <= Cardinality(Below(x)) /\ Cardinality(Below(y)) # Cardinality(Below(x))
    <3> HIDE DEF Below
    <3> QED
      BY <1>1, <2>1, FS_Subset
  <2>3. m <= Cardinality(Below(y))
    BY <1>3
  <2> HIDE DEF Below
  <2> QED
    BY <1>1, <1>4, <2>2, <2>3
<1> QED
  BY <1>5

LEMMA GreatestOf ==
  ASSUME NEW S, IsFiniteSet(S), S \subseteq Int, S # {}
  PROVE  \E x \in S : \A y \in S : x >= y
<1> DEFINE Above(x) == {y \in S : y > x}
           T == {Cardinality(Above(x)) : x \in S}
<1>1. \A x \in S : IsFiniteSet(Above(x)) /\ Cardinality(Above(x)) \in Nat
  BY FS_Subset, FS_CardinalityType
<1>2. T \subseteq Nat /\ T # {}
  BY <1>1
<1>3. PICK m \in T : \A k \in T : m <= k
  <2> HIDE DEF T
  <2> QED
    BY <1>2, LeastNumber
<1>4. PICK x \in S : m = Cardinality(Above(x))
  BY <1>3
<1>5. \A y \in S : x >= y
  <2> SUFFICES ASSUME NEW y \in S, y > x
               PROVE  FALSE
    OBVIOUS
  <2>0. x \in Int /\ y \in Int /\ \A z \in S : z \in Int
    OBVIOUS
  <2>1. Above(y) \subseteq Above(x) /\ y \in Above(x) /\ y \notin Above(y)
    <3> HIDE DEF T
    <3>1. \A z \in S : z > y => z > x
      BY <2>0
    <3>2. ~(y > y)
      BY <2>0
    <3> QED
      BY <3>1, <3>2, Zenon
  <2>2. Cardinality(Above(y)) <= Cardinality(Above(x)) /\ Cardinality(Above(y)) # Cardinality(Above(x))
    <3> HIDE DEF Above
    <3> QED
      BY <1>1, <2>1, FS_Subset
  <2>3. m <= Cardinality(Above(y))
    BY <1>3
  <2> HIDE DEF Above
  <2> QED
    BY <1>1, <1>4, <2>2, <2>3
<1> QED
  BY <1>5

\* A new secret is one that was never given out.
Secrets(u) == IsFiniteSet(u) /\ u \subseteq Int

LEMMA FreshIsNew ==
  ASSUME Secrets(used), NEW s \in Fresh
  PROVE  s \in Int \ {0} /\ s \notin used /\ Secrets(used \cup {s})
<1> DEFINE U == used \cup {0}
<1>1. IsFiniteSet(U) /\ U \subseteq Int /\ U # {} /\ 0 \in U
  BY FS_AddElement DEF Secrets
<1>2. Min(U) \in U /\ \A y \in U : Min(U) <= y
  <2> HIDE DEF U
  <2> QED
    BY <1>1, LeastOf DEF Min
<1>3. Max(U) \in U /\ \A y \in U : Max(U) >= y
  <2> HIDE DEF U
  <2> QED
    BY <1>1, GreatestOf DEF Max
<1>4. s = Min(U) - 1 \/ s = Max(U) + 1
  BY DEF Fresh
<1>5. s \in Int /\ s \notin U
  <2> DEFINE lo == Min(U)
             hi == Max(U)
  <2>1. lo \in Int /\ hi \in Int /\ \A y \in U : y \in Int /\ lo <= y /\ hi >= y
    BY <1>1, <1>2, <1>3
  <2>2. s = lo - 1 \/ s = hi + 1
    BY <1>4
  <2> HIDE DEF lo, hi, U
  <2> QED
    BY <2>1, <2>2
<1> QED
  BY <1>5, FS_AddElement DEF Secrets

(***************************************************************************)
(* Paths and nodes.                                                        *)
(***************************************************************************)
LEMMA PathFacts ==
  ASSUME NEW p \in Paths
  PROVE  /\ p \in Seq(Names) /\ p # <<>> /\ Len(p) \in Nat \ {0}
         /\ \A n \in 1..Len(p) : SubSeq(p, 1, n) \in Paths
         /\ Front(p) \in Seq(Names) /\ Len(Front(p)) = Len(p) - 1
         /\ \A n \in 1..Len(p) - 1 : Front(p)[n] = p[n]
         /\ Len(p) > 1 => Front(p) \in Paths
         /\ Last(p) = p[Len(p)] /\ Last(p) \in Names
<1>1. /\ p \in Seq(Names) /\ p # <<>>
      /\ \A n \in 1..Len(p) : SubSeq(p, 1, n) \in Paths
  BY NamespaceAssumption DEF NamespaceAssumption
<1>2. /\ Len(p) \in Nat \ {0} /\ Front(p) \in Seq(Names) /\ Len(Front(p)) = Len(p) - 1
      /\ \A n \in 1..Len(p) - 1 : Front(p)[n] = p[n]
      /\ Last(p) = p[Len(p)] /\ Last(p) \in Names
  BY <1>1, FrontLast
<1>3. Len(p) > 1 => Front(p) \in Paths
  BY <1>1, <1>2 DEF Front
<1> QED
  BY <1>1, <1>2, <1>3

LEMMA PlainNamed ==
  ASSUME NEW e \in Seq(Node), NEW p \in Seq(Names)
  PROVE  Plain(e) = p <=> Named(e, p)
<1>1. Len(e) \in Nat /\ Len(p) \in Nat /\ p = [n \in 1..Len(p) |-> p[n]] /\ DOMAIN p = 1..Len(p)
  BY LenProperties
<1>2. Plain(e) = p => Named(e, p)
  <2> SUFFICES ASSUME Plain(e) = p PROVE Named(e, p)
    OBVIOUS
  <2>1. DOMAIN Plain(e) = 1..Len(e) /\ \A n \in 1..Len(e) : Plain(e)[n] = e[n].name
    BY DEF Plain
  <2>2. 1..Len(e) = 1..Len(p)
    BY <1>1, <2>1
  <2>3. Len(e) = Len(p)
    BY <1>1, <2>2
  <2> QED
    BY <2>1, <2>3 DEF Named
<1>3. Named(e, p) => Plain(e) = p
  <2> SUFFICES ASSUME Named(e, p) PROVE Plain(e) = p
    OBVIOUS
  <2>1. Len(e) = Len(p) /\ \A n \in 1..Len(p) : e[n].name = p[n]
    BY DEF Named
  <2>2. Plain(e) = [n \in 1..Len(p) |-> p[n]]
    BY <2>1 DEF Plain
  <2> QED
    BY <1>1, <2>2
<1> QED
  BY <1>2, <1>3

LEMMA KeyedParts ==
  ASSUME NEW u, NEW e, Keyed(e, u), e # Root
  PROVE  /\ e \in Seq(Node) /\ Len(e) \in Nat \ {0}
         /\ Keyed(Front(e), u) /\ Last(e) \in Node /\ Last(e) = e[Len(e)]
         /\ Secret(e) = Last(e).secret /\ Secret(e) \in u \ {0}
         /\ Last(e).key = Secret(Front(e)) /\ e = Append(Front(e), Last(e))
         /\ Len(Front(e)) = Len(e) - 1
<1>1. e \in Seq(Node) /\ e # <<>>
  BY DEF Keyed, Root
<1>2. /\ Len(e) \in Nat \ {0} /\ Front(e) \in Seq(Node) /\ Len(Front(e)) = Len(e) - 1
      /\ \A i \in 1..Len(e) - 1 : Front(e)[i] = e[i]
      /\ Last(e) = e[Len(e)] /\ Last(e) \in Node /\ e = Append(Front(e), Last(e))
  BY <1>1, FrontLast
<1>3. /\ \A n \in 1..Len(e) : e[n].secret \in u \ {0}
      /\ \A n \in 1..Len(e) : e[n].key = IF n = 1 THEN 0 ELSE e[n - 1].secret
  BY DEF Keyed
<1>4. Keyed(Front(e), u)
  <2> SUFFICES ASSUME NEW n \in 1..Len(e) - 1
               PROVE  /\ Front(e)[n].secret \in u \ {0}
                      /\ Front(e)[n].key = IF n = 1 THEN 0 ELSE Front(e)[n - 1].secret
    BY <1>2 DEF Keyed
  <2>1. n \in 1..Len(e) /\ Front(e)[n] = e[n] /\ (n # 1 => Front(e)[n - 1] = e[n - 1])
    BY <1>2
  <2> QED
    BY <1>3, <2>1
<1>5. Secret(e) = Last(e).secret /\ Secret(e) \in u \ {0}
  BY <1>2, <1>3 DEF Secret
<1>6. Last(e).key = Secret(Front(e))
  <2>1. CASE Len(e) = 1
    <3>1. Front(e) = <<>>
      BY <1>2, <2>1, EmptySeq
    <3> QED
      BY <1>2, <1>3, <2>1, <3>1 DEF Secret, Root
  <2>2. CASE Len(e) > 1
    <3>1. Front(e) # <<>> /\ Last(Front(e)) = e[Len(e) - 1]
      BY <1>2, <2>2, EmptySeq DEF Last
    <3> QED
      BY <1>2, <1>3, <2>2, <3>1 DEF Secret, Root
  <2> QED
    BY <1>2, <2>1, <2>2
<1> QED
  BY <1>1, <1>2, <1>4, <1>5, <1>6

LEMMA KeyedRoot ==
  ASSUME NEW u
  PROVE  Keyed(Root, u) /\ Secret(Root) = 0 /\ Named(Root, <<>>) /\ Len(Root) = 0
BY EmptySeq DEF Keyed, Root, Secret, Named

LEMMA KeyedAppend ==
  ASSUME NEW u, NEW e, Keyed(e, u), NEW n \in Node, n.secret \in u \ {0}, n.key = Secret(e)
  PROVE  Keyed(Append(e, n), u) /\ Append(e, n) # Root /\ Secret(Append(e, n)) = n.secret
<1> DEFINE t == Append(e, n)
<1>1. e \in Seq(Node) /\ Len(e) \in Nat
  BY LenProperties DEF Keyed
<1>2. /\ t \in Seq(Node) \ {<<>>} /\ Len(t) = Len(e) + 1
      /\ \A i \in 1..Len(e) : t[i] = e[i]
      /\ t[Len(e) + 1] = n /\ Last(t) = n
  BY <1>1, Appended
<1> HIDE DEF t
<1>3. ASSUME NEW i \in 1..Len(t)
      PROVE  t[i].secret \in u \ {0} /\ t[i].key = IF i = 1 THEN 0 ELSE t[i - 1].secret
  <2>1. CASE i \in 1..Len(e)
    <3>1. t[i] = e[i] /\ (i # 1 => t[i - 1] = e[i - 1])
      BY <1>1, <1>2, <2>1
    <3> QED
      BY <2>1, <3>1 DEF Keyed
  <2>2. CASE i = Len(e) + 1 /\ Len(e) = 0
    <3>1. e = Root
      BY <1>1, <2>2, EmptySeq DEF Root
    <3> QED
      BY <1>2, <2>2, <3>1 DEF Secret
  <2>3. CASE i = Len(e) + 1 /\ Len(e) > 0
    <3>1. e # Root /\ Secret(e) = e[Len(e)].secret
      BY <1>1, <2>3, EmptySeq DEF Root, Secret, Last
    <3>2. t[i - 1] = e[Len(e)] /\ t[i] = n /\ i # 1
      BY <1>1, <1>2, <2>3
    <3> QED
      BY <3>1, <3>2
  <2> QED
    BY <1>1, <1>2, <2>1, <2>2, <2>3
<1>4. Keyed(t, u) /\ t # Root /\ Secret(t) = n.secret
  BY <1>2, <1>3 DEF Keyed, Root, Secret
<1> QED
  BY <1>4 DEF t

LEMMA KeyedFirst ==
  ASSUME NEW u, NEW e, Keyed(e, u), NEW n \in 0..Len(e)
  PROVE  Keyed(SubSeq(e, 1, n), u) /\ Len(SubSeq(e, 1, n)) = n
<1> DEFINE t == SubSeq(e, 1, n)
<1>1. e \in Seq(Node) /\ Len(e) \in Nat
  BY LenProperties DEF Keyed
<1>2. t \in Seq(Node) /\ Len(t) = n /\ \A i \in 1..n : t[i] = e[i]
  BY <1>1, FirstOf
<1> HIDE DEF t
<1>3. ASSUME NEW i \in 1..n
      PROVE  t[i].secret \in u \ {0} /\ t[i].key = IF i = 1 THEN 0 ELSE t[i - 1].secret
  <2>1. t[i] = e[i] /\ (i # 1 => t[i - 1] = e[i - 1]) /\ i \in 1..Len(e)
    BY <1>1, <1>2
  <2> QED
    BY <2>1 DEF Keyed
<1>4. Keyed(t, u) /\ Len(t) = n
  BY <1>2, <1>3 DEF Keyed
<1> QED
  BY <1>4 DEF t

LEMMA KeyedLater ==
  ASSUME NEW u, NEW v, u \subseteq v, NEW e, Keyed(e, u)
  PROVE  Keyed(e, v)
BY DEF Keyed

(***************************************************************************)
(* Moving a node: what lies below it keeps its entries.                    *)
(***************************************************************************)
LEMMA MovedBelow ==
  ASSUME NEW u, NEW f, Keyed(f, u), NEW from, Keyed(from, u), from # Root,
         NEW to, Keyed(to, u), to # Root, Secret(from) = Secret(to), IsPrefix(from, f)
  PROVE  LET m == Moved(f, from, to)
         IN  /\ Keyed(m, u) /\ m # Root /\ Len(m) = Len(to) + (Len(f) - Len(from))
             /\ \A i \in 1..Len(to) : m[i] = to[i]
             /\ \A i \in Len(to) + 1..Len(m) : m[i] = f[i - Len(to) + Len(from)]
             /\ Secret(m) = Secret(f) /\ Len(f) >= Len(from)
             /\ f = from => m = to
             /\ f # from => Last(m) = Last(f)
<1> DEFINE m == Moved(f, from, to)
           rest == SubSeq(f, Len(from) + 1, Len(f))
           a == Len(from)
           b == Len(to)
           l == Len(f)
<1>1. /\ f \in Seq(Node) /\ from \in Seq(Node) /\ to \in Seq(Node)
      /\ l \in Nat /\ a \in Nat \ {0} /\ b \in Nat \ {0}
      /\ \A i \in 1..l : f[i] \in Node
  BY LenProperties, EmptySeq DEF Keyed, Root
<1>2. l >= a /\ \A i \in 1..a : from[i] = f[i]
  BY <1>1, PrefixOf
<1>3. rest \in Seq(Node) /\ Len(rest) = l - a /\ \A i \in 1..l - a : rest[i] = f[a + i]
  <2>1. \A i \in a + 1..l : f[i] \in Node
    BY <1>1
  <2>2. a + 1 \in Int /\ l \in Int /\ l - (a + 1) + 1 = l - a
        /\ (IF a + 1 <= l THEN l - (a + 1) + 1 ELSE 0) = l - a
        /\ \A i \in 1..l - a : a + 1 + i - 1 = a + i
    BY <1>1, <1>2
  <2> HIDE DEF a, l
  <2>3. /\ SubSeq(f, a + 1, l) \in Seq(Node) /\ Len(SubSeq(f, a + 1, l)) = l - a
        /\ \A i \in 1..l - a : SubSeq(f, a + 1, l)[i] = f[a + i]
    BY <2>1, <2>2, SubSeqProperties
  <2> QED
    BY <2>3 DEF a, l
<1>4. m = to \o rest
  BY DEF Moved
<1>5. m \in Seq(Node) /\ Len(m) = b + (l - a)
      /\ \A i \in 1..b + (l - a) : m[i] = IF i <= b THEN to[i] ELSE rest[i - b]
  <2> HIDE DEF m, rest
  <2>1. /\ m \in Seq(Node) /\ Len(m) = Len(to) + Len(rest)
        /\ \A i \in 1..Len(to) + Len(rest) :
             m[i] = IF i <= Len(to) THEN to[i] ELSE rest[i - Len(to)]
    BY ONLY <1>1, <1>3, <1>4, ConcatProperties
  <2> QED
    BY <1>3, <2>1
<1> HIDE DEF m, rest
<1>6. \A i \in 1..b : m[i] = to[i]
  BY <1>1, <1>2, <1>5
<1>7. ASSUME NEW i \in b + 1..b + (l - a)
      PROVE  m[i] = f[i - b + a] /\ i - b + a \in a + 1..l
  <2>1. i - b \in 1..l - a /\ m[i] = rest[i - b] /\ a + (i - b) = i - b + a
    BY <1>1, <1>2, <1>5
  <2>2. rest[i - b] = f[a + (i - b)]
    BY <1>3, <2>1
  <2> QED
    BY <1>1, <1>2, <2>1, <2>2
<1>8. to[b].secret = from[a].secret
  <2>1. Secret(to) = to[b].secret /\ Secret(from) = from[a].secret
    BY DEF Secret, Last
  <2> QED
    BY <2>1
<1>9. Keyed(m, u) /\ m # Root
  <2>1. ASSUME NEW i \in 1..b + (l - a)
        PROVE  m[i].secret \in u \ {0} /\ m[i].key = IF i = 1 THEN 0 ELSE m[i - 1].secret
    <3>1. CASE i <= b
      <4>1. i \in 1..b /\ m[i] = to[i] /\ (i # 1 => m[i - 1] = to[i - 1])
        BY <1>1, <1>6, <3>1
      <4> QED
        BY <4>1 DEF Keyed
    <3>2. CASE i = b + 1
      <4>1. i \in b + 1..b + (l - a) /\ i - b + a = a + 1 /\ i # 1 /\ i - 1 = b
            /\ a + 1 \in 1..l /\ a + 1 - 1 = a /\ a + 1 # 1 /\ b \in 1..b /\ a \in 1..a
        BY <1>1, <1>2, <3>2
      <4>2. m[i] = f[a + 1] /\ m[i - 1] = to[b] /\ f[a] = from[a]
        BY <1>2, <1>6, <1>7, <4>1
      <4>3. f[a + 1].secret \in u \ {0} /\ f[a + 1].key = f[a].secret
        BY <4>1 DEF Keyed
      <4> QED
        BY <1>8, <4>1, <4>2, <4>3
    <3>3. CASE i > b + 1
      <4> DEFINE j == i - b + a
      <4>1. /\ i \in b + 1..b + (l - a) /\ i - 1 \in b + 1..b + (l - a) /\ i # 1
            /\ i - 1 - b + a = j - 1 /\ j \in 1..l /\ j # 1
        BY <1>1, <1>2, <3>3
      <4>2. m[i] = f[j] /\ m[i - 1] = f[j - 1]
        <5>1. m[i - 1] = f[i - 1 - b + a]
          BY <1>7, <4>1
        <5> QED
          BY <1>7, <4>1, <5>1
      <4> HIDE DEF j
      <4>3. f[j].secret \in u \ {0} /\ f[j].key = f[j - 1].secret
        BY <4>1 DEF Keyed
      <4> QED
        BY <4>1, <4>2, <4>3
    <3> QED
      BY <1>1, <1>2, <3>1, <3>2, <3>3
  <2>2. m # Root
    BY <1>1, <1>2, <1>5, EmptySeq DEF Root
  <2> QED
    BY <1>5, <2>1, <2>2 DEF Keyed
<1>10. f = from => m = to
  <2> SUFFICES ASSUME f = from PROVE m = to
    OBVIOUS
  <2>1. Len(m) = Len(to) /\ \A i \in 1..Len(m) : m[i] = to[i]
    BY <1>1, <1>5, <1>6
  <2> QED
    BY <1>1, <1>5, <2>1, SeqEqual
<1>11. f # from => Last(m) = Last(f)
  <2> SUFFICES ASSUME f # from PROVE Last(m) = Last(f)
    OBVIOUS
  <2>1. l # a
    BY <1>1, <1>2, SeqEqual
  <2>2. b + (l - a) \in b + 1..b + (l - a) /\ b + (l - a) - b + a = l
    BY <1>1, <1>2, <2>1
  <2>3. m[b + (l - a)] = f[l]
    BY <1>7, <2>2
  <2> QED
    BY <1>5, <2>3 DEF Last
<1>12. Secret(m) = Secret(f)
  <2>1. f # Root
    BY <1>1, <1>2, EmptySeq DEF Root
  <2>2. CASE f = from
    BY <1>10, <2>2
  <2>3. CASE f # from
    BY <1>9, <1>11, <2>1, <2>3 DEF Secret
  <2> QED
    BY <2>2, <2>3
<1>13. \A i \in b + 1..Len(m) : m[i] = f[i - b + a]
  BY <1>5, <1>7
<1> QED
  BY <1>2, <1>5, <1>6, <1>9, <1>10, <1>11, <1>12, <1>13 DEF m

\* A node above a moved one: above the new place, or moved itself.
LEMMA AboveMoved ==
  ASSUME NEW u, NEW f, Keyed(f, u), NEW from, Keyed(from, u), from # Root,
         NEW to, Keyed(to, u), to # Root, Secret(from) = Secret(to), IsPrefix(from, f),
         NEW n \in 1..Len(Moved(f, from, to))
  PROVE  \/ n <= Len(to) /\ SubSeq(Moved(f, from, to), 1, n) = SubSeq(to, 1, n)
         \/ \E k \in Len(from) + 1..Len(f) :
              /\ SubSeq(Moved(f, from, to), 1, n) = Moved(SubSeq(f, 1, k), from, to)
              /\ IsPrefix(from, SubSeq(f, 1, k))
<1> DEFINE m == Moved(f, from, to)
<1>1. /\ Keyed(m, u) /\ Len(m) = Len(to) + (Len(f) - Len(from))
      /\ \A i \in 1..Len(to) : m[i] = to[i]
      /\ \A i \in Len(to) + 1..Len(m) : m[i] = f[i - Len(to) + Len(from)]
      /\ Len(f) >= Len(from)
  BY MovedBelow
<1>2. /\ f \in Seq(Node) /\ from \in Seq(Node) /\ to \in Seq(Node) /\ m \in Seq(Node)
      /\ Len(f) \in Nat /\ Len(from) \in Nat /\ Len(to) \in Nat /\ Len(m) \in Nat
  BY <1>1, LenProperties DEF Keyed
<1> HIDE DEF m
<1>3. n \in 1..Len(m)
  BY DEF m
<1>4. SubSeq(m, 1, n) \in Seq(Node) /\ Len(SubSeq(m, 1, n)) = n
      /\ \A i \in 1..n : SubSeq(m, 1, n)[i] = m[i]
  BY <1>2, <1>3, FirstOf
<1>5. CASE n <= Len(to)
  <2>1. SubSeq(to, 1, n) \in Seq(Node) /\ Len(SubSeq(to, 1, n)) = n
        /\ \A i \in 1..n : SubSeq(to, 1, n)[i] = to[i]
    BY <1>2, <1>3, <1>5, FirstOf
  <2>2. \A i \in 1..n : m[i] = to[i]
    BY <1>1, <1>2, <1>3, <1>5
  <2>3. SubSeq(m, 1, n) = SubSeq(to, 1, n)
    BY <1>4, <2>1, <2>2, SeqEqual
  <2> QED
    BY <1>5, <2>3 DEF m
<1>6. CASE n > Len(to)
  <2> DEFINE k == n - Len(to) + Len(from)
             g == SubSeq(f, 1, k)
             h == Moved(g, from, to)
  <2>1. k \in Len(from) + 1..Len(f) /\ k \in 0..Len(f) /\ k \in Nat
    BY <1>1, <1>2, <1>3, <1>6
  <2> HIDE DEF k
  <2>2. Keyed(g, u) /\ Len(g) = k /\ g \in Seq(Node) /\ \A i \in 1..k : g[i] = f[i]
    BY <1>2, <2>1, KeyedFirst, FirstOf
  <2> HIDE DEF g
  <2>3. IsPrefix(from, g)
    <3>1. \A i \in 1..Len(from) : from[i] = f[i]
      BY <1>2, PrefixOf
    <3>2. Len(from) <= Len(g) /\ \A i \in 1..Len(from) : from[i] = g[i]
      BY <1>2, <2>1, <2>2, <3>1
    <3> QED
      BY <1>2, <2>2, <3>2, PrefixOf
  <2>4. /\ Keyed(h, u) /\ Len(h) = Len(to) + (k - Len(from))
        /\ \A i \in 1..Len(to) : h[i] = to[i]
        /\ \A i \in Len(to) + 1..Len(h) : h[i] = g[i - Len(to) + Len(from)]
    BY <2>2, <2>3, MovedBelow
  <2> HIDE DEF h
  <2>5. Len(h) = n /\ h \in Seq(Node)
    BY <1>2, <1>3, <2>4 DEF k, Keyed
  <2>6. ASSUME NEW i \in 1..n
        PROVE  h[i] = m[i]
    <3>1. CASE i <= Len(to)
      BY <1>1, <1>2, <2>4, <3>1
    <3>2. CASE i > Len(to)
      <4> DEFINE j == i - Len(to) + Len(from)
      <4>1. j \in 1..k /\ i \in Len(to) + 1..Len(h) /\ i \in Len(to) + 1..Len(m)
        BY <1>2, <1>3, <2>5, <3>2 DEF k
      <4>2. h[i] = g[j] /\ m[i] = f[j]
        BY <1>1, <2>4, <4>1
      <4> HIDE DEF j
      <4> QED
        BY <2>2, <4>1, <4>2
    <3> QED
      BY <1>2, <3>1, <3>2
  <2>7. SubSeq(m, 1, n) = h
    BY <1>4, <2>5, <2>6, SeqEqual
  <2> QED
    BY <2>1, <2>3, <2>7 DEF m, h, g
<1> QED
  BY <1>2, <1>3, <1>5, <1>6

(***************************************************************************)
(* The directories of the storage: their secrets are their own, and of two *)
(* with one name under one key either came or was made again, unless their *)
(* parent was made again.  What ensure_dir has listed under the lock is    *)
(* all there is, but for what came since.                                  *)
(***************************************************************************)
Uniq(d, a) == \A e, f \in d : Secret(e) = Secret(f) => e = f \/ Secret(e) \in a
Twins(d, c, a) ==
  \A e, f \in d :
    IsDir(e) /\ IsDir(f) /\ Last(e).key = Last(f).key /\ Last(e).name = Last(f).name
      => \/ Secret(e) = Secret(f) \/ Secret(e) \in c \cup a \/ Secret(f) \in c \cup a
         \/ Last(e).key \in a
Listed(x, d, c, a) ==
  x.pc = "ensure" /\ x.answer.is = "ok" =>
    \A f \in d : IsDir(f) /\ Last(f).key = Secret(x.at) =>
      Last(f) \in x.answer.entries \/ Secret(f) \in c \cup a \/ Secret(x.at) \in a
Known(d, d2, g) ==
  \A f \in d2 : IsDir(f) => Secret(f) \in g \/ \E e \in d : Last(e) = Last(f)

LEMMA OfLast ==
  ASSUME NEW e, e # Root
  PROVE  Secret(e) = Last(e).secret /\ IsDir(e) = Last(e).dir
BY DEF Secret, IsDir

LEMMA TwinsKept ==
  ASSUME NEW d, Root \notin d, NEW d2, Root \notin d2, NEW c, NEW c2, NEW a, NEW a2,
         c \subseteq c2, a \subseteq a2, Known(d, d2, c2 \cup a2), Twins(d, c, a)
  PROVE  Twins(d2, c2, a2)
<1> SUFFICES ASSUME NEW e \in d2, NEW f \in d2, IsDir(e), IsDir(f),
                    Last(e).key = Last(f).key, Last(e).name = Last(f).name,
                    Secret(e) \notin c2 \cup a2, Secret(f) \notin c2 \cup a2
             PROVE  Secret(e) = Secret(f) \/ Last(e).key \in a2
  BY DEF Twins
<1>1. PICK e0 \in d : Last(e0) = Last(e)
  BY DEF Known
<1>2. PICK f0 \in d : Last(f0) = Last(f)
  BY DEF Known
<1>3. /\ Secret(e0) = Secret(e) /\ Secret(f0) = Secret(f) /\ IsDir(e0) /\ IsDir(f0)
      /\ Last(e0).key = Last(f0).key /\ Last(e0).name = Last(f0).name
  BY <1>1, <1>2, OfLast
<1> QED
  BY <1>1, <1>2, <1>3 DEF Twins

LEMMA ListedKept ==
  ASSUME NEW x, NEW d, Root \notin d, NEW d2, Root \notin d2, NEW c, NEW c2, NEW a, NEW a2,
         c \subseteq c2, a \subseteq a2, Known(d, d2, c2 \cup a2), Listed(x, d, c, a)
  PROVE  Listed(x, d2, c2, a2)
<1> SUFFICES ASSUME x.pc = "ensure", x.answer.is = "ok",
                    NEW f \in d2, IsDir(f), Last(f).key = Secret(x.at),
                    Secret(f) \notin c2 \cup a2
             PROVE  Last(f) \in x.answer.entries \/ Secret(x.at) \in a2
  BY DEF Listed
<1>1. PICK f0 \in d : Last(f0) = Last(f)
  BY DEF Known
<1>2. Secret(f0) = Secret(f) /\ IsDir(f0) /\ Last(f0).key = Secret(x.at)
  BY <1>1, OfLast
<1> QED
  BY <1>1, <1>2 DEF Listed

LEMMA AddedOK ==
  ASSUME NEW v, DiskOK(disk, v), NEW e, Keyed(e, v)
  PROVE  DiskOK(WithAncestors(e), v)
<1>1. e \in Seq(Node) /\ Len(e) \in Nat
  BY LenProperties DEF Keyed
<1> SUFFICES ASSUME NEW f \in WithAncestors(e)
             PROVE  /\ Keyed(f, v) /\ f # Root
                    /\ \A n \in 1..Len(f) : SubSeq(f, 1, n) \in WithAncestors(e)
  BY DEF DiskOK
<1>2. CASE f \in disk
  BY <1>2 DEF DiskOK, WithAncestors
<1>3. CASE f \notin disk
  <2>1. PICK n \in 1..Len(e) : f = SubSeq(e, 1, n)
    BY <1>3 DEF WithAncestors
  <2>2. Keyed(f, v) /\ Len(f) = n
    BY <1>1, <2>1, KeyedFirst
  <2>3. f # Root
    BY <1>1, <2>2, EmptySeq DEF Root
  <2>4. ASSUME NEW k \in 1..Len(f)
        PROVE  SubSeq(f, 1, k) = SubSeq(e, 1, k) /\ k \in 1..Len(e)
    <3>1. k \in 1..n /\ k \in 1..Len(e) /\ k \in 0..Len(e) /\ k \in 0..Len(f)
      BY <1>1, <2>2
    <3>2. /\ f \in Seq(Node) /\ \A i \in 1..n : f[i] = e[i]
      BY <1>1, <2>1, FirstOf
    <3>3. /\ SubSeq(f, 1, k) \in Seq(Node) /\ Len(SubSeq(f, 1, k)) = k
          /\ \A i \in 1..k : SubSeq(f, 1, k)[i] = f[i]
      BY <3>1, <3>2, FirstOf
    <3>4. /\ SubSeq(e, 1, k) \in Seq(Node) /\ Len(SubSeq(e, 1, k)) = k
          /\ \A i \in 1..k : SubSeq(e, 1, k)[i] = e[i]
      BY <1>1, <3>1, FirstOf
    <3>5. \A i \in 1..k : f[i] = e[i]
      BY <3>1, <3>2
    <3>6. SubSeq(f, 1, k) = SubSeq(e, 1, k)
      BY <3>3, <3>4, <3>5, SeqEqual
    <3> QED
      BY <3>1, <3>6
  <2> QED
    BY <2>2, <2>3, <2>4 DEF WithAncestors
<1> QED
  BY <1>2, <1>3

LEMMA WholePath ==
  ASSUME NEW u, NEW e, Keyed(e, u), e # Root
  PROVE  e \in WithAncestors(e) /\ disk \subseteq WithAncestors(e)
<1>1. e \in Seq(Node) /\ Len(e) \in Nat \ {0}
  BY EmptySeq DEF Keyed, Root
<1>2. SubSeq(e, 1, Len(e)) = e /\ Len(e) \in 1..Len(e)
  BY <1>1, SubSeqFull
<1>3. \E n \in 1..Len(e) : e = SubSeq(e, 1, n)
  BY <1>2, Zenon
<1> QED
  BY <1>3 DEF WithAncestors

LEMMA DiskLater ==
  ASSUME NEW u, NEW v, u \subseteq v, NEW d, DiskOK(d, u)
  PROVE  DiskOK(d, v)
BY KeyedLater DEF DiskOK

\* A new entry with all above it: unique, except what was made again.
LEMMA AddedUniq ==
  ASSUME NEW u, DiskOK(disk, u), NEW a, Uniq(disk, a), NEW e, Secret(e) \notin u
  PROVE  Uniq(WithAncestors(e), a \cup {Secret(f) : f \in WithAncestors(e) \ (disk \cup {e})})
<1> DEFINE b == a \cup {Secret(f) : f \in WithAncestors(e) \ (disk \cup {e})}
<1>1. \A f \in disk : Secret(f) \in u
  BY KeyedParts DEF DiskOK
<1>2. \A f \in WithAncestors(e) : f \in disk \/ f = e \/ Secret(f) \in b
  OBVIOUS
<1>3. a \subseteq b
  OBVIOUS
<1> HIDE DEF b
<1> SUFFICES ASSUME NEW f \in WithAncestors(e), NEW g \in WithAncestors(e), Secret(f) = Secret(g),
                    Secret(f) \notin b
             PROVE  f = g
  BY DEF Uniq, b
<1> QED
  BY <1>1, <1>2, <1>3 DEF Uniq

(***************************************************************************)
(* A renamed subtree.                                                      *)
(***************************************************************************)
LEMMA CarriedOK ==
  ASSUME NEW u, NEW d, DiskOK(d, u), NEW from, Keyed(from, u), from # Root,
         NEW parent, Keyed(parent, u), NEW n \in Node, n.key = Secret(parent),
         n.secret = Secret(from), ~IsPrefix(from, parent),
         \A k \in 1..Len(parent) : SubSeq(parent, 1, k) \in d
  PROVE  LET e == Append(parent, n)
         IN  /\ DiskOK({Moved(f, from, e) : f \in d}, u)
             /\ \A f \in d : Secret(Moved(f, from, e)) = Secret(f)
             /\ \A f \in d : f # from => Last(Moved(f, from, e)) = Last(f)
<1> DEFINE e == Append(parent, n)
           d2 == {Moved(f, from, e) : f \in d}
<1>1. Secret(from) \in u \ {0}
  BY KeyedParts
<1>2. Keyed(e, u) /\ e # Root /\ Secret(e) = Secret(from)
  BY <1>1, KeyedAppend
<1>3. /\ parent \in Seq(Node) /\ from \in Seq(Node) /\ e \in Seq(Node)
      /\ Len(parent) \in Nat /\ Len(from) \in Nat \ {0} /\ Len(e) = Len(parent) + 1
      /\ \A i \in 1..Len(parent) : e[i] = parent[i]
  BY <1>2, Appended, LenProperties, EmptySeq DEF Keyed, Root
<1> HIDE DEF e
<1>4. ASSUME NEW f \in d
      PROVE  Keyed(f, u) /\ f # Root /\ f \in Seq(Node) /\ Len(f) \in Nat
             /\ \A k \in 1..Len(f) : SubSeq(f, 1, k) \in d /\ SubSeq(f, 1, k) \in Seq(Node)
                                     /\ Len(SubSeq(f, 1, k)) = k
  <2>1. Keyed(f, u) /\ f # Root /\ f \in Seq(Node) /\ Len(f) \in Nat
    BY LenProperties DEF DiskOK, Keyed
  <2> QED
    BY <2>1, FirstOf DEF DiskOK
<1>5. ASSUME NEW f \in d, IsPrefix(from, f)
      PROVE  from \in d
  <2>1. Len(from) \in 1..Len(f) /\ \A i \in 1..Len(from) : from[i] = f[i]
    BY <1>3, <1>4, <1>5, PrefixOf
  <2>2. SubSeq(f, 1, Len(from)) = from
    <3>1. /\ SubSeq(f, 1, Len(from)) \in Seq(Node) /\ Len(SubSeq(f, 1, Len(from))) = Len(from)
          /\ \A i \in 1..Len(from) : SubSeq(f, 1, Len(from))[i] = f[i]
      BY <1>3, <1>4, <2>1, FirstOf
    <3> QED
      BY <1>3, <2>1, <3>1, SeqEqual
  <2> QED
    BY <1>4, <2>1, <2>2
<1>6. ASSUME NEW k \in 1..Len(parent)
      PROVE  SubSeq(e, 1, k) \in d2
  <2>1. SubSeq(e, 1, k) = SubSeq(parent, 1, k) /\ SubSeq(parent, 1, k) \in Seq(Node)
        /\ Len(SubSeq(parent, 1, k)) = k /\ \A i \in 1..k : SubSeq(parent, 1, k)[i] = parent[i]
    <3>1. k \in 0..Len(parent) /\ k \in 0..Len(e)
      BY <1>3
    <3>2. /\ SubSeq(e, 1, k) \in Seq(Node) /\ Len(SubSeq(e, 1, k)) = k
          /\ \A i \in 1..k : SubSeq(e, 1, k)[i] = e[i]
      BY <1>3, <3>1, FirstOf
    <3>3. /\ SubSeq(parent, 1, k) \in Seq(Node) /\ Len(SubSeq(parent, 1, k)) = k
          /\ \A i \in 1..k : SubSeq(parent, 1, k)[i] = parent[i]
      BY <1>3, <3>1, FirstOf
    <3>4. \A i \in 1..k : e[i] = parent[i]
      BY <1>3
    <3> QED
      BY <3>2, <3>3, <3>4, SeqEqual
  <2>2. ~IsPrefix(from, SubSeq(parent, 1, k))
    <3> SUFFICES ASSUME IsPrefix(from, SubSeq(parent, 1, k)) PROVE FALSE
      OBVIOUS
    <3> DEFINE t == SubSeq(parent, 1, k)
    <3>0. t \in Seq(Node) /\ Len(t) = k /\ IsPrefix(from, t)
      BY <2>1
    <3> HIDE DEF t
    <3>a. Len(from) <= k /\ \A i \in 1..Len(from) : from[i] = t[i]
      BY <1>3, <3>0, PrefixOf
    <3>1. Len(from) <= k /\ \A i \in 1..Len(from) : from[i] = SubSeq(parent, 1, k)[i]
      BY <3>a DEF t
    <3>2. Len(from) <= Len(parent) /\ \A i \in 1..Len(from) : from[i] = parent[i]
      BY <1>3, <2>1, <3>1
    <3> QED
      BY <1>3, <3>2, PrefixOf
  <2>3. Moved(SubSeq(parent, 1, k), from, e) = SubSeq(parent, 1, k)
    BY <2>2 DEF Moved
  <2> QED
    BY <2>1, <2>3
<1>7. ASSUME NEW f \in d
      PROVE  LET m == Moved(f, from, e)
             IN  /\ Keyed(m, u) /\ m # Root /\ \A k \in 1..Len(m) : SubSeq(m, 1, k) \in d2
                 /\ Secret(m) = Secret(f) /\ (f # from => Last(m) = Last(f))
  <2> DEFINE m == Moved(f, from, e)
  <2>1. CASE ~IsPrefix(from, f)
    <3>1. m = f
      BY <2>1 DEF Moved
    <3>2. ASSUME NEW k \in 1..Len(f)
          PROVE  SubSeq(f, 1, k) \in d2
      <4>1. SubSeq(f, 1, k) \in d /\ SubSeq(f, 1, k) \in Seq(Node) /\ Len(SubSeq(f, 1, k)) = k
            /\ \A i \in 1..k : SubSeq(f, 1, k)[i] = f[i]
        BY <1>4, FirstOf
      <4>2. ~IsPrefix(from, SubSeq(f, 1, k))
        <5> SUFFICES ASSUME IsPrefix(from, SubSeq(f, 1, k)) PROVE FALSE
          OBVIOUS
        <5> DEFINE t == SubSeq(f, 1, k)
        <5>0. t \in Seq(Node) /\ Len(t) = k /\ IsPrefix(from, t)
          BY <4>1
        <5> HIDE DEF t
        <5>a. Len(from) <= k /\ \A i \in 1..Len(from) : from[i] = t[i]
          BY <1>3, <5>0, PrefixOf
        <5>1. Len(from) <= k /\ \A i \in 1..Len(from) : from[i] = SubSeq(f, 1, k)[i]
          BY <5>a DEF t
        <5>2. Len(from) <= Len(f) /\ \A i \in 1..Len(from) : from[i] = f[i]
          BY <1>3, <1>4, <4>1, <5>1
        <5> QED
          BY <1>3, <1>4, <2>1, <5>2, PrefixOf
      <4>3. Moved(SubSeq(f, 1, k), from, e) = SubSeq(f, 1, k)
        BY <4>2 DEF Moved
      <4> QED
        BY <4>1, <4>3
    <3> HIDE DEF d2, m
    <3> QED
      BY <1>4, <3>1, <3>2 DEF m
  <2>2. CASE IsPrefix(from, f)
    <3>1. Keyed(m, u) /\ m # Root /\ Secret(m) = Secret(f) /\ (f # from => Last(m) = Last(f))
      BY <1>2, <1>4, <2>2, MovedBelow
    <3>2. ASSUME NEW k \in 1..Len(m)
          PROVE  SubSeq(m, 1, k) \in d2
      <4>1. \/ k <= Len(e) /\ SubSeq(m, 1, k) = SubSeq(e, 1, k)
            \/ \E j \in Len(from) + 1..Len(f) : SubSeq(m, 1, k) = Moved(SubSeq(f, 1, j), from, e)
        BY <1>2, <1>4, <2>2, AboveMoved
      <4>2. CASE k <= Len(e) /\ SubSeq(m, 1, k) = SubSeq(e, 1, k)
        <5>1. CASE k <= Len(parent)
          <6>1. k \in 1..Len(parent)
            BY <1>3, <5>1
          <6> QED
            BY <1>6, <4>2, <6>1
        <5>2. CASE k = Len(e)
          <6>1. SubSeq(e, 1, k) = e
            BY <1>3, <5>2, SubSeqFull
          <6>2. from \in d
            BY <1>5, <2>2
          <6>3. IsPrefix(from, from)
            BY <1>3, PrefixOf
          <6>4. Moved(from, from, e) = e
            BY <1>2, <1>4, <6>2, <6>3, MovedBelow
          <6> QED
            BY <4>2, <6>1, <6>2, <6>4
        <5> QED
          BY <1>3, <4>2, <5>1, <5>2
      <4>3. CASE \E j \in Len(from) + 1..Len(f) : SubSeq(m, 1, k) = Moved(SubSeq(f, 1, j), from, e)
        <5>1. PICK j \in Len(from) + 1..Len(f) : SubSeq(m, 1, k) = Moved(SubSeq(f, 1, j), from, e)
          BY <4>3
        <5>2. j \in 1..Len(f)
          BY <1>3, <1>4
        <5> QED
          BY <1>4, <5>1, <5>2
      <4> QED
        BY <4>1, <4>2, <4>3
    <3> HIDE DEF d2, m
    <3> QED
      BY <3>1, <3>2 DEF m
  <2> QED
    BY <2>1, <2>2
<1>8. DiskOK(d2, u)
  BY <1>7 DEF DiskOK
<1> QED
  BY <1>7, <1>8 DEF e

(***************************************************************************)
(* What find_child and the path cache give.                                *)
(***************************************************************************)
LEMMA FindChildOK ==
  ASSUME NEW u, Secrets(u), NEW entries, \A n \in entries : n.secret \in u \ {0},
         NEW e, NEW name
  PROVE  LET n == FindChild(entries, e, name)
         IN  /\ n # Missing => n \in entries /\ n.key = Secret(e) /\ n.name = name
             /\ n = Missing => Candidates(entries, e, name) = {}
<1> DEFINE found == Candidates(entries, e, name)
           best == CHOOSE n \in found : \A m \in found : n.secret <= m.secret
<1>1. CASE found = {}
  BY <1>1 DEF FindChild
<1>2. CASE found # {}
  <2> DEFINE S == {n.secret : n \in found}
  <2>1. \A n \in found : n \in entries /\ n.key = Secret(e) /\ n.name = name
    BY DEF Candidates
  <2> HIDE DEF found
  <2>2. S \subseteq u /\ S # {}
    BY <1>2, <2>1
  <2>3. IsFiniteSet(S) /\ S \subseteq Int
    BY <2>2, FS_Subset DEF Secrets
  <2>4. PICK s \in S : \A t \in S : s <= t
    <3> HIDE DEF S
    <3> QED
      BY <2>2, <2>3, LeastOf
  <2>5. \E n \in found : \A m \in found : n.secret <= m.secret
    BY <2>4
  <2>6. best \in found
    BY <2>5
  <2>7. FindChild(entries, e, name) = best
    BY <1>2 DEF FindChild, found
  <2>8. PICK b \in found : b = FindChild(entries, e, name)
    BY <2>6, <2>7
  <2>9. b.secret # 0
    BY <2>1
  <2>10. b # Missing
    BY <2>9 DEF Missing
  <2> HIDE DEF best
  <2> QED
    BY <2>1, <2>8, <2>10
<1> QED
  BY <1>1, <1>2

LEMMA MissingIsNode == Missing \in Node
BY DEF Missing, Node

LEMMA EvictOK ==
  ASSUME NEW k, CacheOK(k), NEW p
  PROVE  CacheOK(Evict(k, p))
BY MissingIsNode DEF CacheOK, Evict, Cached

LEMMA StoredOK ==
  ASSUME NEW k, CacheOK(k), NEW p \in Paths, NEW n \in Node, n.name = Last(p)
  PROVE  CacheOK(Stored(k, p, n))
BY DEF CacheOK, Stored, Cached

\* Where the cache leads to: a node with the names of the path so far.
LEMMA StartOK ==
  ASSUME NEW k, CacheOK(k), NEW goal \in Paths, ~Gap(k, Front(goal))
  PROVE  LET n == StartDepth(k, Front(goal))
             at == CachedNode(k, Front(goal))
         IN  /\ n \in 0..Len(goal) - 1 /\ at \in Seq(Node) /\ Len(at) = n
             /\ \A i \in 1..n : at[i].name = goal[i]
<1> DEFINE p == Front(goal)
           U == UsableDepths(k, p)
           n == StartDepth(k, p)
           at == CachedNode(k, p)
<1>1. /\ Len(goal) \in Nat \ {0} /\ Len(p) = Len(goal) - 1 /\ p \in Seq(Names)
      /\ \A i \in 1..Len(goal) - 1 : p[i] = goal[i]
  BY PathFacts
<1>2. U \subseteq 1..Len(p)
  BY DEF UsableDepths
<1>3. n \in 0..Len(p)
  <2>1. CASE U = {}
    BY <1>1, <2>1 DEF StartDepth
  <2>2. CASE U # {}
    <3>1. IsFiniteSet(U) /\ U \subseteq Int
      <4>1. Len(p) \in Int
        BY <1>1
      <4>2. IsFiniteSet(1..Len(p))
        BY <4>1, FS_Interval
      <4> HIDE DEF U
      <4>3. IsFiniteSet(U)
        BY <1>2, <4>2, FS_Subset
      <4> QED
        BY <1>2, <4>1, <4>3
    <3>2. \E i \in U : \A j \in U : i >= j
      <4> HIDE DEF U
      <4> QED
        BY <2>2, <3>1, GreatestOf
    <3>3. \E i \in U : \A j \in U : j <= i
      <4>1. \A i, j \in U : i >= j => j <= i
        BY <3>1
      <4> QED
        BY <3>2, <4>1
    <3>4. n \in U
      BY <2>2, <3>3 DEF StartDepth
    <3> QED
      BY <1>1, <1>2, <3>4
  <2> QED
    BY <2>1, <2>2
<1>4. \A i \in 1..n : Cached(k, SubSeq(p, 1, i))
  BY DEF Gap
<1> HIDE DEF n, U
<1>5. ASSUME NEW i \in 1..n
      PROVE  k[SubSeq(p, 1, i)] \in Node /\ k[SubSeq(p, 1, i)].name = goal[i]
  <2>1. Len(goal) > 1 /\ p \in Paths /\ i \in 1..Len(p) /\ i \in 0..Len(p)
    BY <1>1, <1>3, PathFacts
  <2>2. SubSeq(p, 1, i) \in Paths
    BY <2>1, PathFacts
  <2>3. SubSeq(p, 1, i) \in Seq(Names) /\ Len(SubSeq(p, 1, i)) = i
        /\ \A j \in 1..i : SubSeq(p, 1, i)[j] = p[j]
    BY <1>1, <2>1, FirstOf
  <2>4. Last(SubSeq(p, 1, i)) = goal[i]
    BY <1>1, <2>1, <2>3 DEF Last
  <2>5. k[SubSeq(p, 1, i)] \in Node /\ k[SubSeq(p, 1, i)].name = Last(SubSeq(p, 1, i))
    BY <1>4, <2>2 DEF CacheOK
  <2> QED
    BY <2>4, <2>5
<1>6. at = [i \in 1..n |-> k[SubSeq(p, 1, i)]]
  BY DEF CachedNode, n
<1> HIDE DEF at, p
<1>7. n \in Nat
  BY <1>1, <1>3
<1>8. at \in [1..n -> Node] /\ \A i \in 1..n : at[i].name = goal[i]
  BY <1>5, <1>6
<1>9. at \in Seq(Node)
  BY <1>7, <1>8, SeqDef
<1>10. Len(at) = n
  BY <1>7, <1>8, <1>9, LenProperties
<1> QED
  BY <1>1, <1>3, <1>8, <1>9, <1>10 DEF n, at, p

(***************************************************************************)
(* Where a request goes on: each way leads to a request in order again, of *)
(* the same kind and about the same path.                                  *)
(***************************************************************************)
Goes(x, y, u) ==
  /\ CallOK(y, u) /\ y.op = x.op /\ y.path = x.path
  /\ y.pc \notin {"idle", "wait", "ensure"}
  /\ y.pc \in Listing => y.answer = NoAnswer
Finds(x, y) == y.outcome = "ok" => y.at = x.at

LEMMA RootIsPath == Root \in Seq(Node) /\ NoAnswer \in [is : {"none", "ok", "missing"}, entries : SUBSET Node]
BY EmptySeq DEF Root, NoAnswer

LEMMA ReturnOK ==
  ASSUME NEW x \in CallType, x.op # "none", NEW u, NEW outcome \in {"ok", "absent", "error"}
  PROVE  Goes(x, Return(x, outcome), u) /\ Return(x, outcome).at = x.at
         /\ Return(x, outcome).outcome = outcome /\ Return(x, outcome).pc = "done"
<1> DEFINE y == Return(x, outcome)
<1>1. y \in CallType
  BY RootIsPath DEF Return, Idle, CallType, Pcs, Operations
<1>3. y.pc = "done" /\ y.op = x.op /\ y.path = x.path /\ y.at = x.at /\ y.outcome = outcome
  BY DEF Return, Idle
<1> HIDE DEF y
<1>4. CallOK(y, u)
  BY <1>1, <1>3 DEF CallOK, Listing
<1> QED
  BY <1>3, <1>4 DEF Goes, Listing, y

LEMMA ListOK ==
  ASSUME NEW x \in CallType, x.op # "none", x.outcome = "none", NEW u,
         NEW pc \in Listing,
         pc \in {"descend", "leaf"} => Purpose(x, u) /\ x.goal \in Paths /\ At(x),
         pc = "leaf" <=> pc \in {"descend", "leaf"} /\ x.depth = Len(x.goal) - 1,
         pc # "ensure", pc = "children" => x.op = "list"
  PROVE  Goes(x, List(x, pc), u) /\ Finds(x, List(x, pc))
<1> DEFINE y == List(x, pc)
<1>1. y \in CallType
  BY RootIsPath DEF List, CallType, Pcs, Listing
<1>2. /\ y.pc = pc /\ y.op = x.op /\ y.path = x.path /\ y.at = x.at /\ y.outcome = x.outcome
      /\ y.to = x.to /\ y.goal = x.goal /\ y.depth = x.depth /\ y.stage = x.stage
      /\ y.from = x.from /\ y.parent = x.parent /\ y.answer = NoAnswer
  BY DEF List, CallType
<1> HIDE DEF y
<1>3. Purpose(x, u) => Purpose(y, u)
  BY <1>2 DEF Purpose, HasParent, HasFrom, Leads
<1>4. At(x) => At(y)
  BY <1>2 DEF At
<1>5. CallOK(y, u)
  BY <1>1, <1>2, <1>3, <1>4 DEF CallOK, NoAnswer, Listing
<1> QED
  BY <1>2, <1>5 DEF Goes, Finds, Listing, y

\* The request goes on at another place of the code.
LEMMA SetPcOK ==
  ASSUME NEW x \in CallType, x.op # "none", x.outcome = "none", NEW u,
         NEW pc \in {"lost", "create", "remove", "rename"},
         pc = "lost" => Purpose(x, u) /\ x.goal \in Paths,
         pc = "create" => Makes(x, u),
         pc = "remove" => x.op = "delete" \/ Makes(x, u),
         pc = "rename" => x.op = "rename" /\ HasFrom(x, u) /\ HasParent(x, x.to, u)
  PROVE  Goes(x, [x EXCEPT !.pc = pc], u) /\ Finds(x, [x EXCEPT !.pc = pc])
<1> DEFINE y == [x EXCEPT !.pc = pc]
<1>1. y \in CallType
  BY DEF CallType, Pcs
<1>2. /\ y.pc = pc /\ y.op = x.op /\ y.path = x.path /\ y.at = x.at /\ y.outcome = x.outcome
      /\ y.to = x.to /\ y.goal = x.goal /\ y.depth = x.depth /\ y.stage = x.stage
      /\ y.from = x.from /\ y.parent = x.parent /\ y.answer = x.answer
  BY DEF CallType
<1> HIDE DEF y
<1>3. /\ Purpose(x, u) => Purpose(y, u)
      /\ Makes(x, u) => Makes(y, u)
      /\ HasFrom(x, u) => HasFrom(y, u)
      /\ HasParent(x, x.to, u) => HasParent(y, y.to, u)
  BY <1>2 DEF Purpose, HasParent, HasFrom, Leads, Makes
<1>5. CallOK(y, u)
  BY <1>1, <1>2, <1>3 DEF CallOK, Listing
<1> QED
  BY <1>2, <1>5 DEF Goes, Finds, Listing, y

LEMMA PurposeFacts ==
  ASSUME NEW x \in CallType, NEW u, Purpose(x, u), x.goal \in Paths
  PROVE  /\ x.op # "none" /\ x.stage \in {"locate", "name", "parent", "target"}
         /\ x.stage = "name" => Makes(x, u)
         /\ x.stage = "target" => x.op = "rename" /\ HasFrom(x, u) /\ HasParent(x, x.to, u)
BY DEF Purpose, Makes

LEMMA AbsentOK ==
  ASSUME NEW x \in CallType, x.outcome = "none", NEW u, Purpose(x, u), x.goal \in Paths
  PROVE  Goes(x, Absent(x), u) /\ Absent(x).outcome # "ok"
<1>1. /\ x.op # "none" /\ x.stage \in {"locate", "name", "parent", "target"}
      /\ x.stage = "name" => Makes(x, u)
      /\ x.stage = "target" => x.op = "rename" /\ HasFrom(x, u) /\ HasParent(x, x.to, u)
  BY PurposeFacts
<1>2. CASE x.stage = "name"
  <2>1. Absent(x) = [x EXCEPT !.pc = "create"] /\ [x EXCEPT !.pc = "create"].outcome = "none"
    BY <1>2 DEF Absent, CallType
  <2>2. Goes(x, [x EXCEPT !.pc = "create"], u)
    BY <1>1, <1>2, SetPcOK
  <2> QED
    BY <2>1, <2>2
<1>3. CASE x.stage = "target"
  <2>1. Absent(x) = [x EXCEPT !.pc = "rename"] /\ [x EXCEPT !.pc = "rename"].outcome = "none"
    BY <1>3 DEF Absent, CallType
  <2>2. Goes(x, [x EXCEPT !.pc = "rename"], u)
    BY <1>1, <1>3, SetPcOK
  <2> QED
    BY <2>1, <2>2
<1>4. CASE x.stage \in {"locate", "parent"}
  <2>1. Absent(x) = Return(x, "absent")
    BY <1>4 DEF Absent
  <2> QED
    BY <1>1, <2>1, ReturnOK
<1> QED
  BY <1>1, <1>2, <1>3, <1>4

LEMMA BrokenOK ==
  ASSUME NEW x \in CallType, x.outcome = "none", NEW u, Purpose(x, u), x.goal \in Paths
  PROVE  Goes(x, Broken(x), u) /\ Broken(x).outcome # "ok"
<1>1. /\ x.op # "none"
      /\ x.stage = "target" => x.op = "rename" /\ HasFrom(x, u) /\ HasParent(x, x.to, u)
  BY PurposeFacts
<1>2. CASE x.stage = "target"
  <2>1. Broken(x) = [x EXCEPT !.pc = "rename"] /\ [x EXCEPT !.pc = "rename"].outcome = "none"
    BY <1>2 DEF Broken, CallType
  <2>2. Goes(x, [x EXCEPT !.pc = "rename"], u)
    BY <1>1, <1>2, SetPcOK
  <2> QED
    BY <2>1, <2>2
<1>3. CASE x.stage # "target"
  <2>1. Broken(x) = Return(x, "error")
    BY <1>3 DEF Broken
  <2> QED
    BY <1>1, <2>1, ReturnOK
<1> QED
  BY <1>2, <1>3

LEMMA OnwardOK ==
  ASSUME NEW x \in CallType, x.outcome = "none", NEW u, Purpose(x, u), x.goal \in Paths, At(x)
  PROVE  Goes(x, Onward(x), u) /\ Onward(x).outcome # "ok"
<1> DEFINE leaf == x.depth = Len(x.goal) - 1
<1>1. x.op # "none"
  BY PurposeFacts
<1>2. CASE IsDir(x.at)
  <2>1. PICK pc \in {"leaf", "descend"} : (pc = "leaf" <=> leaf) /\ Onward(x) = List(x, pc)
    BY <1>2 DEF Onward
  <2>2. List(x, pc).outcome = "none"
    BY DEF List, CallType
  <2>3. pc \in Listing /\ (pc = "leaf" <=> pc \in {"descend", "leaf"} /\ x.depth = Len(x.goal) - 1)
        /\ pc # "ensure" /\ pc # "children"
    BY <2>1 DEF Listing
  <2>4. Goes(x, List(x, pc), u)
    BY <1>1, <2>3, ListOK
  <2> QED
    BY <2>1, <2>2, <2>4
<1>3. CASE ~IsDir(x.at) /\ leaf
  <2>1. Onward(x) = Absent(x)
    BY <1>3 DEF Onward
  <2> QED
    BY <2>1, AbsentOK
<1>4. CASE ~IsDir(x.at) /\ ~leaf
  <2>1. Onward(x) = [x EXCEPT !.pc = "lost"] /\ [x EXCEPT !.pc = "lost"].outcome = "none"
    BY <1>4 DEF Onward, CallType
  <2>2. Goes(x, [x EXCEPT !.pc = "lost"], u)
    BY <1>1, SetPcOK
  <2> QED
    BY <2>1, <2>2
<1> QED
  BY <1>2, <1>3, <1>4

LEMMA FromCacheOK ==
  ASSUME NEW x \in CallType, x.outcome = "none", NEW u, Purpose(x, u), x.goal \in Paths,
         NEW k, CacheOK(k)
  PROVE  Goes(x, FromCache(x, k), u) /\ FromCache(x, k).outcome # "ok"
<1> DEFINE p == Front(x.goal)
           n == StartDepth(k, p)
           at == CachedNode(k, p)
           y == [x EXCEPT !.depth = n, !.at = at]
<1>1. CASE Gap(k, p)
  BY <1>1, BrokenOK DEF FromCache
<1>2. CASE ~Gap(k, p)
  <2>1. /\ n \in 0..Len(x.goal) - 1 /\ at \in Seq(Node) /\ Len(at) = n
        /\ \A i \in 1..n : at[i].name = x.goal[i]
    BY <1>2, StartOK
  <2>2. FromCache(x, k) = Onward(y)
    BY <1>2 DEF FromCache
  <2> HIDE DEF n, at
  <2>3. Len(x.goal) \in Nat \ {0}
    BY PathFacts
  <2>4. y \in CallType
    <3>1. n \in Nat /\ at \in Seq(Node)
      BY <2>1, <2>3
    <3> QED
      BY <3>1 DEF CallType
  <2>5. /\ y.pc = x.pc /\ y.op = x.op /\ y.path = x.path /\ y.at = at /\ y.outcome = x.outcome
        /\ y.to = x.to /\ y.goal = x.goal /\ y.depth = n /\ y.stage = x.stage
        /\ y.from = x.from /\ y.parent = x.parent
    BY DEF CallType
  <2> HIDE DEF y
  <2>6. Purpose(y, u)
    BY <2>5 DEF Purpose, HasParent, HasFrom, Leads
  <2>7. At(y)
    BY <2>1, <2>3, <2>5 DEF At
  <2>8. Goes(y, Onward(y), u) /\ Onward(y).outcome # "ok"
    BY <2>4, <2>5, <2>6, <2>7, OnwardOK
  <2> QED
    BY <2>2, <2>5, <2>8 DEF Goes
<1> QED
  BY <1>1, <1>2

LEMMA ResolveOK ==
  ASSUME NEW x \in CallType, x.outcome = "none", NEW u, NEW k, CacheOK(k),
         NEW goal \in Paths, NEW stage \in {"locate", "name", "parent", "target"},
         \/ /\ stage = "locate" /\ x.op \in {"read", "list", "delete", "rename"}
            /\ goal = x.path /\ (x.op = "rename" => Leads(x))
         \/ stage = "name" /\ x.op = "upload" /\ goal = x.path /\ HasParent(x, x.path, u)
         \/ /\ stage = "parent" /\ x.op = "rename" /\ Len(x.to) > 1 /\ goal = Front(x.to)
            /\ HasFrom(x, u)
         \/ /\ stage = "target" /\ x.op = "rename" /\ goal = x.to
            /\ HasFrom(x, u) /\ HasParent(x, x.to, u)
  PROVE  Goes(x, Resolve(x, goal, stage, k), u) /\ Resolve(x, goal, stage, k).outcome # "ok"
<1> DEFINE y == [x EXCEPT !.goal = goal, !.stage = stage, !.retried = FALSE]
<1>1. Resolve(x, goal, stage, k) = FromCache(y, k)
  BY DEF Resolve
<1>2. y \in CallType
  BY DEF CallType
<1>3. /\ y.op = x.op /\ y.path = x.path /\ y.outcome = x.outcome
      /\ y.to = x.to /\ y.goal = goal /\ y.stage = stage /\ y.from = x.from /\ y.parent = x.parent
  BY DEF CallType
<1> HIDE DEF y
<1>4. Purpose(y, u)
  BY <1>3 DEF Purpose, HasParent, HasFrom, Leads
<1>5. Goes(y, FromCache(y, k), u) /\ FromCache(y, k).outcome # "ok"
  BY <1>2, <1>3, <1>4, FromCacheOK
<1> QED
  BY <1>1, <1>3, <1>5 DEF Goes

LEMMA MoreThanOne ==
  ASSUME NEW n \in Nat \ {0}, n # 1
  PROVE  n > 1
OBVIOUS

LEMMA FoundOK ==
  ASSUME NEW x \in CallType, x.outcome = "none", NEW u, Purpose(x, u), x.goal \in Paths,
         Keyed(x.at, u), Named(x.at, x.goal), NEW k, CacheOK(k)
  PROVE  Goes(x, Found(x, k), u) /\ Finds(x, Found(x, k))
<1> DEFINE y == Found(x, k)
<1>0. /\ x.op # "none" /\ x.stage \in {"locate", "name", "parent", "target"}
      /\ x.stage = "name" => Makes(x, u)
  BY PurposeFacts
<1>1. ASSUME NEW outcome \in {"ok", "error"}, y = Return(x, outcome)
      PROVE  Goes(x, y, u) /\ Finds(x, y)
  BY <1>0, <1>1, ReturnOK DEF Finds
<1>2. ASSUME y = [x EXCEPT !.pc = "remove"], x.op = "delete" \/ Makes(x, u)
      PROVE  Goes(x, y, u) /\ Finds(x, y)
  BY <1>0, <1>2, SetPcOK
<1>3. CASE x.op = "read"
  <2>1. y = Return(x, "ok")
    BY <1>3 DEF Found
  <2> QED
    BY <1>1, <2>1
<1>4. CASE x.op = "list"
  <2>1. CASE IsDir(x.at)
    <3>1. y = List(x, "children")
      BY <1>4, <2>1 DEF Found
    <3>2. Goes(x, List(x, "children"), u) /\ Finds(x, List(x, "children"))
      <4>1. "children" \in Listing /\ "children" # "leaf" /\ "children" \notin {"descend", "leaf"}
            /\ "children" # "ensure"
        BY DEF Listing
      <4> QED
        BY <1>0, <1>4, <4>1, ListOK
    <3> QED
      BY <3>1, <3>2
  <2>2. CASE ~IsDir(x.at)
    <3>1. y = Return(x, "error")
      BY <1>4, <2>2 DEF Found
    <3> QED
      BY <1>1, <3>1
  <2> QED
    BY <2>1, <2>2
<1>5. CASE x.op = "delete"
  <2>1. y = [x EXCEPT !.pc = "remove"]
    BY <1>5 DEF Found
  <2> QED
    BY <1>2, <1>5, <2>1
<1>6. CASE x.op = "upload"
  <2>1. Makes(x, u)
    BY <1>0, <1>6 DEF Purpose
  <2>2. y = [x EXCEPT !.pc = "remove"] \/ y = Return(x, "error")
    BY <1>6 DEF Found
  <2> QED
    BY <1>1, <1>2, <2>1, <2>2
<1>7. CASE x.op = "rename" /\ x.stage = "locate"
  <2> DEFINE z == [x EXCEPT !.from = x.at]
             w == [x EXCEPT !.from = x.at, !.parent = Root]
  <2>1. Leads(x) /\ x.goal = x.path
    BY <1>7 DEF Purpose
  <2>2. x.to \in Paths /\ Len(x.to) \in Nat \ {0} /\ Len(Front(x.to)) = Len(x.to) - 1
    <3>1. x.to \in Paths
      BY <2>1 DEF Leads
    <3> QED
      BY <3>1, PathFacts
  <2>3. CASE Len(x.to) = 1
    <3>1. y = Resolve(w, x.to, "target", k)
      BY <1>7, <2>3 DEF Found
    <3>2. w \in CallType
      BY RootIsPath DEF CallType
    <3>3. /\ w.op = x.op /\ w.path = x.path /\ w.outcome = x.outcome /\ w.to = x.to
          /\ w.from = x.at /\ w.parent = Root
      BY DEF CallType
    <3> HIDE DEF w
    <3>4. HasFrom(w, u)
      BY <2>1, <3>3 DEF HasFrom, Leads
    <3>5. HasParent(w, w.to, u)
      BY <2>2, <2>3, <3>3, KeyedRoot DEF HasParent, Named
    <3>6. Goes(w, Resolve(w, x.to, "target", k), u) /\ Resolve(w, x.to, "target", k).outcome # "ok"
      BY <1>7, <2>2, <3>2, <3>3, <3>4, <3>5, ResolveOK
    <3> QED
      BY ONLY <3>1, <3>3, <3>6 DEF Goes, Finds
  <2>4. CASE Len(x.to) # 1
    <3>0. Len(x.to) > 1
      BY ONLY <2>2, <2>4, MoreThanOne, Zenon
    <3>1. y = Resolve(z, Front(x.to), "parent", k)
      BY <1>7, <3>0, <2>4 DEF Found
    <3>2. z \in CallType
      BY DEF CallType
    <3>3. /\ z.op = x.op /\ z.path = x.path /\ z.outcome = x.outcome /\ z.to = x.to /\ z.from = x.at
      BY DEF CallType
    <3> HIDE DEF z
    <3>4. HasFrom(z, u)
      BY <2>1, <3>3 DEF HasFrom, Leads
    <3>5. Len(x.to) > 1 /\ Front(x.to) \in Paths
      BY ONLY <2>2, <3>0, PathFacts
    <3>6. Goes(z, Resolve(z, Front(x.to), "parent", k), u)
          /\ Resolve(z, Front(x.to), "parent", k).outcome # "ok"
      BY <1>7, <3>2, <3>3, <3>4, <3>5, ResolveOK
    <3> QED
      BY ONLY <3>1, <3>3, <3>6 DEF Goes, Finds
  <2> QED
    BY <2>3, <2>4
<1>8. CASE x.op = "rename" /\ x.stage = "parent"
  <2> DEFINE z == [x EXCEPT !.parent = x.at]
  <2>1. HasFrom(x, u) /\ x.goal = Front(x.to) /\ x.to \in Paths
    BY <1>8 DEF Purpose, HasFrom, Leads
  <2>2. CASE IsDir(x.at)
    <3>1. y = Resolve(z, x.to, "target", k)
      BY <1>8, <2>2 DEF Found
    <3>2. z \in CallType
      BY DEF CallType
    <3>3. /\ z.op = x.op /\ z.path = x.path /\ z.outcome = x.outcome /\ z.to = x.to
          /\ z.from = x.from /\ z.parent = x.at
      BY DEF CallType
    <3> HIDE DEF z
    <3>4. HasFrom(z, u) /\ HasParent(z, z.to, u)
      BY <2>1, <3>3 DEF HasFrom, Leads, HasParent
    <3>5. Goes(z, Resolve(z, x.to, "target", k), u) /\ Resolve(z, x.to, "target", k).outcome # "ok"
      BY <1>8, <2>1, <3>2, <3>3, <3>4, ResolveOK
    <3> QED
      BY ONLY <3>1, <3>3, <3>5 DEF Goes, Finds
  <2>3. CASE ~IsDir(x.at)
    <3>1. y = Return(x, "error")
      BY <1>8, <2>3 DEF Found
    <3> QED
      BY <1>1, <3>1
  <2> QED
    BY <2>2, <2>3
<1>9. CASE x.op = "rename" /\ x.stage = "target"
  <2>1. y = Return(x, "error")
    BY <1>9 DEF Found
  <2> QED
    BY <1>1, <2>1
<1>10. \/ x.op = "read" \/ x.op = "list" \/ x.op = "delete" \/ x.op = "upload"
       \/ x.op = "rename" /\ x.stage = "locate"
       \/ x.op = "rename" /\ x.stage = "parent"
       \/ x.op = "rename" /\ x.stage = "target"
  BY DEF Purpose
<1>11. Goes(x, y, u) /\ Finds(x, y)
  <2> DEFINE G == Goes(x, y, u) /\ Finds(x, y)
  <2>1. x.op = "read" => G
    BY <1>3
  <2>2. x.op = "list" => G
    BY <1>4
  <2>3. x.op = "delete" => G
    BY <1>5
  <2>4. x.op = "upload" => G
    BY <1>6
  <2>5. x.op = "rename" /\ x.stage = "locate" => G
    BY <1>7
  <2>6. x.op = "rename" /\ x.stage = "parent" => G
    BY <1>8
  <2>7. x.op = "rename" /\ x.stage = "target" => G
    BY <1>9
  <2> HIDE DEF G
  <2>8. G
    BY ONLY <2>1, <2>2, <2>3, <2>4, <2>5, <2>6, <2>7, <1>10
  <2> QED
    BY <2>8 DEF G
<1> QED
  BY <1>11

(***************************************************************************)
(* ensure_dir: the next listing, and on to a directory found or made.      *)
(***************************************************************************)
Ensures(x) ==
  /\ x \in CallType /\ x.outcome = "none"
  /\ x.op \in {"mkdir", "upload"} /\ x.path \in Paths /\ x.goal \in Paths
  /\ x.op = "upload" => Len(x.path) > 1 /\ x.goal = Front(x.path)

LEMMA EnsureListOK ==
  ASSUME NEW x, Ensures(x), At(x), NEW u, Keyed(x.at, u)
  PROVE  LET y == List(x, "ensure")
         IN  /\ CallOK(y, u) /\ y.op = x.op /\ y.path = x.path /\ y.pc = "ensure"
             /\ y.answer = NoAnswer /\ y.outcome = "none" /\ y.at = x.at
<1> DEFINE y == List(x, "ensure")
<1>1. y \in CallType
  BY RootIsPath DEF List, CallType, Pcs, Listing, Ensures
<1>2. /\ y.pc = "ensure" /\ y.op = x.op /\ y.path = x.path /\ y.at = x.at /\ y.outcome = x.outcome
      /\ y.goal = x.goal /\ y.depth = x.depth /\ y.answer = NoAnswer
  BY DEF List, CallType, Ensures
<1> HIDE DEF y
<1>3. At(y)
  BY <1>2 DEF At
<1>4. CallOK(y, u)
  BY <1>1, <1>2, <1>3 DEF CallOK, NoAnswer, Listing, Ensures
<1> QED
  BY <1>2, <1>4 DEF Ensures, y

LEMMA DeeperOK ==
  ASSUME NEW x, Ensures(x), At(x), NEW u, Keyed(x.at, u), NEW n \in Node,
         Keyed(Append(x.at, n), u), n.name = x.goal[x.depth + 1], NEW k, CacheOK(k)
  PROVE  LET y == Deeper(x, n, k)
         IN  /\ CallOK(y, u) /\ y.op = x.op /\ y.path = x.path /\ y.pc \notin {"idle", "wait"}
             /\ y.pc \in Listing => y.answer = NoAnswer
<1> DEFINE z == [x EXCEPT !.at = Append(x.at, n), !.depth = x.depth + 1]
<1>1. /\ x \in CallType /\ x.depth = Len(x.at) /\ x.depth \in Nat /\ x.at \in Seq(Node)
      /\ x.depth < Len(x.goal) /\ Len(x.goal) \in Nat
      /\ \A i \in 1..x.depth : x.at[i].name = x.goal[i]
  BY PathFacts DEF Ensures, At, CallType
<1>2. /\ Append(x.at, n) \in Seq(Node) /\ Len(Append(x.at, n)) = Len(x.at) + 1
      /\ \A i \in 1..Len(x.at) : Append(x.at, n)[i] = x.at[i]
      /\ Append(x.at, n)[Len(x.at) + 1] = n
  BY <1>1, Appended
<1>3. z \in CallType
  <2>1. x.depth + 1 \in Nat /\ Append(x.at, n) \in Seq(Node)
    BY <1>1, <1>2
  <2> QED
    BY <1>1, <2>1 DEF CallType
<1>4. /\ z.op = x.op /\ z.path = x.path /\ z.outcome = x.outcome /\ z.goal = x.goal
      /\ z.at = Append(x.at, n) /\ z.depth = x.depth + 1 /\ z.to = x.to
  BY <1>1 DEF CallType
<1> HIDE DEF z
<1>5. Ensures(z) /\ Keyed(z.at, u)
  BY <1>3, <1>4 DEF Ensures
<1>6. \A i \in 1..z.depth : z.at[i].name = x.goal[i]
  <2> SUFFICES ASSUME NEW i \in 1..x.depth + 1 PROVE Append(x.at, n)[i].name = x.goal[i]
    BY <1>4
  <2>1. CASE i \in 1..x.depth
    BY <1>1, <1>2, <2>1
  <2>2. CASE i = x.depth + 1
    BY <1>1, <1>2, <2>2
  <2> QED
    BY <1>1, <2>1, <2>2
<1>7. z.depth \in Nat /\ z.depth <= Len(z.goal) /\ z.depth = Len(z.at)
  BY <1>1, <1>2, <1>4
<1>8. Deeper(x, n, k) = IF z.depth < Len(z.goal) THEN List(z, "ensure")
                        ELSE IF z.op = "mkdir" THEN Return(z, "ok")
                        ELSE Resolve([z EXCEPT !.parent = z.at], z.path, "name", k)
  BY DEF Deeper, z
<1>9. CASE z.depth < Len(z.goal)
  <2>1. At(z)
    BY <1>4, <1>6, <1>7, <1>9 DEF At
  <2>2. Deeper(x, n, k) = List(z, "ensure")
    BY <1>8, <1>9
  <2> QED
    BY <1>4, <1>5, <2>1, <2>2, EnsureListOK
<1>10. CASE ~(z.depth < Len(z.goal)) /\ z.op = "mkdir"
  <2>1. Deeper(x, n, k) = Return(z, "ok")
    BY <1>8, <1>10
  <2>2. Goes(z, Return(z, "ok"), u)
    BY <1>3, <1>10, ReturnOK
  <2> QED
    BY <1>4, <2>1, <2>2 DEF Goes
<1>11. CASE ~(z.depth < Len(z.goal)) /\ z.op # "mkdir"
  <2> DEFINE w == [z EXCEPT !.parent = z.at]
  <2>1. Deeper(x, n, k) = Resolve(w, z.path, "name", k)
    BY <1>8, <1>11
  <2>2. w \in CallType
    BY <1>3 DEF CallType
  <2>3. w.op = z.op /\ w.path = z.path /\ w.outcome = z.outcome /\ w.parent = z.at
    BY <1>3 DEF CallType
  <2> HIDE DEF w
  <2>4. z.op = "upload" /\ z.path \in Paths /\ z.goal = Front(z.path) /\ z.outcome = "none"
    BY <1>5, <1>11 DEF Ensures
  <2>5. Named(z.at, Front(z.path))
    BY <1>4, <1>6, <1>7, <1>11, <2>4 DEF Named
  <2>6. HasParent(w, w.path, u)
    BY <1>5, <2>3, <2>5 DEF HasParent
  <2>7. Goes(w, Resolve(w, z.path, "name", k), u)
    BY <2>2, <2>3, <2>4, <2>6, ResolveOK
  <2> QED
    BY <1>4, <2>1, <2>3, <2>7 DEF Goes
<1> QED
  BY <1>9, <1>10, <1>11

\* A request begins.
LEMMA StartedOK ==
  ASSUME NEW r \in Requests, NEW u, CacheOK(cache)
  PROVE  LET x == [Idle EXCEPT !.op = r.op, !.path = r.path, !.to = r.to,
                               !.overwrite = r.overwrite]
             y == Started(x)
         IN  /\ CallOK(y, u) /\ y.op = r.op /\ y.path = r.path /\ y.pc \notin {"idle", "ensure"}
             /\ y.pc \in Listing => y.answer = NoAnswer
             /\ y.outcome # "ok"
<1> DEFINE x == [Idle EXCEPT !.op = r.op, !.path = r.path, !.to = r.to,
                             !.overwrite = r.overwrite]
           y == Started(x)
<1>1. /\ r.op \in Operations \ {"none"} /\ r.path \in Paths \cup {Root} /\ r.to \in Paths \cup {Root}
      /\ r.overwrite \in BOOLEAN /\ (r.op # "list" => r.path \in Paths)
      /\ (r.op = "rename" => r.to \in Paths)
  BY NamespaceAssumption DEF NamespaceAssumption, Operations, Root
<1>2. x \in CallType
  BY <1>1, RootIsPath DEF Idle, CallType, Pcs
<1>3. /\ x.op = r.op /\ x.path = r.path /\ x.to = r.to /\ x.overwrite = r.overwrite
      /\ x.pc = "idle" /\ x.parent = Root /\ x.outcome = "none"
  BY DEF Idle
<1> HIDE DEF x
<1>4. ASSUME NEW outcome \in {"absent", "error"}, y = Return(x, outcome)
      PROVE  Goes(x, y, u) /\ y.outcome # "ok"
  BY <1>1, <1>2, <1>3, <1>4, ReturnOK
<1>5. ASSUME NEW goal \in Paths, x.op \in {"mkdir", "upload"}, x.path \in Paths,
             x.op = "upload" => Len(x.path) > 1 /\ goal = Front(x.path),
             y = [x EXCEPT !.pc = "wait", !.goal = goal]
      PROVE  CallOK(y, u) /\ y.op = x.op /\ y.path = x.path /\ y.pc = "wait" /\ y.outcome = "none"
  <2>1. y \in CallType
    BY <1>2, <1>5 DEF CallType, Pcs
  <2>2. y.op = x.op /\ y.path = x.path /\ y.pc = "wait" /\ y.goal = goal /\ y.outcome = "none"
    BY <1>2, <1>3, <1>5 DEF CallType
  <2> HIDE DEF y
  <2>3. CallOK(y, u)
    BY <1>5, <2>1, <2>2 DEF CallOK, Listing
  <2> QED
    BY <2>2, <2>3
<1>6. CASE x.op = "mkdir"
  <2>1. y = [x EXCEPT !.pc = "wait", !.goal = x.path]
    BY <1>6 DEF Started
  <2>2. CallOK(y, u) /\ y.op = x.op /\ y.path = x.path /\ y.pc = "wait" /\ y.outcome = "none"
    BY <1>1, <1>3, <1>5, <1>6, <2>1
  <2> QED
    BY <1>3, <2>2 DEF Listing, x
<1>7. CASE x.op = "upload"
  <2>0. x.path \in Paths /\ Len(x.path) \in Nat \ {0} /\ Len(Front(x.path)) = Len(x.path) - 1
    BY <1>1, <1>3, <1>7, PathFacts
  <2>1. CASE Uploading(x.path)
    <3>1. y = Return(x, "error")
      BY <1>7, <2>1 DEF Started
    <3>2. Goes(x, y, u) /\ y.outcome # "ok"
      BY <1>4, <3>1
    <3> QED
      BY <1>3, <3>2 DEF Goes, x
  <2>2. CASE ~Uploading(x.path) /\ Len(x.path) > 1
    <3>1. y = [x EXCEPT !.pc = "wait", !.goal = Front(x.path)]
      BY <1>7, <2>2 DEF Started
    <3>2. Front(x.path) \in Paths
      BY <2>0, <2>2, PathFacts
    <3>3. CallOK(y, u) /\ y.op = x.op /\ y.path = x.path /\ y.pc = "wait" /\ y.outcome = "none"
      BY <1>5, <1>7, <2>0, <2>2, <3>1, <3>2
    <3> QED
      BY <1>3, <3>3 DEF Listing, x
  <2>3. CASE ~Uploading(x.path) /\ ~(Len(x.path) > 1)
    <3>1. y = Resolve(x, x.path, "name", cache)
      BY <1>7, <2>3 DEF Started
    <3>2. HasParent(x, x.path, u)
      BY <1>3, <2>0, <2>3, KeyedRoot DEF HasParent, Named
    <3>3. Goes(x, y, u) /\ y.outcome # "ok"
      BY <1>2, <1>3, <1>7, <2>0, <3>1, <3>2, ResolveOK
    <3> QED
      BY <1>3, <3>3 DEF Goes, x
  <2> QED
    BY <2>1, <2>2, <2>3
<1>8. CASE x.op = "list" /\ x.path = Root
  <2>1. y = List(x, "children")
    BY <1>8 DEF Started
  <2>2. "children" \in Listing /\ "children" # "leaf" /\ "children" \notin {"descend", "leaf"}
        /\ "children" # "ensure"
    BY DEF Listing
  <2>3. Goes(x, List(x, "children"), u)
    BY <1>2, <1>3, <1>8, <2>2, ListOK
  <2>4. List(x, "children").outcome = "none"
    BY <1>2, <1>3 DEF List, CallType
  <2> QED
    BY <1>3, <2>1, <2>3, <2>4 DEF Goes, x
<1>9. CASE x.op \in {"read", "list", "delete", "rename"} /\ ~(x.op = "list" /\ x.path = Root)
  <2>1. CASE x.op = "rename" /\ IsPrefix(x.path, x.to)
    <3>1. y = Return(x, "error")
      BY <2>1 DEF Started
    <3>2. Goes(x, y, u) /\ y.outcome # "ok"
      BY <1>4, <3>1
    <3> QED
      BY <1>3, <3>2 DEF Goes, x
  <2>2. CASE ~(x.op = "rename" /\ IsPrefix(x.path, x.to))
    <3>1. y = Resolve(x, x.path, "locate", cache)
      BY <1>9, <2>2 DEF Started
    <3>2. x.path \in Paths /\ (x.op = "rename" => Leads(x))
      BY <1>1, <1>3, <1>9, <2>2 DEF Leads
    <3>3. Goes(x, y, u) /\ y.outcome # "ok"
      BY <1>2, <1>3, <1>9, <3>1, <3>2, ResolveOK
    <3> QED
      BY <1>3, <3>3 DEF Goes, x
  <2> QED
    BY <2>1, <2>2
<1>10. x.op \in {"mkdir", "upload", "read", "list", "delete", "rename"}
  BY <1>1, <1>3 DEF Operations
<1> QED
  BY <1>6, <1>7, <1>8, <1>9, <1>10

(***************************************************************************)
(* The invariant.                                                          *)
(***************************************************************************)
CallsOK(cs, u) == cs \in [Clients -> CallType] /\ \A c \in Clients : CallOK(cs[c], u)
LockOK(cs, holder) ==
  /\ holder \in Clients \cup {"free"}
  /\ \A c \in Clients : cs[c].pc = "ensure" <=> holder = c
NamesInv ==
  /\ Secrets(used) /\ DiskOK(disk, used) /\ CacheOK(cache)
  /\ CallsOK(call, used) /\ LockOK(call, lock)
  /\ Uniq(disk, again) /\ Twins(disk, came, again)
  /\ \A c \in Clients : Listed(call[c], disk, came, again)

\* What is true of a request stays true as more secrets are given out.
LEMMA CallLater ==
  ASSUME NEW u, NEW v, u \subseteq v, NEW x, CallOK(x, u)
  PROVE  CallOK(x, v)
<1>1. \A e : Keyed(e, u) => Keyed(e, v)
  BY KeyedLater
<1>2. \A p : HasParent(x, p, u) => HasParent(x, p, v)
  BY <1>1 DEF HasParent
<1>3. HasFrom(x, u) => HasFrom(x, v)
  BY <1>1 DEF HasFrom
<1>4. Purpose(x, u) => Purpose(x, v)
  BY <1>2, <1>3 DEF Purpose
<1>5. Makes(x, u) => Makes(x, v)
  BY <1>2 DEF Makes
<1> QED
  BY <1>1, <1>2, <1>3, <1>4, <1>5, Zenon DEF CallOK

\* A step of one request: the others keep what is true of them.
LEMMA CallsKept ==
  ASSUME NEW u, CallsOK(call, u), NEW v, u \subseteq v, NEW c \in Clients, NEW y,
         Set(c, y), CallOK(y, v)
  PROVE  /\ CallsOK(call', v) /\ call'[c] = y
         /\ \A d \in Clients \ {c} : call'[d] = call[d]
<1>1. y \in CallType
  BY DEF CallOK
<1>2. /\ call' \in [Clients -> CallType] /\ call'[c] = y
      /\ \A d \in Clients \ {c} : call'[d] = call[d]
  BY <1>1 DEF CallsOK, Set
<1>3. \A d \in Clients : CallOK(call'[d], v)
  <2> TAKE d \in Clients
  <2>1. CASE d = c
    BY <1>2, <2>1
  <2>2. CASE d # c
    BY <1>2, <2>2, CallLater DEF CallsOK
  <2> QED
    BY <2>1, <2>2
<1> QED
  BY <1>2, <1>3 DEF CallsOK

LEMMA LockKept ==
  ASSUME LockOK(call, lock), lock' = lock, NEW c \in Clients,
         call[c].pc = "ensure" <=> call'[c].pc = "ensure",
         \A d \in Clients \ {c} : call'[d] = call[d]
  PROVE  LockOK(call', lock')
BY DEF LockOK

\* A step that leaves the storage alone.
LEMMA StepAside ==
  ASSUME NamesInv, Unchanged, NEW c \in Clients, NEW y, Set(c, y), CallOK(y, used),
         CacheOK(cache'), LockOK(call', lock'), Listed(y, disk, came, again)
  PROVE  NamesInv' /\ call'[c] = y
<1>1. /\ CallsOK(call', used) /\ call'[c] = y
      /\ \A d \in Clients \ {c} : call'[d] = call[d]
  BY CallsKept DEF NamesInv
<1>2. \A d \in Clients : Listed(call'[d], disk, came, again)
  BY <1>1 DEF NamesInv
<1>3. disk' = disk /\ used' = used /\ came' = came /\ again' = again
  BY DEF Unchanged
<1> QED
  BY <1>1, <1>2, <1>3 DEF NamesInv

\* A step to another stage of the request, nothing written.
LEMMA StepOn ==
  ASSUME NamesInv, Unchanged, NEW c \in Clients, call[c].pc # "ensure", NEW y, Set(c, y),
         CallOK(y, used), y.pc # "ensure", CacheOK(cache'), lock' = lock
  PROVE  NamesInv' /\ call'[c] = y
<1>1. /\ call'[c] = y /\ \A d \in Clients \ {c} : call'[d] = call[d]
  BY CallsKept DEF NamesInv
<1>2. LockOK(call', lock')
  BY <1>1, LockKept DEF NamesInv
<1>3. Listed(y, disk, came, again)
  BY DEF Listed
<1> QED
  BY <1>2, <1>3, StepAside

\* A step that writes: nothing new is a directory, or its secret is excused.
LEMMA StepWrites ==
  ASSUME NamesInv, NEW c \in Clients, call[c].pc # "ensure", NEW y, Set(c, y),
         used \subseteq used', Secrets(used'), CallOK(y, used'), y.pc # "ensure",
         CacheOK(cache'), lock' = lock, DiskOK(disk', used'), Uniq(disk', again'),
         came \subseteq came', again \subseteq again', Known(disk, disk', came' \cup again')
  PROVE  NamesInv' /\ call'[c] = y
<1>1. /\ CallsOK(call', used') /\ call'[c] = y /\ \A d \in Clients \ {c} : call'[d] = call[d]
  BY CallsKept DEF NamesInv
<1>2. LockOK(call', lock')
  BY <1>1, LockKept DEF NamesInv
<1>3. Root \notin disk /\ Root \notin disk'
  BY DEF NamesInv, DiskOK
<1>4. Twins(disk', came', again')
  BY <1>3, TwinsKept DEF NamesInv
<1>5. \A d \in Clients : Listed(call'[d], disk', came', again')
  <2> TAKE d \in Clients
  <2>1. CASE d = c
    BY <1>1, <2>1 DEF Listed
  <2>2. CASE d # c
    BY <1>1, <1>3, <2>2, ListedKept DEF NamesInv
  <2> QED
    BY <2>1, <2>2
<1> QED
  BY <1>1, <1>2, <1>4, <1>5 DEF NamesInv

(***************************************************************************)
(* The steps of a request, one by one.  Only Answer and Leaf make it hear  *)
(* or find something on the way of a read.                                 *)
(***************************************************************************)
Apart(y) ==
  y.op = "read" => y.outcome # "ok" /\ (y.pc \in Listing => y.answer = NoAnswer)

LEMMA BeginOK ==
  ASSUME NamesInv, NEW c \in Clients, Begin(c)
  PROVE  NamesInv' /\ Apart(call'[c])
<1>1. PICK r \in Requests :
        LET x == [Idle EXCEPT !.op = r.op, !.path = r.path, !.to = r.to,
                              !.overwrite = r.overwrite]
        IN  Set(c, Started(x))
  BY DEF Begin
<1> DEFINE x == [Idle EXCEPT !.op = r.op, !.path = r.path, !.to = r.to,
                             !.overwrite = r.overwrite]
           y == Started(x)
<1>2. /\ CallOK(y, used) /\ y.pc \notin {"idle", "ensure"} /\ y.outcome # "ok"
      /\ y.pc \in Listing => y.answer = NoAnswer
  BY StartedOK DEF NamesInv
<1>3. call[c].pc # "ensure" /\ Unchanged /\ cache' = cache /\ lock' = lock
  BY DEF Begin, Busy
<1>4. Set(c, y)
  BY <1>1
<1> HIDE DEF y
<1>5. NamesInv' /\ call'[c] = y
  BY <1>2, <1>3, <1>4, StepOn DEF NamesInv
<1> QED
  BY <1>2, <1>5 DEF Apart

\* What a listing holds are the entries of the directory, under its keys.
LEMMA ChildrenAre ==
  ASSUME NEW d, NEW u, DiskOK(d, u), NEW at \in Seq(Node)
  PROVE  /\ \A n \in Children(d, at) : n \in Node /\ Append(at, n) \in d /\ Keyed(Append(at, n), u)
         /\ \A f \in d : Front(f) = at => Last(f) \in Children(d, at)
<1>1. \A f \in d : /\ Keyed(f, u) /\ f # Root /\ f \in Seq(Node)
                   /\ f = Append(Front(f), Last(f)) /\ Front(f) \in Seq(Node)
                   /\ Last(f) \in Node /\ Len(Front(f)) = Len(f) - 1 /\ Len(f) \in Nat \ {0}
                   /\ \A i \in 1..Len(f) - 1 : Front(f)[i] = f[i]
  <2> TAKE f \in d
  <2>1. Keyed(f, u) /\ f # <<>> /\ f # Root
    BY DEF DiskOK, Root
  <2>2. f \in Seq(Node)
    BY <2>1 DEF Keyed
  <2> QED
    BY <2>1, <2>2, FrontLast
<1>2. Len(at) \in Nat
  BY LenProperties
<1>3. ASSUME NEW f \in d, Len(f) = Len(at) + 1, IsPrefix(at, f)
      PROVE  Front(f) = at
  <2>1. /\ Front(f) \in Seq(Node) /\ Len(Front(f)) = Len(at)
        /\ \A i \in 1..Len(at) : Front(f)[i] = f[i]
    BY <1>1, <1>2, <1>3
  <2>2. \A i \in 1..Len(at) : at[i] = f[i]
    BY <1>1, <1>3, PrefixOf
  <2> QED
    BY <2>1, <2>2, SeqEqual
<1>4. ASSUME NEW f \in d, Front(f) = at
      PROVE  Len(f) = Len(at) + 1 /\ IsPrefix(at, f)
  <2>1. Len(f) = Len(at) + 1 /\ Len(at) <= Len(f)
    BY <1>1, <1>2, <1>4
  <2>2. \A i \in 1..Len(at) : at[i] = f[i]
    BY <1>1, <1>4, <2>1
  <2> QED
    BY <1>1, <2>1, <2>2, PrefixOf
<1>5. ASSUME NEW n \in Children(d, at)
      PROVE  n \in Node /\ Append(at, n) \in d /\ Keyed(Append(at, n), u)
  <2>1. PICK f \in d : Len(f) = Len(at) + 1 /\ IsPrefix(at, f) /\ n = Last(f)
    BY DEF Children
  <2>2. f = Append(at, n)
    BY <1>1, <1>3, <2>1
  <2> QED
    BY <1>1, <2>1, <2>2
<1>6. ASSUME NEW f \in d, Front(f) = at
      PROVE  Last(f) \in Children(d, at)
  BY <1>4, <1>6 DEF Children
<1> QED
  BY <1>5, <1>6

\* Two directories of one secret are one, unless the storage made it again.
LEMMA UnderKey ==
  ASSUME NEW d, NEW u, DiskOK(d, u), NEW a, Uniq(d, a), NEW at, Keyed(at, u),
         at = Root \/ at \in d, NEW f \in d, Last(f).key = Secret(at), Secret(at) \notin a
  PROVE  Front(f) = at
<1>1. Keyed(f, u) /\ f # Root
  BY DEF DiskOK
<1>2. Secret(Front(f)) = Secret(at) /\ Keyed(Front(f), u) /\ Len(f) \in Nat \ {0}
  BY <1>1, KeyedParts
<1>3. Secret(Root) = 0
  BY KeyedRoot
<1>4. CASE at = Root
  BY <1>2, <1>3, <1>4, KeyedParts
<1>5. CASE at # Root
  <2>1. Secret(at) # 0 /\ at \in d
    BY <1>5, KeyedParts
  <2>2. Front(f) # Root
    BY <1>2, <1>3, <2>1
  <2>3. Len(f) > 1 /\ Len(f) - 1 \in 1..Len(f)
    <3>1. Len(Front(f)) = Len(f) - 1 /\ Len(Front(f)) \in Nat \ {0}
      BY <1>1, <1>2, <2>2, KeyedParts
    <3> QED
      BY <1>2, <3>1
  <2>4. Front(f) \in d
    BY <2>3 DEF DiskOK, Front
  <2> QED
    BY <1>2, <2>1, <2>4 DEF Uniq
<1> QED
  BY <1>4, <1>5

LEMMA AnswerOK ==
  ASSUME NamesInv, NEW c \in Clients, Answer(c)
  PROVE  /\ NamesInv' /\ call'[c].op = call[c].op /\ call'[c].path = call[c].path
         /\ call'[c].at = call[c].at /\ call'[c].pc = call[c].pc /\ call'[c].outcome # "ok"
         /\ \A n \in call'[c].answer.entries : Append(call[c].at, n) \in disk
<1> DEFINE x == call[c]
           a == IF x.at = Root \/ x.at \in disk
                THEN [is |-> "ok", entries |-> Children(disk, x.at)]
                ELSE [is |-> "missing", entries |-> {}]
           y == [x EXCEPT !.answer = a]
<1>1. x.pc \in Listing /\ Set(c, y) /\ Unchanged /\ cache' = cache /\ lock' = lock
  BY DEF Answer
<1>2. CallOK(x, used) /\ x \in CallType /\ x.outcome = "none" /\ x.at \in Seq(Node)
  <2>1. CallOK(x, used) /\ x \in CallType
    BY DEF NamesInv, CallsOK, CallOK
  <2>2. x.outcome = "none"
    BY <1>1, <2>1, Zenon DEF CallOK, Listing
  <2> QED
    BY <2>1, <2>2 DEF CallType
<1>3. \A n \in a.entries : n \in Node /\ Append(x.at, n) \in disk /\ Keyed(Append(x.at, n), used)
  BY <1>2, ChildrenAre DEF NamesInv
<1>4. a \in [is : {"none", "ok", "missing"}, entries : SUBSET Node]
  BY <1>3
<1>5. /\ y \in CallType /\ y.op = x.op /\ y.path = x.path /\ y.to = x.to /\ y.pc = x.pc
      /\ y.goal = x.goal /\ y.depth = x.depth /\ y.at = x.at /\ y.stage = x.stage /\ y.from = x.from
      /\ y.parent = x.parent /\ y.answer = a /\ y.outcome = x.outcome
  <2> HIDE DEF a
  <2> QED
    BY <1>2, <1>4 DEF CallType
<1>6. y.answer.is = "ok" => (x.at = Root \/ x.at \in disk) /\ y.answer.entries = Children(disk, x.at)
  BY <1>5
<1> HIDE DEF a, y
<1>7. CallOK(y, used)
  <2>1. Purpose(x, used) => Purpose(y, used)
    BY <1>5 DEF Purpose, HasFrom, HasParent, Leads
  <2>2. At(x) => At(y)
    BY <1>5 DEF At
  <2>3. Makes(x, used) => Makes(y, used)
    BY <1>5 DEF Makes, HasParent
  <2>4. HasFrom(x, used) /\ HasParent(x, x.to, used) => HasFrom(y, used) /\ HasParent(y, y.to, used)
    BY <1>5 DEF HasFrom, HasParent, Leads
  <2>5. \A n \in y.answer.entries : Keyed(Append(y.at, n), used)
    BY <1>3, <1>5
  <2> HIDE DEF x
  <2> QED
    BY <1>2, <1>5, <2>1, <2>2, <2>3, <2>4, <2>5 DEF CallOK
<1>8. Listed(y, disk, came, again)
  <2> SUFFICES ASSUME y.pc = "ensure", y.answer.is = "ok",
                      NEW f \in disk, IsDir(f), Last(f).key = Secret(y.at), Secret(y.at) \notin again
               PROVE  Last(f) \in y.answer.entries
    BY DEF Listed
  <2>1. Keyed(x.at, used)
    BY <1>2, <1>5 DEF CallOK
  <2>2. Front(f) = x.at
    BY <1>5, <1>6, <2>1, UnderKey DEF NamesInv
  <2> QED
    BY <1>2, <1>6, <2>2, ChildrenAre DEF NamesInv
<1>9. call'[c] = y /\ \A d \in Clients \ {c} : call'[d] = call[d]
  BY <1>1, <1>7, CallsKept DEF NamesInv
<1>10. LockOK(call', lock')
  BY <1>1, <1>5, <1>9, LockKept DEF NamesInv
<1>11. NamesInv'
  BY <1>1, <1>7, <1>8, <1>10, StepAside DEF NamesInv
<1> QED
  BY <1>2, <1>3, <1>5, <1>9, <1>11

\* The entry that a listing holds for a name leads on under its key.
LEMMA ChildOK ==
  ASSUME NEW x, NEW u, Secrets(u), CallOK(x, u), x.pc \in Listing, NEW name
  PROVE  LET n == Child(x, name)
         IN  /\ n # Missing => /\ n \in x.answer.entries /\ n \in Node /\ n.name = name
                               /\ n.key = Secret(x.at) /\ Keyed(Append(x.at, n), u)
             /\ n = Missing => Candidates(x.answer.entries, x.at, name) = {}
<1> DEFINE n == Child(x, name)
<1>1. x \in CallType /\ x.at \in Seq(Node) /\ x.answer.entries \subseteq Node
      /\ \A m \in x.answer.entries : Keyed(Append(x.at, m), u)
  <2>1. x \in CallType /\ \A m \in x.answer.entries : Keyed(Append(x.at, m), u)
    BY DEF CallOK
  <2> QED
    BY <2>1 DEF CallType
<1>2. \A m \in x.answer.entries : m.secret \in u \ {0}
  <2> TAKE m \in x.answer.entries
  <2>1. Keyed(Append(x.at, m), u) /\ m \in Node
    BY <1>1
  <2>2. Append(x.at, m) # Root /\ Append(x.at, m)[Len(x.at) + 1] = m
        /\ Len(Append(x.at, m)) = Len(x.at) + 1 /\ Len(x.at) \in Nat
    BY <1>1, <2>1, AppendProperties, LenProperties DEF Root
  <2>3. Len(x.at) + 1 \in 1..Len(Append(x.at, m))
    BY <2>2
  <2> QED
    BY <2>1, <2>2, <2>3 DEF Keyed
<1>3. /\ n # Missing => n \in x.answer.entries /\ n.key = Secret(x.at) /\ n.name = name
      /\ n = Missing => Candidates(x.answer.entries, x.at, name) = {}
  BY <1>2, FindChildOK DEF Child
<1> HIDE DEF n
<1>4. n # Missing => n \in Node /\ Keyed(Append(x.at, n), u)
  BY <1>1, <1>3
<1>5. /\ n # Missing => /\ n \in x.answer.entries /\ n \in Node /\ n.name = name
                        /\ n.key = Secret(x.at) /\ Keyed(Append(x.at, n), u)
      /\ n = Missing => Candidates(x.answer.entries, x.at, name) = {}
  BY <1>3, <1>4
<1> QED
  BY <1>5 DEF n

\* A request on the way of its path.
LEMMA Underway ==
  ASSUME NamesInv, NEW c \in Clients
  PROVE  LET x == call[c]
         IN  /\ CallOK(x, used) /\ x \in CallType
             /\ x.pc # "idle" => x.op # "none"
             /\ x.pc # "done" => x.outcome = "none"
             /\ x.pc \in {"descend", "leaf", "lost"} =>
                  Purpose(x, used) /\ x.goal \in Paths
<1>1. CallOK(call[c], used) /\ call[c] \in CallType
  BY DEF NamesInv, CallsOK, CallOK
<1> QED
  BY <1>1, Zenon DEF CallOK

LEMMA GoneFurther ==
  ASSUME NEW x \in CallType, NEW u, Purpose(x, u), x.goal \in Paths, At(x),
         NEW n \in Node, n.name = x.goal[x.depth + 1]
  PROVE  LET z == [x EXCEPT !.at = Append(@, n), !.depth = @ + 1]
         IN  /\ z \in CallType /\ z.outcome = x.outcome /\ z.goal = x.goal /\ z.op = x.op
             /\ z.path = x.path /\ Purpose(z, u)
             /\ x.depth # Len(x.goal) - 1 => At(z)
<1> DEFINE z == [x EXCEPT !.at = Append(@, n), !.depth = @ + 1]
<1>1. x.at \in Seq(Node) /\ x.depth \in Nat /\ Len(x.goal) \in Nat
  <2>1. Len(x.goal) \in Nat
    BY PathFacts
  <2> QED
    BY <2>1 DEF CallType
<1>2. /\ Append(x.at, n) \in Seq(Node) /\ Len(Append(x.at, n)) = Len(x.at) + 1
      /\ Append(x.at, n)[Len(x.at) + 1] = n
      /\ \A i \in 1..Len(x.at) : Append(x.at, n)[i] = x.at[i]
  BY <1>1, AppendProperties
<1>3. /\ z \in CallType /\ z.outcome = x.outcome /\ z.goal = x.goal /\ z.op = x.op
      /\ z.path = x.path /\ z.to = x.to /\ z.stage = x.stage /\ z.from = x.from
      /\ z.parent = x.parent /\ z.at = Append(x.at, n) /\ z.depth = x.depth + 1
  <2>1. ASSUME NEW a \in Seq(Node), NEW m \in Nat
        PROVE  LET w == [x EXCEPT !.at = a, !.depth = m]
               IN  /\ w \in CallType /\ w.outcome = x.outcome /\ w.goal = x.goal /\ w.op = x.op
                   /\ w.path = x.path /\ w.to = x.to /\ w.stage = x.stage /\ w.from = x.from
                   /\ w.parent = x.parent /\ w.at = a /\ w.depth = m
    BY DEF CallType
  <2>2. Append(x.at, n) \in Seq(Node) /\ x.depth + 1 \in Nat
    BY <1>1, <1>2
  <2> QED
    BY <2>1, <2>2
<1> HIDE DEF z
<1>4. Purpose(z, u)
  BY <1>3 DEF Purpose, HasFrom, HasParent, Leads
<1>5. ASSUME x.depth # Len(x.goal) - 1
      PROVE  At(z)
  <2>1. x.depth = Len(x.at) /\ x.depth < Len(x.goal)
        /\ \A i \in 1..x.depth : x.at[i].name = x.goal[i]
    BY DEF At
  <2>2. z.depth = Len(z.at) /\ z.depth < Len(z.goal)
    BY <1>1, <1>2, <1>3, <1>5, <2>1
  <2>3. \A i \in 1..z.depth : z.at[i].name = z.goal[i]
    <3> TAKE i \in 1..z.depth
    <3>1. i \in 1..x.depth \/ i = x.depth + 1
      BY <1>1, <1>3
    <3> QED
      BY <1>2, <1>3, <2>1, <3>1
  <2> QED
    BY <2>2, <2>3 DEF At
<1>6. /\ z \in CallType /\ z.outcome = x.outcome /\ z.goal = x.goal /\ z.op = x.op
      /\ z.path = x.path /\ Purpose(z, u)
      /\ x.depth # Len(x.goal) - 1 => At(z)
  BY <1>3, <1>4, <1>5
<1> QED
  BY <1>6 DEF z

LEMMA DescendOK ==
  ASSUME NamesInv, NEW c \in Clients, Descend(c)
  PROVE  NamesInv' /\ Apart(call'[c])
<1> DEFINE x == call[c]
           n == Child(x, x.goal[x.depth + 1])
           z == [x EXCEPT !.at = Append(@, n), !.depth = @ + 1]
<1>1. /\ x.pc = "descend" /\ Unchanged /\ lock' = lock
      /\ IF n = Missing THEN Set(c, [x EXCEPT !.pc = "lost"]) /\ UNCHANGED cache
         ELSE /\ cache' = Stored(cache, SubSeq(x.goal, 1, x.depth + 1), n)
              /\ Set(c, Onward(z))
  BY DEF Descend, Answered
<1>2. /\ CallOK(x, used) /\ x \in CallType /\ x.op # "none" /\ x.outcome = "none"
      /\ Purpose(x, used) /\ x.goal \in Paths /\ x.pc \in Listing
  BY <1>1, Underway DEF Listing
<1>3. At(x) /\ x.depth # Len(x.goal) - 1 /\ x.pc # "leaf"
  BY <1>1, <1>2, Zenon DEF CallOK
<1>4. ASSUME NEW y, Set(c, y), Goes(x, y, used), y.outcome # "ok", CacheOK(cache')
      PROVE  NamesInv' /\ Apart(call'[c])
  <2>1. NamesInv' /\ call'[c] = y
    BY <1>1, <1>4, StepOn DEF Goes
  <2> QED
    BY <1>4, <2>1 DEF Goes, Apart
<1>5. CASE n = Missing
  <2>1. Goes(x, [x EXCEPT !.pc = "lost"], used)
    BY <1>2, SetPcOK
  <2>2. [x EXCEPT !.pc = "lost"].outcome # "ok"
    BY <1>2 DEF CallType
  <2> QED
    BY <1>1, <1>4, <1>5, <2>1, <2>2 DEF NamesInv
<1>6. CASE n # Missing
  <2>1. n \in Node /\ n.name = x.goal[x.depth + 1]
    BY <1>2, <1>6, ChildOK DEF NamesInv
  <2> HIDE DEF n
  <2>2. z \in CallType /\ z.outcome = "none" /\ z.goal \in Paths /\ Purpose(z, used) /\ At(z)
        /\ z.op = x.op /\ z.path = x.path
    BY <1>2, <1>3, <2>1, GoneFurther
  <2> HIDE DEF z
  <2>3. Goes(z, Onward(z), used) /\ Onward(z).outcome # "ok"
    BY <2>2, OnwardOK
  <2>4. Goes(x, Onward(z), used)
    BY <2>2, <2>3 DEF Goes
  <2>5. CacheOK(Stored(cache, SubSeq(x.goal, 1, x.depth + 1), n))
    <3>1. x.depth \in Nat /\ x.depth < Len(x.goal) /\ x.goal \in Seq(Names) /\ Len(x.goal) \in Nat
      BY <1>2, <1>3, PathFacts DEF CallType, At
    <3>2. x.depth + 1 \in 1..Len(x.goal) /\ x.depth + 1 \in 0..Len(x.goal)
      BY <3>1
    <3>3. SubSeq(x.goal, 1, x.depth + 1) \in Paths
      BY <1>2, <3>2, PathFacts
    <3>4. Last(SubSeq(x.goal, 1, x.depth + 1)) = x.goal[x.depth + 1]
      <4>1. /\ Len(SubSeq(x.goal, 1, x.depth + 1)) = x.depth + 1
            /\ SubSeq(x.goal, 1, x.depth + 1)[x.depth + 1] = x.goal[x.depth + 1]
        BY <3>1, <3>2, FirstOf
      <4> QED
        BY <4>1 DEF Last
    <3> QED
      BY <2>1, <3>3, <3>4, StoredOK DEF NamesInv
  <2> QED
    BY <1>1, <1>4, <1>6, <2>3, <2>4, <2>5
<1> QED
  BY <1>5, <1>6

\* A step that Goes says right, the storage left alone.
LEMMA GoesOn ==
  ASSUME NamesInv, NEW c \in Clients, call[c].pc # "ensure", Unchanged, lock' = lock,
         CacheOK(cache'), NEW y, Set(c, y), Goes(call[c], y, used)
  PROVE  /\ NamesInv' /\ call'[c] = y
         /\ y.outcome # "ok" => Apart(call'[c])
<1>1. NamesInv' /\ call'[c] = y
  BY StepOn DEF Goes
<1> QED
  BY <1>1 DEF Goes, Apart

LEMMA LostOK ==
  ASSUME NamesInv, NEW c \in Clients, Lost(c)
  PROVE  NamesInv' /\ Apart(call'[c])
<1> DEFINE x == call[c]
           k == Evict(cache, SubSeq(x.goal, 1, 1))
           z == [x EXCEPT !.retried = TRUE]
<1>1. /\ x.pc = "lost" /\ Unchanged /\ lock' = lock
      /\ IF x.retried THEN Set(c, Absent(x)) /\ UNCHANGED cache
         ELSE cache' = k /\ Set(c, FromCache(z, k))
  BY DEF Lost
<1>2. /\ x \in CallType /\ x.outcome = "none" /\ Purpose(x, used) /\ x.goal \in Paths
  BY <1>1, Underway
<1>3. CASE x.retried
  <2>1. Goes(x, Absent(x), used) /\ Absent(x).outcome # "ok"
    BY <1>2, AbsentOK
  <2> QED
    BY <1>1, <1>3, <2>1, GoesOn DEF NamesInv
<1>4. CASE ~x.retried
  <2>1. /\ z \in CallType /\ z.outcome = "none" /\ z.goal = x.goal /\ z.op = x.op /\ z.path = x.path
        /\ z.to = x.to /\ z.stage = x.stage /\ z.from = x.from /\ z.parent = x.parent
    BY <1>2 DEF CallType
  <2> HIDE DEF z
  <2>2. Purpose(z, used)
    BY <1>2, <2>1 DEF Purpose, HasFrom, HasParent, Leads
  <2>3. CacheOK(k)
    BY EvictOK DEF NamesInv
  <2> HIDE DEF k
  <2>4. Goes(z, FromCache(z, k), used) /\ FromCache(z, k).outcome # "ok"
    BY <1>2, <2>1, <2>2, <2>3, FromCacheOK
  <2>5. Goes(x, FromCache(z, k), used)
    BY <2>1, <2>4 DEF Goes
  <2> QED
    BY <1>1, <1>4, <2>3, <2>4, <2>5, GoesOn
<1> QED
  BY <1>3, <1>4

\* What a read finds is an entry that the listing of its directory held.
LEMMA LeafOK ==
  ASSUME NamesInv, NEW c \in Clients, Leaf(c)
  PROVE  /\ NamesInv'
         /\ \/ Apart(call'[c])
            \/ \E n \in call[c].answer.entries :
                 /\ n.name = Last(call[c].goal) /\ call'[c].at = Append(call[c].at, n)
                 /\ call'[c].pc \notin Listing
                 /\ call'[c].op = call[c].op /\ call'[c].path = call[c].path
<1> DEFINE x == call[c]
           n == Child(x, Last(x.goal))
           z == [x EXCEPT !.at = Append(@, n)]
           k == Stored(cache, x.goal, n)
<1>1. /\ x.pc = "leaf" /\ Unchanged /\ lock' = lock
      /\ IF n # Missing THEN cache' = k /\ Set(c, Found(z, k))
         ELSE /\ Set(c, Absent(x))
              /\ cache' = IF x.answer.is = "ok" THEN Evict(cache, x.goal) ELSE cache
  BY DEF Leaf, Answered
<1>2. /\ CallOK(x, used) /\ x \in CallType /\ x.op # "none" /\ x.outcome = "none"
      /\ Purpose(x, used) /\ x.goal \in Paths /\ x.pc \in Listing
  BY <1>1, Underway DEF Listing
<1>3. At(x) /\ x.depth = Len(x.goal) - 1
  BY <1>1, <1>2, Zenon DEF CallOK
<1>4. CASE n = Missing
  <2>1. Goes(x, Absent(x), used) /\ Absent(x).outcome # "ok"
    BY <1>2, AbsentOK
  <2>2. CacheOK(Evict(cache, x.goal)) /\ CacheOK(cache)
    BY EvictOK DEF NamesInv
  <2> QED
    BY <1>1, <1>4, <2>1, <2>2, GoesOn
<1>5. CASE n # Missing
  <2>1. /\ n \in x.answer.entries /\ n \in Node /\ n.name = Last(x.goal)
        /\ Keyed(Append(x.at, n), used)
    BY <1>2, <1>5, ChildOK DEF NamesInv
  <2>2. CacheOK(k)
    BY <1>2, <2>1, StoredOK DEF NamesInv
  <2>3. x.at \in Seq(Node) /\ Len(x.at) \in Nat
    BY <1>2, LenProperties DEF CallType
  <2> HIDE DEF n, k
  <2>4. /\ Append(x.at, n) \in Seq(Node) /\ Len(Append(x.at, n)) = Len(x.at) + 1
        /\ Append(x.at, n)[Len(x.at) + 1] = n
        /\ \A i \in 1..Len(x.at) : Append(x.at, n)[i] = x.at[i]
    BY <2>1, <2>3, AppendProperties
  <2>5. /\ z \in CallType /\ z.outcome = "none" /\ z.goal = x.goal /\ z.op = x.op /\ z.path = x.path
        /\ z.to = x.to /\ z.stage = x.stage /\ z.from = x.from /\ z.parent = x.parent
        /\ z.at = Append(x.at, n) /\ z.pc = x.pc
    <3>1. \A b \in Seq(Node) : LET w == [x EXCEPT !.at = b]
                               IN  /\ w \in CallType /\ w.outcome = "none" /\ w.goal = x.goal
                                   /\ w.op = x.op /\ w.path = x.path /\ w.to = x.to
                                   /\ w.stage = x.stage /\ w.from = x.from /\ w.parent = x.parent
                                   /\ w.at = b /\ w.pc = x.pc
      BY <1>2 DEF CallType
    <3> QED
      BY <2>4, <3>1
  <2> HIDE DEF z
  <2>6. Purpose(z, used)
    BY <1>2, <2>5 DEF Purpose, HasFrom, HasParent, Leads
  <2>7. Named(z.at, z.goal)
    <3>1. Len(x.goal) \in Nat /\ Last(x.goal) = x.goal[Len(x.goal)]
      BY <1>2, PathFacts
    <3>2. x.depth = Len(x.at) /\ \A i \in 1..x.depth : x.at[i].name = x.goal[i]
      BY <1>3 DEF At
    <3>3. Len(z.at) = Len(x.goal)
      BY <1>3, <2>3, <2>4, <2>5, <3>1, <3>2
    <3>4. \A i \in 1..Len(z.at) : z.at[i].name = x.goal[i]
      <4> TAKE i \in 1..Len(z.at)
      <4>1. i \in 1..Len(x.at) \/ i = Len(x.at) + 1
        BY <2>3, <2>4, <2>5
      <4>2. Len(x.at) + 1 = Len(x.goal)
        BY <1>3, <2>3, <3>1, <3>2
      <4> QED
        BY <2>1, <2>4, <2>5, <3>1, <3>2, <4>1, <4>2
    <3> QED
      BY <2>5, <3>3, <3>4 DEF Named
  <2>8. Goes(z, Found(z, k), used) /\ Finds(z, Found(z, k))
    BY <1>2, <2>1, <2>2, <2>5, <2>6, <2>7, FoundOK
  <2>9. Goes(x, Found(z, k), used)
    BY <2>5, <2>8 DEF Goes
  <2>10. NamesInv' /\ call'[c] = Found(z, k) /\ (Found(z, k).outcome # "ok" => Apart(call'[c]))
    BY <1>1, <1>5, <2>2, <2>9, GoesOn DEF n, z, k
  <2>11. Found(z, k).outcome = "ok" => Found(z, k).at = Append(x.at, n)
    BY <2>5, <2>8 DEF Finds
  <2>12. Found(z, k).outcome = "ok" => Found(z, k).pc \notin Listing
    <3>1. CallOK(Found(z, k), used)
      BY <2>8 DEF Goes
    <3> QED
      BY <3>1, Zenon DEF CallOK, Listing
  <2>13. Found(z, k).op = x.op /\ Found(z, k).path = x.path
    BY <2>9 DEF Goes
  <2> QED
    BY <2>1, <2>10, <2>11, <2>12, <2>13
<1> QED
  BY <1>4, <1>5

LEMMA ListChildrenOK ==
  ASSUME NamesInv, NEW c \in Clients, ListChildren(c)
  PROVE  NamesInv' /\ Apart(call'[c])
<1> DEFINE x == call[c]
           Entry(p) == IF Len(p) = Len(x.path) + 1 /\ IsPrefix(x.path, p)
                       THEN Child(x, Last(p)) ELSE Missing
           outcome == IF x.answer.is = "ok" THEN "ok" ELSE "absent"
<1>1. /\ x.pc = "children" /\ Unchanged /\ lock' = lock
      /\ cache' = [p \in Paths |-> IF Entry(p) = Missing THEN cache[p] ELSE Entry(p)]
      /\ Set(c, Return(x, outcome))
  BY DEF ListChildren, Answered
<1>2. /\ CallOK(x, used) /\ x \in CallType /\ x.op # "none" /\ x.pc \in Listing
  BY <1>1, Underway DEF Listing
<1>3. x.op = "list"
  BY <1>1, <1>2, Zenon DEF CallOK
<1>4. \A p \in Paths : Entry(p) # Missing => Entry(p) \in Node /\ Entry(p).name = Last(p)
  BY <1>2, ChildOK DEF NamesInv
<1>5. CacheOK(cache')
  <2> HIDE DEF Entry
  <2>1. /\ cache \in [Paths -> Node]
        /\ \A p \in Paths : Cached(cache, p) => cache[p].name = Last(p)
    BY DEF NamesInv, CacheOK
  <2> QED
    BY <1>1, <1>4, <2>1 DEF CacheOK, Cached
<1> HIDE DEF Entry
<1>6. Goes(x, Return(x, outcome), used)
  BY <1>2, ReturnOK
<1>7. NamesInv' /\ call'[c] = Return(x, outcome)
  BY <1>1, <1>5, <1>6, GoesOn
<1>8. call'[c].op = "list"
  BY <1>3, <1>6, <1>7 DEF Goes
<1> QED
  BY <1>7, <1>8 DEF Apart

LEMMA EnterEnsureOK ==
  ASSUME NamesInv, NEW c \in Clients, EnterEnsure(c)
  PROVE  NamesInv' /\ Apart(call'[c])
<1> DEFINE x == call[c]
           z == [x EXCEPT !.at = Root, !.depth = 0]
           y == List(z, "ensure")
<1>1. x.pc = "wait" /\ lock = "free" /\ lock' = c /\ Set(c, y) /\ Unchanged /\ cache' = cache
  BY DEF EnterEnsure
<1>2. CallOK(x, used) /\ x \in CallType /\ x.outcome = "none"
  BY <1>1, Underway
<1>3. Ensures(x)
  BY <1>1, <1>2, Zenon DEF CallOK, Ensures
<1>4. /\ z \in CallType /\ z.outcome = x.outcome /\ z.goal = x.goal /\ z.op = x.op
      /\ z.path = x.path /\ z.at = Root /\ z.depth = 0
  BY <1>2, RootIsPath DEF CallType
<1> HIDE DEF z
<1>5. Ensures(z)
  BY <1>3, <1>4 DEF Ensures
<1>6. Len(z.goal) \in Nat \ {0} /\ Len(z.at) = 0
  BY <1>3, <1>4, PathFacts, KeyedRoot DEF Ensures
<1>7. At(z)
  <2>1. z.depth = Len(z.at) /\ z.depth < Len(z.goal)
    BY <1>4, <1>6
  <2>2. \A i \in 1..z.depth : z.at[i].name = z.goal[i]
    BY <1>4
  <2> QED
    BY <2>1, <2>2 DEF At
<1>8. Keyed(z.at, used)
  BY <1>4, KeyedRoot
<1>9. /\ CallOK(y, used) /\ y.pc = "ensure" /\ y.answer = NoAnswer /\ y.op = z.op /\ y.outcome = "none"
  BY <1>5, <1>7, <1>8, EnsureListOK
<1> HIDE DEF y
<1>10. call'[c] = y /\ \A d \in Clients \ {c} : call'[d] = call[d]
  BY <1>1, <1>9, CallsKept DEF NamesInv
<1>11. LockOK(call', lock')
  <2>1. \A d \in Clients : call[d].pc # "ensure"
    BY <1>1, NamespaceAssumption DEF NamesInv, LockOK, NamespaceAssumption
  <2> QED
    BY <1>1, <1>9, <1>10, <2>1 DEF LockOK
<1>12. Listed(y, disk, came, again)
  BY <1>9 DEF Listed, NoAnswer
<1>13. NamesInv'
  BY <1>1, <1>9, <1>11, <1>12, StepAside DEF NamesInv
<1> QED
  BY <1>9, <1>10, <1>13 DEF Apart

LEMMA FailOK ==
  ASSUME NamesInv, NEW c \in Clients, Fail(c)
  PROVE  NamesInv' /\ Apart(call'[c])
<1> DEFINE x == call[c]
           y == IF x.pc \in {"descend", "leaf"} THEN Broken(x) ELSE Return(x, "error")
<1>1. /\ x.pc \in Listing \cup {"create", "remove", "rename"} /\ Set(c, y)
      /\ IF x.pc = "ensure" THEN lock' = "free" ELSE UNCHANGED lock
      /\ Unchanged /\ cache' = cache
  BY DEF Fail
<1>2. x \in CallType /\ x.op # "none" /\ x.outcome = "none"
  BY <1>1, Underway DEF Listing
<1>3. Goes(x, y, used) /\ y.outcome # "ok"
  <2>1. CASE x.pc \in {"descend", "leaf"}
    <3>1. Purpose(x, used) /\ x.goal \in Paths
      BY <2>1, Underway
    <3> QED
      BY <1>2, <2>1, <3>1, BrokenOK
  <2>2. CASE x.pc \notin {"descend", "leaf"}
    BY <1>2, <2>2, ReturnOK
  <2> QED
    BY <2>1, <2>2
<1> HIDE DEF y
<1>4. CallOK(y, used) /\ y.pc # "ensure" /\ (y.pc \in Listing => y.answer = NoAnswer)
  BY <1>3 DEF Goes
<1>5. call'[c] = y /\ \A d \in Clients \ {c} : call'[d] = call[d]
  BY <1>1, <1>4, CallsKept DEF NamesInv
<1>6. LockOK(call', lock')
  <2>1. /\ lock \in Clients \cup {"free"} /\ "free" \notin Clients
        /\ \A d \in Clients : call[d].pc = "ensure" <=> lock = d
    BY NamespaceAssumption DEF NamesInv, LockOK, NamespaceAssumption
  <2>2. CASE x.pc = "ensure"
    BY <1>1, <1>4, <1>5, <2>1, <2>2 DEF LockOK
  <2>3. CASE x.pc # "ensure"
    BY <1>1, <1>4, <1>5, <2>1, <2>3 DEF LockOK
  <2> QED
    BY <2>2, <2>3
<1>7. Listed(y, disk, came, again)
  BY <1>4 DEF Listed
<1>8. NamesInv'
  BY <1>1, <1>4, <1>6, <1>7, StepAside DEF NamesInv
<1> QED
  BY <1>3, <1>4, <1>5, <1>8 DEF Apart

-----------------------------------------------------------------------------
(***************************************************************************)
(* The steps that change the storage.                                      *)
(***************************************************************************)
LEMMA EncodedOK ==
  ASSUME NEW v, NEW at, Keyed(at, v), NEW name \in Names, NEW dir \in BOOLEAN,
         NEW s \in Int, s \in v \ {0}, NEW e, e = Encoded(at, name, dir, s)
  PROVE  /\ Keyed(e, v) /\ e # Root /\ e \in Seq(Node)
         /\ Last(e) \in Node /\ Last(e).key = Secret(at) /\ Last(e).name = name
         /\ Last(e).dir = dir /\ Last(e).secret = s
         /\ Secret(e) = s /\ (IsDir(e) <=> dir)
<1> DEFINE m == [key |-> Secret(at), name |-> name, dir |-> dir, secret |-> s]
<1>1. Secret(at) \in Int
  <2>1. CASE at = Root
    BY <2>1, KeyedRoot
  <2>2. CASE at # Root
    <3>1. Last(at) \in Node /\ Secret(at) = Last(at).secret
      BY <2>2, KeyedParts
    <3> QED
      BY <3>1 DEF Node
  <2> QED
    BY <2>1, <2>2
<1>2. /\ m \in Node /\ m.key = Secret(at) /\ m.name = name /\ m.dir = dir /\ m.secret = s
  BY <1>1 DEF Node
<1>0. e = Append(at, m)
  BY DEF Encoded
<1> HIDE DEF m
<1>5. Keyed(e, v) /\ e # Root /\ Secret(e) = s
  BY <1>0, <1>2, KeyedAppend
<1>6. at \in Seq(Node)
  BY DEF Keyed
<1>7. Last(e) = m /\ e \in Seq(Node)
  <2>1. /\ e \in Seq(Node) /\ Len(e) = Len(at) + 1 /\ e[Len(at) + 1] = m
    BY <1>0, <1>2, <1>6, AppendProperties
  <2> QED
    BY <2>1 DEF Last
<1>8. IsDir(e) <=> dir
  BY <1>2, <1>5, <1>7 DEF IsDir
<1> QED
  BY <1>2, <1>5, <1>7, <1>8

LEMMA CreateOK ==
  ASSUME NamesInv, NEW c \in Clients, Create(c)
  PROVE  NamesInv' /\ Apart(call'[c])
<1> DEFINE x == call[c]
<1>1. x.pc = "create" /\ lock' = lock
  BY DEF Create
<1>2. CallOK(x, used) /\ x \in CallType /\ x.op # "none" /\ x.outcome = "none"
  BY <1>1, Underway
<1>3. Makes(x, used)
  BY <1>1, <1>2, Zenon DEF CallOK
<1>4. x.op = "upload" /\ x.path \in Paths /\ Keyed(x.parent, used)
  BY <1>3 DEF Makes, HasParent
<1>5. PICK s \in Fresh :
        LET e == Encoded(x.parent, Last(x.path), FALSE, s)
        IN  /\ Made(e) /\ cache' = Stored(cache, x.path, Last(e))
            /\ Set(c, Return([x EXCEPT !.at = e], "ok"))
  BY DEF Create
<1>6. s \in Int \ {0} /\ s \notin used /\ Secrets(used \cup {s})
  BY FreshIsNew DEF NamesInv
<1> DEFINE e == Encoded(x.parent, Last(x.path), FALSE, s)
           v == used \cup {s}
<1>7. /\ Keyed(e, v) /\ e # Root /\ e \in Seq(Node) /\ Last(e) \in Node
      /\ Last(e).name = Last(x.path) /\ Secret(e) = s /\ ~IsDir(e)
  <2>1. Last(x.path) \in Names
    BY <1>4, PathFacts
  <2> DEFINE dir == FALSE
  <2>2. e = Encoded(x.parent, Last(x.path), dir, s) /\ dir \in BOOLEAN /\ ~dir
    OBVIOUS
  <2>3. s \in Int /\ s \in v \ {0}
    BY <1>6
  <2>4. Keyed(x.parent, v)
    BY <1>4, KeyedLater
  <2> HIDE DEF e, v, dir, x
  <2>5. /\ Keyed(e, v) /\ e # Root /\ e \in Seq(Node) /\ Last(e) \in Node
        /\ Last(e).name = Last(x.path) /\ Secret(e) = s /\ (IsDir(e) <=> dir)
    BY ONLY <2>1, <2>2, <2>3, <2>4, EncodedOK
  <2> QED
    BY <2>2, <2>5
<1>8. /\ Made(e) /\ cache' = Stored(cache, x.path, Last(e))
      /\ Set(c, Return([x EXCEPT !.at = e], "ok"))
  BY <1>5
<1> HIDE DEF e
<1> DEFINE z == [x EXCEPT !.at = e]
<1>9. z \in CallType /\ z.op = x.op
  BY <1>2, <1>7 DEF CallType
<1> HIDE DEF z
<1>10. /\ CallOK(Return(z, "ok"), v) /\ Return(z, "ok").op = "upload"
       /\ Return(z, "ok").pc # "ensure"
  BY <1>2, <1>4, <1>9, ReturnOK DEF Goes
<1>11. /\ used' = v /\ disk' = WithAncestors(e) /\ came' = came
       /\ again' = again \cup {Secret(f) : f \in WithAncestors(e) \ (disk \cup {e})}
  BY <1>7, <1>8 DEF Made
<1>12. used \subseteq v /\ Secrets(v)
  BY <1>6
<1> HIDE DEF v
<1>13. DiskOK(disk', used')
  <2>1. DiskOK(disk, v)
    BY <1>12, DiskLater DEF NamesInv
  <2> QED
    BY <1>7, <1>11, <2>1, AddedOK
<1>14. Uniq(disk', again')
  BY <1>6, <1>7, <1>11, AddedUniq DEF NamesInv
<1>15. Known(disk, disk', came' \cup again')
  BY <1>7, <1>11 DEF Known
<1>16. CacheOK(cache')
  BY <1>4, <1>7, <1>8, StoredOK DEF NamesInv
<1>17. NamesInv' /\ call'[c] = Return(z, "ok")
  <2>1. Set(c, Return(z, "ok")) /\ again \subseteq again'
    BY <1>8, <1>11 DEF z
  <2> QED
    BY <1>1, <1>10, <1>11, <1>12, <1>13, <1>14, <1>15, <1>16, <2>1, StepWrites
<1> QED
  BY <1>10, <1>17 DEF Apart

\* Without a subtree, a storage is as good as before.
LEMMA CutOK ==
  ASSUME NEW u, DiskOK(disk, u), NEW at \in Seq(Node), NEW a, Uniq(disk, a), NEW g
  PROVE  LET d == disk \ Subtree(at)
         IN  DiskOK(d, u) /\ Uniq(d, a) /\ Known(disk, d, g)
<1> DEFINE d == disk \ Subtree(at)
<1>1. ASSUME NEW e \in d, NEW n \in 1..Len(e)
      PROVE  SubSeq(e, 1, n) \in d
  <2>1. e \in disk /\ Keyed(e, u) /\ SubSeq(e, 1, n) \in disk /\ ~IsPrefix(at, e)
    BY DEF DiskOK, Subtree
  <2>2. e \in Seq(Node) /\ Len(e) \in Nat
    BY <2>1, LenProperties DEF Keyed
  <2>3. /\ SubSeq(e, 1, n) \in Seq(Node) /\ Len(SubSeq(e, 1, n)) = n /\ n <= Len(e)
        /\ \A i \in 1..n : SubSeq(e, 1, n)[i] = e[i]
    BY <2>2, FirstOf
  <2>4. ~IsPrefix(at, SubSeq(e, 1, n))
    <3> SUFFICES ASSUME IsPrefix(at, SubSeq(e, 1, n)) PROVE FALSE
      OBVIOUS
    <3> DEFINE h == SubSeq(e, 1, n)
    <3>0. IsPrefix(at, h) <=> Len(at) <= Len(h) /\ \A i \in 1..Len(at) : at[i] = h[i]
      <4>1. h \in Seq(Node)
        BY <2>3
      <4> HIDE DEF h
      <4> QED
        BY <4>1, PrefixOf
    <3>1. Len(at) <= n /\ \A i \in 1..Len(at) : at[i] = SubSeq(e, 1, n)[i]
      BY <2>3, <3>0
    <3>2. Len(at) <= Len(e) /\ \A i \in 1..Len(at) : at[i] = e[i]
      BY <2>2, <2>3, <3>1, LenProperties
    <3> QED
      BY <2>1, <2>2, <3>2, PrefixOf
  <2> QED
    BY <2>1, <2>4 DEF Subtree
<1>2. DiskOK(d, u)
  BY <1>1 DEF DiskOK
<1>3. d \subseteq disk
  OBVIOUS
<1> HIDE DEF d
<1>4. Uniq(d, a) /\ Known(disk, d, g)
  BY <1>3 DEF Uniq, Known
<1> QED
  BY <1>2, <1>4 DEF d

LEMMA DiscardOK ==
  ASSUME NamesInv, NEW c \in Clients, Discard(c)
  PROVE  NamesInv' /\ Apart(call'[c])
<1> DEFINE x == call[c]
           y == IF x.op = "delete" THEN Return(x, "ok") ELSE [x EXCEPT !.pc = "create"]
<1>1. /\ x.pc = "remove" /\ disk' = disk \ Subtree(x.at) /\ cache' = Evict(cache, x.path)
      /\ Set(c, y) /\ lock' = lock /\ used' = used /\ came' = came /\ again' = again
  BY DEF Discard
<1>2. CallOK(x, used) /\ x \in CallType /\ x.op # "none" /\ x.outcome = "none"
  BY <1>1, Underway
<1>3. x.op = "delete" \/ Makes(x, used)
  BY <1>1, <1>2, Zenon DEF CallOK
<1>4. Goes(x, y, used)
  BY <1>2, <1>3, ReturnOK, SetPcOK
<1>5. x.op \in {"delete", "upload"} /\ x.at \in Seq(Node)
  BY <1>2, <1>3 DEF Makes, CallType
<1> HIDE DEF y
<1>6. DiskOK(disk', used') /\ Uniq(disk', again') /\ Known(disk, disk', came' \cup again')
  BY <1>1, <1>5, CutOK DEF NamesInv
<1>7. CacheOK(cache')
  BY <1>1, EvictOK DEF NamesInv
<1>8. NamesInv' /\ call'[c] = y
  BY <1>1, <1>4, <1>6, <1>7, StepWrites DEF NamesInv, Goes
<1> QED
  BY <1>4, <1>5, <1>8 DEF Apart, Goes

\* A step of ensure_dir: nobody else is in it.
LEMMA StepInside ==
  ASSUME NamesInv, NEW c \in Clients, call[c].pc = "ensure", NEW y, Set(c, y), Unlock(y),
         used \subseteq used', Secrets(used'), CallOK(y, used'),
         y.pc \in Listing => y.answer = NoAnswer,
         CacheOK(cache'), DiskOK(disk', used'), Uniq(disk', again'), Twins(disk', came', again')
  PROVE  NamesInv' /\ call'[c] = y
<1>1. /\ CallsOK(call', used') /\ call'[c] = y /\ \A d \in Clients \ {c} : call'[d] = call[d]
  BY CallsKept DEF NamesInv
<1>2. /\ lock = c /\ c # "free"
      /\ \A d \in Clients : call[d].pc = "ensure" <=> lock = d
  BY NamespaceAssumption DEF NamesInv, LockOK, NamespaceAssumption
<1>3. \A d \in Clients \ {c} : call[d].pc # "ensure"
  BY <1>2
<1>4. LockOK(call', lock')
  <2>1. "free" \notin Clients
    BY NamespaceAssumption DEF NamespaceAssumption
  <2>2. CASE y.pc = "ensure"
    <3>1. lock' = c
      BY <1>2, <2>2 DEF Unlock
    <3> QED
      BY <1>1, <1>3, <2>2, <3>1 DEF LockOK
  <2>3. CASE y.pc # "ensure"
    <3>1. lock' = "free"
      BY <2>3 DEF Unlock
    <3> QED
      BY <1>1, <1>3, <2>1, <2>3, <3>1 DEF LockOK
  <2> QED
    BY <2>2, <2>3
<1>5. \A d \in Clients : Listed(call'[d], disk', came', again')
  <2> TAKE d \in Clients
  <2>1. CASE d = c
    <3>1. y.pc = "ensure" => y.answer.is # "ok"
      BY DEF Listing, NoAnswer
    <3> QED
      BY <1>1, <2>1, <3>1 DEF Listed
  <2>2. CASE d # c
    BY <1>1, <1>3, <2>2 DEF Listed
  <2> QED
    BY <2>1, <2>2
<1> QED
  BY <1>1, <1>4, <1>5 DEF NamesInv

\* The new directory of ensure_dir is the only one of its name under its key.
LEMMA NewTwins ==
  ASSUME NEW d, NEW c, NEW a, Twins(d, c, a), NEW x, x.pc = "ensure", x.answer.is = "ok",
         Listed(x, d, c, a), NEW name, Candidates(x.answer.entries, x.at, name) = {},
         NEW e, Last(e).key = Secret(x.at), Last(e).name = name, NEW d2, NEW a2, a \subseteq a2,
         \A f \in d2 : f \in d \/ f = e \/ Secret(f) \in a2
  PROVE  Twins(d2, c, a2)
<1> SUFFICES ASSUME NEW f \in d2, NEW g \in d2, IsDir(f), IsDir(g), Last(f).key = Last(g).key,
                    Last(f).name = Last(g).name, Secret(f) # Secret(g),
                    Secret(f) \notin c \cup a2, Secret(g) \notin c \cup a2, Last(f).key \notin a2
             PROVE  FALSE
  BY Zenon DEF Twins
<1>1. (f \in d \/ f = e) /\ (g \in d \/ g = e) /\ (f # e \/ g # e)
  OBVIOUS
<1>2. ~(f \in d /\ g \in d)
  BY DEF Twins
<1>3. ASSUME NEW h \in d, IsDir(h), Last(h).key = Secret(x.at), Last(h).name = name,
             Secret(h) \notin c \cup a, Secret(x.at) \notin a
      PROVE  FALSE
  <2>1. Last(h) \in x.answer.entries
    BY <1>3 DEF Listed
  <2> QED
    BY <1>3, <2>1 DEF Candidates
<1>4. CASE f = e /\ g \in d
  BY <1>3, <1>4
<1>5. CASE g = e /\ f \in d
  BY <1>3, <1>5
<1> QED
  BY <1>1, <1>2, <1>4, <1>5

LEMMA EnsureNextOK ==
  ASSUME NamesInv, NEW c \in Clients, EnsureNext(c)
  PROVE  NamesInv' /\ Apart(call'[c])
<1> DEFINE x == call[c]
           name == x.goal[x.depth + 1]
           path == SubSeq(x.goal, 1, x.depth + 1)
           n == Child(x, name)
<1>1. x.pc = "ensure"
  BY DEF EnsureNext, Answered
<1>2. CallOK(x, used) /\ x \in CallType /\ x.outcome = "none" /\ x.pc \in Listing
  BY <1>1, Underway DEF Listing
<1>3. At(x) /\ Ensures(x) /\ Keyed(x.at, used)
  BY <1>1, <1>2, Zenon DEF CallOK, Ensures
<1>4. path \in Paths /\ Last(path) = name /\ name \in Names
  <2>1. /\ x.goal \in Paths /\ x.goal \in Seq(Names) /\ Len(x.goal) \in Nat
        /\ \A i \in 1..Len(x.goal) : SubSeq(x.goal, 1, i) \in Paths
        /\ x.depth \in Nat /\ x.depth < Len(x.goal)
    BY <1>2, <1>3, PathFacts DEF Ensures, At, CallType
  <2>2. x.depth + 1 \in 1..Len(x.goal) /\ x.depth + 1 \in 0..Len(x.goal)
    BY <2>1
  <2>3. path \in Paths
    BY <2>1, <2>2
  <2>4. Len(path) = x.depth + 1 /\ path[x.depth + 1] = name
    BY <2>1, <2>2, FirstOf
  <2>5. Last(path) = name
    BY <2>4 DEF Last
  <2>6. Last(path) \in Names
    BY <2>3 DEF Names
  <2> QED
    BY <2>3, <2>5, <2>6
<1>5. /\ n # Missing => n \in Node /\ n.name = name /\ Keyed(Append(x.at, n), used)
      /\ n = Missing => Candidates(x.answer.entries, x.at, name) = {}
  BY <1>2, ChildOK DEF NamesInv
<1>6. x.op \in {"mkdir", "upload"}
  BY <1>3 DEF Ensures
<1> HIDE DEF path, n
\* on with a directory
<1>7. ASSUME NEW m \in Node, m.name = name, Keyed(Append(x.at, m), used'), used \subseteq used',
             Secrets(used'), DiskOK(disk', used'), Uniq(disk', again'), Twins(disk', came', again'),
             cache' = Stored(cache, path, m), Set(c, Deeper(x, m, cache')),
             Unlock(Deeper(x, m, cache'))
      PROVE  NamesInv' /\ Apart(call'[c])
  <2> DEFINE k == Stored(cache, path, m)
             y == Deeper(x, m, k)
  <2>1. CacheOK(k)
    BY <1>4, <1>7, StoredOK DEF NamesInv
  <2>2. Keyed(x.at, used')
    BY <1>3, <1>7, KeyedLater
  <2>3. cache' = k /\ Set(c, y) /\ Unlock(y)
    BY <1>7
  <2> HIDE DEF k
  <2>4. /\ CallOK(y, used') /\ y.op = x.op /\ (y.pc \in Listing => y.answer = NoAnswer)
    BY <1>3, <1>7, <2>1, <2>2, DeeperOK
  <2> HIDE DEF y, x
  <2>5. NamesInv' /\ call'[c] = y
    <3>1. call[c].pc = "ensure"
      BY <1>1 DEF x
    <3> QED
      BY <1>7, <2>1, <2>3, <2>4, <3>1, StepInside
  <2>6. y.op # "read"
    BY <1>6, <2>4
  <2> QED
    BY <2>5, <2>6 DEF Apart
\* an end of it
<1>8. ASSUME NEW outcome \in {"absent", "error"}, Set(c, Return(x, outcome)), lock' = "free",
             cache' = cache, Unchanged
      PROVE  NamesInv' /\ Apart(call'[c])
  <2> DEFINE y == Return(x, outcome)
  <2>1. Goes(x, y, used) /\ y.pc = "done"
    BY <1>2, <1>6, ReturnOK
  <2>2. Set(c, y)
    BY <1>8
  <2> HIDE DEF y, x
  <2>3. /\ CallOK(y, used) /\ y.op = x.op /\ (y.pc \in Listing => y.answer = NoAnswer)
    BY <2>1 DEF Goes
  <2>4. Unlock(y)
    BY <1>8, <2>1 DEF Unlock
  <2>5. /\ used' = used /\ disk' = disk /\ came' = came /\ again' = again
    BY <1>8 DEF Unchanged
  <2>6. call[c].pc = "ensure"
    BY <1>1 DEF x
  <2>7. NamesInv' /\ call'[c] = y
    BY <1>8, <2>2, <2>3, <2>4, <2>5, <2>6, StepInside DEF NamesInv
  <2>8. y.op # "read"
    BY <1>6, <2>3
  <2> QED
    BY <2>7, <2>8 DEF Apart
<1>9. \/ Set(c, Return(x, "absent")) /\ lock' = "free" /\ cache' = cache /\ Unchanged
      \/ /\ n # Missing /\ cache' = Stored(cache, path, n) /\ Set(c, Deeper(x, n, cache'))
         /\ Unlock(Deeper(x, n, cache')) /\ Unchanged
      \/ Set(c, Return(x, "error")) /\ lock' = "free" /\ cache' = cache /\ Unchanged
      \/ /\ x.answer.is = "ok" /\ n = Missing
         /\ \E s \in Fresh :
              LET e == Encoded(x.at, name, TRUE, s)
              IN  /\ Made(e) /\ cache' = Stored(cache, path, Last(e))
                  /\ Set(c, Deeper(x, Last(e), cache')) /\ Unlock(Deeper(x, Last(e), cache'))
  BY DEF EnsureNext, path, n
<1>10. CASE Set(c, Return(x, "absent")) /\ lock' = "free" /\ cache' = cache /\ Unchanged
  BY <1>8, <1>10
<1>11. CASE Set(c, Return(x, "error")) /\ lock' = "free" /\ cache' = cache /\ Unchanged
  BY <1>8, <1>11
<1>12. CASE /\ n # Missing /\ cache' = Stored(cache, path, n) /\ Set(c, Deeper(x, n, cache'))
            /\ Unlock(Deeper(x, n, cache')) /\ Unchanged
  <2>1. /\ used' = used /\ disk' = disk /\ came' = came /\ again' = again
    BY <1>12 DEF Unchanged
  <2> HIDE DEF x, name
  <2> QED
    BY <1>5, <1>7, <1>12, <2>1 DEF NamesInv
<1>13. ASSUME x.answer.is = "ok", n = Missing, NEW s \in Fresh, NEW e,
              e = Encoded(x.at, name, TRUE, s), Made(e), cache' = Stored(cache, path, Last(e)),
              Set(c, Deeper(x, Last(e), cache')), Unlock(Deeper(x, Last(e), cache'))
       PROVE  NamesInv' /\ Apart(call'[c])
  <2>1. s \in Int \ {0} /\ s \notin used /\ Secrets(used \cup {s})
    BY FreshIsNew DEF NamesInv
  <2> DEFINE v == used \cup {s}
             dir == TRUE
  <2>2. /\ s \in Int /\ s \in v \ {0} /\ used \subseteq v /\ Secrets(v) /\ DiskOK(disk, v)
        /\ Keyed(x.at, v)
    BY <1>3, <2>1, KeyedLater, DiskLater DEF NamesInv
  <2>3. e = Encoded(x.at, name, dir, s) /\ dir \in BOOLEAN
    BY <1>13
  <2> HIDE DEF dir
  <2>4. v = used \cup {s}
    OBVIOUS
  <2> HIDE DEF v, x, name
  <2>5. /\ Keyed(e, v) /\ e # Root /\ e \in Seq(Node) /\ Last(e) \in Node
        /\ Last(e).name = name /\ Last(e).key = Secret(x.at) /\ Secret(e) = s
    <3>1. name \in Names /\ s \in Int /\ s \in v \ {0} /\ Keyed(x.at, v)
      BY <1>4, <2>2
    <3> QED
      BY ONLY <2>3, <3>1, EncodedOK
  <2>6. /\ used' = v /\ disk' = WithAncestors(e) /\ came' = came
        /\ again' = again \cup {Secret(f) : f \in WithAncestors(e) \ (disk \cup {e})}
    BY <1>13, <2>4, <2>5 DEF Made
  <2>7. DiskOK(disk', used')
    BY <2>2, <2>5, <2>6, AddedOK
  <2>8. Uniq(disk', again')
    BY <2>1, <2>5, <2>6, AddedUniq DEF NamesInv
  <2>9. Twins(disk', came', again')
    <3>1. Twins(disk, came, again) /\ Listed(x, disk, came, again)
      BY DEF NamesInv, x
    <3>2. \A f \in disk' : f \in disk \/ f = e \/ Secret(f) \in again'
      BY <2>6
    <3>3. again \subseteq again'
      BY <2>6
    <3>4. /\ Candidates(x.answer.entries, x.at, name) = {} /\ x.pc = "ensure"
          /\ x.answer.is = "ok" /\ Last(e).key = Secret(x.at) /\ Last(e).name = name
      BY <1>1, <1>5, <1>13, <2>5
    <3>5. Twins(disk', came, again')
      BY ONLY <3>1, <3>2, <3>3, <3>4, NewTwins
    <3> QED
      BY <2>6, <3>5
  <2>10. Keyed(Append(x.at, Last(e)), used')
    <3>1. e = Append(x.at, [key |-> Secret(x.at), name |-> name, dir |-> dir, secret |-> s])
      BY <2>3 DEF Encoded
    <3>2. [key |-> Secret(x.at), name |-> name, dir |-> dir, secret |-> s] = Last(e)
      <4>1. x.at \in Seq(Node)
        BY <1>3 DEF Keyed
      <4>2. [key |-> Secret(x.at), name |-> name, dir |-> dir, secret |-> s] \in Node
        <5>1. Secret(x.at) \in Int
          BY <2>5 DEF Node
        <5> QED
          BY <1>4, <2>2, <2>3, <5>1 DEF Node
      <4> QED
        BY <3>1, <4>1, <4>2, Appended
    <3>3. e = Append(x.at, Last(e))
      BY <3>1, <3>2
    <3> QED
      BY <2>5, <2>6, <3>3
  <2> QED
    BY <1>7, <1>13, <2>2, <2>5, <2>6, <2>7, <2>8, <2>9, <2>10
<1>14. CASE /\ x.answer.is = "ok" /\ n = Missing
            /\ \E s \in Fresh :
                 LET e == Encoded(x.at, name, TRUE, s)
                 IN  /\ Made(e) /\ cache' = Stored(cache, path, Last(e))
                     /\ Set(c, Deeper(x, Last(e), cache')) /\ Unlock(Deeper(x, Last(e), cache'))
  <2>1. PICK s \in Fresh :
          LET e == Encoded(x.at, name, TRUE, s)
          IN  /\ Made(e) /\ cache' = Stored(cache, path, Last(e))
              /\ Set(c, Deeper(x, Last(e), cache')) /\ Unlock(Deeper(x, Last(e), cache'))
    BY <1>14
  <2> HIDE DEF x, name
  <2> QED
    BY <1>13, <1>14, <2>1
<1> QED
  BY <1>9, <1>10, <1>11, <1>12, <1>14

\* What the storage makes again as ancestors is the only thing new of a parent.
LEMMA AncestorsUniq ==
  ASSUME NEW a, Uniq(disk, a), NEW e, NEW b,
         b = a \cup {Secret(f) : f \in WithAncestors(e) \ disk}
  PROVE  Uniq(WithAncestors(e), b)
<1> DEFINE made == WithAncestors(e)
<1>1. \A f \in made : f \in disk \/ Secret(f) \in b
  OBVIOUS
<1>2. a \subseteq b
  OBVIOUS
<1> HIDE DEF made
<1>3. Uniq(made, b)
  BY <1>1, <1>2 DEF Uniq
<1> QED
  BY <1>3 DEF made

LEMMA RenameOK ==
  ASSUME NamesInv, NEW c \in Clients, Rename(c)
  PROVE  NamesInv' /\ Apart(call'[c])
<1> DEFINE x == call[c]
           e == Renamed(x)
           made == WithAncestors(x.parent)
           z == [x EXCEPT !.at = e]
<1>1. /\ x.pc = "rename" /\ lock' = lock /\ used' = used
      /\ again' = again \cup {Secret(f) : f \in made \ disk}
      /\ IF x.from \in disk /\ e \notin disk
         THEN /\ disk' = {Moved(f, x.from, e) : f \in made}
              /\ came' = came \cup {Secret(e)}
              /\ cache' = Stored(Evict(cache, x.path), x.to, Last(e))
              /\ Set(c, Return(z, "ok"))
         ELSE disk' = made /\ Set(c, Return(x, "error")) /\ cache' = cache /\ came' = came
  BY DEF Rename
<1>2. CallOK(x, used) /\ x \in CallType /\ x.op # "none" /\ x.outcome = "none"
  BY <1>1, Underway
<1>3. x.op = "rename" /\ HasFrom(x, used) /\ HasParent(x, x.to, used)
  BY <1>1, <1>2, Zenon DEF CallOK
<1>4. /\ Keyed(x.from, used) /\ Named(x.from, x.path) /\ x.path \in Paths /\ x.to \in Paths
      /\ ~IsPrefix(x.path, x.to) /\ Keyed(x.parent, used) /\ Named(x.parent, Front(x.to))
  BY <1>3 DEF HasFrom, HasParent, Leads
<1>5. x.from # Root
  <2>1. Len(x.from) \in Nat \ {0}
    BY <1>4, PathFacts DEF Named
  <2> QED
    BY <2>1, KeyedRoot
<1>6. DiskOK(made, used) /\ \A k \in 1..Len(x.parent) : SubSeq(x.parent, 1, k) \in made
  BY <1>4, AddedOK DEF NamesInv, WithAncestors
<1>7. Uniq(made, again')
  BY <1>1, AncestorsUniq DEF NamesInv
<1>8. \A f \in made : f \in disk \/ Secret(f) \in again'
  BY <1>1
<1>9. ~IsPrefix(x.from, x.parent)
  <2> DEFINE p == x.path
             q == x.to
             up == Front(x.to)
  <2>1. /\ p \in Seq(Names) /\ q \in Seq(Names) /\ Len(p) \in Nat /\ Len(q) \in Nat
        /\ Len(up) = Len(q) - 1 /\ \A i \in 1..Len(q) - 1 : up[i] = q[i]
    BY <1>4, PathFacts
  <2>2. /\ x.from \in Seq(Node) /\ Len(x.from) = Len(p)
        /\ \A i \in 1..Len(p) : x.from[i].name = p[i]
    BY <1>4 DEF Named, Keyed
  <2>3. /\ x.parent \in Seq(Node) /\ Len(x.parent) = Len(up)
        /\ \A i \in 1..Len(up) : x.parent[i].name = up[i]
    BY <1>4 DEF Named, Keyed
  <2>4. ~(Len(p) <= Len(q) /\ \A i \in 1..Len(p) : p[i] = q[i])
    BY <1>4, <2>1, PrefixOf
  <2> HIDE DEF p, q, up
  <2> SUFFICES ASSUME IsPrefix(x.from, x.parent) PROVE FALSE
    OBVIOUS
  <2>5. Len(p) <= Len(up) /\ \A i \in 1..Len(p) : x.from[i] = x.parent[i]
    BY <2>2, <2>3, PrefixOf
  <2>6. \A i \in 1..Len(p) : p[i] = q[i]
    <3> TAKE i \in 1..Len(p)
    <3>1. i \in 1..Len(up) /\ i \in 1..Len(q) - 1
      BY <2>1, <2>5
    <3> QED
      BY <2>1, <2>2, <2>3, <2>5, <3>1
  <2> QED
    BY <2>1, <2>4, <2>5, <2>6
<1>10. CASE x.from \in disk /\ e \notin disk
  <2> DEFINE m == [key |-> Secret(x.parent), name |-> Last(x.to), dir |-> IsDir(x.from),
                   secret |-> Secret(x.from)]
  <2>1. e = Append(x.parent, m)
    BY DEF Renamed, Encoded
  <2>2. m \in Node /\ m.key = Secret(x.parent) /\ m.name = Last(x.to) /\ m.secret = Secret(x.from)
    <3>1. Last(x.from) \in Node /\ Secret(x.from) = Last(x.from).secret /\ IsDir(x.from) = Last(x.from).dir
      BY <1>4, <1>5, KeyedParts, OfLast
    <3>2. Secret(x.from) \in Int /\ IsDir(x.from) \in BOOLEAN
      BY <3>1 DEF Node
    <3>3. Secret(x.parent) \in Int
      <4>1. CASE x.parent = Root
        BY <4>1, KeyedRoot
      <4>2. CASE x.parent # Root
        <5>1. Last(x.parent) \in Node /\ Secret(x.parent) = Last(x.parent).secret
          BY <1>4, <4>2, KeyedParts
        <5> QED
          BY <5>1 DEF Node
      <4> QED
        BY <4>1, <4>2
    <3>4. Last(x.to) \in Names
      BY <1>4, PathFacts
    <3> QED
      BY <3>2, <3>3, <3>4 DEF Node
  <2>3. /\ disk' = {Moved(f, x.from, e) : f \in made} /\ came' = came \cup {Secret(e)}
        /\ cache' = Stored(Evict(cache, x.path), x.to, Last(e)) /\ Set(c, Return(z, "ok"))
    BY <1>1, <1>10
  <2>4. m.secret \in used \ {0}
    BY <1>4, <1>5, <2>2, KeyedParts
  <2> HIDE DEF m, e, x, made
  <2>5. Keyed(e, used) /\ Secret(e) = Secret(x.from) /\ e \in Seq(Node) /\ Last(e) = m
    <3>1. Keyed(Append(x.parent, m), used) /\ Secret(Append(x.parent, m)) = m.secret
      BY <1>4, <2>2, <2>4, KeyedAppend
    <3>2. x.parent \in Seq(Node)
      BY <1>4 DEF Keyed
    <3>3. Last(Append(x.parent, m)) = m /\ Append(x.parent, m) \in Seq(Node)
      BY <2>2, <3>2, Appended
    <3> QED
      BY <2>1, <2>2, <3>1, <3>3
  <2>6. /\ DiskOK({Moved(f, x.from, e) : f \in made}, used)
        /\ \A f \in made : Secret(Moved(f, x.from, e)) = Secret(f)
        /\ \A f \in made : f # x.from => Last(Moved(f, x.from, e)) = Last(f)
    <3> DEFINE from == x.from
               parent == x.parent
    <3>1. /\ DiskOK(made, used) /\ Keyed(from, used) /\ from # Root /\ Keyed(parent, used)
          /\ m \in Node /\ m.key = Secret(parent) /\ m.secret = Secret(from)
          /\ ~IsPrefix(from, parent) /\ \A k \in 1..Len(parent) : SubSeq(parent, 1, k) \in made
      BY <1>4, <1>5, <1>6, <1>9, <2>2
    <3>2. e = Append(parent, m)
      BY <2>1
    <3> HIDE DEF from, parent
    <3>3. DiskOK({Moved(f, from, Append(parent, m)) : f \in made}, used)
      BY ONLY <3>1, CarriedOK
    <3>4. ASSUME NEW f \in made
          PROVE  /\ Secret(Moved(f, from, e)) = Secret(f)
                 /\ f # from => Last(Moved(f, from, e)) = Last(f)
      <4>1. CASE IsPrefix(from, f)
        <5>1. Keyed(f, used) /\ Secret(from) = Secret(e)
          BY <2>5, <3>1 DEF DiskOK, from
        <5>2. e # Root
          <6>1. Secret(from) \in used \ {0}
            BY <3>1, KeyedParts
          <6> QED
            BY <5>1, <6>1, KeyedRoot
        <5> QED
          BY <2>5, <3>1, <4>1, <5>1, <5>2, MovedBelow
      <4>2. CASE ~IsPrefix(from, f)
        BY <4>2 DEF Moved
      <4> QED
        BY <4>1, <4>2
    <3> QED
      BY <3>2, <3>3, <3>4 DEF from
  <2>7. Uniq(disk', again')
    <3> SUFFICES ASSUME NEW f \in made, NEW g \in made,
                        Secret(Moved(f, x.from, e)) = Secret(Moved(g, x.from, e))
                 PROVE  \/ Moved(f, x.from, e) = Moved(g, x.from, e)
                        \/ Secret(Moved(f, x.from, e)) \in again'
      BY <2>3 DEF Uniq
    <3>1. Secret(f) = Secret(g)
      BY <2>6
    <3> QED
      BY <1>7, <2>6, <3>1 DEF Uniq
  <2>8. Known(disk, disk', came' \cup again')
    <3> SUFFICES ASSUME NEW f \in made, Secret(Moved(f, x.from, e)) \notin came' \cup again'
                 PROVE  \E h \in disk : Last(h) = Last(Moved(f, x.from, e))
      BY <2>3 DEF Known
    <3>1. Secret(f) = Secret(Moved(f, x.from, e))
      BY <2>6
    <3>2. f \in disk
      BY <1>8, <3>1
    <3>3. f # x.from
      BY <2>3, <2>5, <3>1
    <3> QED
      BY <2>6, <3>2, <3>3
  <2>9. CacheOK(cache')
    <3>1. CacheOK(Evict(cache, x.path))
      BY EvictOK DEF NamesInv
    <3> QED
      BY <1>4, <2>2, <2>3, <2>5, <3>1, StoredOK
  <2>10. z \in CallType /\ z.op = x.op
    BY <1>2, <2>5 DEF CallType
  <2> HIDE DEF z
  <2>11. Goes(z, Return(z, "ok"), used)
    BY <1>2, <2>10, ReturnOK
  <2>12. NamesInv' /\ call'[c] = Return(z, "ok")
    <3> DEFINE y == Return(z, "ok")
    <3>1. CallOK(y, used) /\ y.pc # "ensure" /\ Set(c, y)
      BY <2>3, <2>11 DEF Goes
    <3> HIDE DEF y
    <3>2. disk' = {Moved(f, x.from, e) : f \in made} /\ came \subseteq came' /\ again \subseteq again'
          /\ used' = used /\ lock' = lock /\ call[c].pc # "ensure"
      BY <1>1, <2>3 DEF x
    <3>3. DiskOK(disk', used') /\ Secrets(used') /\ used \subseteq used' /\ CallOK(y, used')
      BY <2>6, <3>1, <3>2 DEF NamesInv
    <3>4. NamesInv' /\ call'[c] = y
      BY <2>7, <2>8, <2>9, <3>1, <3>2, <3>3, StepWrites
    <3> QED
      BY <3>4 DEF y
  <2>13. Return(z, "ok").op = "rename"
    BY <1>3, <2>10, <2>11 DEF Goes
  <2> QED
    BY <2>12, <2>13 DEF Apart
<1>11. CASE ~(x.from \in disk /\ e \notin disk)
  <2>1. disk' = made /\ Set(c, Return(x, "error")) /\ cache' = cache /\ came' = came
    BY <1>1, <1>11
  <2>2. Goes(x, Return(x, "error"), used)
    BY <1>2, ReturnOK
  <2> DEFINE y == Return(x, "error")
  <2>3. CallOK(y, used) /\ y.pc # "ensure" /\ y.op = "rename" /\ Set(c, y)
    BY <1>3, <2>1, <2>2 DEF Goes
  <2>4. Known(disk, disk', came' \cup again')
    BY <1>8, <2>1 DEF Known
  <2> HIDE DEF y, made, e
  <2>5. again \subseteq again' /\ used' = used /\ lock' = lock /\ call[c].pc # "ensure"
    BY <1>1
  <2>6. DiskOK(disk', used') /\ Uniq(disk', again')
    BY <1>6, <1>7, <2>1, <2>5
  <2>7. Secrets(used') /\ used \subseteq used' /\ CallOK(y, used') /\ CacheOK(cache')
        /\ came \subseteq came'
    BY <2>1, <2>3, <2>5 DEF NamesInv
  <2>8. NamesInv' /\ call'[c] = y
    BY <2>3, <2>4, <2>5, <2>6, <2>7, StepWrites
  <2> QED
    BY <2>3, <2>8 DEF Apart
<1> QED
  BY <1>10, <1>11

LEMMA OthersOK ==
  ASSUME NamesInv, Others
  PROVE  NamesInv'
<1>1. call' = call /\ cache' = cache /\ lock' = lock /\ again' = again /\ (OthersDelete \/ OthersMake)
  BY DEF Others
<1>2. ASSUME used \subseteq used', Secrets(used'), DiskOK(disk', used'), Uniq(disk', again'),
             came \subseteq came', Known(disk, disk', came' \cup again')
      PROVE  NamesInv'
  <2>1. Root \notin disk /\ Root \notin disk'
    BY <1>2 DEF NamesInv, DiskOK
  <2>2. Twins(disk', came', again')
    BY <1>1, <1>2, <2>1, TwinsKept DEF NamesInv
  <2>3. \A c \in Clients : Listed(call[c], disk', came', again')
    BY <1>1, <1>2, <2>1, ListedKept DEF NamesInv
  <2>4. CallsOK(call, used')
    BY <1>2, CallLater DEF NamesInv, CallsOK
  <2> QED
    BY <1>1, <1>2, <2>2, <2>3, <2>4 DEF NamesInv
<1>3. CASE OthersDelete
  <2>1. PICK e \in disk : disk' = disk \ Subtree(e) /\ used' = used /\ came' = came
    BY <1>3 DEF OthersDelete
  <2>2. e \in Seq(Node)
    BY DEF NamesInv, DiskOK, Keyed
  <2>3. DiskOK(disk', used') /\ Uniq(disk', again') /\ Known(disk, disk', came' \cup again')
    BY <1>1, <2>1, <2>2, CutOK DEF NamesInv
  <2> QED
    BY <1>2, <2>1, <2>3 DEF NamesInv
<1>4. CASE OthersMake
  <2>1. PICK p \in Paths, dir \in BOOLEAN, s \in Fresh, e \in disk \cup {Root} :
          LET f == Encoded(e, Last(p), dir, s)
          IN  disk' = disk \cup {f} /\ used' = used \cup {s} /\ came' = came \cup {s}
    BY <1>4 DEF OthersMake
  <2> DEFINE f == Encoded(e, Last(p), dir, s)
             m == [key |-> Secret(e), name |-> Last(p), dir |-> dir, secret |-> s]
             v == used \cup {s}
  <2>2. disk' = disk \cup {f} /\ used' = v /\ came' = came \cup {s} /\ f = Append(e, m)
    BY <2>1 DEF Encoded
  <2>3. s \in Int /\ s \in v \ {0} /\ s \notin used /\ Secrets(v) /\ used \subseteq v
    BY FreshIsNew DEF NamesInv
  <2>4. DiskOK(disk, v) /\ Keyed(e, v) /\ Last(p) \in Names
    <3>1. DiskOK(disk, v)
      BY <2>3, DiskLater DEF NamesInv
    <3> QED
      BY <3>1, KeyedRoot, PathFacts DEF DiskOK
  <2>5. f = Encoded(e, Last(p), dir, s)
    OBVIOUS
  <2>6. m = [key |-> Secret(e), name |-> Last(p), dir |-> dir, secret |-> s]
    OBVIOUS
  <2> HIDE DEF f, m, v
  <2>7. Keyed(f, v) /\ f # Root /\ Secret(f) = s /\ Last(f) \in Node /\ Last(f).key = Secret(e)
    BY ONLY <2>3, <2>4, <2>5, EncodedOK
  <2>8. \A n \in 1..Len(f) : SubSeq(f, 1, n) \in disk'
    <3>1. e \in Seq(Node) /\ Len(e) \in Nat
      BY <2>4, LenProperties DEF Keyed
    <3>2. m \in Node
      <4>1. Secret(e) \in Int
        BY <2>7 DEF Node
      <4> QED
        BY <2>3, <2>4, <2>6, <4>1 DEF Node
    <3>3. /\ f \in Seq(Node) /\ Len(f) = Len(e) + 1
          /\ \A i \in 1..Len(e) : f[i] = e[i]
      BY <2>2, <3>1, <3>2, Appended
    <3> TAKE n \in 1..Len(f)
    <3>4. /\ SubSeq(f, 1, n) \in Seq(Node) /\ Len(SubSeq(f, 1, n)) = n
          /\ \A i \in 1..n : SubSeq(f, 1, n)[i] = f[i]
      BY <3>1, <3>3, FirstOf
    <3>5. CASE n = Len(f)
      <4>1. SubSeq(f, 1, n) = f
        BY <3>3, <3>4, <3>5, SeqEqual
      <4> QED
        BY <2>2, <4>1
    <3>6. CASE n # Len(f)
      <4>1. n \in 1..Len(e) /\ n \in 0..Len(e)
        BY <3>1, <3>3, <3>6
      <4>2. /\ SubSeq(e, 1, n) \in Seq(Node) /\ Len(SubSeq(e, 1, n)) = n
            /\ \A i \in 1..n : SubSeq(e, 1, n)[i] = e[i]
        BY <3>1, <4>1, FirstOf
      <4>3. \A i \in 1..n : SubSeq(e, 1, n)[i] = SubSeq(f, 1, n)[i]
        BY <3>1, <3>3, <3>4, <4>1, <4>2
      <4>4. SubSeq(e, 1, n) = SubSeq(f, 1, n)
        BY <3>4, <4>2, <4>3, SeqEqual
      <4>5. e \in disk
        <5>1. e # Root
          BY <3>1, <4>1, KeyedRoot
        <5> QED
          BY <5>1
      <4>6. SubSeq(e, 1, n) \in disk
        BY <2>4, <4>1, <4>5 DEF DiskOK
      <4> QED
        BY <2>2, <4>4, <4>6
    <3> QED
      BY <3>5, <3>6
  <2>9. DiskOK(disk', used')
    BY <2>2, <2>4, <2>7, <2>8 DEF DiskOK
  <2>10. \A h \in disk : Secret(h) \in used
    <3> TAKE h \in disk
    <3>1. Keyed(h, used) /\ h # Root
      BY DEF NamesInv, DiskOK
    <3> QED
      BY <3>1, KeyedParts
  <2>11. Uniq(disk', again')
    BY <1>1, <2>2, <2>3, <2>7, <2>10 DEF NamesInv, Uniq
  <2>12. Known(disk, disk', came' \cup again')
    BY <2>2, <2>7 DEF Known
  <2> QED
    BY <1>2, <2>2, <2>3, <2>9, <2>11, <2>12
<1> QED
  BY <1>1, <1>3, <1>4

-----------------------------------------------------------------------------
(***************************************************************************)
(* The start.                                                              *)
(***************************************************************************)
LEMMA WellMadeOK ==
  ASSUME NEW d, WellMade(d), NEW u, u = {Last(e).secret : e \in d}
  PROVE  Secrets(u) /\ DiskOK(d, u) /\ Uniq(d, {}) /\ Twins(d, {}, {})
<1>1. \A e \in d : /\ e \in Seq(Node) /\ e # Root /\ Secret(e) # 0 /\ Last(e).key = Secret(Front(e))
                   /\ \A n \in 1..Len(e) : SubSeq(e, 1, n) \in d
  BY DEF WellMade
<1>2. \A e \in d : Last(e) \in Node /\ Secret(e) = Last(e).secret /\ Secret(e) \in u \ {0}
                   /\ Last(e) = e[Len(e)] /\ Len(e) \in Nat \ {0}
  <2> TAKE e \in d
  <2>1. Last(e) \in Node /\ Last(e) = e[Len(e)] /\ Len(e) \in Nat \ {0}
    BY <1>1, FrontLast DEF Root
  <2>2. Secret(e) = Last(e).secret
    BY <1>1, OfLast
  <2> QED
    BY <1>1, <2>1, <2>2
<1>3. Secrets(u)
  <2>1. u \subseteq Int
    BY <1>2 DEF Node
  <2>2. IsFiniteSet(u)
    <3> DEFINE g == [e \in d |-> Last(e).secret]
    <3>1. IsFiniteSet(d)
      BY DEF WellMade
    <3>2. g \in Surjection(d, u)
      BY DEF Surjection
    <3> QED
      BY <3>1, <3>2, FS_Surjection
  <2> QED
    BY <2>1, <2>2 DEF Secrets
<1>4. ASSUME NEW e \in d, NEW n \in 1..Len(e)
      PROVE  /\ e[n].secret \in u \ {0}
             /\ e[n].key = IF n = 1 THEN 0 ELSE e[n - 1].secret
  <2> DEFINE f == SubSeq(e, 1, n)
  <2>1. e \in Seq(Node) /\ Len(e) \in Nat /\ n \in 0..Len(e)
    BY <1>1, <1>2
  <2>2. /\ f \in d /\ f \in Seq(Node) /\ Len(f) = n /\ \A i \in 1..n : f[i] = e[i]
    BY <1>1, <2>1, FirstOf
  <2> HIDE DEF f
  <2>3. Last(f) = e[n] /\ Secret(f) = e[n].secret
    BY <1>2, <2>2
  <2>4. Front(f) \in Seq(Node) /\ Len(Front(f)) = n - 1 /\ \A i \in 1..n - 1 : Front(f)[i] = f[i]
    BY <1>1, <2>2, FrontLast DEF Root
  <2>5. e[n].key = Secret(Front(f))
    BY <1>1, <2>2, <2>3
  <2>6. CASE n = 1
    <3>1. Front(f) = Root
      BY <2>4, <2>6, EmptySeq DEF Root
    <3> QED
      BY <1>2, <2>2, <2>3, <2>5, <2>6, <3>1, KeyedRoot
  <2>7. CASE n # 1
    <3>1. n - 1 \in 1..n /\ n - 1 \in 1..n - 1 /\ n - 1 # 0
      BY <2>1, <2>7
    <3>2. Front(f) # Root
      BY <2>4, <3>1, KeyedRoot
    <3>3. Last(Front(f)) = e[n - 1]
      <4>1. Front(f)[n - 1] = e[n - 1]
        BY <2>2, <2>4, <3>1
      <4> QED
        BY <2>4, <4>1 DEF Last
    <3>4. Secret(Front(f)) = e[n - 1].secret
      BY <3>2, <3>3, OfLast
    <3> QED
      BY <1>2, <2>2, <2>3, <2>5, <2>7, <3>4
  <2> QED
    BY <2>6, <2>7
<1>5. DiskOK(d, u)
  <2>1. \A e \in d : Keyed(e, u)
    BY <1>1, <1>4 DEF Keyed
  <2> QED
    BY <1>1, <2>1 DEF DiskOK
<1>6. \A e, f \in d : Secret(e) = Secret(f) => e = f
  BY DEF WellMade
<1>7. Uniq(d, {})
  BY <1>6 DEF Uniq
<1>8. ASSUME NEW e \in d, NEW f \in d, Last(e).key = Last(f).key, Last(e).name = Last(f).name
      PROVE  e = f
  <2>1. /\ Keyed(e, u) /\ Keyed(f, u) /\ e # Root /\ f # Root
    BY <1>5 DEF DiskOK
  <2>2. Secret(Front(e)) = Secret(Front(f))
    BY <1>1, <1>8
  <2>3. Front(e) = Front(f)
    <3>1. CASE Front(e) = Root
      <4>1. Secret(Front(f)) = 0 /\ Keyed(Front(f), u)
        BY <2>1, <2>2, <3>1, KeyedRoot, KeyedParts
      <4> QED
        BY <3>1, <4>1, KeyedParts
    <3>2. CASE Front(f) = Root
      <4>1. Secret(Front(e)) = 0 /\ Keyed(Front(e), u)
        BY <2>1, <2>2, <3>2, KeyedRoot, KeyedParts
      <4> QED
        BY <3>2, <4>1, KeyedParts
    <3>3. CASE Front(e) # Root /\ Front(f) # Root
      <4>1. ASSUME NEW h \in d, Front(h) # Root
            PROVE  Front(h) \in d
        <5>1. Len(h) \in Nat \ {0} /\ Len(Front(h)) = Len(h) - 1 /\ Len(Front(h)) \in Nat \ {0}
          BY <1>2, <4>1, <1>5, KeyedParts DEF DiskOK
        <5>2. Len(h) - 1 \in 1..Len(h)
          BY <5>1
        <5> QED
          BY <1>1, <5>2 DEF Front
      <4> QED
        BY <1>6, <2>2, <3>3, <4>1
    <3> QED
      BY <3>1, <3>2, <3>3
  <2>4. Plain(e) = Plain(f)
    <3>1. /\ e \in Seq(Node) /\ f \in Seq(Node) /\ Len(e) = Len(f) /\ Len(e) \in Nat \ {0}
          /\ \A i \in 1..Len(e) - 1 : e[i] = f[i]
      <4>1. /\ Len(e) \in Nat \ {0} /\ Len(f) \in Nat \ {0}
            /\ Len(Front(e)) = Len(e) - 1 /\ Len(Front(f)) = Len(f) - 1
            /\ \A i \in 1..Len(e) - 1 : Front(e)[i] = e[i]
            /\ \A i \in 1..Len(f) - 1 : Front(f)[i] = f[i]
        BY <1>1, <1>2, FrontLast DEF Root
      <4> QED
        BY <1>1, <2>3, <4>1
    <3>2. e[Len(e)].name = f[Len(e)].name
      BY <1>2, <1>8, <3>1
    <3>3. \A i \in 1..Len(e) : e[i].name = f[i].name
      <4> TAKE i \in 1..Len(e)
      <4>1. i \in 1..Len(e) - 1 \/ i = Len(e)
        BY <3>1
      <4> QED
        BY <3>1, <3>2, <4>1
    <3> QED
      BY <3>1, <3>3 DEF Plain
  <2> QED
    BY <2>4 DEF WellMade
<1>9. Twins(d, {}, {})
  BY <1>8 DEF Twins
<1> QED
  BY <1>3, <1>5, <1>7, <1>9

LEMMA NamesInit == Init => NamesInv
<1> SUFFICES ASSUME Init PROVE NamesInv
  OBVIOUS
<1>1. WellMade(disk)
  BY TreesAssumption DEF Init, TreesAssumption
<1>2. Secrets(used) /\ DiskOK(disk, used) /\ Uniq(disk, {}) /\ Twins(disk, {}, {})
  BY <1>1, WellMadeOK DEF Init
<1>3. came = {} /\ again = {} /\ cache = [p \in Paths |-> Missing] /\ lock = "free"
      /\ call = [c \in Clients |-> Idle]
  BY DEF Init
<1>4. CacheOK(cache)
  BY <1>3, MissingIsNode DEF CacheOK, Cached
<1>5. Idle \in CallType /\ Idle.pc = "idle" /\ Idle.op = "none" /\ Idle.outcome = "none"
  BY RootIsPath DEF Idle, CallType, Operations, Pcs, Listing
<1>6. CallOK(Idle, used)
  <2> HIDE DEF Idle
  <2> QED
    BY <1>5 DEF CallOK, Listing
<1> HIDE DEF Idle
<1>7. CallsOK(call, used)
  BY <1>3, <1>5, <1>6 DEF CallsOK
<1>8. LockOK(call, lock)
  BY <1>3, <1>5, NamespaceAssumption DEF LockOK, NamespaceAssumption
<1>9. \A c \in Clients : Listed(call[c], disk, came, again)
  BY <1>3, <1>5 DEF Listed
<1> QED
  BY <1>2, <1>3, <1>4, <1>7, <1>8, <1>9 DEF NamesInv

-----------------------------------------------------------------------------
(***************************************************************************)
(* The theorems.                                                           *)
(***************************************************************************)
LEMMA NamesStep == NamesInv /\ [Next]_vars => NamesInv'
<1> SUFFICES ASSUME NamesInv, [Next]_vars PROVE NamesInv'
  OBVIOUS
<1>1. ASSUME NEW c \in Clients, Begin(c) PROVE NamesInv'
  BY <1>1, BeginOK
<1>2. ASSUME NEW c \in Clients, Step(c) PROVE NamesInv'
  BY <1>2, AnswerOK, DescendOK, LostOK, LeafOK, ListChildrenOK, EnterEnsureOK, EnsureNextOK,
     CreateOK, DiscardOK, RenameOK, FailOK DEF Step
<1>3. CASE Others
  BY <1>3, OthersOK
<1>4. CASE UNCHANGED vars
  BY <1>4 DEF vars, NamesInv
<1> QED
  BY <1>1, <1>2, <1>3, <1>4 DEF Next, Quiet

LEMMA NamesAlways == Spec => []NamesInv
BY NamesInit, NamesStep, PTL DEF Spec

LEMMA NamesTyped == NamesInv => TypeOK
<1> SUFFICES ASSUME NamesInv PROVE TypeOK
  OBVIOUS
<1>1. \A e \in disk : /\ \A n \in 1..Len(e) : SubSeq(e, 1, n) \in disk
                      /\ \A n \in 1..Len(e) : e[n].secret \in used \ {0}
  BY DEF NamesInv, DiskOK, Keyed
<1>2. \A p \in Paths : Cached(cache, p) => cache[p].name = Last(p)
  BY DEF NamesInv, CacheOK
<1>3. lock \in Clients \cup {"free"} /\ \A c \in Clients : call[c].pc = "ensure" <=> lock = c
  BY DEF NamesInv, LockOK
<1> QED
  BY <1>1, <1>2, <1>3 DEF TypeOK

\* files.rs: that ensure_dir looks and makes under a lock is enough, whatever
\* the cache holds and however old an answer is: two directories of one name
\* in one directory come only by a rename, by another program, or where the
\* storage made a directory again of its own accord.
THEOREM TwinsOnlyCame == Spec => []TwinsCame
<1>1. NamesInv => TwinsCame
  <2> SUFFICES ASSUME NamesInv PROVE TwinsCame
    OBVIOUS
  <2>1. TypeOK
    BY NamesTyped
  <2>2. ASSUME NEW e \in disk, NEW f \in disk, e # f, IsDir(e), IsDir(f), Front(e) = Front(f),
               Last(e).name = Last(f).name
        PROVE  \/ {Secret(e), Secret(f)} \cap (came \cup again) # {}
               \/ Secret(Front(e)) \in again
    <3>1. Last(e).key = Secret(Front(e)) /\ Last(f).key = Secret(Front(f))
      BY KeyedParts DEF NamesInv, DiskOK
    <3>2. \/ Secret(e) = Secret(f) \/ Secret(e) \in came \cup again \/ Secret(f) \in came \cup again
          \/ Last(e).key \in again
      BY <2>2, <3>1 DEF NamesInv, Twins
    <3>3. Secret(e) = Secret(f) => Secret(e) \in again
      BY <2>2 DEF NamesInv, Uniq
    <3> QED
      BY <3>1, <3>2, <3>3
  <2> QED
    BY <2>1, <2>2 DEF TwinsCame
<1> QED
  BY <1>1, NamesAlways, PTL

(***************************************************************************)
(* A read: the entries it has been told of have been at its path while it  *)
(* was under way, and so has what it found.                                *)
(***************************************************************************)
ReadSaw(x, ever) ==
  x.op = "read" =>
    /\ x.pc = "leaf" =>
         \A n \in x.answer.entries : n.name = Last(x.path) => Append(x.at, n) \in ever
    /\ x.outcome = "ok" => x.at \in ever
SeenInv ==
  /\ seen = [c \in Clients |-> seen[c]]
  /\ \A c \in Clients : ReadSaw(call[c], seen[c].ever)

LEMMA SeenGrows ==
  ASSUME SeenInv, Watched
  PROVE  /\ seen' = [c \in Clients |-> seen'[c]]
         /\ \A c \in Clients : seen[c].ever \subseteq seen'[c].ever
         /\ \A c \in Clients : Busy(call[c]) /\ call[c].op = "read" =>
              \A e \in disk' : Plain(e) = call[c].path => e \in seen'[c].ever
BY DEF SeenInv, Watched, Sight

LEMMA OthersWait ==
  ASSUME NamesInv, NEW c \in Clients, Begin(c) \/ Step(c)
  PROVE  \A d \in Clients \ {c} : call'[d] = call[d]
<1>1. \E y : Set(c, y)
  <2>1. CASE Begin(c)
    BY <2>1, Zenon DEF Begin
  <2>2. CASE Answer(c)
    BY <2>2, Zenon DEF Answer
  <2>3. CASE Descend(c)
    BY <2>3, Zenon DEF Descend
  <2>4. CASE Lost(c)
    BY <2>4, Zenon DEF Lost
  <2>5. CASE Leaf(c)
    BY <2>5, Zenon DEF Leaf
  <2>6. CASE ListChildren(c)
    BY <2>6, Zenon DEF ListChildren
  <2>7. CASE EnterEnsure(c)
    BY <2>7, Zenon DEF EnterEnsure
  <2>8. CASE EnsureNext(c)
    BY <2>8, Zenon DEF EnsureNext
  <2>9. CASE Create(c)
    BY <2>9, Zenon DEF Create
  <2>10. CASE Discard(c)
    BY <2>10, Zenon DEF Discard
  <2>11. CASE Rename(c)
    BY <2>11, Zenon DEF Rename
  <2>12. CASE Fail(c)
    BY <2>12, Zenon DEF Fail
  <2> QED
    BY <2>1, <2>2, <2>3, <2>4, <2>5, <2>6, <2>7, <2>8, <2>9, <2>10, <2>11, <2>12 DEF Step
<1> QED
  BY <1>1 DEF Set, NamesInv, CallsOK

\* A step on the way of a read, or of something else.
LEMMA SeenApart ==
  ASSUME SeenInv, Watched, NEW c \in Clients, Apart(call'[c]),
         \A d \in Clients \ {c} : call'[d] = call[d]
  PROVE  SeenInv'
<1>1. /\ seen' = [d \in Clients |-> seen'[d]]
      /\ \A d \in Clients : seen[d].ever \subseteq seen'[d].ever
  BY SeenGrows
<1>2. ReadSaw(call'[c], seen'[c].ever)
  BY DEF ReadSaw, Apart, Listing, NoAnswer
<1>3. ASSUME NEW d \in Clients \ {c}
      PROVE  ReadSaw(call'[d], seen'[d].ever)
  <2>1. ReadSaw(call[d], seen[d].ever) /\ call'[d] = call[d]
    BY DEF SeenInv
  <2> QED
    BY <1>1, <2>1 DEF ReadSaw
<1> QED
  BY <1>1, <1>2, <1>3 DEF SeenInv

\* What a read is about.
LEMMA ReadsPath ==
  ASSUME NamesInv, NEW c \in Clients, call[c].pc = "leaf", call[c].op = "read"
  PROVE  /\ call[c].goal = call[c].path /\ call[c].path \in Paths /\ At(call[c])
         /\ call[c].depth = Len(call[c].path) - 1
<1>1. CallOK(call[c], used) /\ Purpose(call[c], used) /\ call[c].goal \in Paths
  BY Underway
<1>2. call[c].goal = call[c].path
  BY <1>1 DEF Purpose
<1>3. At(call[c]) /\ call[c].depth = Len(call[c].goal) - 1
  BY <1>1, Zenon DEF CallOK
<1> QED
  BY <1>1, <1>2, <1>3

LEMMA SeenAnswer ==
  ASSUME NamesInv, SeenInv, NEW c \in Clients, Answer(c)
  PROVE  SeenInv'
<1> DEFINE x == call[c]
           y == call'[c]
<1>1. /\ NamesInv' /\ y.op = x.op /\ y.path = x.path /\ y.at = x.at /\ y.pc = x.pc /\ y.outcome # "ok"
      /\ \A n \in y.answer.entries : Append(x.at, n) \in disk
  BY AnswerOK
<1>2. Watched /\ disk' = disk /\ x.pc \in Listing
  BY DEF Answer, Local, Unchanged
<1>3. /\ seen' = [d \in Clients |-> seen'[d]]
      /\ \A d \in Clients : seen[d].ever \subseteq seen'[d].ever
      /\ Busy(x) /\ x.op = "read" =>
           \A e \in disk : Plain(e) = x.path => e \in seen'[c].ever
  BY <1>2, SeenGrows
<1>4. ReadSaw(y, seen'[c].ever)
  <2> SUFFICES ASSUME x.op = "read", x.pc = "leaf", NEW n \in y.answer.entries,
                      n.name = Last(x.path)
               PROVE  Append(x.at, n) \in seen'[c].ever
    BY <1>1 DEF ReadSaw
  <2>1. x.path \in Paths /\ At(x) /\ x.depth = Len(x.path) - 1 /\ x.goal = x.path
    BY ReadsPath
  <2>2. x.at \in Seq(Node) /\ n \in Node
    <3>1. x \in CallType /\ y \in CallType
      BY <1>1 DEF NamesInv, CallsOK
    <3>2. x.at \in Seq(Node) /\ y.answer.entries \subseteq Node
      BY <3>1 DEF CallType
    <3> QED
      BY <3>2
  <2>3. x.path \in Seq(Names) /\ Len(x.path) \in Nat \ {0} /\ Last(x.path) = x.path[Len(x.path)]
    BY <2>1, PathFacts
  <2>4. /\ Append(x.at, n) \in Seq(Node) /\ Len(Append(x.at, n)) = Len(x.at) + 1
        /\ \A i \in 1..Len(x.at) : Append(x.at, n)[i] = x.at[i]
        /\ Append(x.at, n)[Len(x.at) + 1] = n /\ Len(x.at) \in Nat
    BY <2>2, Appended, LenProperties
  <2>5. Len(x.at) = Len(x.path) - 1 /\ \A i \in 1..Len(x.at) : x.at[i].name = x.path[i]
    BY <2>1 DEF At
  <2>6. Named(Append(x.at, n), x.path)
    <3>1. Len(Append(x.at, n)) = Len(x.path)
      BY <2>3, <2>4, <2>5
    <3>2. \A i \in 1..Len(x.path) : Append(x.at, n)[i].name = x.path[i]
      <4> TAKE i \in 1..Len(x.path)
      <4>1. i \in 1..Len(x.at) \/ i = Len(x.at) + 1
        BY <2>3, <2>4, <2>5
      <4>2. Len(x.at) + 1 = Len(x.path)
        BY <2>3, <2>4, <2>5
      <4> QED
        BY <2>3, <2>4, <2>5, <4>1, <4>2
    <3> QED
      BY <3>1, <3>2 DEF Named
  <2>7. Plain(Append(x.at, n)) = x.path
    BY <2>3, <2>4, <2>6, PlainNamed
  <2>8. Busy(x)
    BY <1>2 DEF Busy, Listing
  <2> QED
    BY <1>1, <1>3, <2>7, <2>8
<1>5. \A d \in Clients \ {c} : call'[d] = call[d]
  BY OthersWait DEF Step
<1>6. ASSUME NEW d \in Clients \ {c}
      PROVE  ReadSaw(call'[d], seen'[d].ever)
  <2>1. ReadSaw(call[d], seen[d].ever) /\ call'[d] = call[d]
    BY <1>5 DEF SeenInv
  <2> QED
    BY <1>3, <2>1 DEF ReadSaw
<1> QED
  BY <1>3, <1>4, <1>6 DEF SeenInv

LEMMA SeenLeaf ==
  ASSUME NamesInv, SeenInv, NEW c \in Clients, Leaf(c)
  PROVE  SeenInv'
<1> DEFINE x == call[c]
           y == call'[c]
<1>1. Watched /\ x.pc = "leaf"
  BY DEF Leaf, Local, Answered
<1>2. \A d \in Clients \ {c} : call'[d] = call[d]
  BY OthersWait DEF Step
<1>3. CASE Apart(y)
  BY <1>1, <1>2, <1>3, SeenApart
<1>4. CASE \E n \in x.answer.entries :
             /\ n.name = Last(x.goal) /\ y.at = Append(x.at, n) /\ y.pc \notin Listing
             /\ y.op = x.op /\ y.path = x.path
  <2>1. PICK n \in x.answer.entries :
             /\ n.name = Last(x.goal) /\ y.at = Append(x.at, n) /\ y.pc \notin Listing
             /\ y.op = x.op /\ y.path = x.path
    BY <1>4
  <2>2. /\ seen' = [d \in Clients |-> seen'[d]]
        /\ \A d \in Clients : seen[d].ever \subseteq seen'[d].ever
    BY <1>1, SeenGrows
  <2>3. ReadSaw(y, seen'[c].ever)
    <3> SUFFICES ASSUME x.op = "read" PROVE y.at \in seen'[c].ever
      BY <2>1 DEF ReadSaw, Listing
    <3>1. x.goal = x.path
      BY <1>1, ReadsPath
    <3>2. Append(x.at, n) \in seen[c].ever
      BY <1>1, <2>1, <3>1 DEF SeenInv, ReadSaw
    <3> QED
      BY <2>1, <2>2, <3>2
  <2>4. ASSUME NEW d \in Clients \ {c}
        PROVE  ReadSaw(call'[d], seen'[d].ever)
    <3>1. ReadSaw(call[d], seen[d].ever) /\ call'[d] = call[d]
      BY <1>2 DEF SeenInv
    <3> QED
      BY <2>2, <3>1 DEF ReadSaw
  <2> QED
    BY <2>2, <2>3, <2>4 DEF SeenInv
<1> QED
  BY <1>3, <1>4, LeafOK

LEMMA SeenStep == NamesInv /\ SeenInv /\ [Next]_vars => SeenInv'
<1> SUFFICES ASSUME NamesInv, SeenInv, [Next]_vars PROVE SeenInv'
  OBVIOUS
<1>1. ASSUME NEW c \in Clients, Begin(c) PROVE SeenInv'
  <2>1. PICK r \in Requests : seen' = [seen EXCEPT ![c] = IF r.op = "read" THEN Sight(disk, r.path)
                                                          ELSE Unseen]
    BY <1>1 DEF Begin
  <2>2. seen' = [d \in Clients |-> seen'[d]] /\ \A d \in Clients \ {c} : seen'[d] = seen[d]
    BY <2>1 DEF SeenInv
  <2>3. \A d \in Clients \ {c} : call'[d] = call[d]
    BY <1>1, OthersWait
  <2>4. ReadSaw(call'[c], seen'[c].ever)
    BY <1>1, BeginOK DEF ReadSaw, Apart, Listing, NoAnswer
  <2>5. \A d \in Clients \ {c} : ReadSaw(call'[d], seen'[d].ever)
    BY <2>2, <2>3 DEF SeenInv
  <2> QED
    BY <2>2, <2>4, <2>5 DEF SeenInv
<1>2. ASSUME NEW c \in Clients, Step(c) PROVE SeenInv'
  <2>1. \A d \in Clients \ {c} : call'[d] = call[d]
    BY <1>2, OthersWait
  <2>2. Watched
    BY <1>2, Zenon
    DEF Step, Local, Answer, Descend, Lost, Leaf, ListChildren, EnterEnsure, EnsureNext,
       Create, Discard, Rename, Fail
  <2>3. Answer(c) \/ Leaf(c) \/ Apart(call'[c])
    BY <1>2, DescendOK, LostOK, ListChildrenOK, EnterEnsureOK, EnsureNextOK,
       CreateOK, DiscardOK, RenameOK, FailOK DEF Step
  <2> QED
    BY <2>1, <2>2, <2>3, SeenAnswer, SeenLeaf, SeenApart
<1>3. CASE Others
  <2>1. Watched /\ call' = call
    BY <1>3 DEF Others
  <2>2. /\ seen' = [d \in Clients |-> seen'[d]]
        /\ \A d \in Clients : seen[d].ever \subseteq seen'[d].ever
    BY <2>1, SeenGrows
  <2>3. \A d \in Clients : ReadSaw(call'[d], seen'[d].ever)
    BY <2>1, <2>2 DEF SeenInv, ReadSaw
  <2> QED
    BY <2>2, <2>3 DEF SeenInv
<1>4. CASE UNCHANGED vars
  BY <1>4 DEF vars, SeenInv
<1> QED
  BY <1>1, <1>2, <1>3, <1>4 DEF Next, Quiet

\* vault.rs: the cache is only for speed.  What a read finds has been at its
\* path while the request was under way, whatever was cached, however old the
\* answers are, and whoever else renames, deletes and makes.
THEOREM FoundAlwaysWasThere == Spec => []FoundWasThere
<1>1. Init => SeenInv
  BY DEF Init, SeenInv, ReadSaw, Idle
<1>2. SeenInv => FoundWasThere
  BY DEF SeenInv, ReadSaw, FoundWasThere
<1> QED
  BY <1>1, <1>2, SeenStep, NamesAlways, PTL DEF Spec
=============================================================================
