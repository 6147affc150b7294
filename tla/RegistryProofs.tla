--------------------------- MODULE RegistryProofs ---------------------------
(***************************************************************************)
(* Registry: its types, that every root envelope opens, and that the last  *)
(* token is kept, for any number of updates, passwords, envelopes and      *)
(* rotations.                                                              *)
(***************************************************************************)
EXTENDS Registry, TLAPS

\* A record never has the same password twice.
Twofold == memory.prev # memory.password /\ file.prev # file.password

(***************************************************************************)
(* An update under way: the envelopes it still has to rename are all that  *)
(* are not under the new password.                                         *)
(***************************************************************************)
Ahead(x, e) ==
  \/ x.pc \in {"transit", "list"} /\ e.key = x.previous
  \/ x.pc = "rename" /\ e \in x.todo
Migrating(x) ==
  /\ memory.password \in {x.password, x.previous}
  /\ x.pc # "transit" => memory.password = x.password
  /\ \A e \in root \ stray : e.key = x.password \/ Ahead(x, e)
Agreed == \A g, h \in Handlers : Busy(g) /\ Busy(h) => task[g].password = task[h].password
Open == /\ \A e \in root \ stray : e.key \in Keys(memory)
        /\ Agreed
        /\ \A h \in Handlers : Busy(h) => Migrating(task[h])

(***************************************************************************)
(* The seed of a record is the first token of its login, and no later      *)
(* login has been used.                                                    *)
(***************************************************************************)
Seeded(r) == r.seed = <<r.token[1], 0>>
Kept == /\ Last(memory.token) /\ Seeded(memory) /\ Seeded(file)
        /\ \A c \in 1..Chains : c > memory.token[1] => newest[c] = 0

TypeInv == TypeOK /\ Twofold
OpenInv == mixed \/ Open
KeptInv == stale \/ Kept

-----------------------------------------------------------------------------
\* What the submitted record becomes: only its token and its seed change.
LEMMA PreservedFields ==
  ASSUME NEW c \in Record, NEW r \in Record
  PROVE  /\ Preserved(c, r) \in Record
         /\ Preserved(c, r).password = r.password
         /\ Preserved(c, r).prev = r.prev
  BY DEF Preserved, Record

LEMMA TypeInit == Init => TypeInv
  <1> SUFFICES ASSUME Init PROVE TypeInv
    OBVIOUS
  <1>1. <<1, 0>> \in Token
    BY RegistryAssumption DEF Token
  <1>2. PICK p \in Passwords :
          /\ memory = [password |-> p, prev |-> None, token |-> <<1, 0>>, seed |-> <<1, 0>>]
          /\ root \in {[id : s, key : {p}] : s \in SUBSET Envelopes}
    BY DEF Init
  <1>3. memory \in Record /\ file \in Record /\ Twofold
    BY <1>1, <1>2, RegistryAssumption DEF Init, Record, Twofold
  <1>4. root \subseteq Envelope /\ \A d, e \in root : d.id = e.id => d = e
    <2>1. PICK s \in SUBSET Envelopes : root = [id : s, key : {p}]
      BY <1>2
    <2>2. \A e \in root : e \in Envelope /\ e.key = p /\ e = [id |-> e.id, key |-> e.key]
      BY <2>1 DEF Envelope
    <2> QED
      BY <2>2
  <1>5. newest \in [1..Chains -> 0..MaxRotations] /\ logins \in 1..Chains
        /\ updates \in 0..MaxUpdates
    BY RegistryAssumption DEF Init
  <1> QED
    BY <1>1, <1>2, <1>3, <1>4, <1>5 DEF Init, TypeInv, TypeOK, TaskType

LEMMA TypeNext == TypeInv /\ [Next]_vars => TypeInv'
  <1> SUFFICES ASSUME TypeInv, [Next]_vars PROVE TypeInv'
    OBVIOUS
  <1> USE DEF TypeInv
  <1>1. ASSUME NEW h \in Handlers, Begin(h) PROVE TypeInv'
    <2>1. PICK wanted \in Passwords, login \in BOOLEAN :
            /\ login => logins < Chains
            /\ logins' = IF login THEN logins + 1 ELSE logins
            /\ Set(h, [pc |-> IF wanted # memory.password \/ memory.prev # None
                              THEN "transit" ELSE "save",
                       old |-> memory, password |-> wanted,
                       previous |-> Previous(wanted),
                       token |-> IF login THEN <<logins + 1, 0>> ELSE form,
                       todo |-> {}])
            /\ mixed' = (mixed \/ ~Agrees(h, wanted))
      BY <1>1 DEF Begin
    <2>2. logins' \in 1..Chains /\ (login => <<logins + 1, 0>> \in Token)
      BY <2>1, RegistryAssumption DEF TypeOK, Token
    <2>3. /\ Previous(wanted) \in Passwords \cup {None}
          /\ wanted # memory.password \/ memory.prev # None
               => Previous(wanted) \in Passwords \ {wanted}
      BY <2>1 DEF TypeOK, Record, Previous, Twofold
    <2>4. TaskType([pc |-> IF wanted # memory.password \/ memory.prev # None
                           THEN "transit" ELSE "save",
                    old |-> memory, password |-> wanted,
                    previous |-> Previous(wanted),
                    token |-> IF login THEN <<logins + 1, 0>> ELSE form,
                    todo |-> {}])
      BY <2>2, <2>3 DEF TypeOK, TaskType
    <2>5. DOMAIN task' = Handlers /\ \A g \in Handlers : TaskType(task'[g])
      BY <2>1, <2>4 DEF Set, TypeOK
    <2>6. updates' \in 0..MaxUpdates /\ mixed' \in BOOLEAN
      BY <1>1, <2>1, RegistryAssumption DEF Begin, TypeOK
    <2> QED
      BY <1>1, <2>2, <2>5, <2>6 DEF Begin, TypeOK, Twofold, TaskType
  <1>2. ASSUME NEW h \in Handlers, Transit(h) PROVE TypeInv'
    <2> DEFINE x == task[h]
               r == Transitional(x)
    <2>1. x.pc = "transit" /\ x \in [pc : {"transit", "list", "rename", "save"}, old : Record,
               password : Passwords, previous : Passwords \cup {None},
               token : Token, todo : SUBSET Envelope]
          /\ x.previous \in Passwords \ {x.password} /\ \A e \in x.todo : e.key = x.previous
      BY <1>2 DEF Transit, TypeOK, TaskType, Idle
    <2>2. r \in Record /\ r.password = x.password /\ r.prev = x.previous
      BY <2>1 DEF Transitional, Record
    <2>3. PICK saved \in BOOLEAN :
            /\ Save(Preserved(memory, r), saved)
            /\ Set(h, IF saved THEN [x EXCEPT !.pc = "list"] ELSE Idle)
      BY <1>2 DEF Transit
    <2>4. memory' \in Record /\ file' \in Record /\ Twofold'
      BY <2>1, <2>2, <2>3, PreservedFields DEF Save, TypeOK, Twofold, Record
    <2>5. DOMAIN task' = Handlers /\ \A g \in Handlers : TaskType(task'[g])
      BY <2>1, <2>3 DEF Set, TypeOK, TaskType
    <2>6. stale' \in BOOLEAN
      BY <1>2 DEF Transit, Submitted, TypeOK
    <2> QED
      BY <1>2, <2>4, <2>5, <2>6 DEF Transit, TypeOK, TaskType
  <1>3. ASSUME NEW h \in Handlers, Listed(h) PROVE TypeInv'
    <2> DEFINE x == task[h]
               todo == {e \in root : e.key = x.previous}
    <2>1. /\ x \in [pc : {"transit", "list", "rename", "save"}, old : Record,
                     password : Passwords, previous : Passwords \cup {None},
                     token : Token, todo : SUBSET Envelope]
          /\ x.previous \in Passwords \ {x.password}
      BY <1>3 DEF Listed, TypeOK, TaskType, Idle
    <2>2. todo \in SUBSET Envelope /\ \A e \in todo : e.key = x.previous
      BY DEF TypeOK
    <2>3. TaskType([x EXCEPT !.pc = "rename", !.todo = todo])
      <3> HIDE DEF todo
      <3> QED
        BY <2>1, <2>2 DEF TaskType
    <2>4. task' = [task EXCEPT ![h] = [x EXCEPT !.pc = "rename", !.todo = todo]]
      BY <1>3 DEF Listed, Set
    <2>5. DOMAIN task' = Handlers /\ \A g \in Handlers : TaskType(task'[g])
      <3> HIDE DEF todo
      <3> QED
        BY <2>3, <2>4 DEF TypeOK
    <2> QED
      BY <1>3, <2>5 DEF Listed, TypeOK, Twofold, TaskType
  <1>4. ASSUME NEW h \in Handlers, Renamed(h) PROVE TypeInv'
    <2> DEFINE x == task[h]
    <2>1. x \in [pc : {"transit", "list", "rename", "save"}, old : Record,
               password : Passwords, previous : Passwords \cup {None},
               token : Token, todo : SUBSET Envelope]
          /\ x.pc = "rename" /\ x.previous \in Passwords \ {x.password}
          /\ \A e \in x.todo : e.key = x.previous
      BY <1>4 DEF Renamed, TypeOK, TaskType, Idle
    <2>2. PICK e \in x.todo :
           IF e \in root
           THEN /\ root' = (root \ {e}) \cup {[e EXCEPT !.key = x.password]}
                /\ stray' = stray \ {e}
                /\ Set(h, [x EXCEPT !.todo = @ \ {e}])
           ELSE Set(h, Idle) /\ UNCHANGED <<root, stray>>
      BY <1>4 DEF Renamed
    <2>3. TaskType([x EXCEPT !.todo = @ \ {e}])
      BY <2>1 DEF TaskType
    <2>4. TaskType(Idle)
      BY DEF TaskType
    <2>5. DOMAIN task' = Handlers /\ \A g \in Handlers : TaskType(task'[g])
      <3> DEFINE y == [x EXCEPT !.todo = @ \ {e}]
      <3>1. task' = [task EXCEPT ![h] = y] \/ task' = [task EXCEPT ![h] = Idle]
        BY <2>2 DEF Set
      <3>2. TaskType(y)
        BY <2>3
      <3> HIDE DEF y
      <3> QED
        BY <3>2, <2>4, <3>1 DEF TypeOK
    <2>6. /\ root' \subseteq Envelope /\ stray' \subseteq root'
          /\ \A d, f \in root' : d.id = f.id => d = f
      BY <2>1, <2>2 DEF TypeOK, Envelope
    <2> QED
      BY <1>4, <2>5, <2>6 DEF Renamed, TypeOK, Twofold, TaskType
  <1>5. ASSUME NEW h \in Handlers, MigrationFails(h) PROVE TypeInv'
    BY <1>5 DEF MigrationFails, Set, TypeOK, Twofold, TaskType
  <1>6. ASSUME NEW h \in Handlers, Finish(h) PROVE TypeInv'
    <2> DEFINE x == task[h]
               r == [x.old EXCEPT !.password = x.password, !.prev = None, !.token = x.token]
    <2>1. x \in [pc : {"transit", "list", "rename", "save"}, old : Record,
               password : Passwords, previous : Passwords \cup {None},
               token : Token, todo : SUBSET Envelope]
      BY <1>6 DEF Finish, TypeOK, TaskType, Idle
    <2>2. r \in Record /\ r.password = x.password /\ r.prev = None
      BY <2>1 DEF Record
    <2>3. PICK saved \in BOOLEAN : Save(Preserved(memory, r), saved)
      BY <1>6 DEF Finish
    <2>4. memory' \in Record /\ file' \in Record /\ Twofold'
      <3>1. /\ Preserved(memory, r) \in Record
            /\ Preserved(memory, r).password = x.password
            /\ Preserved(memory, r).prev = None
        BY <2>2, PreservedFields DEF TypeOK
      <3>2. x.password # None
        BY <2>1, RegistryAssumption
      <3> HIDE DEF r
      <3> QED
        BY <3>1, <3>2, <2>3 DEF Save, TypeOK, Twofold
    <2>5. DOMAIN task' = Handlers /\ \A g \in Handlers : TaskType(task'[g])
      BY <1>6 DEF Finish, Set, TypeOK, TaskType
    <2>6. stale' \in BOOLEAN
      BY <1>6 DEF Finish, Submitted, TypeOK
    <2> QED
      BY <1>6, <2>4, <2>5, <2>6 DEF Finish, TypeOK, TaskType
  <1>7. CASE OpenForm
    BY <1>7 DEF OpenForm, TypeOK, Twofold, TaskType, Record
  <1>8. CASE Rotate
    <2> DEFINE t == memory.token
               next == <<t[1], t[2] + 1>>
    <2>1. t \in Token /\ t[1] \in 1..Chains /\ t[2] \in 0..MaxRotations
      BY DEF TypeOK, Record, Token
    <2>2. next \in Token /\ newest[t[1]] + 1 \in 0..MaxRotations
      BY <1>8, <2>1, RegistryAssumption DEF Rotate, Token, Last, TypeOK
    <2>3. newest' \in [1..Chains -> 0..MaxRotations]
      BY <1>8, <2>1, <2>2 DEF Rotate, TypeOK
    <2>4. PICK saved \in BOOLEAN : Save([memory EXCEPT !.token = next], saved)
      BY <1>8 DEF Rotate
    <2>5. memory' \in Record /\ file' \in Record /\ Twofold'
      BY <2>2, <2>4 DEF Save, TypeOK, Twofold, Record
    <2> QED
      BY <1>8, <2>3, <2>5 DEF Rotate, TypeOK, TaskType
  <1>9. CASE BeginUpload
    BY <1>9 DEF BeginUpload, TypeOK, Twofold, TaskType, Record
  <1>10. CASE EndUpload
    <2>1. PICK n \in Envelopes \ {e.id : e \in root} :
            /\ root' = root \cup {[id |-> n, key |-> upload]}
            /\ stray' = IF upload = memory.password THEN stray
                        ELSE stray \cup {[id |-> n, key |-> upload]}
      BY <1>10 DEF EndUpload
    <2>2. /\ root' \subseteq Envelope /\ stray' \subseteq root'
          /\ \A d, f \in root' : d.id = f.id => d = f
      BY <1>10, <2>1 DEF EndUpload, TypeOK, Envelope
    <2> QED
      BY <1>10, <2>2 DEF EndUpload, TypeOK, Twofold, TaskType
  <1>11. CASE Delete
    <2>1. /\ root' \subseteq root /\ stray' \subseteq root'
      BY <1>11 DEF Delete, TypeOK
    <2> QED
      BY <1>11, <2>1 DEF Delete, TypeOK, Twofold, TaskType
  <1>12. CASE Crash
    BY <1>12 DEF Crash, TypeOK, Twofold, TaskType
  <1>13. CASE UNCHANGED vars
    BY <1>13 DEF vars, TypeOK, Twofold, TaskType
  <1> QED
    BY <1>1, <1>2, <1>3, <1>4, <1>5, <1>6, <1>7, <1>8, <1>9, <1>10, <1>11, <1>12, <1>13
    DEF Next, Update
-----------------------------------------------------------------------------
LEMMA OpenInit == Init => OpenInv
  <1> SUFFICES ASSUME Init PROVE Open
    BY DEF OpenInv
  <1>1. PICK p \in Passwords :
          /\ memory = [password |-> p, prev |-> None, token |-> <<1, 0>>, seed |-> <<1, 0>>]
          /\ root \in {[id : s, key : {p}] : s \in SUBSET Envelopes}
    BY DEF Init
  <1>2. \A e \in root : e.key = p
    <2>1. PICK s \in SUBSET Envelopes : root = [id : s, key : {p}]
      BY <1>1
    <2> QED
      BY <2>1
  <1>3. \A h \in Handlers : ~Busy(h)
    BY DEF Init, Busy, Idle
  <1> QED
    BY <1>1, <1>2, <1>3, RegistryAssumption DEF Open, Agreed, Keys

\* Only updates change the record's passwords, and only what writes the root
\* disturbs the envelopes.
LEMMA OpenNext == TypeInv /\ TypeInv' /\ OpenInv /\ [Next]_vars => OpenInv'
  <1> SUFFICES ASSUME TypeInv, TypeInv', OpenInv, [Next]_vars, ~mixed' PROVE Open'
    BY DEF OpenInv
  <1>0. ~mixed
    BY DEF Next, Update, Begin, Transit, Listed, Renamed, MigrationFails, Finish,
           OpenForm, Rotate, BeginUpload, EndUpload, Delete, Crash, vars
  <1>a. Open
    BY <1>0 DEF OpenInv
  <1>b. /\ memory \in Record /\ memory' \in Record /\ None \notin Passwords
        /\ DOMAIN task = Handlers /\ \A h \in Handlers : TaskType(task[h])
    BY RegistryAssumption DEF TypeInv, TypeOK
  <1>1. ASSUME NEW h \in Handlers, Begin(h) PROVE Open'
    <2>1. PICK wanted \in Passwords, login \in BOOLEAN :
            /\ Set(h, [pc |-> IF wanted # memory.password \/ memory.prev # None
                              THEN "transit" ELSE "save",
                       old |-> memory, password |-> wanted,
                       previous |-> Previous(wanted),
                       token |-> IF login THEN <<logins + 1, 0>> ELSE form,
                       todo |-> {}])
            /\ mixed' = (mixed \/ ~Agrees(h, wanted))
      BY <1>1 DEF Begin
    <2> DEFINE y == [pc |-> IF wanted # memory.password \/ memory.prev # None
                            THEN "transit" ELSE "save",
                     old |-> memory, password |-> wanted,
                     previous |-> Previous(wanted),
                     token |-> IF login THEN <<logins + 1, 0>> ELSE form,
                     todo |-> {}]
    <2>2. Agrees(h, wanted)
      BY <2>1
    <2>3. /\ memory.password \in {wanted, Previous(wanted)}
          /\ ~(wanted # memory.password \/ memory.prev # None) => memory.password = wanted
      BY DEF Previous
    <2>4. \A e \in root \ stray :
            \/ e.key = wanted
            \/ (wanted # memory.password \/ memory.prev # None) /\ e.key = Previous(wanted)
      BY <1>a, <1>b, <2>2 DEF Open, Keys, Agrees, Previous
    <2>5. Migrating(y)
      BY <2>3, <2>4 DEF Migrating, Ahead
    <2>6. task' = [task EXCEPT ![h] = y]
      BY <2>1 DEF Set
    <2>7. y.password = wanted
      OBVIOUS
    <2> HIDE DEF y
    <2>8. UNCHANGED <<memory, root, stray>>
      BY <1>1 DEF Begin
    <2>9. \A g \in Handlers : Busy(g)' => task'[g].password = wanted /\ Migrating(task'[g])
      BY <1>a, <1>b, <2>2, <2>5, <2>6, <2>7 DEF Open, Agrees, Busy
    <2> QED
      BY <1>a, <2>8, <2>9 DEF Open, Agreed, Migrating, Ahead, Keys
  <1>2. ASSUME NEW h \in Handlers, Transit(h) PROVE Open'
    <2> DEFINE x == task[h]
    <2>1. /\ Busy(h) /\ Migrating(x) /\ x.pc = "transit"
          /\ x.old \in Record /\ x.password \in Passwords /\ x.previous \in Passwords
      BY <1>2, <1>a, <1>b DEF Transit, Busy, Open, TaskType, Idle
    <2>2. Transitional(x) \in Record /\ Transitional(x).password = x.password
          /\ Transitional(x).prev = x.previous
      BY <2>1 DEF Transitional, Record
    <2>3. PICK saved \in BOOLEAN :
            /\ Save(Preserved(memory, Transitional(x)), saved)
            /\ Set(h, IF saved THEN [x EXCEPT !.pc = "list"] ELSE Idle)
      BY <1>2 DEF Transit
    <2>4. memory'.password = x.password /\ memory'.prev = x.previous
      BY <1>b, <2>2, <2>3, PreservedFields DEF Save
    <2>5. \A e \in root \ stray : e.key \in {x.password, x.previous}
      BY <2>1 DEF Migrating, Ahead
    <2> DEFINE y == [x EXCEPT !.pc = "list"]
    <2>6. y.pc = "list" /\ y.password = x.password /\ y.previous = x.previous
      BY <1>b, <2>1 DEF TaskType, Idle
    <2>7. task' = [task EXCEPT ![h] = y] \/ task' = [task EXCEPT ![h] = Idle]
      BY <2>3 DEF Set
    <2> HIDE DEF y
    <2>8. UNCHANGED <<root, stray>>
      BY <1>2 DEF Transit
    <2>9. \A g \in Handlers : Busy(g)' =>
            task'[g].password = x.password /\ (g # h => Busy(g) /\ task'[g] = task[g])
      BY <1>a, <1>b, <2>1, <2>6, <2>7 DEF Open, Agreed, Busy, Idle
    <2>10. Busy(h)' => task'[h] = y
      BY <1>b, <2>7 DEF Busy, Idle
    <2>11. \A g \in Handlers : Busy(g)' => Migrating(task[g])'
      BY <1>a, <2>4, <2>5, <2>6, <2>8, <2>9, <2>10 DEF Open, Migrating, Ahead
    <2>12. \A e \in root' \ stray' : e.key \in Keys(memory)'
      BY <1>b, <2>1, <2>4, <2>5, <2>8 DEF Keys
    <2> QED
      BY <2>9, <2>11, <2>12 DEF Open, Agreed
  <1>3. ASSUME NEW h \in Handlers, Listed(h) PROVE Open'
    <2> DEFINE x == task[h]
               todo == {e \in root : e.key = x.previous}
               y == [x EXCEPT !.pc = "rename", !.todo = todo]
    <2>1. /\ Busy(h) /\ Migrating(x) /\ x.pc = "list"
      BY <1>3, <1>a DEF Listed, Busy, Open
    <2>2. \A e \in root \ stray : e.key = x.password \/ e \in todo
      BY <2>1 DEF Migrating, Ahead
    <2>3. y.pc = "rename" /\ y.password = x.password /\ y.previous = x.previous /\ y.todo = todo
      <3> HIDE DEF todo
      <3> QED
        BY <1>b, <2>1 DEF TaskType, Idle
    <2>4. task' = [task EXCEPT ![h] = y]
      BY <1>3 DEF Listed, Set
    <2>5. UNCHANGED <<memory, root, stray>>
      BY <1>3 DEF Listed
    <2> HIDE DEF y, todo
    <2>6. Migrating(y)
      BY <2>1, <2>2, <2>3 DEF Migrating, Ahead
    <2>7. \A g \in Handlers : Busy(g)' =>
            /\ task'[g].password = x.password /\ Migrating(task'[g])
      BY <1>a, <1>b, <2>1, <2>3, <2>4, <2>6 DEF Open, Agreed, Busy
    <2> QED
      BY <1>a, <2>5, <2>7 DEF Open, Agreed, Migrating, Ahead, Keys
  <1>4. ASSUME NEW h \in Handlers, Renamed(h) PROVE Open'
    <2> DEFINE x == task[h]
    <2>1. /\ Busy(h) /\ Migrating(x) /\ x.pc = "rename" /\ x.password \in Passwords
          /\ x.todo \subseteq Envelope /\ memory.password = x.password
      BY <1>4, <1>a, <1>b DEF Renamed, Busy, Open, TaskType, Idle, Migrating
    <2>2. PICK e \in x.todo :
           IF e \in root
           THEN /\ root' = (root \ {e}) \cup {[e EXCEPT !.key = x.password]}
                /\ stray' = stray \ {e}
                /\ Set(h, [x EXCEPT !.todo = @ \ {e}])
           ELSE Set(h, Idle) /\ UNCHANGED <<root, stray>>
      BY <1>4 DEF Renamed
    <2> DEFINE y == [x EXCEPT !.todo = @ \ {e}]
    <2>3. y.pc = "rename" /\ y.password = x.password /\ y.todo = x.todo \ {e}
      BY <1>b, <2>1 DEF TaskType, Idle
    <2>4. /\ e \in root => task' = [task EXCEPT ![h] = y]
          /\ e \notin root => task' = [task EXCEPT ![h] = Idle]
      BY <2>2 DEF Set
    <2>5. \A f \in root' \ stray' : f.key = x.password \/ (f \in root \ stray /\ f # e)
                                   \/ (f \in root \ stray /\ e \notin root)
      BY <2>1, <2>2 DEF Envelope
    <2> HIDE DEF y
    <2>6. memory' = memory
      BY <1>4 DEF Renamed
    <2>7. \A g \in Handlers : Busy(g)' =>
            task'[g].password = x.password /\ (g # h => Busy(g) /\ task'[g] = task[g])
      BY <1>a, <1>b, <2>1, <2>3, <2>4 DEF Open, Agreed, Busy, Idle
    <2>8. Busy(h)' => e \in root /\ task'[h] = y
      BY <1>b, <2>4 DEF Busy, Idle
    <2>9. ASSUME NEW g \in Handlers, Busy(g)' PROVE Migrating(task[g])'
      <3>1. CASE g = h
        BY <2>1, <2>3, <2>5, <2>6, <2>8, <2>9, <3>1 DEF Migrating, Ahead
      <3>2. CASE g # h
        BY <1>a, <2>1, <2>5, <2>6, <2>7, <2>9, <3>2 DEF Open, Migrating, Ahead
      <3> QED
        BY <3>1, <3>2
    <2>10. \A f \in root' \ stray' : f.key \in Keys(memory)'
      BY <1>a, <1>b, <2>1, <2>5, <2>6 DEF Open, Keys
    <2> QED
      BY <2>7, <2>9, <2>10 DEF Open, Agreed
  <1>5. ASSUME NEW h \in Handlers, MigrationFails(h) PROVE Open'
    <2>1. /\ task' = [task EXCEPT ![h] = Idle] /\ UNCHANGED <<memory, root, stray>>
      BY <1>5 DEF MigrationFails, Set
    <2>2. \A g \in Handlers : Busy(g)' => Busy(g) /\ task'[g] = task[g]
      BY <1>b, <2>1 DEF Busy, Idle
    <2> QED
      BY <1>a, <2>1, <2>2 DEF Open, Agreed, Migrating, Ahead, Keys
  <1>6. ASSUME NEW h \in Handlers, Finish(h) PROVE Open'
    <2> DEFINE x == task[h]
               r == [x.old EXCEPT !.password = x.password, !.prev = None, !.token = x.token]
    <2>1. /\ Busy(h) /\ Migrating(x)
          /\ x.pc = "save" \/ (x.pc = "rename" /\ x.todo = {})
          /\ x.old \in Record /\ x.password \in Passwords /\ x.token \in Token
      BY <1>6, <1>a, <1>b DEF Finish, Busy, Open, TaskType, Idle
    <2>2. r \in Record /\ r.password = x.password /\ r.prev = None
      BY <2>1 DEF Record
    <2>3. PICK saved \in BOOLEAN : Save(Preserved(memory, r), saved)
      BY <1>6 DEF Finish
    <2> HIDE DEF r
    <2>4. memory'.password = x.password /\ memory'.prev = None
      BY <1>b, <2>2, <2>3, PreservedFields DEF Save
    <2>5. \A e \in root \ stray : e.key = x.password
      BY <2>1 DEF Migrating, Ahead
    <2>6. /\ task' = [task EXCEPT ![h] = Idle] /\ UNCHANGED <<root, stray>>
      BY <1>6 DEF Finish, Set
    <2>7. \A g \in Handlers : Busy(g)' =>
            Busy(g) /\ task'[g] = task[g] /\ task[g].password = x.password
      BY <1>a, <1>b, <2>1, <2>6 DEF Busy, Idle, Open, Agreed
    <2>8. \A g \in Handlers : Busy(g)' => Migrating(task[g])'
      BY <2>4, <2>5, <2>6, <2>7 DEF Migrating
    <2> QED
      BY <1>b, <2>1, <2>4, <2>5, <2>6, <2>7, <2>8 DEF Open, Agreed, Keys
  <1>7. CASE OpenForm
    BY <1>7, <1>a DEF OpenForm, Open, Agreed, Busy, Migrating, Ahead, Keys
  <1>8. CASE Rotate
    <2>1. memory'.password = memory.password /\ memory'.prev = memory.prev
      BY <1>8, <1>b DEF Rotate, Save, Record
    <2> QED
      BY <1>8, <1>a, <2>1 DEF Rotate, Open, Agreed, Busy, Migrating, Ahead, Keys
  <1>9. CASE BeginUpload
    BY <1>9, <1>a DEF BeginUpload, Open, Agreed, Busy, Migrating, Ahead, Keys
  <1>10. CASE EndUpload
    <2>1. \A e \in root' \ stray' : e \in root \ stray \/ e.key = memory.password
      BY <1>10 DEF EndUpload
    <2>2. UNCHANGED <<memory, task>>
      BY <1>10 DEF EndUpload
    <2>3. ASSUME NEW h \in Handlers, Busy(h) PROVE Migrating(task[h])'
      BY <1>a, <2>1, <2>2, <2>3 DEF Open, Migrating, Ahead
    <2> QED
      BY <1>a, <1>b, <2>1, <2>2, <2>3 DEF Open, Agreed, Busy, Keys, Record
  <1>11. CASE Delete
    <2>1. root' \ stray' \subseteq root \ stray
      BY <1>11 DEF Delete
    <2> QED
      BY <1>11, <1>a, <2>1 DEF Delete, Open, Agreed, Busy, Migrating, Ahead, Keys
  <1>12. CASE Crash
    <2>1. Keys(memory) \subseteq Keys(memory')
      BY <1>12 DEF Crash
    <2>2. \A h \in Handlers : ~Busy(h)'
      BY <1>12 DEF Crash, Busy, Idle
    <2> QED
      BY <1>12, <1>a, <2>1, <2>2 DEF Crash, Open, Agreed, Keys
  <1>13. CASE UNCHANGED vars
    BY <1>13, <1>a DEF vars, Open, Agreed, Busy, Migrating, Ahead, Keys
  <1> QED
    BY <1>1, <1>2, <1>3, <1>4, <1>5, <1>6, <1>7, <1>8, <1>9, <1>10, <1>11, <1>12, <1>13
    DEF Next, Update
-----------------------------------------------------------------------------
LEMMA KeptInit == Init => KeptInv
  <1> SUFFICES ASSUME Init PROVE Kept
    BY DEF KeptInv
  <1>1. memory.token = <<1, 0>> /\ memory.seed = <<1, 0>> /\ file = memory
    BY DEF Init
  <1>2. newest = [c \in 1..Chains |-> 0] /\ 1 \in 1..Chains
    BY RegistryAssumption DEF Init
  <1> QED
    BY <1>1, <1>2 DEF Kept, Last, Seeded

\* A sound token the user has touched is the first of a later login.
LEMMA SubmittedKept ==
  ASSUME TypeInv, Kept, NEW r \in Record, Sound(r.token),
         NEW saved \in BOOLEAN, Save(Preserved(memory, r), saved), newest' = newest
  PROVE  Kept'
  <1> DEFINE t == r.token
             q == Preserved(memory, r)
  <1>1. /\ memory.token \in Token /\ t \in Token /\ memory.seed = <<memory.token[1], 0>>
        /\ newest \in [1..Chains -> 0..MaxRotations]
        /\ newest[memory.token[1]] = memory.token[2]
    BY DEF TypeInv, TypeOK, Record, Kept, Last, Seeded
  <1>2. CASE t \in {memory.token, memory.seed}
    <2>1. q.token = memory.token /\ q.seed = memory.seed
      BY <1>2 DEF Preserved, Record
    <2> QED
      BY <2>1 DEF Save, Kept, Last, Seeded
  <1>3. CASE t \notin {memory.token, memory.seed}
    <2>1. q.token = t /\ q.seed = t
      BY <1>3 DEF Preserved, Record
    <2>2. t = <<t[1], t[2]>> /\ memory.token = <<memory.token[1], memory.token[2]>>
      BY <1>1 DEF Token
    <2>3. Last(t) /\ t[1] > memory.token[1]
      <3>1. Last(t) /\ t[1] >= memory.token[1]
        BY <1>1, <1>3 DEF Sound
      <3>2. t[1] # memory.token[1]
        BY <1>1, <1>3, <2>2, <3>1 DEF Last
      <3>3. t[1] \in Nat /\ memory.token[1] \in Nat
        BY <1>1, RegistryAssumption DEF Token
      <3> QED
        BY <3>1, <3>2, <3>3
    <2>4. t = <<t[1], 0>>
      BY <1>1, <2>2, <2>3 DEF Kept, Last, Token
    <2>5. \A c \in 1..Chains : c > t[1] => newest[c] = 0
      BY <1>1, <2>3, RegistryAssumption DEF Kept, Token
    <2> HIDE DEF q, t
    <2>6. Seeded(q)
      BY <2>1, <2>4 DEF Seeded
    <2>7. memory' = q /\ (file' = q \/ file' = file)
      BY DEF Save, q, t
    <2> QED
      BY <2>1, <2>3, <2>5, <2>6, <2>7 DEF Kept, Last, Seeded
  <1> QED
    BY <1>2, <1>3

LEMMA KeptNext == TypeInv /\ TypeInv' /\ KeptInv /\ [Next]_vars => KeptInv'
  <1> SUFFICES ASSUME TypeInv, TypeInv', KeptInv, [Next]_vars, ~stale' PROVE Kept'
    BY DEF KeptInv
  <1>0. ~stale
    BY DEF Next, Update, Begin, Transit, Listed, Renamed, MigrationFails, Finish,
           OpenForm, Rotate, BeginUpload, EndUpload, Delete, Crash, vars, Submitted
  <1>a. Kept
    BY <1>0 DEF KeptInv
  <1>1. CASE UNCHANGED <<memory, file, newest>>
    BY <1>1, <1>a DEF Kept, Last, Seeded
  <1>2. ASSUME NEW h \in Handlers, Transit(h) PROVE Kept'
    <2> DEFINE r == Transitional(task[h])
    <2>1. r \in Record
      <3>1. /\ task[h].old \in Record /\ task[h].password \in Passwords
            /\ task[h].previous \in Passwords
        BY <1>2 DEF Transit, TypeInv, TypeOK, TaskType, Idle
      <3> QED
        BY <3>1 DEF Transitional, Record
    <2>2. Sound(r.token) /\ newest' = newest
      BY <1>2 DEF Transit, Submitted
    <2>3. PICK saved \in BOOLEAN : Save(Preserved(memory, r), saved)
      BY <1>2 DEF Transit
    <2> HIDE DEF r
    <2> QED
      BY <1>a, <2>1, <2>2, <2>3, SubmittedKept
  <1>3. ASSUME NEW h \in Handlers, Finish(h) PROVE Kept'
    <2> DEFINE x == task[h]
               r == [x.old EXCEPT !.password = x.password, !.prev = None, !.token = x.token]
    <2>1. x.old \in Record /\ x.password \in Passwords /\ x.token \in Token
      BY <1>3 DEF Finish, TypeInv, TypeOK, TaskType, Idle
    <2>2. r \in Record
      BY <2>1 DEF Record
    <2>3. Sound(r.token) /\ newest' = newest
      BY <1>3 DEF Finish, Submitted
    <2>4. PICK saved \in BOOLEAN : Save(Preserved(memory, r), saved)
      BY <1>3 DEF Finish
    <2> HIDE DEF r
    <2> QED
      BY <1>a, <2>2, <2>3, <2>4, SubmittedKept
  <1>4. CASE Rotate
    <2> DEFINE t == memory.token
               next == <<t[1], t[2] + 1>>
               q == [memory EXCEPT !.token = next]
    <2>1. /\ t[1] \in 1..Chains /\ newest \in [1..Chains -> 0..MaxRotations]
          /\ newest' = [newest EXCEPT ![t[1]] = @ + 1] /\ newest[t[1]] = t[2]
      BY <1>4 DEF Rotate, TypeInv, TypeOK, Record, Token, Last
    <2>2. PICK saved \in BOOLEAN : Save(q, saved)
      BY <1>4 DEF Rotate
    <2>3. q.token = next /\ q.seed = memory.seed
      BY DEF TypeInv, TypeOK, Record
    <2>4. \A c \in 1..Chains : c > t[1] => newest'[c] = 0
      BY <1>a, <2>1 DEF Kept
    <2>5. newest'[t[1]] = t[2] + 1
      BY <2>1
    <2> HIDE DEF q
    <2>6. Seeded(q)
      BY <1>a, <2>3 DEF Kept, Seeded
    <2> QED
      BY <1>a, <2>2, <2>3, <2>4, <2>5, <2>6 DEF Save, Kept, Last, Seeded
  <1>5. CASE Crash
    BY <1>5, <1>a DEF Crash, Kept, Last, Seeded
  <1> QED
    BY <1>1, <1>2, <1>3, <1>4, <1>5
    DEF Next, Update, vars, Begin, Listed, Renamed, MigrationFails, OpenForm,
        BeginUpload, EndUpload, Delete
-----------------------------------------------------------------------------
(***************************************************************************)
(* Whatever the handlers of registry.rs and ds.rs do, in whatever order,   *)
(* the record, its saved copy and the updates under way have their types,  *)
(* and no two envelopes of the root directory are the same file.           *)
(***************************************************************************)
THEOREM TypeCorrect == Spec => []TypeOK
  <1>1. TypeInv => TypeOK
    BY DEF TypeInv
  <1> QED
    BY TypeInit, TypeNext, <1>1, PTL DEF Spec

(***************************************************************************)
(* ds.rs, update: between any two steps of a change of the root password,  *)
(* and after one that failed, every envelope opens under a password of the *)
(* record, but for the exceptions EnvelopesOpen names.                     *)
(***************************************************************************)
THEOREM EnvelopesStayOpen == Spec => []EnvelopesOpen
  <1>1. OpenInv => EnvelopesOpen
    BY DEF OpenInv, Open, EnvelopesOpen
  <1> QED
    BY TypeInit, TypeNext, OpenInit, OpenNext, <1>1, PTL DEF Spec

(***************************************************************************)
(* registry.rs, preserve_live_credentials: no settings page, however long  *)
(* it was open, replaces the last token of a login by an earlier one, but  *)
(* for the exceptions TokenIsLast names.                                   *)
(***************************************************************************)
THEOREM LastTokenKept == Spec => []TokenIsLast
  <1>1. KeptInv => TokenIsLast
    BY DEF KeptInv, Kept, TokenIsLast
  <1> QED
    BY TypeInit, TypeNext, KeptInit, KeptNext, <1>1, PTL DEF Spec
=============================================================================
