------------------------------ MODULE Registry ------------------------------
(***************************************************************************)
(* The record of one data source (registry.rs), kept in memory and in      *)
(* datasources.json, and what changes it: the settings page (routes/ds.rs, *)
(* update), which may also change the root password and then encrypts the  *)
(* names in the root directory anew, and the adapter, which writes back    *)
(* the tokens its provider has rotated.                                    *)
(*                                                                         *)
(* A root envelope is a number and the password its name is encrypted      *)
(* under.  A token is the n-th of a chain: the first comes from the user,  *)
(* each refresh replaces it by the next, and only the last one is valid.   *)
(* The path cache is in Namespace, the block cache in BlockCache.          *)
(***************************************************************************)
EXTENDS Naturals, FiniteSets

CONSTANTS
  Handlers,     \* updates under way at a time
  Passwords,
  None,         \* no previous password
  Envelopes,    \* what the root directory may hold
  Chains,       \* bound: the user's logins
  MaxRotations, \* bound: refreshes of a login
  MaxUpdates    \* bound: updates

ASSUME RegistryAssumption ==
  /\ None \notin Passwords
  /\ Chains \in Nat \ {0} /\ MaxRotations \in Nat /\ MaxUpdates \in Nat

VARIABLES
  memory, file, \* the record, and as it is saved
  root,         \* the envelopes in the root directory
  task,         \* each update
  form,         \* the token a settings page in use shows
  upload,       \* an upload into the root directory, with the key it took
  newest,       \* at the provider: the last token of each chain
  logins,       \* logins so far
  updates,      \* updates so far
  \* history, which no action reads
  stray,        \* envelopes made under a key that was not the primary one
  mixed,        \* two new passwords met, or a key was lost in a crash
  stale         \* a token neither first nor last, or of an earlier login, was
                \* submitted, or the last one was lost in a crash

vars == <<memory, file, root, task, form, upload, newest, logins, updates,
          stray, mixed, stale>>

Token == (1..Chains) \X (0..MaxRotations)
Record == [password : Passwords, prev : Passwords \cup {None}, token : Token, seed : Token]
Envelope == [id : Envelopes, key : Passwords]

\* root_key_candidates_of.
Keys(r) == {r.password, r.prev} \ {None}

(***************************************************************************)
(* registry.rs: update.                                                    *)
(***************************************************************************)
\* preserve_live_credentials, seed_rotating_secrets: a token the user has not
\* touched, because it is the stored one or the first, gives way to the stored.
PreservedByCurrent(current, r) ==
  IF r.token = current.token
  THEN [r EXCEPT !.seed = current.seed]
  ELSE [r EXCEPT !.seed = r.token]
Preserved(current, r) ==
  IF r.token \in {current.token, current.seed}
  THEN [r EXCEPT !.token = current.token, !.seed = current.seed]
  ELSE [r EXCEPT !.seed = r.token]

\* Memory first; the file only if it can be written.
Save(r, saved) == memory' = r /\ file' = IF saved THEN r ELSE file

Last(t) == t[2] = newest[t[1]]
Sound(t) == /\ t[1] >= memory.token[1]
            /\ Last(t) \/ t = <<memory.token[1], 0>>
Submitted(t) == stale' = (stale \/ ~Sound(t))

(***************************************************************************)
(* routes/ds.rs: update.                                                   *)
(***************************************************************************)
Idle == [pc |-> "idle"]
Busy(h) == task[h].pc # "idle"
Set(h, x) == task' = [task EXCEPT ![h] = x]

\* While a change is not finished, only its new password or its old one.
Agrees(h, wanted) ==
  /\ memory.prev # None => wanted \in Keys(memory)
  /\ \A other \in Handlers \ {h} : Busy(other) => task[other].password = wanted

\* The password that envelopes are still encrypted under.
PreviousOldest(wanted) == IF memory.prev # None THEN memory.prev ELSE memory.password
Previous(wanted) == IF wanted = memory.password THEN memory.prev ELSE memory.password

Begin(h) ==
  /\ ~Busy(h)
  /\ updates < MaxUpdates /\ updates' = updates + 1
  /\ \E wanted \in Passwords, login \in BOOLEAN :
       /\ login => logins < Chains
       /\ logins' = IF login THEN logins + 1 ELSE logins
       /\ Set(h, [pc |-> IF wanted # memory.password \/ memory.prev # None
                         THEN "transit" ELSE "save",
                  old |-> memory, password |-> wanted,
                  previous |-> Previous(wanted),
                  token |-> IF login THEN <<logins + 1, 0>> ELSE form,
                  todo |-> {}])
       /\ mixed' = (mixed \/ ~Agrees(h, wanted))
  /\ UNCHANGED <<memory, file, root, form, upload, newest, stray, stale>>

\* Both passwords are saved before the first envelope is renamed.
TransitionalForgetful(x) == [x.old EXCEPT !.password = x.password, !.prev = None]
Transitional(x) == [x.old EXCEPT !.password = x.password, !.prev = x.previous]
Transit(h) ==
  LET x == task[h]
      r == Transitional(x)
  IN  /\ x.pc = "transit"
      /\ \E saved \in BOOLEAN :
           /\ Save(Preserved(memory, r), saved)
           /\ Set(h, IF saved THEN [x EXCEPT !.pc = "list"] ELSE Idle)
      /\ Submitted(r.token)
      /\ UNCHANGED <<root, form, upload, newest, logins, updates, stray, mixed>>

\* migrate_root_envelopes: what the old key opens, as listed.
Listed(h) ==
  LET x == task[h]
  IN  /\ x.pc = "list"
      /\ Set(h, [x EXCEPT !.pc = "rename", !.todo = {e \in root : e.key = x.previous}])
      /\ UNCHANGED <<memory, file, root, form, upload, newest, logins, updates,
                     stray, mixed, stale>>

Renamed(h) ==
  LET x == task[h]
  IN  /\ x.pc = "rename"
      /\ \E e \in x.todo :
           IF e \in root
           THEN /\ root' = (root \ {e}) \cup {[e EXCEPT !.key = x.password]}
                /\ stray' = stray \ {e}
                /\ Set(h, [x EXCEPT !.todo = @ \ {e}])
           ELSE Set(h, Idle) /\ UNCHANGED <<root, stray>>
      /\ UNCHANGED <<memory, file, form, upload, newest, logins, updates, mixed, stale>>

\* The storage fails: an error, and the record stays in transition.
MigrationFails(h) ==
  /\ task[h].pc \in {"list", "rename"}
  /\ Set(h, Idle)
  /\ UNCHANGED <<memory, file, root, form, upload, newest, logins, updates,
                 stray, mixed, stale>>

Finish(h) ==
  LET x == task[h]
      r == [x.old EXCEPT !.password = x.password, !.prev = None, !.token = x.token]
  IN  /\ x.pc = "save" \/ (x.pc = "rename" /\ x.todo = {})
      /\ \E saved \in BOOLEAN : Save(Preserved(memory, r), saved)
      /\ Set(h, Idle)
      /\ Submitted(r.token)
      /\ UNCHANGED <<root, form, upload, newest, logins, updates, stray, mixed>>

(***************************************************************************)
(* Around it.                                                              *)
(***************************************************************************)
\* The settings page is opened.
OpenForm ==
  /\ form' = memory.token
  /\ UNCHANGED <<memory, file, root, task, upload, newest, logins, updates,
                 stray, mixed, stale>>

\* update_credentials: the adapter has used the token, and got the next.
Rotate ==
  LET t == memory.token
      next == <<t[1], t[2] + 1>>
  IN  /\ Last(t) /\ t[2] < MaxRotations
      /\ newest' = [newest EXCEPT ![t[1]] = @ + 1]
      /\ \E saved \in BOOLEAN : Save([memory EXCEPT !.token = next], saved)
      /\ UNCHANGED <<root, task, form, upload, logins, updates, stray, mixed, stale>>

\* upload_file, ensure_dir: the primary key of the root, and the envelope later.
BeginUpload ==
  /\ upload = None /\ upload' = memory.password
  /\ UNCHANGED <<memory, file, root, task, form, newest, logins, updates,
                 stray, mixed, stale>>
EndUpload ==
  /\ upload # None /\ upload' = None
  /\ \E n \in Envelopes \ {e.id : e \in root} :
       LET e == [id |-> n, key |-> upload]
       IN  /\ root' = root \cup {e}
           /\ stray' = IF upload = memory.password THEN stray ELSE stray \cup {e}
  /\ UNCHANGED <<memory, file, task, form, newest, logins, updates, mixed, stale>>

\* delete_path, of what can be read.
Delete ==
  /\ \E e \in root : e.key \in Keys(memory) /\ root' = root \ {e} /\ stray' = stray \ {e}
  /\ UNCHANGED <<memory, file, task, form, upload, newest, logins, updates, mixed, stale>>

\* The process ends and starts anew.
Crash ==
  /\ memory' = file
  /\ task' = [h \in Handlers |-> Idle] /\ upload' = None
  /\ mixed' = (mixed \/ ~(Keys(memory) \subseteq Keys(file)))
  /\ stale' = (stale \/ memory.token # file.token)
  /\ UNCHANGED <<file, root, form, newest, logins, updates, stray>>

Init ==
  /\ \E p \in Passwords :
       /\ memory = [password |-> p, prev |-> None, token |-> <<1, 0>>, seed |-> <<1, 0>>]
       /\ root \in {[id : s, key : {p}] : s \in SUBSET Envelopes}
  /\ file = memory
  /\ task = [h \in Handlers |-> Idle] /\ form = memory.token /\ upload = None
  /\ newest = [c \in 1..Chains |-> 0] /\ logins = 1 /\ updates = 0
  /\ stray = {} /\ mixed = FALSE /\ stale = FALSE

Update(h) == Begin(h) \/ Transit(h) \/ Listed(h) \/ Renamed(h)
               \/ MigrationFails(h) \/ Finish(h)
Next == (\E h \in Handlers : Update(h))
          \/ OpenForm \/ Rotate \/ BeginUpload \/ EndUpload \/ Delete \/ Crash

Spec == Init /\ [][Next]_vars
-----------------------------------------------------------------------------
TaskType(x) ==
  \/ x = Idle
  \/ /\ x \in [pc : {"transit", "list", "rename", "save"}, old : Record,
               password : Passwords, previous : Passwords \cup {None},
               token : Token, todo : SUBSET Envelope]
     /\ x.pc # "save" => x.previous \in Passwords \ {x.password}
     /\ \A e \in x.todo : e.key = x.previous

TypeOK ==
  /\ memory \in Record /\ file \in Record
  /\ root \subseteq Envelope /\ stray \subseteq root
  /\ DOMAIN task = Handlers /\ \A h \in Handlers : TaskType(task[h])
  /\ form \in Token /\ upload \in Passwords \cup {None}
  /\ newest \in [1..Chains -> 0..MaxRotations]
  /\ logins \in 1..Chains /\ updates \in 0..MaxUpdates
  /\ mixed \in BOOLEAN /\ stale \in BOOLEAN
  /\ \A d, e \in root : d.id = e.id => d = e

(***************************************************************************)
(* ds.rs: the transitional password is saved first, so that what is not    *)
(* migrated yet can still be read.  Through failing migrations, retries,   *)
(* updates that overlap, crashes and saves that fail every envelope of the *)
(* root opens under a password of the record; the exceptions are an upload *)
(* that took its key before a change, a second new password before the     *)
(* first change is finished, and a crash before the record could be saved. *)
(***************************************************************************)
EnvelopesOpen == mixed \/ \A e \in root \ stray : e.key \in Keys(memory)

(***************************************************************************)
(* registry.rs: a settings page opened before a rotation must not bring    *)
(* back the old token.  The record holds the last token of its login; the  *)
(* exceptions are a page that shows one neither first nor last, or of an   *)
(* earlier login, and a crash before the record could be saved.            *)
(***************************************************************************)
TokenIsLast == stale \/ Last(memory.token)
=============================================================================
