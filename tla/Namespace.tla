----------------------------- MODULE Namespace -----------------------------
(***************************************************************************)
(* The names of a managed data source (routes/files.rs, vault.rs).         *)
(*                                                                         *)
(* A node is a directory on the storage whose name, encrypted under the    *)
(* key of its parent, holds its plain name, its kind and its own secret.   *)
(* Plain paths are resolved by listing from the root; a path cache in      *)
(* memory saves the listings of the ancestors.  Requests run concurrently  *)
(* and the answer of a listing may be old when it is used; other programs  *)
(* change the storage too.  Files have no content here (UploadPipeline),   *)
(* and objects that no key opens are left out.                             *)
(***************************************************************************)
EXTENDS Integers, Sequences, FiniteSets, SequencesExt

CONSTANTS
  Clients,      \* requests under way at a time
  Paths,        \* plain paths they are about, closed under ancestors
  Requests,     \* what may be asked
  Trees,        \* what the storage may hold at the start
  MaxCalls,     \* bound: requests, and changes made by others
  MaxAlone      \* bound: the same, as long as one follows the other

Names == {Last(p) : p \in Paths}
ASSUME NamespaceAssumption ==
  /\ Paths \subseteq Seq(Names)
  /\ \A p \in Paths : p # <<>> /\ \A n \in 1..Len(p) : SubSeq(p, 1, n) \in Paths
  /\ Requests \subseteq [op : {"read", "list", "delete", "mkdir", "upload", "rename"},
                        path : Paths \cup {<<>>}, to : Paths \cup {<<>>},
                        overwrite : BOOLEAN]
  /\ \A r \in Requests : (r.op # "list" => r.path # <<>>) /\ (r.op = "rename" => r.to # <<>>)
  /\ "free" \notin Clients
  /\ MaxCalls \in Nat /\ MaxAlone \in Nat

VARIABLES
  disk,         \* storage paths that exist: sequences of encrypted names
  cache,        \* the path cache
  lock,         \* holder of the mkdir lock, or "free"
  call,         \* the request of each client
  used,         \* secrets given out, numbered in the order of stored names
  calls,        \* requests made so far
  \* history, which no action reads
  alone,        \* no two requests have overlapped, nothing failed, no other
                \* program has changed the storage
  before,       \* while alone: the storage when the last request began
  came,         \* secrets of the nodes that were renamed, or made by another
                \* program
  again,        \* secrets of the directories the storage made again, as the
                \* ancestors of something new
  seen          \* per reading client: storage paths of its path since it
                \* began, and whether it has always had one

vars == <<disk, cache, lock, call, used, calls, alone, before, came, again, seen>>

(***************************************************************************)
(* Names.                                                                  *)
(***************************************************************************)
Root == <<>>
Missing == [key |-> 0, name |-> "none", dir |-> FALSE, secret |-> 0]
Secret(e) == IF e = Root THEN 0 ELSE Last(e).secret
IsDir(e) == IF e = Root THEN TRUE ELSE Last(e).dir
Encoded(e, name, dir, s) ==
  Append(e, [key |-> Secret(e), name |-> name, dir |-> dir, secret |-> s])
Plain(e) == [n \in 1..Len(e) |-> e[n].name]
Children(d, e) == {Last(f) : f \in {f \in d : Len(f) = Len(e) + 1 /\ IsPrefix(e, f)}}

\* What storages hold at the start: every directory leads to its entries, an
\* entry is under the key of its directory and has a secret of its own, and no
\* two entries of a directory have the same name.
Node == [key : Int, name : Names \cup {"none"}, dir : BOOLEAN, secret : Int]
WellMade(d) ==
  /\ IsFiniteSet(d)
  /\ \A e \in d : e \in Seq(Node) \ {Root} /\ \A n \in 1..Len(e) : SubSeq(e, 1, n) \in d
  /\ \A e \in d : Secret(e) # 0 /\ IsDir(Front(e)) /\ Last(e).key = Secret(Front(e))
  /\ \A e, f \in d : Secret(e) = Secret(f) \/ Plain(e) = Plain(f) => e = f
ASSUME TreesAssumption == \A d \in Trees : WellMade(d)

\* find_child: of several entries of that name the least, as stored.
Candidates(entries, e, name) ==
  {n \in entries : n.key = Secret(e) /\ n.name = name}
FindChild(entries, e, name) ==
  LET found == Candidates(entries, e, name)
  IN  IF found = {} THEN Missing
      ELSE CHOOSE n \in found : \A m \in found : n.secret <= m.secret

(***************************************************************************)
(* The path cache: encrypted names by plain path.                          *)
(***************************************************************************)
Evict(k, p) == [q \in Paths |-> IF IsPrefix(p, q) THEN Missing ELSE k[q]]
Stored(k, p, n) == [k EXCEPT ![p] = n]
Cached(k, p) == k[p] # Missing

\* resolve_cached_dir_inner: the deepest ancestor cached along with its own
\* parent.  (A gap higher up is an error of its own.)
UsableDepths(k, p) ==
  {n \in 1..Len(p) : /\ Cached(k, SubSeq(p, 1, n))
                     /\ n > 1 => Cached(k, SubSeq(p, 1, n - 1))}
StartDepth(k, p) ==
  IF UsableDepths(k, p) = {} THEN 0
  ELSE CHOOSE n \in UsableDepths(k, p) : \A m \in UsableDepths(k, p) : m <= n
Gap(k, p) == \E n \in 1..StartDepth(k, p) : ~Cached(k, SubSeq(p, 1, n))
CachedNode(k, p) == [n \in 1..StartDepth(k, p) |-> k[SubSeq(p, 1, n)]]

(***************************************************************************)
(* A request: what it asks, where in the code it is (pc), the path it is   *)
(* resolving (goal, at depth, in the storage directory at), the purpose of *)
(* that (stage), and the answer of the listing it waits for.               *)
(***************************************************************************)
NoAnswer == [is |-> "none", entries |-> {}]
Idle == [op |-> "none", path |-> Root, to |-> Root, overwrite |-> FALSE,
         pc |-> "idle", goal |-> Root, depth |-> 0, at |-> Root, retried |-> FALSE,
         stage |-> "none", from |-> Root, parent |-> Root,
         answer |-> NoAnswer, outcome |-> "none"]

Listing == {"descend", "leaf", "ensure", "children"}
Busy(x) == x.pc \notin {"idle", "done"}
Return(x, outcome) == [Idle EXCEPT !.op = x.op, !.path = x.path, !.to = x.to,
                         !.overwrite = x.overwrite, !.pc = "done", !.at = x.at,
                         !.outcome = outcome]
List(x, pc) == [x EXCEPT !.pc = pc, !.answer = NoAnswer]

\* Nothing there.  (locate_any then walks from the root in search of a foreign
\* object; it returns no managed node any more.)  upload_file and rename_path
\* want just that.
Absent(x) ==
  CASE x.stage = "name" -> [x EXCEPT !.pc = "create"]
    [] x.stage = "target" -> [x EXCEPT !.pc = "rename"]
    [] OTHER -> Return(x, "absent")

\* A call failed: an error, except that rename_path asks only for is_ok().
Broken(x) ==
  IF x.stage = "target" THEN [x EXCEPT !.pc = "rename"] ELSE Return(x, "error")

\* resolve, resolve_cached_dir: the next listing, once x is at a node.
Onward(x) ==
  LET leaf == x.depth = Len(x.goal) - 1
  IN  IF IsDir(x.at) THEN List(x, IF leaf THEN "leaf" ELSE "descend")
      ELSE IF leaf THEN Absent(x) ELSE [x EXCEPT !.pc = "lost"]

FromCache(x, k) ==
  LET ancestors == Front(x.goal)
  IN  IF Gap(k, ancestors) THEN Broken(x)
      ELSE Onward([x EXCEPT !.depth = StartDepth(k, ancestors),
                            !.at = CachedNode(k, ancestors)])
Resolve(x, goal, stage, k) ==
  FromCache([x EXCEPT !.goal = goal, !.stage = stage, !.retried = FALSE], k)

\* The operation goes on with the node found.
Found(x, k) ==
  CASE x.op = "read" -> Return(x, "ok")
    [] x.op = "list" -> IF IsDir(x.at) THEN List(x, "children") ELSE Return(x, "error")
    [] x.op = "delete" -> [x EXCEPT !.pc = "remove"]
    [] x.op = "upload" -> IF x.overwrite /\ ~IsDir(x.at)
                          THEN [x EXCEPT !.pc = "remove"] ELSE Return(x, "error")
    [] x.op = "rename" ->
         CASE x.stage = "locate" /\ Len(x.to) = 1 ->
                Resolve([x EXCEPT !.from = x.at, !.parent = Root], x.to, "target", k)
           [] x.stage = "locate" /\ Len(x.to) > 1 ->
                Resolve([x EXCEPT !.from = x.at], Front(x.to), "parent", k)
           [] x.stage = "parent" /\ IsDir(x.at) ->
                Resolve([x EXCEPT !.parent = x.at], x.to, "target", k)
           [] OTHER -> Return(x, "error")

\* ensure_dir has come to a directory: on to the next segment, or done.
Deeper(x, n, k) ==
  LET y == [x EXCEPT !.at = Append(@, n), !.depth = @ + 1]
  IN  IF y.depth < Len(y.goal) THEN List(y, "ensure")
      ELSE IF y.op = "mkdir" THEN Return(y, "ok")
      ELSE Resolve([y EXCEPT !.parent = y.at], y.path, "name", k)

(***************************************************************************)
(* Steps.                                                                  *)
(***************************************************************************)
Set(c, x) == call' = [call EXCEPT ![c] = x]
Unlock(x) == lock' = IF x.pc = "ensure" THEN lock ELSE "free"

\* What the storage holds after e has come to be; it makes the directories
\* above of its own accord.
WithAncestors(e) == disk \cup {SubSeq(e, 1, n) : n \in 1..Len(e)}
\* A new secret makes for a name before all others, or behind them.
Fresh == {Min(used \cup {0}) - 1, Max(used \cup {0}) + 1}
Subtree(e) == {f \in disk : IsPrefix(e, f)}
Unchanged == UNCHANGED <<disk, used, came, again>>
\* An entry for which the storage made the directories above.
Made(e) ==
  /\ disk' = WithAncestors(e) /\ used' = used \cup {Secret(e)}
  /\ again' = again \cup {Secret(f) : f \in disk' \ (disk \cup {e})}
  /\ UNCHANGED came

Tree(d) == {[path |-> [n \in 1..Len(e) |-> e[n].name], dir |-> IsDir(e)] : e \in d}
\* A path that leads to one node only, whoever lists from the root.
Visible(d, p) ==
  \E e \in d : /\ Plain(e) = p
               /\ \A n \in 1..Len(e) :
                    LET above == SubSeq(e, 1, n - 1)
                    IN  Candidates(Children(d, above), above, p[n]) = {e[n]}
Unseen == [ever |-> {}, always |-> FALSE]
Sight(d, p) == [ever |-> {e \in d : Plain(e) = p}, always |-> Visible(d, p)]
\* A step that may change the storage is seen by the requests under way.
Watched == seen' = [c \in Clients |->
  LET now == Sight(disk', call[c].path)
  IN  IF Busy(call[c]) /\ call[c].op = "read"
      THEN [ever |-> seen[c].ever \cup now.ever,
            always |-> seen[c].always /\ now.always]
      ELSE seen[c]]
Local == Watched /\ UNCHANGED <<calls, alone, before>>

Uploading(p) == \E c \in Clients :
                  Busy(call[c]) /\ call[c].op = "upload" /\ call[c].path = p

Started(x) ==
  CASE x.op = "mkdir" -> [x EXCEPT !.pc = "wait", !.goal = x.path]
    [] x.op = "upload" ->
         IF Uploading(x.path) THEN Return(x, "error")
         ELSE IF Len(x.path) > 1 THEN [x EXCEPT !.pc = "wait", !.goal = Front(x.path)]
         ELSE Resolve(x, x.path, "name", cache)
    [] x.op = "list" /\ x.path = Root -> List(x, "children")
    [] x.op = "rename" /\ IsPrefix(x.path, x.to) -> Return(x, "error")
    [] OTHER -> Resolve(x, x.path, "locate", cache)

Budget == IF alone THEN MaxAlone ELSE MaxCalls

Begin(c) ==
  /\ ~Busy(call[c])
  /\ \E r \in Requests :
       LET x == [Idle EXCEPT !.op = r.op, !.path = r.path, !.to = r.to,
                             !.overwrite = r.overwrite]
       IN  /\ Set(c, Started(x))
           /\ seen' = [seen EXCEPT ![c] = IF r.op = "read" THEN Sight(disk, r.path)
                                          ELSE Unseen]
  /\ alone' = (alone /\ \A other \in Clients : ~Busy(call[other]))
  /\ calls < Budget' /\ calls' = calls + 1
  /\ before' = IF alone' THEN Tree(disk) ELSE {}
  /\ UNCHANGED <<cache, lock>> /\ Unchanged

\* The storage answers a listing; the answer may wait.
Answer(c) ==
  LET x == call[c]
      there == x.at = Root \/ x.at \in disk
  IN  /\ x.pc \in Listing /\ x.answer = NoAnswer
      /\ Set(c, [x EXCEPT !.answer =
           IF there THEN [is |-> "ok", entries |-> Children(disk, x.at)]
           ELSE [is |-> "missing", entries |-> {}]])
      /\ Unchanged /\ Local /\ UNCHANGED <<cache, lock>>

Answered(c, pc) == call[c].pc = pc /\ call[c].answer # NoAnswer
Child(x, name) == FindChild(x.answer.entries, x.at, name)

Descend(c) ==
  LET x == call[c]
      n == Child(x, x.goal[x.depth + 1])
  IN  /\ Answered(c, "descend")
      /\ IF n = Missing THEN Set(c, [x EXCEPT !.pc = "lost"]) /\ UNCHANGED cache
         ELSE /\ cache' = Stored(cache, SubSeq(x.goal, 1, x.depth + 1), n)
              /\ Set(c, Onward([x EXCEPT !.at = Append(@, n), !.depth = @ + 1]))
      /\ Unchanged /\ Local /\ UNCHANGED lock

\* resolve_cached_dir: once more, without what is cached of the path.
Lost(c) ==
  LET x == call[c]
      k == Evict(cache, SubSeq(x.goal, 1, 1))
  IN  /\ x.pc = "lost"
      /\ IF x.retried THEN Set(c, Absent(x)) /\ UNCHANGED cache
         ELSE /\ cache' = k
              /\ Set(c, FromCache([x EXCEPT !.retried = TRUE], k))
      /\ Unchanged /\ Local /\ UNCHANGED lock

LeafFromCache(c) ==
  LET x == call[c]
      n == IF Cached(cache, x.goal) THEN cache[x.goal] ELSE Child(x, Last(x.goal))
  IN  /\ Answered(c, "leaf")
      /\ IF n = Missing THEN cache' = Evict(cache, x.goal) /\ Set(c, Absent(x))
         ELSE /\ cache' = Stored(cache, x.goal, n)
              /\ Set(c, Found([x EXCEPT !.at = Append(@, n)], cache'))
      /\ Unchanged /\ Local /\ UNCHANGED lock

\* resolve: the last segment is never taken from the cache.
Leaf(c) ==
  LET x == call[c]
      n == Child(x, Last(x.goal))
  IN  /\ Answered(c, "leaf")
      /\ IF n # Missing
         THEN /\ cache' = Stored(cache, x.goal, n)
              /\ Set(c, Found([x EXCEPT !.at = Append(@, n)], cache'))
         ELSE /\ cache' = IF x.answer.is = "ok" THEN Evict(cache, x.goal) ELSE cache
              /\ Set(c, Absent(x))
      /\ Unchanged /\ Local /\ UNCHANGED lock

\* list_dir: every entry goes into the cache.
ListChildren(c) ==
  LET x == call[c]
      Entry(p) == IF Len(p) = Len(x.path) + 1 /\ IsPrefix(x.path, p)
                  THEN Child(x, Last(p)) ELSE Missing
  IN  /\ Answered(c, "children")
      /\ cache' = [p \in Paths |-> IF Entry(p) = Missing THEN cache[p] ELSE Entry(p)]
      /\ Set(c, Return(x, IF x.answer.is = "ok" THEN "ok" ELSE "absent"))
      /\ Unchanged /\ Local /\ UNCHANGED lock

(***************************************************************************)
(* ensure_dir, under the mkdir lock of the data source.                    *)
(***************************************************************************)
EnterUnlocked(c) ==
  LET x == call[c]
  IN  /\ x.pc = "wait" /\ lock' = c
      /\ Set(c, List([x EXCEPT !.at = Root, !.depth = 0], "ensure"))
      /\ Unchanged /\ Local /\ UNCHANGED cache

EnterEnsure(c) ==
  LET x == call[c]
  IN  /\ x.pc = "wait" /\ lock = "free" /\ lock' = c
      /\ Set(c, List([x EXCEPT !.at = Root, !.depth = 0], "ensure"))
      /\ Unchanged /\ Local /\ UNCHANGED cache

EnsureNext(c) ==
  LET x == call[c]
      name == x.goal[x.depth + 1]
      path == SubSeq(x.goal, 1, x.depth + 1)
      n == Child(x, name)
      Go(m) == /\ cache' = Stored(cache, path, m)
               /\ Set(c, Deeper(x, m, cache')) /\ Unlock(Deeper(x, m, cache'))
      Stop(outcome) == Set(c, Return(x, outcome)) /\ lock' = "free" /\ UNCHANGED cache
  IN  /\ Answered(c, "ensure")
      /\ \/ x.answer.is = "missing" /\ Stop("absent") /\ Unchanged
         \/ n # Missing /\ n.dir /\ Go(n) /\ Unchanged
         \/ n # Missing /\ ~n.dir /\ Stop("error") /\ Unchanged
         \/ /\ x.answer.is = "ok" /\ n = Missing
            /\ \E s \in Fresh :
                 LET e == Encoded(x.at, name, TRUE, s)
                 IN  /\ Made(e)
                     /\ Go(Last(e))
      /\ Local

(***************************************************************************)
(* Changes of the storage.                                                 *)
(***************************************************************************)
\* upload_file: the new envelope, filled (UploadPipeline).
Create(c) ==
  LET x == call[c]
  IN  /\ x.pc = "create"
      /\ \E s \in Fresh :
           LET e == Encoded(x.parent, Last(x.path), FALSE, s)
           IN  /\ Made(e)
               /\ cache' = Stored(cache, x.path, Last(e))
               /\ Set(c, Return([x EXCEPT !.at = e], "ok"))
      /\ Local /\ UNCHANGED lock

\* delete_path, and upload_file over an old file; one that is gone is fine.
Discard(c) ==
  LET x == call[c]
  IN  /\ x.pc = "remove"
      /\ disk' = disk \ Subtree(x.at)
      /\ cache' = Evict(cache, x.path)
      /\ Set(c, IF x.op = "delete" THEN Return(x, "ok") ELSE [x EXCEPT !.pc = "create"])
      /\ Local /\ UNCHANGED <<lock, used, came, again>>

\* rename_path: the name anew under the key of its new parent, the secret and
\* with it all that lies below unchanged.
RenamedUnderOldKey(x) == Append(x.parent, [Last(x.from) EXCEPT !.name = Last(x.to)])
Moved(f, from, to) ==
  IF IsPrefix(from, f) THEN to \o SubSeq(f, Len(from) + 1, Len(f)) ELSE f
Renamed(x) == Encoded(x.parent, Last(x.to), IsDir(x.from), Secret(x.from))
Rename(c) ==
  LET x == call[c]
      e == Renamed(x)
      made == WithAncestors(x.parent)
  IN  /\ x.pc = "rename"
      /\ IF x.from \in disk /\ e \notin disk
         THEN /\ disk' = {Moved(f, x.from, e) : f \in made}
              /\ came' = came \cup {Secret(e)}
              /\ cache' = Stored(Evict(cache, x.path), x.to, Last(e))
              /\ Set(c, Return([x EXCEPT !.at = e], "ok"))
         ELSE disk' = made /\ Set(c, Return(x, "error")) /\ UNCHANGED <<cache, came>>
      /\ again' = again \cup {Secret(f) : f \in made \ disk}
      /\ Local /\ UNCHANGED <<lock, used>>

\* A call of the storage fails.
Fail(c) ==
  LET x == call[c]
  IN  /\ \/ x.pc \in Listing /\ x.answer = NoAnswer
         \/ x.pc \in {"create", "remove", "rename"}
      /\ Set(c, IF x.pc \in {"descend", "leaf"} THEN Broken(x) ELSE Return(x, "error"))
      /\ IF x.pc = "ensure" THEN lock' = "free" ELSE UNCHANGED lock
      /\ alone' = FALSE /\ before' = {}
      /\ Unchanged /\ Watched /\ UNCHANGED <<cache, calls>>

\* Another program deletes, or makes a directory or a file where none is.
OthersDelete ==
  \E e \in disk : disk' = disk \ Subtree(e) /\ UNCHANGED <<used, came>>
OthersMake ==
  \E p \in Paths, dir \in BOOLEAN, s \in Fresh, e \in disk \cup {Root} :
    LET f == Encoded(e, Last(p), dir, s)
    IN  /\ IsDir(e) /\ Plain(e) = Front(p)
        /\ Candidates(Children(disk, e), e, Last(p)) = {}
        /\ disk' = disk \cup {f} /\ used' = used \cup {s} /\ came' = came \cup {s}
Others ==
  /\ calls < MaxCalls /\ calls' = calls + 1
  /\ OthersDelete \/ OthersMake
  /\ alone' = FALSE /\ before' = {}
  /\ Watched /\ UNCHANGED <<cache, lock, call, again>>

Init ==
  /\ disk \in Trees
  /\ cache = [p \in Paths |-> Missing] /\ lock = "free"
  /\ call = [c \in Clients |-> Idle]
  /\ used = {Last(e).secret : e \in disk} /\ calls = 0
  /\ alone = TRUE /\ before = Tree(disk) /\ came = {} /\ again = {}
  /\ seen = [c \in Clients |-> Unseen]

Step(c) ==
  \/ Answer(c) \/ Descend(c) \/ Lost(c) \/ Leaf(c) \/ ListChildren(c)
  \/ EnterEnsure(c) \/ EnsureNext(c)
  \/ Create(c) \/ Discard(c) \/ Rename(c) \/ Fail(c)
Quiet == (\A c \in Clients : ~Busy(call[c])) /\ UNCHANGED vars
Next == (\E c \in Clients : Begin(c) \/ Step(c)) \/ Others \/ Quiet

Spec == Init /\ [][Next]_vars
-----------------------------------------------------------------------------
TypeOK ==
  /\ \A e \in disk : \A n \in 1..Len(e) : SubSeq(e, 1, n) \in disk
  /\ \A p \in Paths : Cached(cache, p) => cache[p].name = Last(p)
  /\ lock \in Clients \cup {"free"}
  /\ \A c \in Clients : call[c].pc = "ensure" <=> lock = c
  /\ \A e \in disk : \A n \in 1..Len(e) : e[n].secret \in used \ {0}

(***************************************************************************)
(* files.rs: checking and making a directory exclude each other, "or       *)
(* uploads into one folder would each make their own".  Where two          *)
(* directories share a name, one of them was renamed, was made by another  *)
(* program or made again by the storage; or the storage made the directory *)
(* they are in again, whose secret two directories then had at a time.     *)
(***************************************************************************)
TwinsCame ==
  /\ TypeOK
  /\ \A e, f \in disk :
       e # f /\ IsDir(e) /\ IsDir(f) /\ Front(e) = Front(f) /\ Last(e).name = Last(f).name
         => \/ {Secret(e), Secret(f)} \cap (came \cup again) # {}
            \/ Secret(Front(e)) \in again

(***************************************************************************)
(* vault.rs: the cache is only for speed, the cloud decides.  What a       *)
(* request finds has been at its path while the request was under way,     *)
(* whatever is cached and whoever else renames, deletes and makes.         *)
(***************************************************************************)
FoundWasThere ==
  \A c \in Clients : call[c].op = "read" /\ call[c].outcome = "ok"
                       => call[c].at \in seen[c].ever

(***************************************************************************)
(* As long as no two requests overlap, no call fails and no other program  *)
(* changes the storage, every sequence of operations does exactly what it  *)
(* would on a plain tree, cache or not.                                    *)
(***************************************************************************)
Plainly == INSTANCE DirectoryTree
ExactAlone ==
  [][\A c \in Clients :
       alone' /\ call'[c] # call[c] /\ call'[c].pc = "done" =>
         LET done == call'[c]
         IN  /\ done.outcome = "ok" <=> Plainly!Succeeds(done, before')
             /\ Tree(disk') = IF done.outcome = "ok"
                              THEN Plainly!After(done, before') ELSE before']_vars

(***************************************************************************)
(* files.rs: where a cached ancestor has become stale the whole chain is   *)
(* resolved once more, so a path that has been there all along is found.   *)
(***************************************************************************)
AbsentIsTrue ==
  \A c \in Clients :
    call[c].op = "read" /\ call[c].outcome = "absent"
      => ~seen[c].always
=============================================================================
