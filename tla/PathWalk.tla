------------------------------ MODULE PathWalk ------------------------------
(***************************************************************************)
(* How the adapters of drives with ids (aliyundrive.rs, quark.rs) get from *)
(* a path to an object: folder by folder from the top, remembering every   *)
(* id met on the way for five minutes in PATH_IDS, which all requests of   *)
(* the process share; and what they do with the object they arrive at.     *)
(* The two adapters are written alike here, and AliyunDrive and QuarkDrive *)
(* add what differs: making a folder, moving and writing.                  *)
(*                                                                         *)
(* Calls are handlers that run at the same time; each await is a step      *)
(* boundary.  Any request may fail before it takes effect, and the answer  *)
(* to one that did may be lost.  Calls begin only while they keep apart    *)
(* from the paths a running call changes, and from those whose last change *)
(* was never confirmed: what happens otherwise is a listed hazard.         *)
(***************************************************************************)
EXTENDS RemoteTree

CONSTANTS Calls,      \* the requests that may run at the same time
          Sources,    \* data sources of one account and one drive
          RootOf(_),  \* the configured root of a source, a path from the top
          Paths,      \* the paths requests name, within a source
          Names,      \* the names a folder may hold
          Planted,    \* what the drive holds when the program starts
          Ids,        \* the ids the drive may hand out
          Parts,      \* the parts of an upload
          Ops,        \* the operations requests perform
          MaxCalls    \* bound on the number of requests

\* A path is requested only when the one above it may be.
ASSUME SourcesAssumption ==
    /\ Sources # {} /\ \A s \in Sources : RootOf(s) \in Seq(Range(RootOf(s)))
    /\ Paths \subseteq Seq(Names) /\ <<>> \in Paths
    /\ \A p \in Paths : p # <<>> => Front(p) \in Paths
ASSUME IdsAssumption == Ids \subseteq Nat \ {Nil} /\ Top \in Ids
ASSUME PartsAssumption == Parts \in Nat
ASSUME RequestsAssumption ==
    Ops \subseteq {"list", "get", "mkdir", "delete", "rename", "put", "copy"} /\ MaxCalls \in Nat

VARIABLES tree,      \* what the drive holds
          pathIds,   \* PATH_IDS: the id remembered for a path
          links,     \* DOWNLOAD_URLS: the ids whose download link is remembered
          cur,       \* the state of each request
          doubt,     \* whole paths whose last change was never confirmed
          begun      \* how many requests have begun

vars == <<tree, pathIds, links, cur, doubt, begun>>

AllParts == 1..Parts
ASSUME PlantedAssumption == Planted \in [Ids -> Range(Planted)] /\ WellKept(Planted, AllParts)

MaxTries == 3
Keys == Paths \cup UNION {{SubSeq(RootOf(s), 1, n) : n \in 1..Len(RootOf(s))} : s \in Sources}

Idle == [pc |-> "idle", op |-> "list", src |-> CHOOSE s \in Sources : TRUE,
         path |-> <<>>, to |-> <<>>, leg |-> "root", goal |-> "list", dest |-> <<>>,
         create |-> FALSE, at |-> Nil, pre |-> <<>>, rest |-> <<>>, kid |-> Nil,
         id |-> Nil, part |-> 1, try |-> 1, how |-> "put", changed |-> FALSE]

(***************************************************************************)
(* Which paths a request changes and which it goes through.                *)
(***************************************************************************)
Whole(call, path) == RootOf(call.src) \o path
Running(call) == call.pc # "idle"

\* An object that moves to another folder before it is renamed passes through its
\* old name in the new folder.
Between(call) == Append(Front(call.to), Last(call.path))

Changes(call) ==
    CASE call.op \in {"delete", "put", "copy"} -> {Whole(call, call.path)}
      [] call.op = "rename" -> {Whole(call, p) : p \in {call.path, Between(call), call.to}}
      [] OTHER -> {}

Uses(call) == {Whole(call, call.path), Whole(call, call.to)} \cup
              (IF call.op = "list" THEN {Whole(call, Append(call.path, n)) : n \in Names} ELSE {})

KeepsClear(changed, used) == \A p \in changed, q \in used : ~IsPrefix(p, q)

Apart(call, other) == /\ KeepsClear(Changes(call), Uses(other))
                      /\ KeepsClear(Changes(other), Uses(call))

\* The object a path of the request names now.
Named(call, path) == ObjectAt(tree, Top, Whole(call, path))

(***************************************************************************)
(* folder_id: from the top through the source's root, which is created on  *)
(* demand, and then through the path.  Both legs remember ids under the    *)
(* path they have walked, without the root.                                *)
(***************************************************************************)
\* With no segment left the walk goes from the root to the path, or is over.
Onward(call) ==
    LET path == [call EXCEPT !.leg = "path", !.pre = <<>>, !.rest = call.dest] IN
    IF call.rest # <<>> THEN call
    ELSE IF call.leg = "root" /\ call.dest # <<>> THEN path
    ELSE [path EXCEPT !.rest = <<>>, !.pc = call.goal]

\* Mutant: the configured root is left out.
WalkFromTop(call, goal, path, create) ==
    Onward([call EXCEPT !.pc = "walk", !.leg = "root", !.at = Top, !.pre = <<>>,
                        !.rest = <<>>, !.goal = goal, !.dest = path, !.create = create])

WalkTo(call, goal, path, create) ==
    Onward([call EXCEPT !.pc = "walk", !.leg = "root", !.at = Top, !.pre = <<>>,
                        !.rest = RootOf(call.src), !.goal = goal, !.dest = path,
                        !.create = create])

\* What the layer above has made sure of before it calls the adapter.
Sensible(call) ==
    /\ call.op # "list" => call.path # <<>>
    /\ call.op = "rename" => /\ call.to # <<>>
                             /\ ~Related(call.path, call.to)
                             /\ Named(call, call.to) = Nil
    /\ call.op # "rename" => call.to = call.path
    /\ call.op = "mkdir" => Named(call, call.path) = Nil \/ IsDir(tree, Named(call, call.path))

Request(op, s, path, to) == [Idle EXCEPT !.op = op, !.src = s, !.path = path, !.to = to]

\* The operation walks to its folder, or to the folder its object lies in.
FirstWalk(call) ==
    CASE call.op = "list"           -> WalkTo(call, "list", call.path, FALSE)
      [] call.op = "mkdir"          -> WalkTo(call, "ok", call.path, TRUE)
      [] call.op \in {"put", "copy"} -> WalkTo(call, "old", Front(call.path), TRUE)
      [] OTHER                      -> WalkTo(call, "stat", Front(call.path), FALSE)

Begin(c, call, walk) ==
    /\ cur[c].pc = "idle"
    /\ begun < MaxCalls
    /\ Sensible(call)
    /\ \A d \in Calls : Running(cur[d]) => Apart(call, cur[d])
    /\ KeepsClear(doubt, Uses(call))
    /\ cur' = [cur EXCEPT ![c] = walk]
    /\ begun' = begun + 1
    /\ UNCHANGED <<tree, pathIds, doubt, links>>

Live(id) == id # Nil /\ tree[id].st = "live"

Set(c, call) == cur' = [cur EXCEPT ![c] = call]
OnlyCall(c, call) == Set(c, call) /\ UNCHANGED <<tree, pathIds, doubt, begun, links>>

\* A failed attempt at an instant transfer falls back to the real upload.
Failed(call) ==
    IF call.how = "put" THEN [call EXCEPT !.pc = "failed"]
    ELSE WalkTo([call EXCEPT !.how = "put"], "old", Front(call.path), TRUE)

GiveUp(c) ==
    /\ Set(c, Failed(cur[c]))
    /\ doubt' = IF cur[c].changed THEN doubt \cup Changes(cur[c]) ELSE doubt
    /\ UNCHANGED <<tree, pathIds, begun, links>>

Key(call) == Append(call.pre, Head(call.rest))
Step(call, id) == Onward([call EXCEPT !.pc = "walk", !.at = id, !.pre = Key(call),
                                      !.rest = Tail(call.rest)])

WalkHit(c) ==
    /\ cur[c].pc = "walk" /\ pathIds[Key(cur[c])] # Nil
    /\ OnlyCall(c, Step(cur[c], pathIds[Key(cur[c])]))

\* find_child lists the folder; the answer is used after the await.
WalkLook(c) ==
    /\ cur[c].pc = "walk" /\ pathIds[Key(cur[c])] = Nil
    /\ IsDir(tree, cur[c].at)
    /\ OnlyCall(c, [cur[c] EXCEPT !.pc = "looked",
                                  !.kid = Child(tree, cur[c].at, Head(cur[c].rest))])

Learn(c, id) ==
    /\ pathIds' = [pathIds EXCEPT ![Key(cur[c])] = id]
    /\ Set(c, Step(cur[c], id))
    /\ UNCHANGED <<doubt, begun, links>>

WalkFound(c) ==
    /\ cur[c].pc = "looked"
    /\ LET kid == cur[c].kid IN
       \/ IsDir(tree, kid) /\ Learn(c, kid) /\ UNCHANGED tree
       \/ kid # Nil /\ ~IsDir(tree, kid) /\ GiveUp(c)
       \/ kid = Nil /\ ~cur[c].create /\ cur[c].leg = "path" /\ GiveUp(c)
       \/ /\ kid = Nil /\ (cur[c].create \/ cur[c].leg = "root")
          /\ OnlyCall(c, [cur[c] EXCEPT !.pc = "create"])

(***************************************************************************)
(* list, and stat for the operations on one object.                        *)
(***************************************************************************)
\* list_folder remembers the id of every entry, of the files too.
List(c) ==
    /\ cur[c].pc = "list" /\ IsDir(tree, cur[c].at)
    /\ LET kids == Children(tree, cur[c].at)
           key(i) == Append(cur[c].path, tree[i].name)
       IN  pathIds' = [k \in Keys |-> IF \E i \in kids : key(i) = k
                                      THEN CHOOSE i \in kids : key(i) = k ELSE pathIds[k]]
    /\ Set(c, [cur[c] EXCEPT !.pc = "ok"])
    /\ UNCHANGED <<tree, doubt, begun, links>>

Stat(c) ==
    /\ cur[c].pc = "stat" /\ IsDir(tree, cur[c].at)
    /\ LET kid == Child(tree, cur[c].at, Last(cur[c].path))
           found == [cur[c] EXCEPT !.id = kid]
       IN  \/ kid = Nil /\ GiveUp(c)
           \/ IsDir(tree, kid) /\ cur[c].op = "get" /\ GiveUp(c)
           \/ /\ kid # Nil /\ ~IsDir(tree, kid) /\ cur[c].op = "get"
              /\ OnlyCall(c, [found EXCEPT !.pc = "link"])
           \/ kid # Nil /\ cur[c].op = "delete" /\ OnlyCall(c, [found EXCEPT !.pc = "trash"])
           \/ /\ kid # Nil /\ cur[c].op = "rename"
              /\ OnlyCall(c, IF Front(cur[c].path) = Front(cur[c].to)
                             THEN [found EXCEPT !.pc = "move", !.at = cur[c].at]
                             ELSE WalkTo(found, "move", Front(cur[c].to), TRUE))

\* download_url and the read itself: a link that does not serve is forgotten.
Link(c) ==
    /\ cur[c].pc = "link" /\ (cur[c].id \in links \/ Live(cur[c].id))
    /\ links' = links \cup {cur[c].id}
    /\ Set(c, [cur[c] EXCEPT !.pc = "fetch"])
    /\ UNCHANGED <<tree, pathIds, doubt, begun>>

Fetch(c) ==
    /\ cur[c].pc = "fetch"
    /\ \/ OnlyCall(c, [cur[c] EXCEPT !.pc = "ok"])
       \/ /\ links' = links \ {cur[c].id}
          /\ Set(c, [cur[c] EXCEPT !.pc = "failed"])
          /\ UNCHANGED <<tree, pathIds, doubt, begun>>

Trash(c) ==
    /\ cur[c].pc = "trash" /\ Live(cur[c].id)
    /\ tree' = [tree EXCEPT ![cur[c].id].st = "gone"]
    /\ Set(c, [cur[c] EXCEPT !.pc = "evict", !.changed = TRUE])
    /\ UNCHANGED <<pathIds, doubt, begun, links>>

\* Mutants: only the path itself is forgotten; nothing is.
ForgetExactly(keys, gone) == [k \in Keys |-> IF k \in gone THEN Nil ELSE keys[k]]
ForgetNothing(keys, gone) == keys

\* evict_path_ids: the path and everything below it.
Without(keys, gone) == [k \in Keys |-> IF \E p \in gone : Under(k, p) THEN Nil ELSE keys[k]]

Evict(c) ==
    /\ cur[c].pc = "evict"
    /\ pathIds' = Without(pathIds, {cur[c].path, cur[c].to})
    /\ Set(c, [cur[c] EXCEPT !.pc = "ok", !.changed = FALSE])
    /\ UNCHANGED <<tree, doubt, begun, links>>

(***************************************************************************)
(* A write first removes the object that has the name.                     *)
(***************************************************************************)
PutLook(c) ==
    /\ cur[c].pc = "old" /\ IsDir(tree, cur[c].at)
    /\ LET kid == Child(tree, cur[c].at, Last(cur[c].path)) IN
       OnlyCall(c, [cur[c] EXCEPT !.kid = kid, !.pc = IF kid = Nil THEN "new" ELSE "removeOld"])

RemoveOld(c) ==
    /\ cur[c].pc = "removeOld" /\ Live(cur[c].kid)
    /\ tree' = [tree EXCEPT ![cur[c].kid].st = "gone"]
    /\ Set(c, [cur[c] EXCEPT !.pc = "new", !.changed = TRUE])
    /\ UNCHANGED <<pathIds, doubt, begun, links>>

\* Mutant: a part that failed three times is passed over.
PassOver(call) == IF call.try < MaxTries THEN [call EXCEPT !.try = @ + 1]
                  ELSE [call EXCEPT !.pc = "complete"]

\* The loop over the parts of an upload, three attempts at each.
LastPart(call) == call.part = Parts
PartFailed(call) == IF call.try < MaxTries THEN [call EXCEPT !.try = @ + 1]
                    ELSE [call EXCEPT !.pc = "failed"]
PartSent(call, next) == IF LastPart(call) THEN [call EXCEPT !.pc = next]
                        ELSE [call EXCEPT !.part = @ + 1, !.try = 1]

(***************************************************************************)
(* What the network and the clock do.                                      *)
(***************************************************************************)
Settled == {"idle", "looked", "fetch", "unmake", "ok", "failed"}

\* A request is refused or never arrives, or the answer to a change is lost; an
\* upload whose links cannot be renewed or whose spool cannot be read ends too.
RequestFails(c) ==
    /\ cur[c].pc \notin Settled
    /\ GiveUp(c)

Reply(c) ==
    /\ cur[c].pc \in {"ok", "failed"}
    /\ Set(c, Idle)
    /\ UNCHANGED <<tree, pathIds, doubt, begun, links>>

\* Five minutes after an unconfirmed change nothing remembered under it is left.
DoubtEnds(p) ==
    /\ p \in doubt
    /\ \A c \in Calls : ~Running(cur[c])
    /\ doubt' = doubt \ {p}
    /\ pathIds' = [k \in Keys |-> IF \E s \in Sources : Under(RootOf(s) \o k, p)
                                  THEN Nil ELSE pathIds[k]]
    /\ UNCHANGED <<tree, cur, begun, links>>

\* The object a remembered path is meant to be: counted from the top on the
\* way to the root, from the root below it.
Meant(s, k) == IF IsPrefix(k, RootOf(s)) THEN ObjectAt(tree, Top, k)
               ELSE ObjectAt(tree, Top, RootOf(s) \o k)

\* The process may have just started, or have listed every folder before.
Init ==
    /\ tree = Planted
    /\ pathIds \in {[k \in Keys |-> Nil],
                     [k \in Keys |-> Meant(CHOOSE s \in Sources : TRUE, k)]}
    /\ cur = [c \in Calls |-> Idle]
    /\ links = {}
    /\ doubt = {}
    /\ begun = 0

-----------------------------------------------------------------------------
TypeOK ==
    /\ \A i \in Ids : /\ tree[i].st \in States /\ tree[i].kind \in Kinds
                      /\ tree[i].up \in Ids \cup {Nil} /\ tree[i].parts \subseteq AllParts
    /\ pathIds \in [Keys -> Ids \cup {Nil}]
    /\ \A c \in Calls : /\ cur[c].op \in Ops \cup {"list"} /\ cur[c].path \in Paths
                        /\ cur[c].part \in 1..(Parts + 1) /\ cur[c].try \in 1..MaxTries
    /\ links \subseteq Ids
    /\ begun \in 0..MaxCalls

\* Every id remembered in PATH_IDS is the object its path names now, except at
\* and below a path somebody is changing or whose change was never confirmed
\* (evict_path_ids after rename, delete and put; the inserts of list_folder
\* and folder_id_from).
CacheTrue == TypeOK /\
    \A s \in Sources, k \in Keys :
        pathIds[k] # Nil =>
            \/ pathIds[k] = Meant(s, k)
            \/ \E p \in doubt \cup UNION {Changes(cur[c]) : c \in {d \in Calls : cur[d].changed}} :
                  Under(RootOf(s) \o k, p)

\* The id a call is about to trash, move or rename is the object its path
\* names in its own data source (stat, then trash or move, in delete and rename).
ActsOnNamed ==
    \A c \in Calls : cur[c].pc \in {"trash", "move"} =>
        cur[c].id = Named(cur[c], cur[c].path)

\* A call that answers Ok has done what it was asked: the folder is there, the
\* deleted object is not, the renamed one is the same object at its new path,
\* the file read is the one the path names, and the written file is this
\* call's file with every part of it.
OkIsDone ==
    \A c \in Calls : cur[c].pc = "ok" =>
        LET call == cur[c] IN
        CASE call.op = "mkdir"  -> IsDir(tree, Named(call, call.path))
          [] call.op = "delete" -> Named(call, call.path) = Nil
          [] call.op = "rename" -> /\ Named(call, call.path) = Nil
                                   /\ Named(call, call.to) = call.id
          [] call.op = "get" -> Named(call, call.path) = call.id
          [] call.op \in {"put", "copy"} -> /\ Named(call, call.path) = call.id
                                            /\ tree[call.id].parts = AllParts
          [] OTHER -> TRUE

\* A file that can be listed has all its parts: complete is never sent early,
\* whatever was lost and sent again (upload_parts).
ListedIsWhole ==
    \A i \in Ids : tree[i].st = "live" /\ tree[i].kind = "file" => tree[i].parts = AllParts

FullPaths == (UNION {{RootOf(s) \o p : p \in Paths} : s \in Sources}) \cup Keys

\* No step changes what a path names unless a running call was asked to change
\* that path or one above it, or creates a folder on its own way
\* (folder_id_from with create, and the ids the operations act on).
TouchesOnlyItsPaths ==
    [][\A p \in FullPaths :
          LET old == ObjectAt(tree, Top, p)
              new == ObjectAt(tree', Top, p)
          IN  old # new =>
              \E c \in Calls :
                 \/ \E q \in Changes(cur[c]) : Under(p, q)
                 \/ /\ old = Nil /\ new # Nil /\ tree'[new].kind = "dir"
                    /\ \E q \in Uses(cur[c]) : Under(q, p)]_vars
=============================================================================
