----------------------------- MODULE QuarkDrive -----------------------------
(***************************************************************************)
(* The Quark adapter (adapters/quark.rs) over PathWalk.  A folder may not  *)
(* be listed at once after it was made; a rename into another folder is a  *)
(* move and then a rename; a file is an upload task that enters the tree   *)
(* when it is finished.                                                    *)
(***************************************************************************)
EXTENDS PathWalk

(***************************************************************************)
(* create_folder: the answer names the new folder, or does not, or says    *)
(* that the name is taken.  In the last two cases the folder is looked up  *)
(* a second later, and may not be listed yet.                              *)
(***************************************************************************)
WalkCreate(c) ==
    /\ cur[c].pc = "create"
    /\ LET old == Child(tree, cur[c].at, Head(cur[c].rest))
           again == [cur[c] EXCEPT !.pc = "again"]
       IN  \/ old # Nil /\ OnlyCall(c, again)
           \/ old = Nil /\ \E id \in Fresh(tree) :
                 /\ tree' = [tree EXCEPT ![id] = [st |-> "live", up |-> cur[c].at, kind |-> "dir",
                                                  name |-> Head(cur[c].rest), parts |-> {}]]
                 /\ \/ Learn(c, id)
                    \/ /\ \E next \in {again, Failed(cur[c])} : Set(c, next)
                       /\ UNCHANGED <<pathIds, doubt, begun, links>>

LookAgain(c) ==
    /\ cur[c].pc = "again"
    /\ LET kid == Child(tree, cur[c].at, Head(cur[c].rest)) IN
       kid # Nil /\ Learn(c, kid) /\ UNCHANGED tree

Walk(c) == WalkHit(c) \/ WalkLook(c) \/ WalkFound(c) \/ WalkCreate(c) \/ LookAgain(c)

(***************************************************************************)
(* rename: a move cannot change the name, so there may be two requests and *)
(* an object that has moved but not been renamed between them.             *)
(***************************************************************************)
Moved(call) == Front(call.path) # Front(call.to)

MoveOver(c) ==
    LET id == cur[c].id
        name == Last(cur[c].path)
    IN
    /\ cur[c].pc = "move" /\ Moved(cur[c]) /\ Live(id) /\ IsDir(tree, cur[c].at)
    /\ tree[id].up # cur[c].at /\ Child(tree, cur[c].at, name) = Nil
    /\ tree' = [tree EXCEPT ![id].up = cur[c].at]
    /\ Set(c, [cur[c] EXCEPT !.changed = TRUE,
                             !.pc = IF Last(cur[c].to) = name THEN "evict" ELSE "rename"])
    /\ UNCHANGED <<pathIds, doubt, begun, links>>

Rename(c) ==
    LET id == cur[c].id IN
    /\ cur[c].pc = IF Moved(cur[c]) THEN "rename" ELSE "move"
    /\ Live(id) /\ Child(tree, tree[id].up, Last(cur[c].to)) = Nil
    /\ tree' = [tree EXCEPT ![id].name = Last(cur[c].to)]
    /\ Set(c, [cur[c] EXCEPT !.pc = "evict", !.changed = TRUE])
    /\ UNCHANGED <<pathIds, doubt, begun, links>>

(***************************************************************************)
(* put_sized_tracked: the old object goes first; up_pre opens an upload    *)
(* task, which is no object yet; up_hash may finish it at once; else every *)
(* part is sent, up_commit joins them and up_finish puts the file in its   *)
(* folder.  rapid_put is the same without the parts.                       *)
(***************************************************************************)
UpPre(c) ==
    /\ cur[c].pc = "new" /\ IsDir(tree, cur[c].at)
    /\ \E id \in Fresh(tree) :
         /\ tree' = [tree EXCEPT ![id] = [st |-> "pending", up |-> cur[c].at, kind |-> "file",
                                          name |-> Last(cur[c].path), parts |-> {}]]
         /\ \/ /\ Set(c, [cur[c] EXCEPT !.id = id, !.pc = "hash", !.changed = FALSE])
               /\ pathIds' = Without(pathIds, {cur[c].path})
               /\ UNCHANGED doubt
            \/ /\ Set(c, Failed(cur[c]))
               /\ doubt' = IF cur[c].changed THEN doubt \cup Changes(cur[c]) ELSE doubt
               /\ UNCHANGED pathIds
    /\ UNCHANGED <<begun, links>>

\* The task ends in a listed file: known content, or all parts joined.
Attach(c, parts) ==
    /\ Child(tree, tree[cur[c].id].up, Last(cur[c].path)) = Nil
    /\ tree' = [tree EXCEPT ![cur[c].id].st = "live", ![cur[c].id].parts = parts]
    /\ \E reply \in {[cur[c] EXCEPT !.pc = "ok"], Failed(cur[c])} : Set(c, reply)
    /\ UNCHANGED <<pathIds, doubt, begun, links>>

UpHash(c) ==
    /\ cur[c].pc = "hash"
    /\ \/ Attach(c, AllParts)
       \/ OnlyCall(c, IF cur[c].how = "rapid" THEN Failed(cur[c])
                      ELSE [cur[c] EXCEPT !.pc = "parts", !.part = 1, !.try = 1])

\* Signing and sending one part; a part is sent again from the start when either fails.
UpPart(c) ==
    LET call == cur[c] IN
    /\ call.pc = "parts"
    /\ \E stored, answered \in BOOLEAN :
         /\ answered => stored
         /\ tree' = IF stored THEN [tree EXCEPT ![call.id].parts = @ \cup {call.part}] ELSE tree
         /\ Set(c, IF answered THEN PartSent(call, "commit") ELSE PartFailed(call))
    /\ UNCHANGED <<pathIds, doubt, begun, links>>

UpCommit(c) == cur[c].pc = "commit" /\ OnlyCall(c, [cur[c] EXCEPT !.pc = "finish"])

UpFinish(c) == cur[c].pc = "finish" /\ Attach(c, tree[cur[c].id].parts)

Put(c) == \/ PutLook(c) \/ RemoveOld(c) \/ UpPre(c) \/ UpHash(c) \/ UpPart(c)
          \/ UpCommit(c) \/ UpFinish(c)

Work(c) == \/ Walk(c) \/ List(c) \/ Stat(c) \/ Link(c) \/ Fetch(c) \/ Trash(c) \/ MoveOver(c) \/ Rename(c) \/ Evict(c)
           \/ Put(c) \/ RequestFails(c) \/ Reply(c)

\* copy_object has no precheck here: it goes to the instant transfer.
Start(c, call) ==
    Begin(c, call, FirstWalk(IF call.op = "copy" THEN [call EXCEPT !.how = "rapid"] ELSE call))

Next ==
    \/ \E c \in Calls, op \in Ops, s \in Sources, path \in Paths, to \in Paths :
          Start(c, Request(op, s, path, to))
    \/ \E c \in Calls : Work(c)
    \/ \E p \in doubt : DoubtEnds(p)

Spec == Init /\ [][Next]_vars
=============================================================================
