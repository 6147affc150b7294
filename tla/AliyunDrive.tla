---------------------------- MODULE AliyunDrive ----------------------------
(***************************************************************************)
(* The Aliyun adapter (adapters/aliyundrive.rs) over PathWalk.  The drive  *)
(* refuses a second object of a name and returns the first; one request    *)
(* moves and renames; a file is a record that becomes listed when its      *)
(* parts are complete.                                                     *)
(***************************************************************************)
EXTENDS PathWalk

\* create with check_name_mode "refuse": an object of that name is returned as it is.
WalkCreate(c) ==
    /\ cur[c].pc = "create"
    /\ LET folder == cur[c].at
           name == Head(cur[c].rest)
           old == Child(tree, folder, name)
       IN  \/ old # Nil /\ Learn(c, old) /\ UNCHANGED tree
           \/ old = Nil /\ \E id \in Fresh(tree) :
                 /\ tree' = [tree EXCEPT ![id] = [st |-> "live", up |-> folder, name |-> name,
                                                  kind |-> "dir", parts |-> {}]]
                 /\ \/ Learn(c, id)
                    \/ Set(c, Failed(cur[c])) /\ UNCHANGED <<pathIds, doubt, begun, links>>

Walk(c) == WalkHit(c) \/ WalkLook(c) \/ WalkFound(c) \/ WalkCreate(c)

\* One request renames or moves, or does both.
Move(c) ==
    LET id == cur[c].id IN
    /\ cur[c].pc = "move" /\ Live(id) /\ IsDir(tree, cur[c].at)
    /\ Child(tree, cur[c].at, Last(cur[c].to)) = Nil
    /\ tree' = [tree EXCEPT ![id].up = cur[c].at, ![id].name = Last(cur[c].to)]
    /\ Set(c, [cur[c] EXCEPT !.pc = "evict", !.changed = TRUE])
    /\ UNCHANGED <<pathIds, doubt, begun, links>>

(***************************************************************************)
(* put_sized_tracked: the old object goes first, then the new record is    *)
(* made, its parts are sent and it is completed.                           *)
(***************************************************************************)
\* create_file: the record of an upload, or the whole file when the drive has the content.
CreateFile(c, id, st) ==
    /\ id \in Fresh(tree)
    /\ tree' = [tree EXCEPT ![id] = [st |-> st, up |-> cur[c].at, name |-> Last(cur[c].path),
                                     kind |-> "file", parts |-> IF st = "live" THEN AllParts ELSE {}]]

PutCreate(c) ==
    /\ cur[c].pc = "new" /\ IsDir(tree, cur[c].at)
    /\ Child(tree, cur[c].at, Last(cur[c].path)) = Nil
    /\ \E st \in {"live", "pending"}, id \in Ids :
         /\ CreateFile(c, id, st)
         /\ Set(c, [cur[c] EXCEPT !.id = id, !.pc = "made", !.changed = TRUE])
    /\ UNCHANGED <<pathIds, doubt, begun, links>>

PutMade(c) ==
    /\ cur[c].pc = "made"
    /\ pathIds' = Without(pathIds, {cur[c].path})
    /\ LET call == [cur[c] EXCEPT !.changed = FALSE] IN
       Set(c, IF tree[call.id].st = "live" THEN [call EXCEPT !.pc = "ok"]
              ELSE IF call.how = "rapid" THEN [call EXCEPT !.pc = "unmake"]
              ELSE IF Parts = 0 THEN [call EXCEPT !.pc = "complete"]
              ELSE [call EXCEPT !.pc = "parts", !.part = 1, !.try = 1])
    /\ UNCHANGED <<tree, doubt, begun, links>>

\* One attempt at one part.  A part already there answers 409, which counts as sent.
SendPart(c) ==
    LET call == cur[c] IN
    /\ call.pc = "parts"
    /\ \E stored, answered \in BOOLEAN :
         /\ answered => stored \/ call.part \in tree[call.id].parts
         /\ tree' = IF stored THEN [tree EXCEPT ![call.id].parts = @ \cup {call.part}] ELSE tree
         /\ Set(c, IF answered THEN PartSent(call, "complete") ELSE PartFailed(call))
    /\ UNCHANGED <<pathIds, doubt, begun, links>>

\* The answer may be lost: the file is there, the request fails all the same.
Complete(c) ==
    /\ cur[c].pc = "complete"
    /\ tree' = [tree EXCEPT ![cur[c].id].st = "live"]
    /\ \E reply \in {"ok", "failed"} : Set(c, [cur[c] EXCEPT !.pc = reply])
    /\ UNCHANGED <<pathIds, doubt, begun, links>>

(***************************************************************************)
(* copy_object onto this drive: a precheck on the first kilobyte, then an  *)
(* instant transfer, then the real upload.  Whatever record the precheck   *)
(* is given, it throws away.                                               *)
(***************************************************************************)
Precheck(c) ==
    LET old == Child(tree, cur[c].at, Last(cur[c].path))
        rapid == WalkTo([cur[c] EXCEPT !.how = "rapid"], "old", Front(cur[c].path), TRUE)
    IN
    /\ cur[c].pc = "precheck" /\ IsDir(tree, cur[c].at)
    /\ \/ OnlyCall(c, rapid)
       \/ old # Nil /\ OnlyCall(c, [cur[c] EXCEPT !.id = old, !.pc = "unmake"])
       \/ /\ old = Nil
          /\ \E id \in Ids : /\ CreateFile(c, id, "pending")
                             /\ Set(c, [cur[c] EXCEPT !.id = id, !.pc = "unmake"])
          /\ UNCHANGED <<pathIds, doubt, begun, links>>

\* The record is trashed, and a failure to do so is ignored.
Unmake(c) ==
    LET call == cur[c] IN
    /\ call.pc = "unmake"
    /\ \/ tree' = [tree EXCEPT ![call.id].st = "gone"]
       \/ tree' = tree
    /\ Set(c, Failed(call))
    /\ doubt' = IF Live(call.id) THEN doubt \cup Changes(call) ELSE doubt
    /\ UNCHANGED <<pathIds, begun, links>>

Put(c) == \/ PutLook(c) \/ RemoveOld(c) \/ PutCreate(c) \/ PutMade(c) \/ SendPart(c)
          \/ Complete(c) \/ Precheck(c) \/ Unmake(c)

Work(c) == \/ Walk(c) \/ List(c) \/ Stat(c) \/ Link(c) \/ Fetch(c) \/ Trash(c) \/ Move(c) \/ Evict(c) \/ Put(c)
           \/ RequestFails(c) \/ Reply(c)

\* copy_object asks the drive for the content before it sends it.
Start(c, call) ==
    Begin(c, call, IF call.op = "copy"
                   THEN WalkTo([call EXCEPT !.how = "precheck"], "precheck", Front(call.path), TRUE)
                   ELSE FirstWalk(call))

Next ==
    \/ \E c \in Calls, op \in Ops, s \in Sources, path \in Paths, to \in Paths :
          Start(c, Request(op, s, path, to))
    \/ \E c \in Calls : Work(c)
    \/ \E p \in doubt : DoubtEnds(p)

Spec == Init /\ [][Next]_vars
=============================================================================
