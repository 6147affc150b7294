--------------------------- MODULE UploadPipeline ---------------------------
(***************************************************************************)
(* Writing a managed file (upload_file in routes/files.rs and              *)
(* upload_stream_planned in engine.rs): an envelope directory is made, the *)
(* body is encrypted and cut into volumes, each volume is one put whose    *)
(* response is awaited late, so that a few puts overlap; on failure the    *)
(* directory is deleted.  A reader may look at any time: it lists the      *)
(* leaves up to the first gap and compares their total with the size the   *)
(* envelope declares (load_layout, check_layout_total).                    *)
(* A data unit is its offset in the file, a header unit is -1.             *)
(***************************************************************************)
EXTENDS Integers, Sequences, FiniteSets

CONSTANTS
  Files,        \* uploads: declared size and volume settings
  MaxItem,      \* largest body item, in units
  MaxPending    \* MAX_PENDING_UPLOADS

VARIABLES
  file,         \* the upload: settings and the volume plan made for it
  folder,       \* the envelope directory exists
  objects,      \* volumes that have an object in it
  stored,       \* the units of each object
  vol,          \* vol_idx
  sent,         \* sent_in_vol
  received,     \* units of the body read so far
  item,         \* units of the item in hand not yet written
  current,      \* the volume being written, 0 if none
  chan,         \* units sent to each volume's put
  eof,          \* its channel has been closed
  put,          \* the put task of each volume
  pending,      \* sealed volumes whose response is awaited
  pc,
  result        \* "open", then "ok", "error" or "abandoned"

cloud == <<folder, objects, stored>>
progress == <<vol, sent, received, item, current>>
puts == <<chan, eof, put>>
vars == <<file, cloud, progress, puts, pending, pc, result>>

(***************************************************************************)
(* volume_plan: the cuts a file of this size may get.                      *)
(***************************************************************************)
Lower(a, b) == IF a < b THEN a ELSE b
Higher(a, b) == IF a > b THEN a ELSE b
SumTo(s, n) ==
  LET sum[i \in 0..n] == IF i = 0 THEN 0 ELSE sum[i - 1] + s[i] IN sum[n]
SumOf(s) == SumTo(s, Len(s))

DataLimit(f) == Higher(f.max - f.header, 1)
VolumePlans(f) ==
  LET limit == DataLimit(f)
      count == (f.total + limit - 1) \div limit
      slack == count * limit - f.total
  IN  IF f.total = 0 THEN {<<>>}
      ELSE IF ~f.split THEN {<<f.total>>}
      ELSE IF ~f.random \/ count <= 1
      THEN {[i \in 1..count |-> Lower(limit, f.total - (i - 1) * limit)]}
      ELSE {[i \in 1..count |-> limit - d[i]] :
              d \in {e \in [1..count -> 0..slack] : SumOf(e) = slack}}

N == Len(file.plan)
Volumes == 1..N
HeaderUnits == [i \in 1..file.header |-> -1]
Prefixes(s) == {SubSeq(s, 1, n) : n \in 0..Len(s)}
Unfinished == {v \in Volumes : put[v] = "running"}

\* Sealing a volume: its channel is closed and its handle joins the pending.
SealedOpen(e, v) == e
Sealed(e, v) == IF v = 0 THEN e ELSE [e EXCEPT ![v] = TRUE]
WithCurrent == pending \cup ({current} \ {0})

\* Every error path seals the volume in hand and awaits every put.
FailAtOnce == pc' = "cleanup" /\ UNCHANGED <<eof, pending, current>>
Fail ==
  /\ eof' = Sealed(eof, current)
  /\ pending' = WithCurrent
  /\ current' = 0
  /\ pc' = "fail"

MakeFolder ==
  /\ pc = "mkdir"
  /\ \/ folder' = TRUE /\ pc' = IF file.total = 0 THEN "waitall" ELSE "next"
     \/ folder' \in BOOLEAN /\ pc' = "cleanup"
  /\ UNCHANGED <<file, objects, stored, progress, puts, pending, result>>

(***************************************************************************)
(* The body: an item, an error, or its end.                                *)
(***************************************************************************)
BodyItem(n) ==
  /\ pc = "next"
  /\ received' = received + n
  /\ IF received + n > file.total
     THEN Fail /\ UNCHANGED item
     ELSE /\ item' = [i \in 1..n |-> received + i - 1]
          /\ pc' = "write"
          /\ UNCHANGED <<eof, pending, current>>
  /\ UNCHANGED <<file, cloud, vol, sent, chan, put, result>>

BodyError ==
  /\ pc = "next" /\ Fail
  /\ UNCHANGED <<file, cloud, vol, sent, received, item, chan, put, result>>

BodyEnd ==
  /\ pc = "next"
  /\ IF received # file.total THEN Fail
     ELSE /\ eof' = Sealed(eof, current) /\ pending' = WithCurrent
          /\ current' = 0
          /\ pc' = "waitall"
  /\ UNCHANGED <<file, cloud, vol, sent, received, item, chan, put, result>>

(***************************************************************************)
(* The item is cut at volume ends.                                         *)
(***************************************************************************)
OpenVolume ==
  /\ pc = "write" /\ item # <<>> /\ current = 0
  /\ current' = vol
  /\ sent' = 0
  /\ chan' = [chan EXCEPT ![vol] = HeaderUnits]
  /\ put' = [put EXCEPT ![vol] = "running"]
  /\ UNCHANGED <<file, cloud, vol, received, item, eof, pending, pc, result>>

MustWait(p) == Cardinality(p) >= MaxPending

\* A put that has ended has dropped its receiver: the send fails.
SendPiece ==
  /\ pc = "write" /\ item # <<>> /\ current # 0
  /\ put[current] = "running"
  /\ LET take == Lower(file.plan[vol] - sent, Len(item))
         full == sent + take = file.plan[vol]
         sealed == IF full THEN WithCurrent ELSE pending
     IN  /\ chan' = [chan EXCEPT ![current] = @ \o SubSeq(item, 1, take)]
         /\ item' = SubSeq(item, take + 1, Len(item))
         /\ sent' = sent + take
         /\ eof' = IF full THEN Sealed(eof, current) ELSE eof
         /\ pending' = sealed
         /\ current' = IF full THEN 0 ELSE current
         /\ vol' = IF full THEN vol + 1 ELSE vol
         /\ pc' = IF full /\ MustWait(sealed) THEN "waitone" ELSE "write"
  /\ UNCHANGED <<file, cloud, received, put, result>>

SendFails ==
  /\ pc = "write" /\ current # 0 /\ put[current] = "failed"
  /\ Fail
  /\ UNCHANGED <<file, cloud, vol, sent, received, item, chan, put, result>>

ItemWritten ==
  /\ pc = "write" /\ item = <<>>
  /\ pc' = "next"
  /\ UNCHANGED <<file, cloud, progress, puts, pending, result>>

\* wait_one: whichever sealed volume answers first.
WaitOne(v) ==
  /\ pc = "waitone" /\ v \in pending /\ put[v] # "running"
  /\ pending' = pending \ {v}
  /\ pc' = IF put[v] = "ok" THEN "write" ELSE "fail"
  /\ UNCHANGED <<file, cloud, progress, puts, result>>

Answered == \A v \in pending : put[v] # "running"
WaitAllIgnoring ==
  /\ pc = "waitall" /\ Answered
  /\ pc' = "done" /\ result' = "ok"
  /\ UNCHANGED <<file, cloud, progress, puts, pending>>

WaitAll ==
  /\ pc = "waitall" /\ Answered
  /\ IF \A v \in pending : put[v] = "ok"
     THEN pc' = "done" /\ result' = "ok"
     ELSE pc' = "cleanup" /\ UNCHANGED result
  /\ UNCHANGED <<file, cloud, progress, puts, pending>>

WaitFailed ==
  /\ pc = "fail" /\ Answered
  /\ pc' = "cleanup"
  /\ UNCHANGED <<file, cloud, progress, puts, pending, result>>

\* The envelope is deleted with what is in it; the delete may fail halfway.
Cleanup ==
  /\ pc = "cleanup"
  /\ \/ folder' = FALSE /\ objects' = {}
     \/ objects' \in SUBSET objects /\ UNCHANGED folder
  /\ pc' = "done" /\ result' = "error"
  /\ UNCHANGED <<file, stored, progress, puts, pending>>

\* The request's future is dropped, or the process ends: the channels close,
\* puts already under way are on their own.
Abandon ==
  /\ pc # "done"
  /\ eof' = [v \in Volumes |-> TRUE]
  /\ pc' = "done" /\ result' = "abandoned"
  /\ UNCHANGED <<file, cloud, progress, chan, put, pending>>

(***************************************************************************)
(* A put: the storage takes what it was sent once the stream ends, be it   *)
(* all or not; or it fails, and may keep a part or even everything.        *)
(***************************************************************************)
PutCommits(v) ==
  /\ v \in Unfinished /\ eof[v]
  /\ put' = [put EXCEPT ![v] = "ok"]
  /\ objects' = objects \cup {v}
  /\ stored' = [stored EXCEPT ![v] = chan[v]]
  /\ UNCHANGED <<file, folder, progress, chan, eof, pending, pc, result>>

PutFails(v) ==
  /\ v \in Unfinished
  /\ put' = [put EXCEPT ![v] = "failed"]
  /\ \/ UNCHANGED <<objects, stored>>
     \/ \E part \in Prefixes(chan[v]) :
          /\ objects' = objects \cup {v}
          /\ stored' = [stored EXCEPT ![v] = part]
  /\ UNCHANGED <<file, folder, progress, chan, eof, pending, pc, result>>

Over == pc = "done" /\ Unfinished = {}
Done == Over /\ UNCHANGED vars

Init ==
  /\ \E f \in Files : \E plan \in VolumePlans(f) :
       file = [total |-> f.total, split |-> f.split, max |-> f.max,
               random |-> f.random, header |-> f.header, plan |-> plan]
  /\ folder = FALSE /\ objects = {} /\ stored = [v \in Volumes |-> <<>>]
  /\ vol = 1 /\ sent = 0 /\ received = 0 /\ item = <<>> /\ current = 0
  /\ chan = [v \in Volumes |-> <<>>] /\ eof = [v \in Volumes |-> FALSE]
  /\ put = [v \in Volumes |-> "none"] /\ pending = {}
  /\ pc = "mkdir" /\ result = "open"

Upload ==
  \/ MakeFolder \/ (\E n \in 1..MaxItem : BodyItem(n)) \/ BodyError \/ BodyEnd
  \/ OpenVolume \/ SendPiece \/ SendFails \/ ItemWritten
  \/ (\E v \in Volumes : WaitOne(v)) \/ WaitAll \/ WaitFailed \/ Cleanup

Next ==
  \/ Upload \/ Abandon
  \/ \E v \in Volumes : PutCommits(v) \/ PutFails(v)
  \/ Done

Spec == Init /\ [][Next]_vars

SomePutCommits == \E v \in Volumes : PutCommits(v)
-----------------------------------------------------------------------------
(***************************************************************************)
(* What a reader sees: resolve_leaves, data_len, check_layout_total.       *)
(***************************************************************************)
Leaves ==
  LET runs == {n \in 0..N : 1..n \subseteq objects}
  IN  CHOOSE n \in runs : \A m \in runs : m <= n
Data(v) == SubSeq(stored[v], file.header + 1, Len(stored[v]))
LayoutTotal == SumOf([v \in 1..Leaves |-> Len(Data(v))])
Readable == folder /\ LayoutTotal = file.total
Content ==
  LET cat[v \in 0..Leaves] == IF v = 0 THEN <<>> ELSE cat[v - 1] \o Data(v)
  IN  cat[Leaves]
Whole == [i \in 1..file.total |-> i - 1]
-----------------------------------------------------------------------------
(***************************************************************************)
(* Every counter within its volume, every unit one of the file's.          *)
(***************************************************************************)
Units == -1 .. file.total - 1
TypeOK ==
  /\ folder \in BOOLEAN /\ objects \subseteq Volumes
  /\ DOMAIN stored = Volumes /\ DOMAIN chan = Volumes
  /\ \A v \in Volumes :
       /\ chan[v] \in Seq(Units) /\ Len(chan[v]) <= file.header + file.plan[v]
       /\ stored[v] \in Prefixes(chan[v])
  /\ eof \in [Volumes -> BOOLEAN]
  /\ put \in [Volumes -> {"none", "running", "ok", "failed"}]
  /\ vol \in 1 .. N + 1 /\ sent \in Nat /\ item \in Seq(Units)
  /\ current \in {0, vol} /\ current # 0 => sent < file.plan[current]
  /\ pending \subseteq Volumes /\ current \notin pending
  /\ pc \in {"mkdir", "next", "write", "waitone", "waitall", "fail",
              "cleanup", "done"}
  /\ result \in {"open", "ok", "error", "abandoned"}
  /\ (result = "open") <=> (pc # "done")

(***************************************************************************)
(* The plan cuts the file exactly, leaves no volume empty and keeps every  *)
(* stored object within the size the user configured, its header included  *)
(* (comments of volume_plan and of its random cuts); a limit that does not *)
(* even hold a header cannot be kept.                                      *)
(***************************************************************************)
PlanFits ==
  /\ SumOf(file.plan) = file.total
  /\ \A v \in Volumes :
       /\ file.plan[v] > 0
       /\ file.split /\ file.max > file.header
            => file.plan[v] + file.header <= file.max

(***************************************************************************)
(* Whatever was interrupted, and whenever a reader looks: an envelope that *)
(* passes the reader's check (the leaves up to the first gap add up to the *)
(* declared size) holds the file, every unit once and in order; and an     *)
(* upload that reports success can be read back at once.                   *)
(***************************************************************************)
WholeOrNothing == /\ Readable => Content = Whole
                  /\ result = "ok" => Readable

(***************************************************************************)
(* MAX_PENDING_UPLOADS: no more puts overlap than the limit allows, the    *)
(* one being written included.  And a response is given only when no put   *)
(* is left running: none can write into an envelope that has been reported *)
(* stored, or was just deleted.                                            *)
(***************************************************************************)
PutsAwaited ==
  /\ Cardinality(Unfinished) <= MaxPending
  /\ pc = "cleanup" \/ result \in {"ok", "error"} => Unfinished = {}
=============================================================================
