--------------------------- MODULE StreamScheduler ---------------------------
(***************************************************************************)
(* The completion-driven scheduler and serializer of one download          *)
(* (stream_range_cached_mode in engine.rs).  A range is planned as chunks; *)
(* a fetch task per chunk pushes its plaintext into a bounded channel of   *)
(* its own and sends one completion record; the serializer drains the      *)
(* channels in chunk order into the response channel, keeps by hand the    *)
(* counters that say how many tasks may run, and starts further chunks.    *)
(* One unit of data is one OUTPUT_BATCH item.                              *)
(***************************************************************************)
EXTENDS Integers, Sequences, FiniteSets

CONSTANTS
  Plans,        \* chunk plans a request may have: sequences of PlannedChunk
  Modes,        \* StreamModes a request may have
  T,            \* params.max_threads
  P,            \* params.max_per_volume
  MaxSplit,     \* params.max_split, in units; sizes the channel of a chunk
  ChanMin,      \* the 8 and 128 between which that size is clamped
  ChanMax,
  OutCap        \* capacity of the response channel

PlannedChunk == [vol : Nat, merged_start : Nat, len : Nat \ {0}]

\* plan_chunks_with_head_count: not empty, every chunk starts where the one
\* before it ends.
ASSUME PlanAssumption ==
  \A p \in Plans :
    /\ p \in Seq(PlannedChunk) /\ Len(p) > 0
    /\ \A c \in 1..(Len(p) - 1) :
         p[c + 1].merged_start = p[c].merged_start + p[c].len

ASSUME LimitAssumption ==
  /\ Modes \subseteq {"playback", "bulk", "warm"}
  /\ T \in Nat \ {0}
  /\ P \in Nat \ {0}
  /\ MaxSplit \in Nat \ {0}
  /\ ChanMin \in Nat \ {0}
  /\ ChanMax \in Nat \ {0}
  /\ OutCap \in Nat \ {0}

VARIABLES
  plan,         \* the chunks of this request
  mode,         \* params.mode
  phase,        \* life of each chunk's fetch task
  sent,         \* units each task has pushed into its channel
  head,         \* i: the chunk being drained, N + 1 after the last
  got,          \* units of it received so far
  active,       \* tasks whose completion record has not been received
  outstanding,  \* chunks started and not yet fully passed on
  perVol,       \* active_per_volume
  limit,        \* adaptive.current
  opened,       \* client_window_opened
  body,         \* units sent into the response channel so far
  taken,        \* how many of them the caller has taken out
  closed,       \* the caller dropped the response receiver
  status,       \* how the response ended, "open" until then
  pc            \* where the serializer is

request == <<plan, mode>>
tasks == <<phase, sent>>
cursor == <<head, got>>
slots == <<active, outstanding, perVol>>
pace == <<limit, opened>>
reply == <<body, taken, closed, status>>
vars == <<request, tasks, cursor, slots, pace, reply, pc>>

N == Len(plan)                                   \* total_chunks
Chunks == 1..N
vol(c) == plan[c].vol
len(c) == plan[c].len
Volumes == {vol(c) : c \in Chunks}
ChanBuffer ==
  LET capped == IF MaxSplit < ChanMax THEN MaxSplit ELSE ChanMax
  IN  IF capped > ChanMin THEN capped ELSE ChanMin
Window == T + 1                                  \* max_buffered_chunks
Sub1(n) == IF n > 0 THEN n - 1 ELSE 0            \* saturating_sub(1)

Received(c) == IF c < head THEN len(c) ELSE IF c = head THEN got ELSE 0
HasRoom(c) == sent[c] - Received(c) < ChanBuffer

Running == {c \in Chunks : phase[c] \in {"fetching", "failing"}}
Unreaped == {c \in Chunks :
               phase[c] \in {"fetching", "failing", "done", "panicked"}}
Reported == {c \in Chunks : phase[c] = "done"}
\* An Err item ends the channel of a task that gave up.
Failed(c) == phase[c] \in {"failing", "done", "reaped"} /\ sent[c] < len(c)

(***************************************************************************)
(* Fetch tasks (fetch_chunk seen from the channel).                        *)
(***************************************************************************)
FetchItem(c) ==
  /\ phase[c] = "fetching" /\ status = "open"
  /\ sent[c] < len(c) /\ HasRoom(c)
  /\ sent' = [sent EXCEPT ![c] = @ + 1]
  /\ UNCHANGED <<request, cursor, slots, pace, reply, phase, pc>>

\* Four attempts on a segment have failed: Err goes into the channel.
FetchGiveUp(c) ==
  /\ phase[c] = "fetching" /\ status = "open"
  /\ sent[c] < len(c) /\ HasRoom(c)
  /\ phase' = [phase EXCEPT ![c] = "failing"]
  /\ UNCHANGED <<request, cursor, slots, pace, reply, sent, pc>>

\* The task sends its FetchStats some time after its last item: the cache
\* writeback queue and the task scheduler come in between.
FetchReport(c) ==
  /\ \/ phase[c] = "fetching" /\ sent[c] = len(c)
     \/ phase[c] = "failing"
  /\ phase' = [phase EXCEPT ![c] = "done"]
  /\ UNCHANGED <<request, cursor, slots, pace, reply, sent, pc>>

\* A panic drops the sender: no Err item and no completion record.
FetchPanic(c) ==
  /\ phase[c] = "fetching"
  /\ phase' = [phase EXCEPT ![c] = "panicked"]
  /\ UNCHANGED <<request, cursor, slots, pace, reply, sent, pc>>

\* After abort_all a task stops at its next await: it is cancelled, or it
\* finds its receiver dropped.
FetchStopped(c) ==
  /\ status \in {"error", "gone"} /\ c \in Running
  /\ phase' = [phase EXCEPT ![c] = "stopped"]
  /\ UNCHANGED <<request, cursor, slots, pace, reply, sent, pc>>

(***************************************************************************)
(* fill_window: start the earliest chunk whose volume is not saturated,    *)
(* while the concurrency limit and the window leave room.  The started     *)
(* tasks run at once, so every turn of the loop is a step.                 *)
(***************************************************************************)
ScannedToEnd == {c \in Chunks : c >= head}
Scanned == {c \in Chunks : c >= head /\ (mode = "playback" => c < head + T)}
EligibleAnyVolume == {c \in Scanned : phase[c] = "idle"}
Eligible == {c \in Scanned : phase[c] = "idle" /\ perVol[vol(c)] < P}
MayStart == active < limit /\ outstanding < Window /\ Eligible # {}

Start(c) ==
  /\ pc = "fill" /\ MayStart
  /\ c \in Eligible /\ \A d \in Eligible : c <= d
  /\ phase' = [phase EXCEPT ![c] = "fetching"]
  /\ active' = active + 1
  /\ outstanding' = outstanding + 1
  /\ perVol' = [perVol EXCEPT ![vol(c)] = @ + 1]
  /\ UNCHANGED <<request, cursor, pace, reply, sent, pc>>

\* Where the serializer goes when there is nothing to fill: past the chunk
\* loop, past this chunk, or back to the select.
Resume(g) == IF head > N THEN "close"
             ELSE IF g = len(head) THEN "advance" ELSE "select"

FillDone ==
  /\ pc = "fill" /\ ~MayStart
  /\ pc' = Resume(got)
  /\ UNCHANGED <<request, tasks, cursor, slots, pace, reply>>

(***************************************************************************)
(* The serializer's biased select: the caller gone, then a completion      *)
(* record, then the head chunk's channel.                                  *)
(***************************************************************************)
\* AdaptiveConcurrency seen from here: observe_failure halves the limit, an
\* epoch of delivered bytes may move it by one, upwards outside playback only.
LimitHalved == limit \div 2
LimitAfterFailure == IF limit \div 2 > 1 THEN limit \div 2 ELSE 1
LimitAfterDelivery ==
  {limit} \cup (IF mode = "playback" THEN {}
                ELSE {l \in {limit - 1, limit + 1} : 1 <= l /\ l <= T})

\* active_per_volume after the record of chunk c.
Freed(c) == [perVol EXCEPT ![vol(c)] = Sub1(@)]

\* A record refills the window once the first item has been delivered.
AfterReapSelect == "select"
AfterReap == IF opened THEN "fill" ELSE "select"

Reap(c) ==
  /\ pc = "select" /\ ~closed
  /\ c \in Reported
  /\ phase' = [phase EXCEPT ![c] = "reaped"]
  /\ active' = Sub1(active)
  /\ perVol' = Freed(c)
  /\ \/ limit' = LimitAfterFailure               \* failed, or slow on the way
     \/ limit' = limit /\ ~Failed(c)
  /\ pc' = AfterReap
  /\ UNCHANGED <<request, cursor, reply, sent, outstanding, opened>>

RecvItem ==
  /\ pc = "select" /\ ~closed /\ Reported = {}
  /\ got < sent[head]
  /\ got' = got + 1
  /\ pc' = "send"
  /\ UNCHANGED <<request, tasks, slots, pace, reply, head>>

RecvFailureIgnored ==
  /\ pc = "select" /\ ~closed /\ Reported = {}
  /\ got = sent[head]
  /\ Failed(head) \/ (phase[head] = "panicked" /\ got < len(head))
  /\ pc' = "advance"
  /\ UNCHANGED <<request, tasks, cursor, slots, pace, reply>>

RecvFailure ==
  /\ pc = "select" /\ ~closed /\ Reported = {}
  /\ got = sent[head]
  /\ Failed(head) \/ (phase[head] = "panicked" /\ got < len(head))
  /\ pc' = "senderr"
  /\ UNCHANGED <<request, tasks, cursor, slots, pace, reply>>

\* The item enters the response channel.  Everything up to the next select
\* is synchronous: the limit may move and the window is filled if it did or
\* if this was the first item.
SendItem ==
  /\ pc = "send" /\ ~closed
  /\ Len(body) - taken < OutCap
  /\ body' = Append(body, plan[head].merged_start + got - 1)
  /\ limit' \in LimitAfterDelivery
  /\ opened' = TRUE
  /\ pc' = IF limit' # limit \/ ~opened THEN "fill" ELSE Resume(got)
  /\ UNCHANGED <<request, tasks, cursor, slots, taken, closed, status>>

AdvanceKeepsPlace ==
  /\ pc = "advance"
  /\ head' = head + 1
  /\ got' = 0
  /\ pc' = "fill"
  /\ UNCHANGED <<request, tasks, slots, pace, reply>>

\* The chunk has been passed on whole: its place in the window is free.
Advance ==
  /\ pc = "advance"
  /\ outstanding' = Sub1(outstanding)
  /\ head' = head + 1
  /\ got' = 0
  /\ pc' = "fill"
  /\ UNCHANGED <<request, tasks, pace, reply, active, perVol>>

\* Each way out of the loop drops the receivers and, but for the first,
\* aborts every task.
LeavingInnerLoop(s) ==
  /\ status' = s
  /\ pc' = IF s = "gone" THEN "fill" ELSE "drain"
  /\ UNCHANGED <<request, tasks, cursor, slots, pace, body, taken, closed>>

Leaving(s) ==
  /\ status' = s
  /\ pc' = "drain"
  /\ UNCHANGED <<request, tasks, cursor, slots, pace, body, taken, closed>>

CloseBody == pc = "close" /\ Leaving("eof")
SendError ==
  pc = "senderr" /\ (closed \/ Len(body) - taken < OutCap) /\ Leaving("error")
NoticeGone == pc \in {"select", "send"} /\ closed /\ Leaving("gone")

\* Every handle is awaited before the stream task itself ends.
Finish ==
  /\ pc = "drain" /\ Running = {}
  /\ pc' = "ended"
  /\ UNCHANGED <<request, tasks, cursor, slots, pace, reply>>

(***************************************************************************)
(* The caller: the HTTP response body, or the loop that drains a warm-up.  *)
(***************************************************************************)
ClientTake ==
  /\ ~closed /\ taken < Len(body)
  /\ taken' = taken + 1
  /\ UNCHANGED <<request, tasks, cursor, slots, pace, body, closed, status, pc>>

ClientLeave ==
  /\ ~closed
  /\ closed' = TRUE
  /\ UNCHANGED <<request, tasks, cursor, slots, pace, body, taken, status, pc>>

Terminated ==
  /\ pc = "ended" /\ (closed \/ taken = Len(body))
  /\ UNCHANGED vars

\* Playback and bulk start the requested chunk alone; a warm-up fills at once.
\* Playback ignores the learned concurrency and starts with at most four.
Init ==
  /\ plan \in Plans /\ mode \in Modes
  /\ phase = [c \in Chunks |->
                IF c = 1 /\ mode # "warm" THEN "fetching" ELSE "idle"]
  /\ sent = [c \in Chunks |-> 0]
  /\ head = 1 /\ got = 0
  /\ active = Cardinality(Unreaped)
  /\ outstanding = Cardinality(Unreaped)
  /\ perVol = [v \in Volumes |-> Cardinality({c \in Unreaped : vol(c) = v})]
  /\ limit \in IF mode = "playback" THEN {IF T < 4 THEN T ELSE 4} ELSE 1..T
  /\ opened = (mode = "warm")
  /\ body = <<>> /\ taken = 0
  /\ closed = FALSE /\ status = "open"
  /\ pc = IF mode = "warm" THEN "fill" ELSE "select"

Fetch(c) == FetchItem(c) \/ FetchGiveUp(c) \/ FetchReport(c) \/ FetchStopped(c)

Serialize ==
  \/ \E c \in Chunks : Start(c) \/ Reap(c)
  \/ FillDone \/ RecvItem \/ RecvFailure \/ SendItem \/ Advance
  \/ CloseBody \/ SendError \/ NoticeGone \/ Finish

Next ==
  \/ \E c \in Chunks : Fetch(c) \/ FetchPanic(c)
  \/ Serialize
  \/ ClientTake \/ ClientLeave
  \/ Terminated

Spec == Init /\ [][Next]_vars

\* A fetch task always moves on: every wait on the storage is under a
\* timeout and there are at most four attempts.  The serializer is a task of
\* its own.  The caller keeps reading, or leaves.
Fairness ==
  /\ \A c \in UNION {DOMAIN p : p \in Plans} :
       WF_vars(c \in Chunks /\ Fetch(c))
  /\ WF_vars(Serialize)
  /\ WF_vars(ClientTake)

FairSpec == Spec /\ Fairness
-----------------------------------------------------------------------------
TypeOK ==
  /\ plan \in Plans /\ mode \in Modes
  /\ phase \in [Chunks -> {"idle", "fetching", "failing", "done", "reaped",
                           "panicked", "stopped"}]
  /\ sent \in [Chunks -> Nat]
  /\ head \in 1..(N + 1)
  /\ got \in Nat
  /\ active \in Nat
  /\ outstanding \in Nat
  /\ perVol \in [Volumes -> Nat]
  /\ limit \in 1..T
  /\ opened \in BOOLEAN
  /\ body \in Seq(Nat)
  /\ taken \in Nat
  /\ closed \in BOOLEAN
  /\ status \in {"open", "eof", "error", "gone"}
  /\ pc \in {"fill", "select", "send", "senderr", "advance", "close",
             "drain", "ended"}

\* The counters kept by hand (active, active_per_volume; decremented with
\* saturating_sub on a record that may come late) are exactly the tasks whose
\* completion record has not been received: no slot leaks or is freed twice.
SlotsMatchTasks ==
  status = "open" =>
    /\ active = Cardinality(Unreaped)
    /\ \A v \in Volumes :
         perVol[v] = Cardinality({c \in Unreaped : vol(c) = v})

\* outstanding is exactly the number of chunks started and not yet passed on
\* whole, although chunks start and finish out of order.
Ahead == {c \in Chunks : c >= head /\ phase[c] # "idle"}
WindowMatchesChunks ==
  status = "open" => outstanding = Cardinality(Ahead)

CountersMatch == SlotsMatchTasks /\ WindowMatchesChunks

\* Settings max_threads and max_per_volume hold for the tasks themselves,
\* and no more than max_threads + 1 chunks are ever held in memory.
ConnectionLimits ==
  /\ Cardinality(Running) <= T
  /\ \A v \in Volumes : Cardinality({c \in Running : vol(c) = v}) <= P
  /\ status = "open" => Cardinality({c \in Ahead : sent[c] > 0}) <= Window

\* The caller sees the requested range in order, without a gap or a repeat,
\* whatever order the tasks finish in; the body ends cleanly only when whole.
TotalUnits == plan[N].merged_start + len(N) - plan[1].merged_start
BodyInOrder ==
  /\ \A k \in 1..Len(body) : body[k] = plan[1].merged_start + k - 1
  /\ status = "eof" => Len(body) = TotalUnits

\* engine.rs: "One current serializer chunk plus one outstanding chunk per
\* configured worker is enough to keep every connection busy."  A window that
\* is full holds the chunk the serializer waits for.
CurrentChunkInWindow ==
  pc = "select" /\ outstanding = Window => phase[head] # "idle"

\* That statement does hold where chunks are started as a gapless run: in
\* playback (the scan is shorter than the window), with a single volume, or
\* when one volume may use every connection.
OneVolume == \A c, d \in Chunks : vol(c) = vol(d)
Gapless == mode = "playback" \/ OneVolume \/ T <= P
WindowFeedsHead == Gapless => CurrentChunkInWindow

\* Nothing is started, and nothing more reaches the caller, once the response
\* has ended.
QuietAfterEnd ==
  [][status # "open" => /\ body' = body
                        /\ \A c \in Chunks :
                             phase[c] = "idle" => phase'[c] = "idle"]_vars

\* Where the window always holds the current chunk every response ends and
\* leaves no task behind, at any client and storage speed, unless a task
\* panicked: a panic sends no record and its slot is never given back.
Panicked == \E c \in Chunks : phase[c] = "panicked"
StreamEnds == Gapless => <>(pc = "ended" \/ Panicked)

\* Every stream ends, in every mode and over every plan.  engine.rs: each
\* chunk's channel is large enough "to absorb the whole chunk", so a fetcher
\* "can finish and release its slot without waiting for the serializer".
EveryStreamEnds == <>(pc = "ended" \/ Panicked)

\* A body that ends cleanly or with an error is what an ordered stream allows.
Abstract == INSTANCE OrderedStream
              WITH first <- plan[1].merged_start, total <- TotalUnits
ImplementsOrderedStream == Abstract!Spec
=============================================================================
