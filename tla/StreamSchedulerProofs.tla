------------------------ MODULE StreamSchedulerProofs ------------------------
(***************************************************************************)
(* Proofs about StreamScheduler, for every plan, mode, limit and channel   *)
(* size.  Inv is the inductive invariant; its parts are named for what     *)
(* they add.                                                               *)
(***************************************************************************)
EXTENDS StreamScheduler, FiniteSetTheorems, WellFoundedInduction, TLAPS

UnreapedIn(v) == {c \in Unreaped : vol(c) = v}

\* Where the serializer may be, given its cursor and the fetch tasks.
CursorInv ==
  /\ pc \in {"drain", "ended"} <=> status # "open"
  /\ pc \in {"select", "send", "senderr", "advance"} => head <= N
  /\ head <= N => got <= len(head) /\ got <= sent[head]
  /\ pc \in {"select", "senderr"} => got < len(head)
  /\ pc = "send" => got > 0
  /\ pc = "advance" => got = len(head)
  /\ pc = "close" => head = N + 1
  /\ head = N + 1 => got = 0
  /\ pc = "ended" => Running = {}

TaskInv ==
  \A c \in Chunks : sent[c] <= len(c) /\ (phase[c] = "idle" => sent[c] = 0)

\* The body covers every chunk before the head and what was sent of the head.
BodyLength ==
  IF head = N + 1 THEN TotalUnits
  ELSE plan[head].merged_start - plan[1].merged_start
         + (IF pc = "send" THEN got - 1 ELSE got)
BodyInv ==
  /\ \A k \in 1..Len(body) : body[k] = plan[1].merged_start + k - 1
  /\ status = "open" => Len(body) = BodyLength
  /\ status = "eof" => Len(body) = TotalUnits

\* The limits on what runs and on what is held hold of the tasks themselves.
BoundInv ==
  /\ Cardinality(Unreaped) <= T
  /\ \A v \in Volumes : Cardinality(UnreapedIn(v)) <= P
  /\ status = "open" => outstanding <= Window

Inv ==
  /\ TypeOK /\ CursorInv /\ TaskInv /\ BodyInv
  /\ SlotsMatchTasks /\ WindowMatchesChunks /\ BoundInv

\* Chunks are started as a gapless run where Gapless holds.
GapInv ==
  Gapless =>
    IF mode = "playback"
    THEN \A c \in Ahead : c < head + T
    ELSE \A c, d \in Chunks :
           head <= c /\ c < d /\ phase[d] # "idle" => phase[c] # "idle"
-----------------------------------------------------------------------------
(***************************************************************************)
(* The plan.                                                               *)
(***************************************************************************)
LEMMA PlanFacts ==
  ASSUME plan \in Plans
  PROVE  /\ N \in Nat \ {0}
         /\ \A c \in Chunks : /\ vol(c) \in Nat
                              /\ len(c) \in Nat \ {0}
                              /\ plan[c].merged_start \in Nat
         /\ \A c \in 1..(N - 1) :
              plan[c + 1].merged_start = plan[c].merged_start + len(c)
  <1>1. /\ plan \in Seq(PlannedChunk) /\ Len(plan) > 0
        /\ \A c \in 1..(Len(plan) - 1) :
             plan[c + 1].merged_start = plan[c].merged_start + plan[c].len
    BY PlanAssumption
  <1>2. \A c \in 1..Len(plan) : plan[c] \in PlannedChunk
    BY <1>1
  <1> QED
    BY <1>1, <1>2 DEF N, Chunks, vol, len, PlannedChunk

LEMMA ChunkSets ==
  ASSUME plan \in Plans, NEW S \in SUBSET Chunks
  PROVE  IsFiniteSet(S) /\ Cardinality(S) \in Nat
  <1>1. N \in Int
    BY PlanFacts
  <1>2. IsFiniteSet(1..N)
    BY <1>1, FS_Interval
  <1> QED
    BY <1>2, FS_Subset, FS_CardinalityType DEF Chunks

LEMMA SubsetCard ==
  ASSUME plan \in Plans, NEW S \in SUBSET Chunks, NEW R \in SUBSET S
  PROVE  Cardinality(R) <= Cardinality(S)
  BY ChunkSets, FS_Subset

LEMMA OneMore ==
  ASSUME plan \in Plans, NEW S \in SUBSET Chunks, NEW c \in Chunks, c \notin S
  PROVE  Cardinality(S \cup {c}) = Cardinality(S) + 1
  BY ChunkSets, FS_AddElement

LEMMA OneLess ==
  ASSUME plan \in Plans, NEW S \in SUBSET Chunks, NEW c \in S
  PROVE  /\ Cardinality(S \ {c}) = Cardinality(S) - 1
         /\ Cardinality(S) \in Nat \ {0}
  <1>1. IsFiniteSet(S) /\ Cardinality(S) \in Nat
    BY ChunkSets
  <1>2. Cardinality(S \ {c}) = Cardinality(S) - 1
    BY <1>1, FS_RemoveElement
  <1>3. Cardinality(S) # 0
    BY <1>1, FS_EmptySet
  <1> QED
    BY <1>1, <1>2, <1>3
-----------------------------------------------------------------------------
(***************************************************************************)
(* Type correctness.                                                       *)
(***************************************************************************)
\* Every step leaves the request alone.
LEMMA RequestFixed ==
  ASSUME [Next]_vars
  PROVE  UNCHANGED <<plan, mode>>
  BY DEF Next, Serialize, Fetch, FetchItem, FetchGiveUp, FetchReport,
         FetchStopped, FetchPanic, Start, FillDone, Reap, RecvItem,
         RecvFailure, SendItem, Advance, CloseBody, SendError, NoticeGone,
         Leaving, Finish, ClientTake, ClientLeave, Terminated, vars, request

LEMMA PlanFrame ==
  ASSUME plan' = plan
  PROVE  /\ N' = N /\ Chunks' = Chunks /\ Volumes' = Volumes
         /\ \A c : vol(c)' = vol(c) /\ len(c)' = len(c)
  BY DEF N, Chunks, Volumes, vol, len

LEMMA TypeFetch ==
  ASSUME TypeOK, NEW c \in Chunks, Fetch(c) \/ FetchPanic(c)
  PROVE  TypeOK'
  <1>1. /\ UNCHANGED <<plan, mode, head, got, active, outstanding, perVol,
                       limit, opened, body, taken, closed, status, pc>>
        /\ \/ UNCHANGED sent
           \/ sent' = [sent EXCEPT ![c] = @ + 1]
        /\ \/ UNCHANGED phase
           \/ \E p \in {"failing", "done", "panicked", "stopped"} :
                phase' = [phase EXCEPT ![c] = p]
    BY DEF Fetch, FetchItem, FetchGiveUp, FetchReport, FetchStopped,
           FetchPanic, request, cursor, slots, pace, reply
  <1>2. sent' \in [Chunks -> Nat]
    BY <1>1 DEF TypeOK
  <1>3. phase' \in [Chunks -> {"idle", "fetching", "failing", "done",
                               "reaped", "panicked", "stopped"}]
    BY <1>1 DEF TypeOK
  <1> QED
    BY <1>1, <1>2, <1>3, PlanFrame DEF TypeOK

LEMMA TypeStart ==
  ASSUME TypeOK, NEW c \in Chunks, Start(c)
  PROVE  TypeOK'
  <1>1. vol(c) \in Volumes
    BY DEF Volumes
  <1>2. /\ phase' \in [Chunks -> {"idle", "fetching", "failing", "done",
                                  "reaped", "panicked", "stopped"}]
        /\ perVol' \in [Volumes -> Nat]
    BY <1>1 DEF TypeOK, Start
  <1>3. UNCHANGED <<plan, mode, sent, head, got, limit, opened, body, taken,
                    closed, status, pc>>
    BY DEF Start, request, cursor, pace, reply
  <1> QED
    BY <1>2, <1>3, PlanFrame DEF TypeOK, Start

LEMMA TypeReap ==
  ASSUME TypeOK, NEW c \in Chunks, Reap(c)
  PROVE  TypeOK'
  <1>1. vol(c) \in Volumes
    BY DEF Volumes
  <1>2. LimitAfterFailure \in 1..T
    BY LimitAssumption DEF TypeOK, LimitAfterFailure
  <1>3. \A n \in Nat : Sub1(n) \in Nat
    BY DEF Sub1
  <1>4. perVol' \in [Volumes -> Nat]
    BY <1>1, <1>3 DEF TypeOK, Reap, Freed
  <1>5. limit' \in 1..T
    BY <1>2 DEF TypeOK, Reap
  <1>6. active' \in Nat
    BY <1>3 DEF TypeOK, Reap
  <1>7. pc' \in {"fill", "select"}
    BY DEF Reap, AfterReap
  <1>8. UNCHANGED <<plan, mode, sent, head, got, outstanding, opened, body,
                    taken, closed, status>>
    BY DEF Reap, request, cursor, reply
  <1>9. phase' \in [Chunks -> {"idle", "fetching", "failing", "done",
                               "reaped", "panicked", "stopped"}]
    BY DEF TypeOK, Reap
  <1> QED
    BY <1>4, <1>5, <1>6, <1>7, <1>8, <1>9, PlanFrame DEF TypeOK

LEMMA TypeSerialize ==
  ASSUME TypeOK, CursorInv,
         \/ FillDone \/ RecvItem \/ RecvFailure \/ SendItem \/ Advance
         \/ CloseBody \/ SendError \/ NoticeGone \/ Finish
         \/ ClientTake \/ ClientLeave \/ UNCHANGED vars
  PROVE  TypeOK'
  <1>1. CASE FillDone
    <2>1. UNCHANGED <<plan, mode, phase, sent, head, got, active, outstanding,
                      perVol, limit, opened, body, taken, closed, status>>
      BY <1>1 DEF FillDone, request, tasks, cursor, slots, pace, reply
    <2> QED
      BY <1>1, <2>1, PlanFrame DEF TypeOK, FillDone, Resume
  <1>2. CASE RecvItem \/ RecvFailure
    <2>1. UNCHANGED <<plan, mode, phase, sent, head, active, outstanding,
                      perVol, limit, opened, body, taken, closed, status>>
      BY <1>2 DEF RecvItem, RecvFailure, request, tasks, cursor, slots, pace,
                  reply
    <2> QED
      BY <1>2, <2>1, PlanFrame DEF TypeOK, RecvItem, RecvFailure, cursor
  <1>3. CASE SendItem
    <2>1. limit' \in 1..T
      BY <1>3, LimitAssumption DEF TypeOK, SendItem, LimitAfterDelivery
    <2>2. body' \in Seq(Nat)
      <3>1. head \in Chunks /\ got > 0
        BY <1>3, PlanFacts DEF TypeOK, CursorInv, SendItem, Chunks
      <3>2. plan[head].merged_start + got - 1 \in Nat
        BY <3>1, PlanFacts DEF TypeOK
      <3> QED
        BY <1>3, <3>2 DEF TypeOK, SendItem
    <2>3. UNCHANGED <<plan, mode, phase, sent, head, got, active, outstanding,
                      perVol, taken, closed, status>>
      BY <1>3 DEF SendItem, request, tasks, cursor, slots
    <2>4. opened' \in BOOLEAN /\ pc' \in {"fill", "close", "advance", "select"}
      BY <1>3 DEF SendItem, Resume
    <2> QED
      BY <2>1, <2>2, <2>3, <2>4, PlanFrame DEF TypeOK
  <1>4. CASE Advance
    <2>1. UNCHANGED <<plan, mode, phase, sent, active, perVol, limit, opened,
                      body, taken, closed, status>>
      BY <1>4 DEF Advance, request, tasks, pace, reply
    <2>2. head' \in 1..(N + 1) /\ outstanding' \in Nat
      BY <1>4, PlanFacts DEF TypeOK, CursorInv, Advance, Sub1
    <2> QED
      BY <1>4, <2>1, <2>2, PlanFrame DEF TypeOK, Advance
  <1>5. CASE CloseBody \/ SendError \/ NoticeGone \/ Finish
    <2>1. UNCHANGED <<plan, mode, phase, sent, head, got, active, outstanding,
                      perVol, limit, opened, body, taken, closed>>
      BY <1>5 DEF CloseBody, SendError, NoticeGone, Leaving, Finish, request,
                  tasks, cursor, slots, pace, reply
    <2>2. /\ pc' \in {"drain", "ended"}
          /\ status' \in {"open", "eof", "error", "gone"}
      BY <1>5 DEF TypeOK, CloseBody, SendError, NoticeGone, Leaving, Finish,
                  reply
    <2> QED
      BY <2>1, <2>2, PlanFrame DEF TypeOK
  <1>6. CASE ClientTake \/ ClientLeave \/ UNCHANGED vars
    <2>1. UNCHANGED <<plan, mode, phase, sent, head, got, active, outstanding,
                      perVol, limit, opened, body, status, pc>>
      BY <1>6 DEF ClientTake, ClientLeave, vars, request, tasks, cursor,
                  slots, pace, reply
    <2>2. taken' \in {taken, taken + 1} /\ (closed' = TRUE \/ closed' = closed)
      BY <1>6 DEF TypeOK, ClientTake, ClientLeave, vars, reply
    <2>3. taken' \in Nat
      BY <2>2 DEF TypeOK
    <2>4. closed' \in BOOLEAN
      BY <2>2, Zenon DEF TypeOK
    <2> QED
      BY <2>1, <2>3, <2>4, PlanFrame DEF TypeOK
  <1> QED
    BY <1>1, <1>2, <1>3, <1>4, <1>5, <1>6

LEMMA InitType ==
  ASSUME Init
  PROVE  TypeOK
  <1>1. /\ plan \in Plans /\ mode \in Modes
        /\ 1 \in Chunks /\ N \in Nat
    BY PlanFacts DEF Init, Chunks
  <1>2. /\ phase \in [Chunks -> {"idle", "fetching"}]
        /\ sent \in [Chunks -> Nat]
        /\ head \in 1..(N + 1) /\ got \in Nat
        /\ body \in Seq(Nat) /\ taken \in Nat
        /\ status = "open" /\ pc \in {"fill", "select"}
    BY <1>1 DEF Init
  <1>3. /\ Unreaped \in SUBSET Chunks
        /\ \A v : {c \in Unreaped : vol(c) = v} \in SUBSET Chunks
    BY DEF Unreaped
  <1>4. /\ active \in Nat /\ outstanding \in Nat
        /\ perVol \in [Volumes -> Nat]
    BY <1>1, <1>3, ChunkSets DEF Init
  <1>5. limit \in 1..T
    BY LimitAssumption DEF Init
  <1>6. opened \in BOOLEAN /\ closed \in BOOLEAN
    BY Zenon DEF Init
  <1> QED
    BY <1>1, <1>2, <1>4, <1>5, <1>6 DEF TypeOK
-----------------------------------------------------------------------------
(***************************************************************************)
(* The cursor and the tasks.                                               *)
(***************************************************************************)
\* What a step may do to the tasks and the serializer's cursor.
LEMMA FetchForm ==
  ASSUME TypeOK, NEW c \in Chunks, Fetch(c) \/ FetchPanic(c)
  PROVE  /\ UNCHANGED <<plan, mode, head, got, active, outstanding, perVol,
                        limit, opened, body, taken, closed, status, pc>>
         /\ phase[c] \in {"fetching", "failing"}
         /\ phase' \in [Chunks -> {"idle", "fetching", "failing", "done",
                                   "reaped", "panicked", "stopped"}]
         /\ \A d \in Chunks : d # c => phase'[d] = phase[d] /\ sent'[d] = sent[d]
         /\ \/ phase'[c] \in {"fetching", "failing", "done", "panicked"}
            \/ phase'[c] = "stopped" /\ status \in {"error", "gone"}
         /\ \/ sent'[c] = sent[c]
            \/ sent'[c] = sent[c] + 1 /\ sent[c] < len(c)
  <1>1. UNCHANGED <<plan, mode, head, got, active, outstanding, perVol,
                    limit, opened, body, taken, closed, status, pc>>
    BY DEF Fetch, FetchItem, FetchGiveUp, FetchReport, FetchStopped,
           FetchPanic, request, cursor, slots, pace, reply
  <1>2. /\ \/ UNCHANGED sent
           \/ sent' = [sent EXCEPT ![c] = @ + 1] /\ sent[c] < len(c)
        /\ \/ UNCHANGED phase /\ phase[c] = "fetching"
           \/ \E p \in {"failing", "done", "panicked"} :
                /\ phase' = [phase EXCEPT ![c] = p]
                /\ phase[c] \in {"fetching", "failing"}
           \/ /\ phase' = [phase EXCEPT ![c] = "stopped"]
              /\ phase[c] \in {"fetching", "failing"}
              /\ status \in {"error", "gone"}
    BY DEF Fetch, FetchItem, FetchGiveUp, FetchReport, FetchStopped,
           FetchPanic, Running
  <1> QED
    BY <1>1, <1>2 DEF TypeOK

LEMMA TaskStep ==
  ASSUME TypeOK, TaskInv, [Next]_vars
  PROVE  TaskInv'
  <1>0. plan' = plan
    BY RequestFixed
  <1>1. ASSUME NEW c \in Chunks, Fetch(c) \/ FetchPanic(c)
        PROVE  TaskInv'
    <2>1. ASSUME NEW d \in Chunks
          PROVE  sent'[d] <= len(d) /\ (phase'[d] = "idle" => sent'[d] = 0)
      <3>1. CASE d # c
        BY <1>1, <3>1, FetchForm DEF TaskInv
      <3>2. CASE d = c
        <4>1. sent[c] \in Nat /\ len(c) \in Nat
          BY PlanFacts DEF TypeOK
        <4> QED
          BY <1>1, <3>2, <4>1, FetchForm DEF TaskInv
      <3> QED
        BY <3>1, <3>2
    <2> QED
      BY <1>0, <2>1, PlanFrame DEF TaskInv
  <1>2. ASSUME NEW c \in Chunks, Start(c)
        PROVE  TaskInv'
    BY <1>0, <1>2, PlanFrame DEF TypeOK, TaskInv, Start
  <1>3. ASSUME NEW c \in Chunks, Reap(c)
        PROVE  TaskInv'
    BY <1>0, <1>3, PlanFrame DEF TypeOK, TaskInv, Reap
  <1>4. ASSUME UNCHANGED <<phase, sent>>
        PROVE  TaskInv'
    BY <1>0, <1>4, PlanFrame DEF TaskInv
  <1>5. \/ \E c \in Chunks : Fetch(c) \/ FetchPanic(c) \/ Start(c) \/ Reap(c)
        \/ UNCHANGED <<phase, sent>>
    BY DEF Next, Serialize, FillDone, RecvItem, RecvFailure, SendItem,
           Advance, CloseBody, SendError, NoticeGone, Leaving, Finish,
           ClientTake, ClientLeave, Terminated, vars, tasks
  <1> QED
    BY <1>1, <1>2, <1>3, <1>4, <1>5

LEMMA CursorStep ==
  ASSUME TypeOK, TaskInv, CursorInv, [Next]_vars
  PROVE  CursorInv'
  <1>0. /\ plan' = plan /\ N' = N
        /\ \A c \in Chunks : len(c)' = len(c) /\ len(c) \in Nat \ {0}
        /\ N \in Nat \ {0} /\ Chunks' = Chunks
    BY RequestFixed, PlanFrame, PlanFacts DEF TypeOK
  <1>h. head <= N => /\ head \in Chunks
                     /\ sent[head] \in Nat /\ sent[head] <= len(head)
                     /\ len(head) \in Nat \ {0} /\ len(head)' = len(head')
    BY <1>0 DEF TypeOK, TaskInv, Chunks, len
  <1>1. ASSUME NEW c \in Chunks, Fetch(c) \/ FetchPanic(c)
        PROVE  CursorInv'
    <2>1. c \in Running
      BY <1>1, FetchForm DEF Running
    <2>2. pc # "ended"
      BY <2>1 DEF CursorInv
    <2>3. \A d \in Chunks : sent'[d] \in Nat /\ sent'[d] >= sent[d]
      BY <1>1, FetchForm DEF TypeOK
    <2> QED
      BY <1>0, <1>1, <1>h, <2>2, <2>3, FetchForm DEF CursorInv, TypeOK, len
  <1>2. ASSUME NEW c \in Chunks, Start(c) \/ Reap(c)
        PROVE  CursorInv'
    <2>1. /\ UNCHANGED <<head, got, status, sent>>
          /\ \/ pc = "fill" /\ pc' = pc
             \/ pc = "select" /\ pc' \in {"fill", "select"}
      BY <1>2 DEF Start, Reap, AfterReap, cursor, reply
    <2> QED
      BY <1>0, <1>h, <2>1 DEF CursorInv, TypeOK, len
  <1>3. CASE FillDone
    BY <1>0, <1>h, <1>3 DEF CursorInv, TypeOK, FillDone, Resume, cursor, reply,
       tasks, len
  <1>4. CASE RecvItem \/ RecvFailure
    BY <1>0, <1>h, <1>4 DEF CursorInv, TypeOK, RecvItem, RecvFailure, Failed,
       reply, cursor, tasks, len, Chunks
  <1>5. CASE SendItem
    BY <1>0, <1>h, <1>5 DEF CursorInv, TypeOK, SendItem, Resume, cursor, tasks,
       len
  <1>6. CASE Advance
    BY <1>0, <1>h, <1>6 DEF CursorInv, TypeOK, Advance, tasks, reply, len,
       Chunks
  <1>7. CASE CloseBody \/ SendError \/ NoticeGone
    BY <1>0, <1>h, <1>7 DEF CursorInv, TypeOK, CloseBody, SendError,
       NoticeGone, Leaving, cursor, tasks, len
  <1>8. CASE Finish
    BY <1>0, <1>h, <1>8 DEF CursorInv, TypeOK, Finish, cursor, tasks, reply,
       Running, len
  <1>9. CASE ClientTake \/ ClientLeave \/ UNCHANGED vars
    <2>1. UNCHANGED <<phase, sent, head, got, status, pc>>
      BY <1>9 DEF ClientTake, ClientLeave, vars, tasks, cursor, reply
    <2> QED
      BY <1>0, <1>h, <2>1 DEF CursorInv, Running, len
  <1> QED
    BY <1>1, <1>2, <1>3, <1>4, <1>5, <1>6, <1>7, <1>8, <1>9
       DEF Next, Serialize, Terminated
-----------------------------------------------------------------------------
(***************************************************************************)
(* The counters kept by hand.                                              *)
(***************************************************************************)
LEMMA CountedSets ==
  ASSUME plan \in Plans
  PROVE  /\ Unreaped \in SUBSET Chunks /\ Ahead \in SUBSET Chunks
         /\ IsFiniteSet(Unreaped) /\ Cardinality(Unreaped) \in Nat
         /\ IsFiniteSet(Ahead) /\ Cardinality(Ahead) \in Nat
         /\ \A v : /\ UnreapedIn(v) \in SUBSET Chunks
                   /\ IsFiniteSet(UnreapedIn(v))
                   /\ Cardinality(UnreapedIn(v)) \in Nat
  <1>1. /\ Unreaped \in SUBSET Chunks /\ Ahead \in SUBSET Chunks
        /\ \A v : UnreapedIn(v) \in SUBSET Chunks
    BY DEF Unreaped, Ahead, UnreapedIn
  <1> QED
    BY <1>1, ChunkSets

\* A step of a fetch task never adds to the counted sets, and takes from them
\* only once the response has ended.
LEMMA FetchCounts ==
  ASSUME TypeOK, NEW c \in Chunks, Fetch(c) \/ FetchPanic(c)
  PROVE  /\ Unreaped' \in SUBSET Unreaped
         /\ \A v : UnreapedIn(v)' \in SUBSET UnreapedIn(v)
         /\ status = "open" => /\ Unreaped' = Unreaped
                               /\ \A v : UnreapedIn(v)' = UnreapedIn(v)
         /\ Ahead' = Ahead
  <1>1. /\ Chunks' = Chunks /\ head' = head /\ \A d : vol(d)' = vol(d)
    BY FetchForm, PlanFrame
  <1>2. /\ Unreaped' \in SUBSET Unreaped
        /\ status = "open" => Unreaped' = Unreaped
    BY <1>1, FetchForm DEF Unreaped
  <1>3. Ahead' = Ahead
    BY <1>1, FetchForm DEF Ahead
  <1> QED
    BY <1>1, <1>2, <1>3 DEF UnreapedIn

LEMMA CountStep ==
  ASSUME Inv, [Next]_vars
  PROVE  SlotsMatchTasks' /\ WindowMatchesChunks' /\ BoundInv'
  <1>0. /\ plan' = plan /\ Chunks' = Chunks /\ Volumes' = Volumes
        /\ \A c : vol(c)' = vol(c)
        /\ TypeOK /\ CursorInv /\ TaskInv
        /\ T \in Nat \ {0} /\ P \in Nat \ {0} /\ Window = T + 1
    BY RequestFixed, PlanFrame, LimitAssumption DEF Inv, Window
  <1>1. ASSUME NEW c \in Chunks, Fetch(c) \/ FetchPanic(c)
        PROVE  SlotsMatchTasks' /\ WindowMatchesChunks' /\ BoundInv'
    <2>1. UNCHANGED <<active, outstanding, perVol, status>>
      BY <1>0, <1>1, FetchForm
    <2>2. SlotsMatchTasks' /\ WindowMatchesChunks'
      BY <1>0, <1>1, <2>1, FetchCounts
         DEF Inv, SlotsMatchTasks, WindowMatchesChunks, UnreapedIn
    <2>3. /\ Cardinality(Unreaped') <= Cardinality(Unreaped)
          /\ Cardinality(Unreaped') \in Nat
      BY <1>0, <1>1, FetchCounts, CountedSets, FS_Subset, FS_CardinalityType
         DEF TypeOK
    <2>4. ASSUME NEW v \in Volumes
          PROVE  /\ Cardinality(UnreapedIn(v)') <= Cardinality(UnreapedIn(v))
                 /\ Cardinality(UnreapedIn(v)') \in Nat
      BY <1>0, <1>1, FetchCounts, CountedSets, FS_Subset, FS_CardinalityType
         DEF TypeOK
    <2>5. BoundInv'
      BY <1>0, <2>1, <2>3, <2>4, CountedSets DEF Inv, BoundInv, TypeOK
    <2> QED
      BY <2>2, <2>5
  <1>2. ASSUME NEW c \in Chunks, Start(c)
        PROVE  SlotsMatchTasks' /\ WindowMatchesChunks' /\ BoundInv'
    <2>1. /\ status = "open" /\ status' = status /\ head' = head
          /\ active < limit /\ limit <= T /\ outstanding < Window
          /\ perVol[vol(c)] < P /\ phase[c] = "idle" /\ c >= head
          /\ active' = active + 1 /\ outstanding' = outstanding + 1
          /\ perVol' = [perVol EXCEPT ![vol(c)] = @ + 1]
          /\ phase' = [phase EXCEPT ![c] = "fetching"]
          /\ vol(c) \in Volumes
      BY <1>0, <1>2 DEF Start, MayStart, Eligible, Scanned, CursorInv, cursor,
         reply, TypeOK, Volumes
    <2>2. /\ Unreaped' = Unreaped \cup {c} /\ c \notin Unreaped
          /\ Ahead' = Ahead \cup {c} /\ c \notin Ahead
      BY <1>0, <2>1 DEF Unreaped, Ahead, TypeOK
    <2>3. \A v : UnreapedIn(v)' = IF v = vol(c) THEN UnreapedIn(v) \cup {c}
                                               ELSE UnreapedIn(v)
      BY <1>0, <2>2 DEF UnreapedIn
    <2>4. \A v : c \notin UnreapedIn(v)
      BY <2>2 DEF UnreapedIn
    <2>5. /\ Cardinality(Unreaped') = Cardinality(Unreaped) + 1
          /\ Cardinality(Ahead') = Cardinality(Ahead) + 1
      BY <1>0, <2>2, CountedSets, OneMore DEF TypeOK
    <2>6. \A v : Cardinality(UnreapedIn(v)') =
                   IF v = vol(c) THEN Cardinality(UnreapedIn(v)) + 1
                                 ELSE Cardinality(UnreapedIn(v))
      BY <1>0, <2>3, <2>4, CountedSets, OneMore DEF TypeOK
    <2>7. /\ active = Cardinality(Unreaped)
          /\ \A v \in Volumes : perVol[v] = Cardinality(UnreapedIn(v))
          /\ outstanding = Cardinality(Ahead)
      BY <2>1 DEF Inv, SlotsMatchTasks, WindowMatchesChunks, UnreapedIn
    <2>8. \A v \in Volumes : perVol'[v] = Cardinality(UnreapedIn(v)')
      BY <1>0, <2>1, <2>6, <2>7 DEF TypeOK
    <2>9. SlotsMatchTasks' /\ WindowMatchesChunks'
      BY <1>0, <2>1, <2>5, <2>7, <2>8
         DEF SlotsMatchTasks, WindowMatchesChunks, UnreapedIn
    <2>10. BoundInv'
      <3>1. active \in Nat /\ outstanding \in Nat /\ limit \in Nat
        BY <1>0 DEF TypeOK
      <3>2. Cardinality(Unreaped') <= T /\ outstanding' <= Window
        BY <1>0, <2>1, <2>5, <2>7, <3>1
      <3>3. \A v \in Volumes : Cardinality(UnreapedIn(v)') <= P
        <4> SUFFICES ASSUME NEW v \in Volumes
                     PROVE  Cardinality(UnreapedIn(v)') <= P
          OBVIOUS
        <4>1. /\ perVol[v] \in Nat /\ perVol[v] = Cardinality(UnreapedIn(v))
              /\ Cardinality(UnreapedIn(v)) <= P
          BY <2>7 DEF Inv, BoundInv, TypeOK
        <4>2. CASE v = vol(c)
          BY <1>0, <2>1, <2>6, <4>1, <4>2
        <4>3. CASE v # vol(c)
          BY <2>6, <4>1, <4>3
        <4> QED
          BY <4>2, <4>3
      <3> QED
        BY <1>0, <3>2, <3>3 DEF BoundInv, Window
    <2> QED
      BY <2>9, <2>10
  <1>3. ASSUME NEW c \in Chunks, Reap(c)
        PROVE  SlotsMatchTasks' /\ WindowMatchesChunks' /\ BoundInv'
    <2>1. /\ status = "open" /\ status' = status /\ head' = head
          /\ phase[c] = "done" /\ vol(c) \in Volumes
          /\ active' = Sub1(active) /\ outstanding' = outstanding
          /\ perVol' = [perVol EXCEPT ![vol(c)] = Sub1(@)]
          /\ phase' = [phase EXCEPT ![c] = "reaped"]
      BY <1>0, <1>3 DEF Reap, Reported, Freed, CursorInv, cursor, reply,
         Volumes
    <2>2. /\ Unreaped' = Unreaped \ {c} /\ c \in Unreaped /\ Ahead' = Ahead
      BY <1>0, <2>1 DEF Unreaped, Ahead, TypeOK
    <2>3. ASSUME NEW v
          PROVE  /\ v = vol(c) => /\ UnreapedIn(v)' = UnreapedIn(v) \ {c}
                                  /\ c \in UnreapedIn(v)
                 /\ v # vol(c) => UnreapedIn(v)' = UnreapedIn(v)
      BY <1>0, <2>2 DEF UnreapedIn
    <2>4. /\ Cardinality(Unreaped') = Cardinality(Unreaped) - 1
          /\ Cardinality(Unreaped) \in Nat \ {0}
      BY <1>0, <2>2, CountedSets, OneLess DEF TypeOK
    <2>5. ASSUME NEW v, v = vol(c)
          PROVE  /\ Cardinality(UnreapedIn(v)') = Cardinality(UnreapedIn(v)) - 1
                 /\ Cardinality(UnreapedIn(v)) \in Nat \ {0}
      <3>1. /\ UnreapedIn(v)' = UnreapedIn(v) \ {c} /\ c \in UnreapedIn(v)
            /\ UnreapedIn(v) \in SUBSET Chunks /\ plan \in Plans
        BY <1>0, <2>3, <2>5, CountedSets DEF TypeOK
      <3> QED
        BY <3>1, OneLess
    <2>6. ASSUME NEW v, v # vol(c)
          PROVE  UnreapedIn(v)' = UnreapedIn(v)
      BY <2>3, <2>6
    <2>7. /\ active = Cardinality(Unreaped)
          /\ \A v \in Volumes : perVol[v] = Cardinality(UnreapedIn(v))
          /\ outstanding = Cardinality(Ahead)
      BY <2>1 DEF Inv, SlotsMatchTasks, WindowMatchesChunks, UnreapedIn
    <2>8. active' = Cardinality(Unreaped')
      BY <2>1, <2>4, <2>7 DEF Sub1
    <2>9. ASSUME NEW v \in Volumes
          PROVE  perVol'[v] = Cardinality(UnreapedIn(v)')
      <3>1. CASE v = vol(c)
        <4>1. perVol'[v] = Sub1(perVol[v])
          BY <1>0, <2>1, <3>1 DEF TypeOK
        <4>2. perVol[v] = Cardinality(UnreapedIn(v))
          BY <2>7, <3>1
        <4> QED
          BY <2>5, <3>1, <4>1, <4>2 DEF Sub1
      <3>2. CASE v # vol(c)
        BY <1>0, <2>1, <2>6, <2>7, <3>2 DEF TypeOK
      <3> QED
        BY <3>1, <3>2
    <2>10. SlotsMatchTasks' /\ WindowMatchesChunks'
      BY <1>0, <2>1, <2>2, <2>7, <2>8, <2>9
         DEF SlotsMatchTasks, WindowMatchesChunks, UnreapedIn
    <2>11. BoundInv'
      <3>1. Cardinality(Unreaped') <= T
        BY <1>0, <2>4 DEF Inv, BoundInv
      <3>2. ASSUME NEW v \in Volumes
            PROVE  Cardinality(UnreapedIn(v)') <= P
        <4>1. CASE v = vol(c)
          BY <1>0, <2>5, <4>1 DEF Inv, BoundInv
        <4>2. CASE v # vol(c)
          BY <2>6, <4>2 DEF Inv, BoundInv
        <4> QED
          BY <4>1, <4>2
      <3> QED
        BY <1>0, <2>1, <3>1, <3>2 DEF Inv, BoundInv, Window
    <2> QED
      BY <2>10, <2>11
  <1>4. CASE Advance
    <2>1. /\ status = "open" /\ head \in Chunks /\ head' = head + 1
          /\ outstanding' = Sub1(outstanding)
          /\ UNCHANGED <<phase, active, perVol, status>>
          /\ phase[head] # "idle"
      <3>1. /\ status = "open" /\ head' = head + 1 /\ pc = "advance"
            /\ outstanding' = Sub1(outstanding)
            /\ UNCHANGED <<phase, active, perVol, status>>
        BY <1>0, <1>4 DEF Advance, CursorInv, tasks, reply
      <3>2. head \in Chunks /\ got = len(head) /\ got <= sent[head]
        BY <1>0, <3>1, PlanFacts DEF CursorInv, TypeOK, Chunks
      <3>3. len(head) \in Nat \ {0} /\ sent[head] \in Nat
        BY <1>0, <3>2, PlanFacts DEF TypeOK
      <3>4. phase[head] # "idle"
        BY <1>0, <3>2, <3>3 DEF TaskInv
      <3> QED
        BY <3>1, <3>2, <3>4
    <2>2. /\ Unreaped' = Unreaped /\ \A v : UnreapedIn(v)' = UnreapedIn(v)
      BY <1>0, <2>1 DEF Unreaped, UnreapedIn
    <2>3. Ahead' = Ahead \ {head} /\ head \in Ahead
      <3>1. \A c \in Chunks : c >= head + 1 <=> c >= head /\ c # head
        BY <1>0, <2>1, PlanFacts DEF TypeOK, Chunks
      <3>2. head >= head
        BY <1>0 DEF TypeOK
      <3> QED
        BY <1>0, <2>1, <3>1, <3>2 DEF Ahead
    <2>4. /\ Cardinality(Ahead') = Cardinality(Ahead) - 1
          /\ Cardinality(Ahead) \in Nat \ {0}
      BY <1>0, <2>3, CountedSets, OneLess DEF TypeOK
    <2>5. outstanding = Cardinality(Ahead)
      BY <2>1 DEF Inv, WindowMatchesChunks
    <2>6. outstanding' = Cardinality(Ahead') /\ outstanding' <= outstanding
      BY <2>1, <2>4, <2>5 DEF Sub1
    <2>7. SlotsMatchTasks' /\ WindowMatchesChunks'
      BY <1>0, <2>1, <2>2, <2>6
         DEF Inv, SlotsMatchTasks, WindowMatchesChunks, UnreapedIn
    <2>8. outstanding' <= Window /\ Window' = Window
      BY <1>0, <2>1, <2>4, <2>5, <2>6 DEF Inv, BoundInv, Window
    <2>9. BoundInv'
      BY <1>0, <2>1, <2>2, <2>8 DEF Inv, BoundInv
    <2> QED
      BY <2>7, <2>9
  <1>5. ASSUME UNCHANGED <<phase, head, active, outstanding, perVol>>,
               status' = "open" => status = "open"
        PROVE  SlotsMatchTasks' /\ WindowMatchesChunks' /\ BoundInv'
    <2>1. /\ Unreaped' = Unreaped /\ \A v : UnreapedIn(v)' = UnreapedIn(v)
          /\ Ahead' = Ahead
      BY <1>0, <1>5 DEF Unreaped, UnreapedIn, Ahead
    <2> QED
      BY <1>0, <1>5, <2>1
         DEF Inv, SlotsMatchTasks, WindowMatchesChunks, BoundInv, UnreapedIn,
             Window
  <1>6. \/ \E c \in Chunks : Fetch(c) \/ FetchPanic(c) \/ Start(c) \/ Reap(c)
        \/ Advance
        \/ /\ UNCHANGED <<phase, head, active, outstanding, perVol>>
           /\ status' = "open" => status = "open"
    BY DEF Next, Serialize, FillDone, RecvItem, RecvFailure, SendItem,
           CloseBody, SendError, NoticeGone, Leaving, Finish, ClientTake,
           ClientLeave, Terminated, vars, tasks, cursor, slots, reply
  <1> QED
    BY <1>1, <1>2, <1>3, <1>4, <1>5, <1>6
-----------------------------------------------------------------------------
(***************************************************************************)
(* The body.                                                               *)
(***************************************************************************)
LEMMA BodyStep ==
  ASSUME TypeOK, CursorInv, BodyInv, [Next]_vars
  PROVE  BodyInv'
  <1>0. /\ plan' = plan /\ N' = N /\ TotalUnits' = TotalUnits
        /\ \A c : len(c)' = len(c)
        /\ N \in Nat \ {0} /\ N \in Chunks /\ 1 \in Chunks
        /\ \A c \in Chunks : plan[c].merged_start \in Nat /\ len(c) \in Nat
        /\ \A c \in 1..(N - 1) :
             plan[c + 1].merged_start = plan[c].merged_start + len(c)
    BY RequestFixed, PlanFrame, PlanFacts DEF TypeOK, TotalUnits, Chunks
  <1>1. ASSUME body' = body,
               \/ /\ UNCHANGED <<head, got, status>>
                  /\ pc = "send" <=> pc' = "send"
               \/ status' \in {"error", "gone"}
        PROVE  BodyInv'
    BY <1>0, <1>1 DEF BodyInv, BodyLength, TypeOK
  <1>2. ASSUME NEW c \in Chunks, Fetch(c) \/ FetchPanic(c)
        PROVE  BodyInv'
    BY <1>1, <1>2, FetchForm
  <1>3. ASSUME NEW c \in Chunks, Start(c) \/ Reap(c)
        PROVE  BodyInv'
    BY <1>1, <1>3 DEF Start, Reap, AfterReap, cursor, reply
  <1>4. CASE FillDone \/ RecvFailure \/ Finish
    BY <1>1, <1>4 DEF FillDone, Resume, RecvFailure, Finish, cursor, reply
  <1>5. CASE SendError \/ NoticeGone
    BY <1>1, <1>5 DEF SendError, NoticeGone, Leaving
  <1>6. CASE ClientTake \/ ClientLeave \/ UNCHANGED vars
    BY <1>1, <1>6 DEF ClientTake, ClientLeave, vars, cursor, reply
  <1>7. CASE RecvItem
    <2>1. /\ UNCHANGED <<body, status, head>> /\ pc = "select" /\ pc' = "send"
          /\ got' = got + 1 /\ status = "open" /\ head <= N /\ got \in Nat
      BY <1>7 DEF RecvItem, CursorInv, reply, TypeOK
    <2> QED
      BY <1>0, <2>1 DEF BodyInv, BodyLength, TypeOK
  <1>8. CASE SendItem
    <2>1. /\ UNCHANGED <<head, got, status>> /\ pc = "send" /\ pc' # "send"
          /\ body' = Append(body, plan[head].merged_start + got - 1)
          /\ status = "open" /\ head \in Chunks /\ head # N + 1 /\ got \in Nat \ {0}
      BY <1>0, <1>8 DEF SendItem, Resume, CursorInv, cursor, TypeOK, Chunks
    <2>2. /\ Len(body) = plan[head].merged_start - plan[1].merged_start + (got - 1)
          /\ body \in Seq(Nat)
      BY <1>0, <2>1 DEF BodyInv, BodyLength, TypeOK
    <2>3. plan[head].merged_start \in Nat /\ plan[1].merged_start \in Nat
      BY <1>0, <2>1
    <2>4. plan[head].merged_start + got - 1 = plan[1].merged_start + Len(body)
      BY <2>1, <2>2, <2>3
    <2>5. /\ Len(body') = Len(body) + 1
          /\ \A k \in 1..Len(body') :
               body'[k] = IF k <= Len(body) THEN body[k]
                          ELSE plan[head].merged_start + got - 1
      BY <2>1, <2>2
    <2>6. \A k \in 1..Len(body') : body'[k] = plan[1].merged_start + k - 1
      BY <2>2, <2>3, <2>4, <2>5 DEF BodyInv
    <2>7. Len(body') = BodyLength'
      BY <1>0, <2>1, <2>2, <2>3, <2>5 DEF BodyLength
    <2> QED
      BY <1>0, <2>1, <2>6, <2>7 DEF BodyInv
  <1>9. CASE Advance
    <2>1. /\ UNCHANGED <<body, status>> /\ pc = "advance" /\ pc' = "fill"
          /\ head' = head + 1 /\ got' = 0 /\ got = len(head)
          /\ status = "open" /\ head \in Chunks
      BY <1>0, <1>9 DEF Advance, CursorInv, reply, TypeOK, Chunks
    <2>2. Len(body) = plan[head].merged_start - plan[1].merged_start + len(head)
      BY <1>0, <2>1 DEF BodyInv, BodyLength, Chunks
    <2>3. Len(body) = BodyLength'
      <3>1. CASE head = N
        BY <1>0, <2>1, <2>2, <3>1 DEF BodyLength, TotalUnits
      <3>2. CASE head # N
        <4>1. /\ head \in 1..(N - 1) /\ head + 1 # N + 1
              /\ plan[head + 1].merged_start = plan[head].merged_start + len(head)
              /\ plan[head].merged_start \in Nat /\ len(head) \in Nat
              /\ plan[1].merged_start \in Nat
          BY <1>0, <2>1, <3>2 DEF Chunks
        <4>2. BodyLength' = plan[head + 1].merged_start - plan[1].merged_start
          BY <1>0, <2>1, <4>1 DEF BodyLength
        <4> QED
          BY <2>2, <4>1, <4>2
      <3> QED
        BY <3>1, <3>2
    <2> QED
      BY <1>0, <2>1, <2>3 DEF BodyInv
  <1>10. CASE CloseBody
    <2>1. /\ body' = body /\ status = "open" /\ status' = "eof" /\ head = N + 1
      BY <1>10 DEF CloseBody, Leaving, CursorInv
    <2> QED
      BY <1>0, <2>1 DEF BodyInv, BodyLength
  <1> QED
    BY <1>2, <1>3, <1>4, <1>5, <1>6, <1>7, <1>8, <1>9, <1>10
       DEF Next, Serialize, Terminated
-----------------------------------------------------------------------------
(***************************************************************************)
(* The gapless run of started chunks.                                      *)
(***************************************************************************)
LEMMA GapStep ==
  ASSUME Inv, GapInv, [Next]_vars
  PROVE  GapInv'
  <1>0. /\ plan' = plan /\ mode' = mode /\ N' = N /\ Chunks' = Chunks
        /\ \A c : vol(c)' = vol(c)
        /\ TypeOK /\ CursorInv /\ TaskInv /\ N \in Nat
        /\ T \in Nat \ {0} /\ P \in Nat \ {0}
    BY RequestFixed, PlanFrame, PlanFacts, LimitAssumption DEF Inv, TypeOK
  <1>g. Gapless' = Gapless
    BY <1>0 DEF Gapless, OneVolume
  <1>1. ASSUME head' = head,
               \A c \in Chunks : phase'[c] = "idle" <=> phase[c] = "idle"
        PROVE  GapInv'
    BY <1>0, <1>1, <1>g DEF GapInv, Ahead
  <1>2. ASSUME NEW c \in Chunks, Fetch(c) \/ FetchPanic(c)
        PROVE  GapInv'
    <2>1. head' = head /\ \A d \in Chunks : phase'[d] = "idle" <=> phase[d] = "idle"
      BY <1>0, <1>2, FetchForm
    <2> QED
      BY <1>1, <2>1
  <1>3. ASSUME NEW c \in Chunks, Reap(c)
        PROVE  GapInv'
    <2>1. head' = head /\ \A d \in Chunks : phase'[d] = "idle" <=> phase[d] = "idle"
      BY <1>0, <1>3 DEF Reap, Reported, cursor, TypeOK
    <2> QED
      BY <1>1, <2>1
  <1>4. ASSUME NEW c \in Chunks, Start(c)
        PROVE  GapInv'
    <2>1. /\ head' = head /\ c \in Eligible /\ \A d \in Eligible : c <= d
          /\ active < limit /\ status = "open" /\ perVol[vol(c)] < P
          /\ \A d \in Chunks : d # c => phase'[d] = phase[d]
      BY <1>0, <1>4 DEF Start, MayStart, Eligible, CursorInv, cursor, TypeOK
    <2>2. CASE mode = "playback"
      <3>1. c < head + T
        BY <2>1, <2>2 DEF Eligible, Scanned
      <3> QED
        BY <1>0, <1>g, <2>1, <2>2, <3>1 DEF GapInv, Ahead
    <2>3. ASSUME mode # "playback", Gapless, NEW a \in Chunks, head <= a, a < c
          PROVE  phase[a] # "idle"
      <3> SUFFICES ASSUME phase[a] = "idle" PROVE FALSE
        OBVIOUS
      <3>1. a \notin Eligible
        BY <2>1, <2>3 DEF Eligible, Chunks
      <3>2. perVol[vol(a)] >= P /\ vol(a) \in Volumes
        <4>1. vol(a) \in Volumes
          BY DEF Volumes
        <4>2. perVol[vol(a)] \in Nat /\ ~(perVol[vol(a)] < P)
          BY <1>0, <2>3, <3>1, <4>1 DEF Eligible, Scanned, TypeOK, Chunks
        <4> QED
          BY <1>0, <4>1, <4>2
      <3>3. CASE OneVolume
        BY <1>0, <2>1, <3>2, <3>3 DEF OneVolume, TypeOK
      <3>4. CASE T <= P
        <4>1. /\ perVol[vol(a)] = Cardinality(UnreapedIn(vol(a)))
              /\ active = Cardinality(Unreaped)
          BY <2>1, <3>2 DEF Inv, SlotsMatchTasks, UnreapedIn
        <4>2. Cardinality(UnreapedIn(vol(a))) <= Cardinality(Unreaped)
          <5>1. UnreapedIn(vol(a)) \in SUBSET Unreaped
            BY DEF UnreapedIn
          <5> QED
            BY <1>0, <5>1, CountedSets, SubsetCard DEF TypeOK
        <4>3. active \in Nat /\ limit \in Nat /\ limit <= T /\ perVol[vol(a)] \in Nat
          BY <1>0, <3>2 DEF TypeOK
        <4> QED
          BY <1>0, <2>1, <3>2, <3>4, <4>1, <4>2, <4>3
      <3> QED
        BY <2>3, <3>3, <3>4 DEF Gapless
    <2>4. CASE mode # "playback"
      <3> SUFFICES ASSUME Gapless, NEW a \in Chunks, NEW b \in Chunks,
                          head <= a, a < b, phase'[b] # "idle"
                   PROVE  phase'[a] # "idle"
        BY <1>0, <1>g, <2>1, <2>4 DEF GapInv
      <3>1. phase'[c] = "fetching"
        BY <1>0, <1>4 DEF Start, TypeOK
      <3>2. CASE b = c
        BY <2>1, <2>3, <2>4, <3>2 DEF Chunks
      <3>3. CASE b # c
        BY <2>1, <2>4, <3>1, <3>3 DEF GapInv
      <3> QED
        BY <3>2, <3>3
    <2> QED
      BY <2>2, <2>4
  <1>5. CASE Advance
    <2>1. head' = head + 1 /\ phase' = phase /\ head \in Nat
      BY <1>0, <1>5 DEF Advance, tasks, TypeOK
    <2>2. \A a \in Chunks : head' <= a => head <= a
      BY <1>0, <2>1 DEF Chunks
    <2>3. CASE mode = "playback"
      BY <1>0, <1>g, <2>1, <2>2, <2>3 DEF GapInv, Ahead, Chunks
    <2>4. CASE mode # "playback"
      BY <1>0, <1>g, <2>1, <2>2, <2>4 DEF GapInv
    <2> QED
      BY <2>3, <2>4
  <1>6. \/ \E c \in Chunks : Fetch(c) \/ FetchPanic(c) \/ Start(c) \/ Reap(c)
        \/ Advance
        \/ UNCHANGED <<phase, head>>
    BY DEF Next, Serialize, FillDone, RecvItem, RecvFailure, SendItem,
           CloseBody, SendError, NoticeGone, Leaving, Finish, ClientTake,
           ClientLeave, Terminated, vars, tasks, cursor
  <1> QED
    BY <1>1, <1>2, <1>3, <1>4, <1>5, <1>6
-----------------------------------------------------------------------------
(***************************************************************************)
(* The invariant.                                                          *)
(***************************************************************************)
LEMMA InitInv ==
  ASSUME Init
  PROVE  Inv /\ GapInv
  <1>1. TypeOK
    BY InitType
  <1>2. /\ N \in Nat \ {0} /\ 1 \in Chunks /\ T \in Nat \ {0} /\ P \in Nat \ {0}
        /\ \A c \in Chunks : len(c) \in Nat \ {0} /\ plan[c].merged_start \in Nat
    BY <1>1, PlanFacts, LimitAssumption DEF TypeOK, Chunks
  <1>3. CursorInv
    BY <1>2 DEF Init, CursorInv
  <1>4. TaskInv
    BY <1>2 DEF Init, TaskInv
  <1>5. BodyInv
    <2>1. Len(body) = 0 /\ head = 1 /\ got = 0 /\ status = "open" /\ pc # "send"
      BY DEF Init
    <2>2. BodyLength = 0
      BY <1>2, <2>1 DEF BodyLength
    <2> QED
      BY <2>1, <2>2 DEF BodyInv
  <1>6. /\ Unreaped \in SUBSET {1} /\ Ahead = Unreaped
        /\ \A v : UnreapedIn(v) \in SUBSET {1}
    BY <1>1, <1>2 DEF Init, Unreaped, UnreapedIn, Ahead, Chunks
  <1>7. SlotsMatchTasks /\ WindowMatchesChunks
    BY <1>6 DEF Init, SlotsMatchTasks, WindowMatchesChunks
  <1>8. ASSUME NEW S \in SUBSET {1}
        PROVE  Cardinality(S) \in Nat /\ Cardinality(S) <= 1
    <2>1. IsFiniteSet({1}) /\ Cardinality({1}) = 1
      BY FS_Singleton
    <2> QED
      BY <2>1, FS_Subset, FS_CardinalityType
  <1>9. BoundInv
    <2>1. Cardinality(Unreaped) <= T /\ \A v : Cardinality(UnreapedIn(v)) <= P
      BY <1>2, <1>6, <1>8
    <2>2. outstanding = Cardinality(Unreaped)
      BY DEF Init
    <2> QED
      BY <1>2, <1>6, <1>8, <2>1, <2>2 DEF BoundInv, Window
  <1>10. GapInv
    <2>1. head = 1 /\ \A c \in Chunks : phase[c] # "idle" => c = 1
      BY <1>2 DEF Init
    <2> QED
      BY <1>2, <2>1 DEF GapInv, Ahead, Chunks
  <1> QED
    BY <1>1, <1>3, <1>4, <1>5, <1>7, <1>9, <1>10 DEF Inv

LEMMA NextInv ==
  ASSUME Inv, [Next]_vars
  PROVE  Inv'
  <1>1. TypeOK /\ CursorInv /\ TaskInv /\ BodyInv
    BY DEF Inv
  <1>2. TypeOK'
    <2>1. \/ \E c \in Chunks : Fetch(c) \/ FetchPanic(c) \/ Start(c) \/ Reap(c)
          \/ FillDone \/ RecvItem \/ RecvFailure \/ SendItem \/ Advance
          \/ CloseBody \/ SendError \/ NoticeGone \/ Finish
          \/ ClientTake \/ ClientLeave \/ UNCHANGED vars
      BY DEF Next, Serialize, Terminated
    <2> QED
      BY <1>1, <2>1, TypeFetch, TypeStart, TypeReap, TypeSerialize
  <1>3. CursorInv'
    BY <1>1, CursorStep
  <1>4. TaskInv'
    BY <1>1, TaskStep
  <1>5. BodyInv'
    BY <1>1, BodyStep
  <1> QED
    BY <1>2, <1>3, <1>4, <1>5, CountStep DEF Inv

\* The scheduler's loop (engine.rs) keeps its cursor, its hand-kept counters,
\* the fetch tasks and the body in the relation Inv and GapInv spell out.
THEOREM Invariance == Spec => [](Inv /\ GapInv)
  <1>1. Init => Inv /\ GapInv
    BY InitInv
  <1>2. (Inv /\ GapInv) /\ [Next]_vars => (Inv /\ GapInv)'
    BY NextInv, GapStep
  <1> QED
    BY <1>1, <1>2, PTL DEF Spec
-----------------------------------------------------------------------------
(***************************************************************************)
(* What follows from the invariant.                                        *)
(***************************************************************************)
LEMMA LimitsFromInv ==
  ASSUME Inv
  PROVE  ConnectionLimits
  <1>1. /\ plan \in Plans /\ T \in Nat /\ P \in Nat
        /\ \A v : UnreapedIn(v) \in SUBSET Chunks
        /\ Unreaped \in SUBSET Chunks /\ Ahead \in SUBSET Chunks
    BY CountedSets, LimitAssumption DEF Inv, TypeOK
  <1>2. Cardinality(Running) <= T
    <2>1. Running \in SUBSET Unreaped
      BY DEF Running, Unreaped
    <2>2. Cardinality(Running) <= Cardinality(Unreaped)
      BY <1>1, <2>1, SubsetCard
    <2>3. Cardinality(Running) \in Nat /\ Cardinality(Unreaped) \in Nat
      BY <1>1, <2>1, ChunkSets
    <2> QED
      BY <1>1, <2>2, <2>3 DEF Inv, BoundInv
  <1>3. ASSUME NEW v \in Volumes
        PROVE  Cardinality({c \in Running : vol(c) = v}) <= P
    <2> DEFINE R == {c \in Running : vol(c) = v}
    <2>1. R \in SUBSET UnreapedIn(v)
      BY DEF Running, Unreaped, UnreapedIn
    <2>2. Cardinality(R) <= Cardinality(UnreapedIn(v))
      BY <1>1, <2>1, SubsetCard
    <2>3. Cardinality(R) \in Nat /\ Cardinality(UnreapedIn(v)) \in Nat
      BY <1>1, <2>1, ChunkSets
    <2>4. Cardinality(UnreapedIn(v)) <= P
      BY DEF Inv, BoundInv
    <2> QED
      BY <1>1, <2>2, <2>3, <2>4
  <1>4. ASSUME status = "open"
        PROVE  Cardinality({c \in Ahead : sent[c] > 0}) <= Window
    <2> DEFINE A == {c \in Ahead : sent[c] > 0}
    <2>1. Cardinality(A) <= Cardinality(Ahead)
      BY <1>1, SubsetCard
    <2>2. Cardinality(A) \in Nat /\ Cardinality(Ahead) \in Nat
      BY <1>1, ChunkSets
    <2>3. Cardinality(Ahead) <= Window /\ Window \in Nat
      BY <1>1, <1>4 DEF Inv, WindowMatchesChunks, BoundInv, Window
    <2> QED
      BY <2>1, <2>2, <2>3
  <1> QED
    BY <1>2, <1>3, <1>4 DEF ConnectionLimits

LEMMA HeadFromInv ==
  ASSUME Inv, GapInv
  PROVE  WindowFeedsHead
  <1> SUFFICES ASSUME Gapless, pc = "select", outstanding = Window,
                      phase[head] = "idle"
               PROVE  FALSE
    BY DEF WindowFeedsHead, CurrentChunkInWindow
  <1>1. /\ TypeOK /\ T \in Nat \ {0} /\ N \in Nat /\ Window = T + 1
        /\ status = "open" /\ head \in Chunks
    BY PlanFacts, LimitAssumption DEF Inv, TypeOK, CursorInv, Window, Chunks
  <1>2. Cardinality(Ahead) = T + 1 /\ Ahead \in SUBSET Chunks
    BY <1>1, CountedSets DEF Inv, WindowMatchesChunks, TypeOK
  <1>3. CASE mode = "playback"
    <2>1. Ahead \in SUBSET (head..(head + T - 1))
      BY <1>1, <1>2, <1>3 DEF GapInv, Ahead, Chunks, TypeOK
    <2>2. /\ IsFiniteSet(head..(head + T - 1))
          /\ Cardinality(head..(head + T - 1)) = T
      <3>1. head \in Int /\ head + T - 1 \in Int /\ ~(head > head + T - 1)
            /\ (head + T - 1) - head + 1 = T
        BY <1>1 DEF TypeOK
      <3> QED
        BY <3>1, FS_Interval
    <2>3. Cardinality(Ahead) <= T
      BY <2>1, <2>2, FS_Subset
    <2> QED
      BY <1>1, <1>2, <2>3
  <1>4. CASE mode # "playback"
    <2>1. Ahead = {}
      BY <1>1, <1>4 DEF GapInv, Ahead, Chunks, TypeOK
    <2> QED
      BY <1>1, <1>2, <2>1, FS_EmptySet
  <1> QED
    BY <1>3, <1>4

LEMMA QuietStep ==
  ASSUME Inv, [Next]_vars, status # "open"
  PROVE  /\ body' = body
         /\ \A c \in Chunks : phase[c] = "idle" => phase'[c] = "idle"
  <1>1. pc \in {"drain", "ended"} /\ TypeOK
    BY DEF Inv, CursorInv
  <1>2. ASSUME NEW c \in Chunks, Fetch(c) \/ FetchPanic(c)
        PROVE  body' = body /\ \A d \in Chunks : phase[d] = "idle" => phase'[d] = "idle"
    BY <1>1, <1>2, FetchForm
  <1>3. CASE Finish \/ ClientTake \/ ClientLeave \/ UNCHANGED vars
    BY <1>3 DEF Finish, ClientTake, ClientLeave, vars, tasks, reply
  <1> QED
    BY <1>1, <1>2, <1>3
       DEF Next, Serialize, Start, Reap, FillDone, RecvItem, RecvFailure,
           SendItem, Advance, CloseBody, SendError, NoticeGone, Terminated

\* The variables keep their types.
THEOREM TypeCorrect == Spec => []TypeOK
  <1>1. Inv /\ GapInv => TypeOK
    BY DEF Inv
  <1> QED
    BY <1>1, Invariance, PTL

\* The counters kept by hand are exact, however late a completion record is.
THEOREM CountersCorrect == Spec => []CountersMatch
  <1>1. Inv /\ GapInv => CountersMatch
    BY DEF Inv, CountersMatch
  <1> QED
    BY <1>1, Invariance, PTL

\* max_threads, max_per_volume and the window bound the tasks themselves.
THEOREM LimitsHold == Spec => []ConnectionLimits
  <1>1. Inv /\ GapInv => ConnectionLimits
    BY LimitsFromInv
  <1> QED
    BY <1>1, Invariance, PTL

\* The caller gets the requested range in order, and a clean end means all.
THEOREM InOrder == Spec => []BodyInOrder
  <1>1. Inv /\ GapInv => BodyInOrder
    BY DEF Inv, BodyInv, BodyInOrder
  <1> QED
    BY <1>1, Invariance, PTL

\* In playback, with one volume, or when a volume may use every connection, a
\* full window holds the chunk the serializer waits for.
THEOREM HeadFed == Spec => []WindowFeedsHead
  <1>1. Inv /\ GapInv => WindowFeedsHead
    BY HeadFromInv
  <1> QED
    BY <1>1, Invariance, PTL

\* Nothing is started or delivered after the end.
THEOREM Quiet == Spec => QuietAfterEnd
  <1>1. Inv /\ [Next]_vars =>
          [status # "open" =>
             /\ body' = body
             /\ \A c \in Chunks : phase[c] = "idle" => phase'[c] = "idle"]_vars
    BY QuietStep
  <1>2. Inv /\ GapInv => Inv
    OBVIOUS
  <1> QED
    BY <1>1, <1>2, Invariance, PTL DEF Spec, QuietAfterEnd
-----------------------------------------------------------------------------
(***************************************************************************)
(* Refinement of OrderedStream.                                            *)
(***************************************************************************)
\* The well-ordering of the naturals, from that of finite sets by inclusion.
LEMMA LeastElement ==
  ASSUME NEW S \in SUBSET Nat, S # {}
  PROVE  \E m \in S : \A n \in S : m <= n
  <1> DEFINE W == {1..n : n \in S}
             R == StrictSubsetOrdering(Nat)
             F == FiniteSubsetsOf(Nat)
  <1>1. W \subseteq F /\ W # {}
    <2>1. ASSUME NEW n \in S
          PROVE  1..n \in F
      <3>1. IsFiniteSet(1..n)
        BY FS_Interval
      <3> QED
        BY <3>1 DEF FiniteSubsetsOf
    <2> QED
      BY <2>1
  <1>2. IsWellFoundedOn(R, F)
    BY FS_StrictSubsetOrderingWellFounded
  <1>3. PICK w \in W : \A y \in W : ~ (<<y, w>> \in R)
    <2> HIDE DEF W, R, F
    <2> QED
      BY <1>1, <1>2, WFMin
  <1>4. PICK m \in S : w = 1..m
    BY <1>3
  <1>5. ASSUME NEW n \in S, n < m
        PROVE  FALSE
    <2>1. 1..n \in W /\ 1..n \subseteq 1..m /\ m \in 1..m /\ m \notin 1..n
      BY <1>5
    <2>2. <<1..n, 1..m>> \in R
      BY <2>1 DEF StrictSubsetOrdering
    <2> QED
      BY <1>3, <1>4, <2>1, <2>2
  <1>6. m \in Nat /\ \A n \in S : n \in Nat /\ ~(n < m)
    BY <1>5
  <1> HIDE DEF W, R, F
  <1> QED
    BY <1>6

\* Every chunk ends at or before the end of the last one.
LEMMA ChunksBeforeEnd ==
  ASSUME plan \in Plans, NEW c \in Chunks
  PROVE  plan[c].merged_start + len(c) <= plan[N].merged_start + len(N)
  <1> DEFINE Late(d) == ~(plan[d].merged_start + len(d)
                            <= plan[N].merged_start + len(N))
             S == {N - d : d \in {x \in Chunks : Late(x)}}
  <1>0. /\ N \in Nat \ {0} /\ N \in Chunks
        /\ \A d \in Chunks : plan[d].merged_start \in Nat /\ len(d) \in Nat \ {0}
        /\ \A d \in 1..(N - 1) :
             plan[d + 1].merged_start = plan[d].merged_start + len(d)
    BY PlanFacts DEF Chunks
  <1> SUFFICES ASSUME Late(c) PROVE FALSE
    OBVIOUS
  <1>1. S \in SUBSET Nat /\ S # {}
    BY <1>0 DEF Chunks
  <1>2. PICK m \in S : \A n \in S : m <= n
    <2> HIDE DEF S
    <2> QED
      BY <1>1, LeastElement
  <1>3. PICK d \in Chunks : m = N - d /\ Late(d)
    BY <1>2
  <1>4. d # N
    BY <1>0, <1>3
  <1>5. d \in 1..(N - 1) /\ d + 1 \in Chunks
    BY <1>0, <1>3, <1>4 DEF Chunks
  <1>6. Late(d + 1)
    BY <1>0, <1>3, <1>5
  <1>7. N - (d + 1) \in S
    BY <1>5, <1>6
  <1>8. m <= N - (d + 1)
    BY <1>2, <1>7
  <1> HIDE DEF S
  <1> QED
    BY <1>0, <1>3, <1>5, <1>8 DEF Chunks

LEMMA InitRefines ==
  ASSUME Init
  PROVE  Abstract!Init
  <1>1. TypeOK /\ 1 \in Chunks /\ N \in Chunks
    BY InitType, PlanFacts DEF TypeOK, Chunks
  <1>2. /\ plan[1].merged_start \in Nat /\ plan[N].merged_start \in Nat
        /\ len(1) \in Nat \ {0} /\ len(N) \in Nat
        /\ plan[1].merged_start + len(1) <= plan[N].merged_start + len(N)
    BY <1>1, PlanFacts, ChunksBeforeEnd DEF TypeOK
  <1>3. TotalUnits \in Nat \ {0}
    BY <1>2 DEF TotalUnits
  <1>4. body = <<>> /\ status = "open"
    BY DEF Init
  <1> QED
    BY <1>2, <1>3, <1>4 DEF Abstract!Init

LEMMA StepRefines ==
  ASSUME Inv, [Next]_vars
  PROVE  [Abstract!Next]_<<plan[1].merged_start, TotalUnits, body, status>>
  <1> DEFINE first == plan[1].merged_start
             same == UNCHANGED <<plan[1].merged_start, TotalUnits>>
  <1>0. /\ TypeOK /\ CursorInv /\ BodyInv /\ same /\ 1 \in Chunks /\ N \in Chunks
        /\ N \in Nat
    BY RequestFixed, PlanFrame, PlanFacts
       DEF Inv, TypeOK, TotalUnits, Chunks
  <1>1. ASSUME UNCHANGED <<body, status>>
        PROVE  UNCHANGED <<plan[1].merged_start, TotalUnits, body, status>>
    BY <1>0, <1>1
  <1>h. ASSUME head <= N
        PROVE  /\ head \in Chunks /\ plan[head].merged_start \in Nat
               /\ first \in Nat /\ TotalUnits \in Int
               /\ plan[head].merged_start + len(head) <= first + TotalUnits
    <2>1. /\ \A c \in Chunks : plan[c].merged_start \in Nat /\ len(c) \in Nat
          /\ \A c \in Chunks : plan[c].merged_start + len(c)
                                <= plan[N].merged_start + len(N)
      BY <1>0, PlanFacts, ChunksBeforeEnd DEF TypeOK
    <2>2. head \in Chunks
      BY <1>0, <1>h DEF TypeOK, Chunks
    <2>3. /\ first \in Nat
          /\ plan[N].merged_start \in Nat /\ len(N) \in Nat
      BY <1>0, <2>1
    <2>4. /\ plan[head].merged_start \in Nat /\ len(head) \in Nat
          /\ plan[head].merged_start + len(head)
               <= plan[N].merged_start + len(N)
      BY <2>1, <2>2
    <2>5. TotalUnits = plan[N].merged_start + len(N) - first
      BY DEF TotalUnits
    <2> HIDE DEF first
    <2> QED
      BY <2>2, <2>3, <2>4, <2>5
  <1>2. CASE SendItem
    <2>1. /\ pc = "send" /\ status = "open" /\ status' = status /\ head <= N
          /\ got \in Nat \ {0} /\ got <= len(head) /\ len(head) \in Nat
          /\ body' = Append(body, plan[head].merged_start + got - 1)
      BY <1>0, <1>2, PlanFacts DEF SendItem, CursorInv, TypeOK, Chunks
    <2>2. Len(body) = plan[head].merged_start - first + (got - 1)
      BY <1>0, <2>1 DEF BodyInv, BodyLength, TypeOK
    <2>3. /\ plan[head].merged_start \in Nat /\ first \in Nat
          /\ TotalUnits \in Int
          /\ plan[head].merged_start + len(head) <= first + TotalUnits
      BY <1>h, <2>1
    <2>4. /\ Len(body) < TotalUnits
          /\ plan[head].merged_start + got - 1 = first + Len(body)
      <3>1. got \in Nat \ {0} /\ got <= len(head) /\ len(head) \in Nat
        BY <2>1
      <3> HIDE DEF first
      <3> QED
        BY <2>2, <2>3, <3>1
    <2>5. body' = Append(body, first + Len(body))
      BY <2>1, <2>4
    <2> QED
      BY <1>0, <2>1, <2>4, <2>5 DEF Abstract!Next, Abstract!Deliver
  <1>3. CASE CloseBody
    <2>1. /\ status = "open" /\ status' = "eof" /\ body' = body
          /\ Len(body) = TotalUnits
      BY <1>0, <1>3 DEF CloseBody, Leaving, CursorInv, BodyInv, BodyLength
    <2> QED
      BY <1>0, <2>1 DEF Abstract!Next, Abstract!End
  <1>4. CASE SendError
    <2>1. /\ pc = "senderr" /\ status = "open" /\ status' = "error"
          /\ body' = body /\ head <= N /\ got \in Nat
          /\ got < len(head) /\ len(head) \in Nat
      BY <1>0, <1>4, PlanFacts
         DEF SendError, Leaving, CursorInv, TypeOK, Chunks
    <2>2. Len(body) = plan[head].merged_start - first + got
      BY <1>0, <2>1 DEF BodyInv, BodyLength, TypeOK
    <2>3. Len(body) < TotalUnits
      BY <1>h, <2>1, <2>2
    <2> QED
      BY <1>0, <2>1, <2>3 DEF Abstract!Next, Abstract!Fail
  <1>5. CASE NoticeGone
    <2>1. status = "open" /\ status' = "gone" /\ body' = body
      BY <1>0, <1>5 DEF NoticeGone, Leaving, CursorInv
    <2> QED
      BY <1>0, <2>1 DEF Abstract!Next, Abstract!Leave
  <1>6. ASSUME NEW c \in Chunks, Fetch(c) \/ FetchPanic(c)
        PROVE  UNCHANGED <<body, status>>
    BY <1>0, <1>6, FetchForm
  <1>7. CASE ~(SendItem \/ CloseBody \/ SendError \/ NoticeGone)
    <2>1. UNCHANGED <<body, status>>
      BY <1>6, <1>7
         DEF Next, Serialize, Start, Reap, FillDone, RecvItem, RecvFailure,
             Advance, Finish, ClientTake, ClientLeave, Terminated, vars, reply
    <2> QED
      BY <1>1, <2>1
  <1> QED
    BY <1>2, <1>3, <1>4, <1>5, <1>7

\* The scheduler, with everything its tasks do out of order, implements a
\* stream that yields the range in order and ends once.
THEOREM Refines == Spec => ImplementsOrderedStream
  <1>1. Init => Abstract!Init
    BY InitRefines
  <1>2. Inv /\ [Next]_vars =>
          [Abstract!Next]_<<plan[1].merged_start, TotalUnits, body, status>>
    BY StepRefines
  <1>3. Inv /\ GapInv => Inv
    OBVIOUS
  <1> QED
    BY <1>1, <1>2, <1>3, Invariance, PTL
       DEF Spec, ImplementsOrderedStream, Abstract!Spec
=============================================================================
