------------------------------ MODULE RangePlan ------------------------------
(***************************************************************************)
(* From a Range header to the chunks that are fetched (engine.rs):         *)
(* load_layout's merged coordinates, parse_range and                       *)
(* plan_chunks_with_head_count.  Offsets are small numbers; a header is    *)
(* given by its form and its numbers, not by its text.                     *)
(***************************************************************************)
EXTENDS Integers, Sequences, FiniteSets

CONSTANTS
  SmallSplit,   \* HEAD_SMALL_SPLIT
  SmallCount    \* HEAD_SMALL_COUNT

ASSUME SplitAssumption == SmallSplit \in Nat \ {0} /\ SmallCount \in Nat

Smaller(a, b) == IF a < b THEN a ELSE b

(***************************************************************************)
(* The layout: sizes[v] is the data size of volume v.                      *)
(***************************************************************************)
Offset(sizes, v) ==
  LET sum[i \in 0..Len(sizes)] == IF i = 0 THEN 0 ELSE sum[i - 1] + sizes[i]
  IN  sum[v - 1]
Total(sizes) == Offset(sizes, Len(sizes) + 1)

(***************************************************************************)
(* parse_range: [spec, start, end, open], where open is open_ended.  A     *)
(* missing header and one that does not parse both have form "none".       *)
(***************************************************************************)
Full(open) == [spec |-> "full", open |-> open]
Slice(s, e, open) == [spec |-> "slice", start |-> s, end |-> e, open |-> open]
Unsatisfiable == [spec |-> "unsatisfiable", open |-> FALSE]

ParseRange(h, total) ==
  CASE h.form = "none" -> Full(TRUE)
    [] h.form # "none" /\ total = 0 -> Full(FALSE)
    [] h.form = "closed" /\ total > 0 ->
         IF h.a >= total \/ h.a > h.b THEN Unsatisfiable
         ELSE Slice(h.a, Smaller(h.b, total - 1), FALSE)
    [] h.form = "from" /\ total > 0 ->
         IF h.a >= total THEN Unsatisfiable ELSE Slice(h.a, total - 1, TRUE)
    [] h.form = "suffix" /\ total > 0 ->
         IF h.b = 0 THEN Unsatisfiable
         ELSE Slice(IF h.b > total THEN 0 ELSE total - h.b, total - 1, FALSE)

\* What stream_file and serve_stream hand to the engine: a full answer is the
\* slice of everything.
Bounds(r, total) ==
  IF r.spec = "full" THEN [start |-> 0, end |-> total - 1]
  ELSE [start |-> r.start, end |-> r.end]

(***************************************************************************)
(* plan_chunks_with_head_count: cut at volume boundaries and at the split  *)
(* size, the first chunks of an open-ended playback request smaller.       *)
(***************************************************************************)
HeadCount(mode, open) == IF mode = "playback" /\ open THEN SmallCount ELSE 0

ChunkEndPastVolume(cur, this, volLast, end) == Smaller(cur + this - 1, end)
ChunkEnd(cur, this, volLast, end) ==
  Smaller(Smaller(cur + this - 1, volLast), end)

\* One turn of the loop: an empty or finished volume is passed, or a chunk is cut.
PlanTurn(sizes, end, split, head, s) ==
  LET past == Offset(sizes, s.vol) + sizes[s.vol]
      this == IF Len(s.plan) < head THEN SmallSplit ELSE split
      last == ChunkEnd(s.cur, this, past - 1, end)
  IN  IF s.cur > end \/ s.vol > Len(sizes) THEN s
      ELSE IF sizes[s.vol] = 0 \/ s.cur >= past THEN [s EXCEPT !.vol = s.vol + 1]
      ELSE [s EXCEPT !.cur = last + 1,
                     !.plan = Append(s.plan,
                        [merged_start |-> s.cur, len |-> last - s.cur + 1,
                         vol |-> s.vol, vol_off |-> s.cur - Offset(sizes, s.vol)])]

\* A turn passes a volume or at least one byte: this many turns are enough.
Turns(sizes, start, end) == end + 1 - start + Len(sizes)

PlanChunks(sizes, start, end, maxSplit, mode, open) ==
  LET split == IF maxSplit > 1 THEN maxSplit ELSE 1
      head == IF open /\ split > SmallSplit THEN HeadCount(mode, open) ELSE 0
      loop[n \in 0..Turns(sizes, start, end)] ==
        IF n = 0 THEN [cur |-> start, vol |-> 1, plan |-> <<>>]
        ELSE PlanTurn(sizes, end, split, head, loop[n - 1])
  IN  loop[Turns(sizes, start, end)].plan
-----------------------------------------------------------------------------
(***************************************************************************)
(* Reference: which bytes a header asks for, and where a byte lives.       *)
(***************************************************************************)
Requested(h, total) ==
  {m \in 0..(total - 1) :
     CASE h.form = "none" -> TRUE
       [] h.form = "closed" -> h.a <= m /\ m <= h.b
       [] h.form = "from" -> h.a <= m
       [] h.form = "suffix" -> m >= total - h.b}

\* The volume and the offset in its data of merged offset m.
Home(sizes, m) ==
  LET v == CHOOSE i \in 1..Len(sizes) :
             Offset(sizes, i) <= m /\ m < Offset(sizes, i) + sizes[i]
  IN  [vol |-> v, off |-> m - Offset(sizes, v)]
=============================================================================
