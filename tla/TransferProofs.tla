---------------------------- MODULE TransferProofs ----------------------------
(***************************************************************************)
(* What is proved of the three ways bytes are carried, for any sizes and   *)
(* limits.  Fetches come first: that every byte that leaves fetch_chunk is *)
(* the one that belongs at its offset, for every layout, Range header and  *)
(* split.  What the loop of RangePlan's PlanChunks computes, by induction  *)
(* over its turns; then the bytes, as runs that are cut and joined; then   *)
(* the invariant of the fetch.  Copies are next, and uploads last.         *)
(***************************************************************************)
EXTENDS MCTransfer, FiniteSetTheorems, SequenceTheorems, WellFoundedInduction, TLAPS

(***************************************************************************)
(* Fetches.                                                                *)
(***************************************************************************)
\* Induction in the form of a set: intervals from 1 are finite, and inclusion orders them.
LEMMA Induction ==
  ASSUME NEW T, 0 \in T, \A n \in Nat : n \in T => n + 1 \in T
  PROVE  Nat \subseteq T
<1> DEFINE W == {1..n : n \in Nat \ T}
           R == StrictSubsetOrdering(Nat)
<1> SUFFICES ASSUME Nat \ T # {} PROVE FALSE
    OBVIOUS
<1>1. W \subseteq FiniteSubsetsOf(Nat) /\ W # {}
  <2>1. ASSUME NEW n \in Nat PROVE 1..n \in FiniteSubsetsOf(Nat)
        BY FS_Interval DEF FiniteSubsetsOf
  <2> QED BY <2>1
<1>2. PICK w \in W : \A y \in W : ~(<<y, w>> \in R)
  <2> HIDE DEF W, R
  <2> QED BY <1>1, FS_StrictSubsetOrderingWellFounded, WFMin DEF R
<1>3. PICK m \in Nat \ T : w = 1..m
      BY <1>2
<1>4. m - 1 \in Nat \ T
      BY <1>3
<1>5. 1..(m - 1) \in W /\ 1..(m - 1) \subseteq 1..m /\ m \in 1..m /\ m \notin 1..(m - 1)
      BY <1>3, <1>4
<1>6. <<1..(m - 1), 1..m>> \in R
      BY <1>5 DEF StrictSubsetOrdering
<1> QED BY <1>2, <1>3, <1>5, <1>6

LEMMA AsSequence ==
  ASSUME NEW S, NEW m \in Nat, NEW p \in [1..m -> S]
  PROVE  p \in Seq(S) /\ Len(p) = m
BY LenProperties

LEMMA ByValues ==
  ASSUME NEW S, NEW D, NEW p, p = [x \in D |-> p[x]], \A x \in D : p[x] \in S
  PROVE  p \in [D -> S]
OBVIOUS

\* The sums of the first values, one by one.
Sums(f, s, m) ==
  /\ f \in [0..m -> Int] /\ f[0] = 0
  /\ \A n \in 1..m : f[n] = f[n - 1] + s[n]

LEMMA SumsExist ==
  ASSUME NEW m \in Nat, NEW s \in [1..m -> Int]
  PROVE  \E f : Sums(f, s, m)
<1> DEFINE T == {n \in Nat : n <= m => \E f : Sums(f, s, n)}
<1>1. 0 \in T
  <2>1. Sums([x \in 0..0 |-> 0], s, 0)
        BY DEF Sums
  <2> QED BY <2>1
<1>2. ASSUME NEW n \in Nat, n \in T PROVE n + 1 \in T
  <2> SUFFICES ASSUME n + 1 <= m PROVE \E f : Sums(f, s, n + 1)
      OBVIOUS
  <2>1. PICK f : Sums(f, s, n)
        BY <1>2
  <2> DEFINE g == [x \in 0 .. n + 1 |-> IF x <= n THEN f[x] ELSE f[n] + s[n + 1]]
  <2>2. s[n + 1] \in Int /\ f[n] \in Int
        BY <2>1 DEF Sums
  <2>3. g \in [0 .. n + 1 -> Int] /\ g[0] = 0
        BY <2>1, <2>2 DEF Sums
  <2>4. \A x \in 1 .. n + 1 : g[x] = g[x - 1] + s[x]
        BY <2>1, <2>2 DEF Sums
  <2> QED BY <2>3, <2>4 DEF Sums
<1> HIDE DEF T
<1>3. m \in T
      BY <1>1, <1>2, Induction
<1> QED BY <1>3 DEF T

-----------------------------------------------------------------------------
(***************************************************************************)
(* The layout.                                                             *)
(***************************************************************************)
LEMMA OffsetIs ==
  ASSUME NEW s, NEW m \in Nat, m = Len(s), NEW f, Sums(f, s, m), NEW n \in 0..m
  PROVE  Offset(s, n + 1) = f[n]
<1> DEFINE Eq(g) == g = [x \in 0..Len(s) |-> IF x = 0 THEN 0 ELSE g[x - 1] + s[x]]
           sum == CHOOSE g : Eq(g)
           T == {x \in Nat : x <= m => sum[x] = f[x]}
<1>1. Eq(sum)
  <2> DEFINE g == [x \in 0..Len(s) |-> f[x]]
  <2>1. \A x \in 0..Len(s) : g[x] = IF x = 0 THEN 0 ELSE g[x - 1] + s[x]
        BY DEF Sums
  <2>2. Eq(g)
        BY <2>1
  <2> QED BY <2>2
<1>2. /\ sum[0] = 0
      /\ \A x \in 1..m : sum[x] = sum[x - 1] + s[x]
  <2> HIDE DEF sum
  <2>1. \A x \in 0..m : sum[x] = IF x = 0 THEN 0 ELSE sum[x - 1] + s[x]
        BY <1>1
  <2> QED BY <2>1
<1> HIDE DEF sum
<1>3. 0 \in T
      BY <1>2 DEF Sums
<1>4. ASSUME NEW x \in Nat, x \in T PROVE x + 1 \in T
  <2> SUFFICES ASSUME x + 1 <= m PROVE sum[x + 1] = f[x + 1]
      OBVIOUS
  <2>1. sum[x + 1] = sum[x] + s[x + 1]
        BY <1>2
  <2>2. f[x + 1] = f[x] + s[x + 1]
        BY DEF Sums
  <2> QED BY <1>4, <2>1, <2>2
<1>5. sum[n] = f[n]
  <2> HIDE DEF T
  <2>1. n \in T
        BY <1>3, <1>4, Induction
  <2> QED BY <2>1 DEF T
<1>6. Offset(s, n + 1) = sum[n]
  <2>1. (n + 1) - 1 = n
        OBVIOUS
  <2>2. Offset(s, n + 1) = sum[(n + 1) - 1]
        BY DEF Offset, sum
  <2> QED BY <2>1, <2>2
<1> QED BY <1>5, <1>6

LEMMA Offsets ==
  ASSUME NEW s \in Seq(Nat)
  PROVE  /\ Len(s) \in Nat /\ Offset(s, 1) = 0 /\ Total(s) = Offset(s, Len(s) + 1)
         /\ \A v \in 1 .. Len(s) + 1 : Offset(s, v) \in Nat
         /\ \A v \in 1..Len(s) : s[v] \in Nat /\ Offset(s, v + 1) = Offset(s, v) + s[v]
<1> DEFINE m == Len(s)
<1>1. m \in Nat /\ s \in [1..m -> Nat] /\ s \in [1..m -> Int]
      BY LenProperties
<1>2. PICK f : Sums(f, s, m)
      BY <1>1, SumsExist
<1>3. \A n \in 0..m : Offset(s, n + 1) = f[n]
      BY <1>1, <1>2, OffsetIs
<1> DEFINE T == {n \in Nat : n <= m => f[n] \in Nat}
<1> HIDE DEF m
<1>4. \A n \in 0..m : f[n] \in Nat
  <2>1. 0 \in T
        BY <1>2 DEF Sums
  <2>2. ASSUME NEW n \in Nat, n \in T PROVE n + 1 \in T
    <3> SUFFICES ASSUME n + 1 <= m PROVE f[n + 1] \in Nat
        OBVIOUS
    <3>1. n + 1 \in 1..m /\ (n + 1) - 1 = n
          BY <1>1
    <3>2. f[n + 1] = f[n] + s[n + 1] /\ s[n + 1] \in Nat
          BY <1>1, <1>2, <3>1 DEF Sums
    <3> QED BY <1>1, <2>2, <3>2
  <2> HIDE DEF T
  <2>3. Nat \subseteq T
        BY <2>1, <2>2, Induction
  <2> QED BY <1>1, <2>3 DEF T
<1>5. ASSUME NEW v \in 1 .. m + 1 PROVE Offset(s, v) \in Nat /\ Offset(s, v) = f[v - 1]
  <2>1. v - 1 \in 0..m /\ (v - 1) + 1 = v
        BY <1>1
  <2> QED BY <1>3, <1>4, <2>1
<1>6. ASSUME NEW v \in 1..m PROVE s[v] \in Nat /\ Offset(s, v + 1) = Offset(s, v) + s[v]
  <2>1. v \in 1 .. m + 1 /\ v + 1 \in 1 .. m + 1 /\ (v + 1) - 1 = v
        BY <1>1
  <2>2. Offset(s, v) = f[v - 1] /\ Offset(s, v + 1) = f[v]
        BY <1>5, <2>1
  <2> QED BY <1>1, <1>2, <2>2 DEF Sums
<1>7. Offset(s, 1) = 0
  <2>1. 1 \in 1 .. m + 1 /\ 1 - 1 = 0
        BY <1>1
  <2> QED BY <1>2, <1>5, <2>1 DEF Sums
<1> QED BY <1>1, <1>5, <1>6, <1>7 DEF m, Total

\* A volume begins where the ones before it have ended.
LEMMA OffsetsGrow ==
  ASSUME NEW s \in Seq(Nat), NEW v \in 1..Len(s), NEW w \in 1 .. Len(s) + 1, v < w
  PROVE  Offset(s, v) + s[v] <= Offset(s, w)
<1> DEFINE m == Len(s)
           T == {n \in Nat : v < n /\ n <= m + 1 => Offset(s, v) + s[v] <= Offset(s, n)}
<1>1. m \in Nat /\ v \in 1..m /\ w \in 1 .. m + 1
      BY Offsets
<1> HIDE DEF m
<1>2. 0 \in T
      BY <1>1
<1>3. ASSUME NEW n \in Nat, n \in T PROVE n + 1 \in T
  <2> SUFFICES ASSUME v < n + 1, n + 1 <= m + 1 PROVE Offset(s, v) + s[v] <= Offset(s, n + 1)
      OBVIOUS
  <2>1. n \in 1..m /\ n \in 1 .. m + 1
        BY <1>1
  <2>2. Offset(s, n + 1) = Offset(s, n) + s[n] /\ s[n] \in Nat /\ Offset(s, n) \in Nat
        BY <2>1, Offsets DEF m
  <2>3. v < n => Offset(s, v) + s[v] <= Offset(s, n)
        BY <1>1, <1>3, <2>1
  <2>4. v = n \/ v < n
        BY <1>1, <2>1
  <2>5. Offset(s, v) \in Nat /\ s[v] \in Nat
    <3>1. v \in 1 .. m + 1
          BY <1>1
    <3> QED BY <1>1, <3>1, Offsets DEF m
  <2>6. CASE v = n
        BY <2>2, <2>6
  <2>7. CASE v < n
        BY <2>2, <2>3, <2>5, <2>7
  <2> QED BY <2>4, <2>6, <2>7
<1>4. w \in T
  <2> HIDE DEF T
  <2>1. Nat \subseteq T
        BY <1>2, <1>3, Induction
  <2> QED BY <1>1, <2>1
<1> QED BY <1>1, <1>4

\* A byte lives in one volume.
LEMMA HomeIs ==
  ASSUME NEW s \in Seq(Nat), NEW v \in 1..Len(s), NEW x \in Int,
         Offset(s, v) <= x, x < Offset(s, v) + s[v]
  PROVE  Home(s, x) = [vol |-> v, off |-> x - Offset(s, v)]
<1> DEFINE In(i) == Offset(s, i) <= x /\ x < Offset(s, i) + s[i]
           w == CHOOSE i \in 1..Len(s) : In(i)
<1>1. w \in 1..Len(s) /\ In(w)
  <2> HIDE DEF In
  <2>1. In(v)
        BY DEF In
  <2> QED BY <2>1
<1>2. Home(s, x) = [vol |-> w, off |-> x - Offset(s, w)]
      BY DEF Home
<1> HIDE DEF w
<1>3. Len(s) \in Nat /\ v \in 1 .. Len(s) + 1 /\ w \in 1 .. Len(s) + 1
      BY <1>1, Offsets
<1>4. /\ Offset(s, v) \in Nat /\ Offset(s, w) \in Nat /\ s[v] \in Nat /\ s[w] \in Nat
      BY <1>1, <1>3, Offsets
<1>5. ~(v < w)
      BY <1>1, <1>3, <1>4, OffsetsGrow
<1>6. ~(w < v)
      BY <1>1, <1>3, <1>4, OffsetsGrow
<1>7. v = w
      BY <1>3, <1>5, <1>6
<1> QED BY <1>2, <1>7

-----------------------------------------------------------------------------
(***************************************************************************)
(* The plan.                                                               *)
(***************************************************************************)
Pieces == [merged_start : Nat, len : Nat \ {0}, vol : Nat, vol_off : Nat]
Span(c) == c.merged_start .. (c.merged_start + c.len - 1)

\* A chunk of one volume, not larger than the limit.
PieceOK(sizes, limit, c) ==
  /\ c \in Pieces /\ c.len <= limit /\ c.vol \in 1..Len(sizes)
  /\ Offset(sizes, c.vol) + c.vol_off = c.merged_start
  /\ c.vol_off + c.len <= sizes[c.vol]

\* The chunks cover what lies from start to before cur, one after the other.
PlanUpto(sizes, start, cur, limit, p) ==
  /\ p \in Seq(Pieces)
  /\ \A i \in 1..Len(p) : PieceOK(sizes, limit, p[i])
  /\ \A i \in 1 .. Len(p) - 1 : p[i + 1].merged_start = p[i].merged_start + p[i].len
  /\ \A x \in Int : x \in start .. cur - 1 <=> \E i \in 1..Len(p) : x \in Span(p[i])
  /\ p # <<>> => p[Len(p)].merged_start + p[Len(p)].len = cur

LEMMA PlanUptoIs ==
  ASSUME NEW sizes, NEW start, NEW cur, NEW limit, NEW p, p \in Seq(Pieces),
         \A i \in 1..Len(p) : PieceOK(sizes, limit, p[i]),
         \A i \in 1 .. Len(p) - 1 : p[i + 1].merged_start = p[i].merged_start + p[i].len,
         \A x \in Int : x \in start .. cur - 1 <=> \E i \in 1..Len(p) : x \in Span(p[i]),
         p # <<>> => p[Len(p)].merged_start + p[Len(p)].len = cur
  PROVE  PlanUpto(sizes, start, cur, limit, p)
BY DEF PlanUpto

LEMMA Pushed ==
  ASSUME NEW sizes, NEW start \in Nat, NEW cur \in Nat, start <= cur, NEW limit, NEW p,
         PlanUpto(sizes, start, cur, limit, p),
         NEW c, PieceOK(sizes, limit, c), c.merged_start = cur
  PROVE  PlanUpto(sizes, start, cur + c.len, limit, Append(p, c))
<1> DEFINE m == Len(p)
           q == Append(p, c)
           l == c.len
<1>1. p \in Seq(Pieces) /\ c \in Pieces /\ m \in Nat /\ l \in Nat \ {0}
      BY LenProperties DEF PlanUpto, PieceOK, Pieces
<1>2. /\ q \in Seq(Pieces) /\ Len(q) = m + 1 /\ q[m + 1] = c
      /\ \A i \in 1..m : q[i] = p[i]
      BY <1>1, AppendProperties
<1> HIDE DEF q
<1>3. \A i \in 1..Len(q) : PieceOK(sizes, limit, q[i])
  <2> TAKE i \in 1..Len(q)
  <2>1. i \in 1..m \/ i = m + 1
        BY <1>1, <1>2
  <2>2. \A j \in 1..m : PieceOK(sizes, limit, p[j])
        BY DEF PlanUpto
  <2> QED BY <1>2, <2>1, <2>2
<1>4. ASSUME NEW i \in 1 .. Len(q) - 1 PROVE q[i + 1].merged_start = q[i].merged_start + q[i].len
  <2>1. (i + 1 \in 1..m /\ i \in 1 .. m - 1) \/ (i = m /\ m \in 1..m)
        BY <1>1, <1>2
  <2>2. CASE i + 1 \in 1..m /\ i \in 1 .. m - 1
    <3>1. i \in 1..m
          BY <1>1, <2>2
    <3> QED BY <1>2, <2>2, <3>1 DEF PlanUpto
  <2>3. CASE i = m /\ m \in 1..m
    <3>1. p # <<>>
          BY <1>1, <2>3
    <3>2. p[m].merged_start + p[m].len = cur
          BY <3>1 DEF PlanUpto
    <3> QED BY <1>2, <2>3, <3>2
  <2> QED BY <2>1, <2>2, <2>3
<1>5. ASSUME NEW x \in Int
      PROVE  x \in start .. (cur + l) - 1 <=> \E i \in 1..Len(q) : x \in Span(q[i])
  <2>1. x \in start .. cur - 1 <=> \E i \in 1..m : x \in Span(p[i])
        BY DEF PlanUpto
  <2>2. x \in Span(c) <=> x \in cur .. (cur + l) - 1
        BY <1>1 DEF Span
  <2>3. (\E i \in 1..Len(q) : x \in Span(q[i])) <=> (\E i \in 1..m : x \in Span(p[i])) \/ x \in Span(c)
    <3>1. m + 1 \in 1..Len(q) /\ \A i \in 1..Len(q) : i \in 1..m \/ i = m + 1
          BY <1>1, <1>2
    <3>2. \A i \in 1..m : i \in 1..Len(q)
          BY <1>1, <1>2
    <3> QED BY <1>2, <3>1, <3>2
  <2>4. x \in start .. (cur + l) - 1 <=> x \in start .. cur - 1 \/ x \in cur .. (cur + l) - 1
        BY <1>1
  <2> QED BY <2>1, <2>2, <2>3, <2>4
<1>6. q[Len(q)].merged_start + q[Len(q)].len = cur + l
      BY <1>2
<1> HIDE DEF l, m
<1>7. PlanUpto(sizes, start, cur + l, limit, q)
  <2>1. \A i \in 1 .. Len(q) - 1 : q[i + 1].merged_start = q[i].merged_start + q[i].len
        BY <1>4
  <2>2. \A x \in Int : x \in start .. (cur + l) - 1 <=> \E i \in 1..Len(q) : x \in Span(q[i])
        BY <1>5
  <2> QED BY <1>2, <1>3, <1>6, <2>1, <2>2, PlanUptoIs
<1> QED BY <1>7 DEF l, q

\* A request that lies in the file.
Asked(sizes, start, end) ==
  /\ sizes \in Seq(Nat) /\ start \in Nat /\ end \in Int
  /\ start <= end + 1 /\ end < Total(sizes)

\* The loop after n turns: at a volume that does not begin behind it, and over unless
\* every turn has passed something.
TurnState(sizes, start, end, limit, s, n) ==
  /\ s = [cur |-> s.cur, vol |-> s.vol, plan |-> s.plan]
  /\ s.cur \in start .. end + 1 /\ s.vol \in 1 .. Len(sizes) + 1
  /\ Offset(sizes, s.vol) <= s.cur
  /\ PlanUpto(sizes, start, s.cur, limit, s.plan)
  /\ n <= s.cur - start + s.vol - 1 \/ s.cur > end \/ s.vol > Len(sizes)

LEMMA TurnOK ==
  ASSUME NEW sizes, NEW start, NEW end, Asked(sizes, start, end),
         NEW limit \in Nat \ {0}, NEW head \in Nat, head # 0 => SmallSplit <= limit,
         NEW s, NEW n \in Nat, TurnState(sizes, start, end, limit, s, n)
  PROVE  TurnState(sizes, start, end, limit, PlanTurn(sizes, end, limit, head, s), n + 1)
<1> DEFINE v == s.vol
           cur == s.cur
           l == Len(sizes)
           o == Offset(sizes, v)
           z == sizes[v]
           past == o + z
           this == IF Len(s.plan) < head THEN SmallSplit ELSE limit
           last == ChunkEnd(cur, this, past - 1, end)
           len == last - cur + 1
           c == [merged_start |-> cur, len |-> len, vol |-> v, vol_off |-> cur - o]
           t == PlanTurn(sizes, end, limit, head, s)
<1>1. /\ sizes \in Seq(Nat) /\ start \in Nat /\ end \in Int /\ l \in Nat
      /\ cur \in start .. end + 1 /\ cur \in Nat /\ start <= cur /\ v \in 1 .. l + 1
      /\ s = [cur |-> cur, vol |-> v, plan |-> s.plan] /\ o <= cur
      /\ n <= cur - start + v - 1 \/ cur > end \/ v > l
      /\ PlanUpto(sizes, start, cur, limit, s.plan)
      BY Offsets DEF Asked, TurnState
<1>2. CASE cur > end \/ v > l
  <2>1. t = s
        BY <1>2 DEF PlanTurn
  <2> QED BY <1>2, <2>1 DEF TurnState
<1>3. CASE ~(cur > end \/ v > l)
  <2>1. t = IF z = 0 \/ cur >= past THEN [s EXCEPT !.vol = v + 1]
            ELSE [s EXCEPT !.cur = last + 1, !.plan = Append(s.plan, c)]
        BY <1>3 DEF PlanTurn
  <2>2. t = IF z = 0 \/ cur >= past THEN [cur |-> cur, vol |-> v + 1, plan |-> s.plan]
            ELSE [cur |-> last + 1, vol |-> v, plan |-> Append(s.plan, c)]
        BY <1>1, <2>1
  <2>3. this \in Nat \ {0} /\ this <= limit
    <3>1. Len(s.plan) \in Nat /\ SmallSplit \in Nat \ {0}
          BY <1>1, LenProperties, SplitAssumption DEF PlanUpto
    <3> QED BY <3>1
  <2>4. v \in 1..l /\ v + 1 \in 1 .. l + 1 /\ cur <= end /\ n <= cur - start + v - 1
    <3> HIDE DEF v, l, cur
    <3> QED BY <1>1, <1>3
  <2>5. o \in Nat /\ z \in Nat /\ Offset(sizes, v + 1) = past /\ past = o + z
        BY <1>1, <2>4, Offsets
  <2>6. last = Smaller(Smaller(cur + this - 1, past - 1), end)
        BY DEF ChunkEnd
  <2> HIDE DEF v, l, cur, o, z, past, this, last, t
  <2>7. start \in Nat /\ cur \in Nat /\ start <= cur /\ o <= cur /\ end \in Int
        BY <1>1
  <2>8. CASE z = 0 \/ cur >= past
    <3>1. t = [cur |-> cur, vol |-> v + 1, plan |-> s.plan]
          BY <2>2, <2>8
    <3>2. past <= cur
          BY <1>1, <2>5, <2>8
    <3>3. n + 1 <= cur - start + (v + 1) - 1
          BY <2>7, <2>4
    <3>4. TurnState(sizes, start, end, limit, t, n + 1)
          BY <1>1, <2>4, <2>5, <3>1, <3>2, <3>3 DEF TurnState, l
    <3> QED BY <3>4 DEF t
  <2>9. CASE ~(z = 0 \/ cur >= past)
    <3>1. t = [cur |-> last + 1, vol |-> v, plan |-> Append(s.plan, c)]
          BY <2>2, <2>9
    <3>2. past \in Nat /\ cur < past
          BY <2>5, <2>9, <2>7
    <3>3. /\ last \in Int /\ cur <= last
          /\ last <= cur + this - 1 /\ last <= past - 1 /\ last <= end
          BY <2>7, <2>3, <2>4, <2>6, <3>2 DEF Smaller
    <3>4. len \in Nat \ {0} /\ len <= limit /\ cur - o \in Nat /\ cur + len = last + 1
          BY <2>7, <2>3, <2>5, <3>3
    <3>5. (cur - o) + len <= z /\ o + (cur - o) = cur
          BY <2>7, <2>5, <3>3
    <3>6. last + 1 \in start .. end + 1 /\ o <= last + 1 /\ n + 1 <= (last + 1) - start + v - 1
          BY <2>7, <2>4, <2>5, <3>3
    <3> HIDE DEF len
    <3>7. c \in Pieces /\ v \in Nat
          BY <1>1, <2>4, <3>4 DEF Pieces
    <3>8. PieceOK(sizes, limit, c) /\ c.merged_start = cur /\ c.len = len
          BY <2>4, <3>4, <3>5, <3>7 DEF PieceOK, l, o, z
    <3> HIDE DEF c
    <3>9. PlanUpto(sizes, start, cur + len, limit, Append(s.plan, c))
          BY <1>1, <3>8, Pushed
    <3>10. TurnState(sizes, start, end, limit, t, n + 1)
          BY <1>1, <2>4, <3>1, <3>4, <3>6, <3>9 DEF TurnState, l, o
    <3> QED BY <3>10 DEF t
  <2> QED BY <2>8, <2>9
<1> QED BY <1>2, <1>3

\* The loop's states, turn by turn.
Loops(f, sizes, end, split, head, from, m) ==
  /\ f = [n \in 0..m |-> f[n]] /\ f[0] = from
  /\ \A n \in 1..m : f[n] = PlanTurn(sizes, end, split, head, f[n - 1])

LEMMA LoopsExist ==
  ASSUME NEW sizes, NEW end, NEW split, NEW head, NEW from, NEW m \in Nat
  PROVE  \E f : Loops(f, sizes, end, split, head, from, m)
<1> DEFINE L(f, n) == Loops(f, sizes, end, split, head, from, n)
           T == {n \in Nat : \E f : L(f, n)}
<1>1. 0 \in T
  <2>1. L([x \in 0..0 |-> from], 0)
        BY DEF Loops
  <2> HIDE DEF L
  <2> QED BY <2>1
<1>2. ASSUME NEW n \in Nat, n \in T PROVE n + 1 \in T
  <2>1. PICK f : L(f, n)
        BY <1>2
  <2> DEFINE next == PlanTurn(sizes, end, split, head, f[n])
             g == [x \in 0 .. n + 1 |-> IF x <= n THEN f[x] ELSE next]
  <2>2. g = [x \in 0 .. n + 1 |-> g[x]] /\ g[0] = from
        BY <2>1 DEF Loops
  <2>3. ASSUME NEW x \in 1 .. n + 1
        PROVE  g[x] = PlanTurn(sizes, end, split, head, g[x - 1])
    <3>1. CASE x <= n
      <4>1. x \in 1..n /\ x \in 0 .. n + 1 /\ x - 1 \in 0 .. n + 1 /\ x - 1 <= n
            BY <3>1
      <4>2. g[x] = f[x] /\ g[x - 1] = f[x - 1]
            BY <4>1
      <4> QED BY <2>1, <4>1, <4>2 DEF Loops
    <3>2. CASE ~(x <= n)
      <4>1. x = n + 1 /\ x - 1 = n /\ n \in 0 .. n + 1 /\ n + 1 \in 0 .. n + 1 /\ ~(n + 1 <= n)
            BY <3>2
      <4>2. g[n + 1] = next /\ g[n] = f[n]
            BY <4>1
      <4> QED BY <4>1, <4>2
    <3> QED BY <3>1, <3>2
  <2>4. L(g, n + 1)
        BY <2>2, <2>3 DEF Loops
  <2> HIDE DEF L, g
  <2> QED BY <2>4
<1> HIDE DEF T
<1>3. m \in T
      BY <1>1, <1>2, Induction
<1> QED BY <1>3 DEF T

\* What the loop computes: the plan of the whole request.
LEMMA PlanOK ==
  ASSUME NEW sizes, NEW start, NEW end, Asked(sizes, start, end),
         NEW maxSplit \in Nat \ {0}, NEW mode, NEW open \in BOOLEAN
  PROVE  PlanUpto(sizes, start, end + 1, maxSplit,
                  PlanChunks(sizes, start, end, maxSplit, mode, open))
<1> DEFINE split == IF maxSplit > 1 THEN maxSplit ELSE 1
           head == IF open /\ split > SmallSplit THEN HeadCount(mode, open) ELSE 0
           m == Turns(sizes, start, end)
           from == [cur |-> start, vol |-> 1, plan |-> <<>>]
           Eq(g) == g = [n \in 0..m |-> IF n = 0 THEN from ELSE PlanTurn(sizes, end, split, head, g[n - 1])]
           loop == CHOOSE g : Eq(g)
<1>1. /\ sizes \in Seq(Nat) /\ start \in Nat /\ end \in Int /\ Len(sizes) \in Nat
      /\ start <= end + 1 /\ end < Total(sizes) /\ m \in Nat /\ m = end + 1 - start + Len(sizes)
      BY Offsets DEF Asked, Turns
<1>2. split = maxSplit /\ head \in Nat /\ (head # 0 => SmallSplit <= split)
      BY SplitAssumption DEF HeadCount
<1>3. PlanChunks(sizes, start, end, maxSplit, mode, open) = loop[m].plan
      BY DEF PlanChunks
<1> HIDE DEF split, head, m, from
<1>4. Eq(loop)
  <2>1. PICK g : Loops(g, sizes, end, split, head, from, m)
        BY <1>1, LoopsExist
  <2>2. ASSUME NEW n \in 0..m
        PROVE  g[n] = IF n = 0 THEN from ELSE PlanTurn(sizes, end, split, head, g[n - 1])
    <3>1. CASE n = 0
          BY <2>1, <3>1 DEF Loops
    <3>2. CASE n # 0
      <4>1. n \in 1..m
            BY <1>1, <3>2
      <4> QED BY <2>1, <3>2, <4>1 DEF Loops
    <3> QED BY <3>1, <3>2
  <2>3. g = [n \in 0..m |-> g[n]]
        BY <2>1 DEF Loops
  <2>4. Eq(g)
        BY <2>2, <2>3
  <2> QED BY <2>4
<1>5. /\ loop[0] = from
      /\ \A n \in 1..m : loop[n] = PlanTurn(sizes, end, split, head, loop[n - 1])
  <2> HIDE DEF loop
  <2>1. \A n \in 0..m : loop[n] = IF n = 0 THEN from ELSE PlanTurn(sizes, end, split, head, loop[n - 1])
        BY <1>4
  <2>2. 0 \in 0..m /\ \A n \in 1..m : n \in 0..m /\ n # 0
        BY <1>1
  <2> QED BY <2>1, <2>2
<1> HIDE DEF loop
<1> DEFINE At(n) == TurnState(sizes, start, end, maxSplit, loop[n], n)
           T == {n \in Nat : n <= m => At(n)}
<1>6. TurnState(sizes, start, end, maxSplit, from, 0)
  <2>1. PlanUpto(sizes, start, start, maxSplit, <<>>)
    <3>1. <<>> \in Seq(Pieces) /\ Len(<<>>) = 0
          OBVIOUS
    <3>2. \A x \in Int : ~(x \in start .. start - 1)
          BY <1>1
    <3>3. \A i : ~(i \in 1..Len(<<>>)) /\ ~(i \in 1 .. Len(<<>>) - 1)
          BY <3>1
    <3> QED BY <3>1, <3>2, <3>3, Zenon DEF PlanUpto
  <2>2. start \in start .. end + 1 /\ 1 \in 1 .. Len(sizes) + 1 /\ Offset(sizes, 1) <= start
        BY <1>1, Offsets
  <2>3. 0 <= start - start + 1 - 1
        BY <1>1
  <2> QED BY <2>1, <2>2, <2>3 DEF TurnState, from
<1>7. ASSUME NEW n \in Nat, n \in T PROVE n + 1 \in T
  <2> SUFFICES ASSUME n + 1 <= m PROVE At(n + 1)
      OBVIOUS
  <2>1. n + 1 \in 1..m /\ (n + 1) - 1 = n /\ n <= m
        BY <1>1
  <2>2. loop[n + 1] = PlanTurn(sizes, end, split, head, loop[n])
        BY <1>5, <2>1
  <2>3. TurnState(sizes, start, end, maxSplit, loop[n], n)
        BY <1>7, <2>1
  <2> HIDE DEF T
  <2>4. TurnState(sizes, start, end, maxSplit, PlanTurn(sizes, end, maxSplit, head, loop[n]), n + 1)
        BY <1>2, <2>3, TurnOK
  <2> QED BY <1>2, <2>2, <2>4
<1>8. At(m)
  <2>1. 0 \in T
        BY <1>5, <1>6
  <2> HIDE DEF T, At
  <2>2. m \in T
        BY <1>1, <1>7, <2>1, Induction
  <2> QED BY <1>1, <2>2 DEF T
<1>9. loop[m].cur = end + 1 /\ PlanUpto(sizes, start, loop[m].cur, maxSplit, loop[m].plan)
  <2> DEFINE cur == loop[m].cur
             v == loop[m].vol
             l == Len(sizes)
  <2>1. /\ cur \in start .. end + 1 /\ v \in 1 .. l + 1 /\ Offset(sizes, v) <= cur
        /\ m <= cur - start + v - 1 \/ cur > end \/ v > l
        /\ PlanUpto(sizes, start, cur, maxSplit, loop[m].plan)
        BY <1>8 DEF TurnState
  <2>2. Offset(sizes, l + 1) = Total(sizes) /\ Offset(sizes, v) \in Nat /\ Total(sizes) \in Nat
    <3>1. l + 1 \in 1 .. l + 1
          BY <1>1
    <3> QED BY <1>1, <2>1, <3>1, Offsets
  <2> HIDE DEF cur, v, l
  <2>3. l \in Nat /\ m = end + 1 - start + l
        BY <1>1 DEF l
  <2>4. cur \in Nat /\ v \in Nat /\ start \in Nat /\ end \in Int /\ cur <= end + 1 /\ v <= l + 1
        BY <1>1, <2>1, <2>3
  <2>5. CASE v > l
    <3>1. v = l + 1
          BY <2>3, <2>4, <2>5
    <3>2. Total(sizes) <= cur
          BY <2>1, <2>2, <3>1
    <3>3. cur = end + 1
          BY <1>1, <2>2, <2>4, <3>2
    <3> QED BY <2>1, <3>3 DEF cur
  <2>6. CASE cur > end
    <3>1. cur = end + 1
          BY <2>4, <2>6
    <3> QED BY <2>1, <3>1 DEF cur
  <2>7. CASE m <= cur - start + v - 1
    <3>1. cur = end + 1
          BY <2>3, <2>4, <2>7
    <3> QED BY <2>1, <3>1 DEF cur
  <2> QED BY <2>1, <2>5, <2>6, <2>7
<1> QED BY <1>3, <1>9

-----------------------------------------------------------------------------
(***************************************************************************)
(* The request.                                                            *)
(***************************************************************************)
\* What is handed to the engine is what the header asks for.
LEMMA RangeOK ==
  ASSUME NEW h \in Headers, NEW t \in Nat, NEW r, r = ParseRange(h, t), r.spec # "unsatisfiable",
         NEW b, b = Bounds(r, t)
  PROVE  /\ b.start \in Nat /\ b.end \in Int /\ b.start <= b.end + 1 /\ b.end < t
         /\ Requested(h, t) = b.start .. b.end /\ r.open \in BOOLEAN
<1> DEFINE Right(s, e) == /\ s \in Nat /\ e \in Int /\ s <= e + 1 /\ e < t
                          /\ Requested(h, t) = s .. e
<1>1. /\ h.form \in {"none", "closed", "from", "suffix"}
      /\ h.form \in {"closed", "from"} => h.a \in Nat
      /\ h.form \in {"closed", "suffix"} => h.b \in Nat
      BY FetchAssumption
<1>2. r # Unsatisfiable
      BY DEF Unsatisfiable
<1>3. ASSUME NEW open \in BOOLEAN, r = Full(open), Requested(h, t) = 0 .. t - 1
      PROVE  Right(b.start, b.end) /\ r.open \in BOOLEAN
  <2>1. b.start = 0 /\ b.end = t - 1 /\ r.open = open
        BY <1>3 DEF Bounds, Full
  <2>2. Right(0, t - 1)
        BY <1>3
  <2> HIDE DEF Right
  <2> QED BY <2>1, <2>2
<1>4. ASSUME NEW open \in BOOLEAN, NEW s, NEW e, r = Slice(s, e, open), Right(s, e)
      PROVE  Right(b.start, b.end) /\ r.open \in BOOLEAN
  <2>1. b.start = s /\ b.end = e /\ r.open = open
        BY <1>4 DEF Bounds, Slice
  <2> HIDE DEF Right
  <2> QED BY <1>4, <2>1
<1>5. CASE h.form = "none"
  <2>1. r = Full(TRUE) /\ Requested(h, t) = 0 .. t - 1
        BY <1>5 DEF ParseRange, Requested
  <2> QED BY <1>3, <2>1
<1>6. CASE h.form # "none" /\ t = 0
  <2>1. r = Full(FALSE)
        BY <1>1, <1>6 DEF ParseRange
  <2>2. Requested(h, t) = 0 .. t - 1
        BY <1>6 DEF Requested
  <2> QED BY <1>3, <2>1, <2>2
<1>7. CASE h.form = "closed" /\ t > 0
  <2> DEFINE e == Smaller(h.b, t - 1)
  <2>1. r = IF h.a >= t \/ h.a > h.b THEN Unsatisfiable ELSE Slice(h.a, e, FALSE)
        BY <1>7 DEF ParseRange
  <2>2. ~(h.a >= t \/ h.a > h.b) /\ r = Slice(h.a, e, FALSE)
        BY <1>2, <2>1, Zenon
  <2>3. Requested(h, t) = {m \in 0 .. t - 1 : h.a <= m /\ m <= h.b}
        BY <1>7 DEF Requested
  <2>4. PICK x, y \in Nat : x = h.a /\ y = h.b
        BY <1>1, <1>7
  <2>5. x < t /\ x <= y /\ e = Smaller(y, t - 1)
        BY <2>2, <2>4
  <2>6. {m \in 0 .. t - 1 : x <= m /\ m <= y} = x .. e /\ e \in Int /\ x <= e + 1 /\ e < t
        BY <2>5 DEF Smaller
  <2>7. Right(x, e)
        BY <2>3, <2>4, <2>6
  <2> QED BY <1>4, <2>2, <2>4, <2>7
<1>8. CASE h.form = "from" /\ t > 0
  <2>1. r = IF h.a >= t THEN Unsatisfiable ELSE Slice(h.a, t - 1, TRUE)
        BY <1>8 DEF ParseRange
  <2>2. ~(h.a >= t) /\ r = Slice(h.a, t - 1, TRUE)
        BY <1>2, <2>1, Zenon
  <2>3. Requested(h, t) = {m \in 0 .. t - 1 : h.a <= m}
        BY <1>8 DEF Requested
  <2>4. PICK x \in Nat : x = h.a
        BY <1>1, <1>8
  <2>5. {m \in 0 .. t - 1 : x <= m} = x .. t - 1 /\ x < t
        BY <2>2, <2>4
  <2>6. Right(x, t - 1)
        BY <2>3, <2>4, <2>5
  <2> QED BY <1>4, <2>2, <2>4, <2>6
<1>9. CASE h.form = "suffix" /\ t > 0
  <2> DEFINE s == IF h.b > t THEN 0 ELSE t - h.b
  <2>1. r = IF h.b = 0 THEN Unsatisfiable ELSE Slice(s, t - 1, FALSE)
        BY <1>9 DEF ParseRange
  <2>2. h.b # 0 /\ r = Slice(s, t - 1, FALSE)
        BY <1>2, <2>1, Zenon
  <2>3. Requested(h, t) = {m \in 0 .. t - 1 : m >= t - h.b}
        BY <1>9 DEF Requested
  <2>4. PICK y \in Nat : y = h.b
        BY <1>1, <1>9
  <2>5. s = IF y > t THEN 0 ELSE t - y
        BY <2>4
  <2> HIDE DEF s
  <2>6. {m \in 0 .. t - 1 : m >= t - y} = s .. t - 1 /\ s \in Nat /\ s <= t
        BY <2>5
  <2>7. Right(s, t - 1)
        BY <2>3, <2>4, <2>6
  <2> QED BY <1>4, <2>2, <2>7
<1> QED BY <1>1, <1>5, <1>6, <1>7, <1>8, <1>9

\* A plan that is right: every chunk where it belongs, together what was asked for.
LEMMA Exact ==
  ASSUME NEW sizes, NEW start, NEW end, Asked(sizes, start, end), NEW split,
         req.sizes = sizes, req.split = split, Requested(req.asked, Total(sizes)) = start .. end,
         PlanUpto(sizes, start, end + 1, split, req.plan)
  PROVE  PlanIsExact
<1> DEFINE p == req.plan
           span(i) == p[i].merged_start..(p[i].merged_start + p[i].len - 1)
<1>1. /\ sizes \in Seq(Nat) /\ start \in Nat /\ end \in Int
      /\ p \in Seq(Pieces) /\ DOMAIN p = 1..Len(p)
      BY LenProperties DEF Asked, PlanUpto
<1>2. ASSUME NEW i \in DOMAIN p
      PROVE  /\ p[i].merged_start \in Nat /\ p[i].len \in Nat /\ p[i].vol_off \in Nat
             /\ span(i) = Span(p[i]) /\ span(i) \subseteq Int /\ PieceOK(sizes, split, p[i])
  <2>1. PieceOK(sizes, split, p[i])
        BY <1>1 DEF PlanUpto
  <2>2. p[i].merged_start \in Nat /\ p[i].len \in Nat /\ p[i].vol_off \in Nat
        BY <2>1 DEF PieceOK, Pieces
  <2> QED BY <2>1, <2>2 DEF Span
<1>3. UNION {span(i) : i \in DOMAIN p} = Requested(req.asked, Total(req.sizes))
  <2>1. \A x \in Int : x \in start .. end <=> \E i \in 1..Len(p) : x \in Span(p[i])
    <3>1. \A x \in Int : x \in start .. (end + 1) - 1 <=> \E i \in 1..Len(p) : x \in Span(p[i])
          BY DEF PlanUpto
    <3>2. (end + 1) - 1 = end
          BY <1>1
    <3> QED BY <3>1, <3>2
  <2>2. start .. end \subseteq Int
        BY <1>1
  <2> HIDE DEF p, span
  <2>3. UNION {span(i) : i \in DOMAIN p} = start .. end
        BY <1>1, <1>2, <2>1, <2>2
  <2> QED BY <2>3
<1>4. ASSUME NEW i \in DOMAIN p
      PROVE  /\ p[i].len <= split
             /\ \A x \in span(i) : Home(sizes, x) = [vol |-> p[i].vol,
                                       off |-> p[i].vol_off + x - p[i].merged_start]
  <2>1. p[i].len <= split
        BY <1>2 DEF PieceOK
  <2>2. ASSUME NEW x \in span(i)
        PROVE  Home(sizes, x) = [vol |-> p[i].vol, off |-> p[i].vol_off + x - p[i].merged_start]
    <3> DEFINE c == p[i]
               v == c.vol
               o == Offset(sizes, v)
               s == c.merged_start
               l == c.len
               f == c.vol_off
    <3>1. /\ v \in 1..Len(sizes) /\ o + f = s /\ f + l <= sizes[v]
          /\ s \in Nat /\ l \in Nat /\ f \in Nat /\ x \in s .. (s + l - 1)
          BY <1>2, <2>2 DEF PieceOK
    <3>2. o \in Nat /\ sizes[v] \in Nat
      <4>1. v \in 1 .. Len(sizes) + 1
            BY SMTT(30), <1>1, <3>1, Offsets
      <4> QED BY <1>1, <3>1, <4>1, Offsets
    <3> HIDE DEF c, v, o, s, l, f
    <3>3. x \in Int /\ o <= x /\ x < o + sizes[v] /\ x - o = f + x - s
          BY <3>1, <3>2
    <3>4. Home(sizes, x) = [vol |-> v, off |-> x - o]
          BY <1>1, <3>1, <3>3, HomeIs DEF o
    <3> QED BY <3>3, <3>4 DEF c, v, s, f
  <2> QED BY <2>1, <2>2
<1>5. \A i \in 1..(Len(p) - 1) : p[i + 1].merged_start = p[i].merged_start + p[i].len
      BY DEF PlanUpto
<1> QED BY <1>3, <1>4, <1>5 DEF PlanIsExact

\* The request in hand never changes.
ReqOK ==
  /\ req.header \in Nat /\ req.index \in DOMAIN req.plan /\ chunk \in Pieces
  /\ PlanIsExact

LEMMA Requests == Init => ReqOK /\ cached \subseteq chunk.merged_start..ChunkEndAt
<1> SUFFICES ASSUME Init PROVE ReqOK /\ cached \subseteq chunk.merged_start..ChunkEndAt
    OBVIOUS
<1>1. PICK sizes \in Layouts, h \in Headers, split \in Splits, header \in HeaderLens, mode \in {"playback", "bulk"} :
        LET r == ParseRange(h, Total(sizes))
            b == Bounds(r, Total(sizes))
            plan == PlanChunks(sizes, b.start, b.end, split, mode, r.open)
        IN  /\ r.spec # "unsatisfiable"
            /\ \E i \in DOMAIN plan :
                 req = [sizes |-> sizes, asked |-> h, header |-> header,
                        split |-> split, plan |-> plan, index |-> i]
      BY DEF Init
<1> DEFINE r == ParseRange(h, Total(sizes))
           b == Bounds(r, Total(sizes))
           plan == PlanChunks(sizes, b.start, b.end, split, mode, r.open)
<1>2. PICK i \in DOMAIN plan : req = [sizes |-> sizes, asked |-> h, header |-> header,
                                      split |-> split, plan |-> plan, index |-> i]
      BY <1>1
<1>3. sizes \in Seq(Nat) /\ split \in Nat \ {0} /\ header \in Nat /\ Total(sizes) \in Nat
  <2>1. sizes \in Seq(Nat) /\ split \in Nat \ {0} /\ header \in Nat
        BY FetchAssumption
  <2>2. Len(sizes) \in Nat /\ Len(sizes) + 1 \in 1 .. Len(sizes) + 1
        BY <2>1, Offsets
  <2> QED BY <2>1, <2>2, Offsets
<1>4. r.spec # "unsatisfiable"
      BY <1>1
<1> HIDE DEF plan, b, r
<1>5. /\ b.start \in Nat /\ b.end \in Int /\ b.start <= b.end + 1 /\ b.end < Total(sizes)
      /\ Requested(h, Total(sizes)) = b.start .. b.end /\ r.open \in BOOLEAN
      BY <1>3, <1>4, RangeOK DEF r, b
<1>6. Asked(sizes, b.start, b.end)
      BY <1>3, <1>5 DEF Asked
<1>7. PlanUpto(sizes, b.start, b.end + 1, split, plan)
      BY <1>3, <1>5, <1>6, PlanOK DEF plan
<1>8. /\ req.sizes = sizes /\ req.split = split /\ req.asked = h /\ req.plan = plan
      /\ req.header = header /\ req.index = i
      BY <1>2
<1>9. PlanIsExact
      BY <1>5, <1>6, <1>7, <1>8, Exact
<1>10. chunk \in Pieces
  <2>1. plan \in Seq(Pieces)
        BY <1>7 DEF PlanUpto
  <2> QED BY <1>8, <2>1 DEF chunk
<1>11. cached \subseteq chunk.merged_start..ChunkEndAt
       BY DEF Init
<1> QED BY <1>3, <1>8, <1>9, <1>10, <1>11 DEF ReqOK

-----------------------------------------------------------------------------
(***************************************************************************)
(* The fetch: runs of bytes.                                               *)
(***************************************************************************)
IsRun(s, n) == s = [j \in 1..n |-> s[j]]

LEMMA Glued ==
  ASSUME NEW m \in Nat, NEW n \in Nat, NEW s, NEW t, NEW w,
         IsRun(s, m), IsRun(t, n), IsRun(w, m + n),
         \A j \in 1..m : w[j] = s[j], \A j \in 1..n : w[m + j] = t[j]
  PROVE  s \o t = w
<1> DEFINE S == {w[j] : j \in 1 .. m + n}
<1>1. s \in [1..m -> S] /\ t \in [1..n -> S] /\ w \in [1 .. m + n -> S]
  <2>1. \A j \in 1..m : j \in 1 .. m + n
        OBVIOUS
  <2>2. \A j \in 1..n : m + j \in 1 .. m + n
        OBVIOUS
  <2>3. (\A j \in 1..m : s[j] \in S) /\ (\A j \in 1..n : t[j] \in S) /\ \A j \in 1 .. m + n : w[j] \in S
        BY <2>1, <2>2
  <2> HIDE DEF S
  <2> QED BY <2>3, ByValues DEF IsRun
<1> HIDE DEF S
<1>2. s \in Seq(S) /\ Len(s) = m /\ t \in Seq(S) /\ Len(t) = n /\ w \in Seq(S) /\ Len(w) = m + n
      BY <1>1, AsSequence
<1>3. /\ s \o t \in Seq(S) /\ Len(s \o t) = m + n
      /\ \A j \in 1 .. m + n : (s \o t)[j] = IF j <= m THEN s[j] ELSE t[j - m]
      BY <1>2, ConcatProperties
<1>4. \A j \in 1 .. m + n : (s \o t)[j] = w[j]
  <2> TAKE j \in 1 .. m + n
  <2>1. CASE j <= m
    <3>1. j \in 1..m
          BY <2>1
    <3> QED BY <1>3, <2>1, <3>1
  <2>2. CASE j > m
    <3>1. j - m \in 1..n /\ m + (j - m) = j
          BY <2>2
    <3>2. (s \o t)[j] = t[j - m]
          BY <1>3, <2>2
    <3> QED BY <3>1, <3>2
  <2>3. j <= m \/ j > m
        OBVIOUS
  <2> QED BY <2>1, <2>2, <2>3
<1> QED BY <1>2, <1>3, <1>4, SeqEqual

LEMMA Halves ==
  ASSUME NEW S, NEW n \in Nat, NEW take \in 0..n, NEW run \in [1..n -> S]
  PROVE  /\ SubSeq(run, 1, take) = [j \in 1..take |-> run[j]]
         /\ SubSeq(run, take + 1, n) = [j \in 1 .. n - take |-> run[take + j]]
<1> DEFINE front == SubSeq(run, 1, take)
           rest == SubSeq(run, take + 1, n)
<1>1. \A j \in 1..n : run[j] \in S
      OBVIOUS
<1>2. front \in Seq(S) /\ Len(front) = take /\ \A j \in 1..take : front[j] = run[j]
  <2>1. 1 \in Int /\ take \in Int /\ \A j \in 1..take : run[j] \in S
        BY <1>1
  <2>2. /\ front \in Seq(S) /\ Len(front) = IF 1 <= take THEN take - 1 + 1 ELSE 0
        /\ \A j \in 1 .. take - 1 + 1 : front[j] = run[1 + j - 1]
        BY <2>1, SubSeqProperties
  <2> HIDE DEF front
  <2>3. (IF 1 <= take THEN take - 1 + 1 ELSE 0) = take /\ take - 1 + 1 = take
        OBVIOUS
  <2>4. \A j \in 1..take : front[j] = run[j]
    <3> TAKE j \in 1..take
    <3>1. 1 + j - 1 = j /\ j \in 1 .. take - 1 + 1
          OBVIOUS
    <3> QED BY <2>2, <3>1
  <2> QED BY <2>2, <2>3, <2>4
<1>3. rest \in Seq(S) /\ Len(rest) = n - take /\ \A j \in 1 .. n - take : rest[j] = run[take + j]
  <2>1. take + 1 \in Int /\ n \in Int /\ \A j \in take + 1 .. n : run[j] \in S
        BY <1>1
  <2>2. /\ rest \in Seq(S) /\ Len(rest) = IF take + 1 <= n THEN n - (take + 1) + 1 ELSE 0
        /\ \A j \in 1 .. n - (take + 1) + 1 : rest[j] = run[take + 1 + j - 1]
        BY <2>1, SubSeqProperties
  <2> HIDE DEF rest
  <2>3. (IF take + 1 <= n THEN n - (take + 1) + 1 ELSE 0) = n - take /\ n - (take + 1) + 1 = n - take
        OBVIOUS
  <2>4. \A j \in 1 .. n - take : rest[j] = run[take + j]
    <3> TAKE j \in 1 .. n - take
    <3>1. take + 1 + j - 1 = take + j /\ j \in 1 .. n - (take + 1) + 1
          OBVIOUS
    <3> QED BY <2>2, <3>1
  <2> QED BY <2>2, <2>3, <2>4
<1> HIDE DEF front, rest
<1>4. front = [j \in 1..take |-> run[j]]
      BY <1>2, LenProperties
<1>5. rest = [j \in 1 .. n - take |-> run[take + j]]
      BY <1>3, LenProperties
<1> QED BY <1>4, <1>5 DEF front, rest

\* Bytes of an object, and the same decrypted where they belong.
LEMMA BytesRun ==
  ASSUME NEW o \in Int, NEW m \in Nat
  PROVE  /\ Bytes(o, m) \in Seq(Int) /\ Len(Bytes(o, m)) = m /\ DOMAIN Bytes(o, m) = 1..m
         /\ \A n \in Nat : \A b : b = o + m => Bytes(o, m) \o Bytes(b, n) = Bytes(o, m + n)
<1>1. ASSUME NEW a \in Int, NEW n \in Nat
      PROVE  Bytes(a, n) \in [1..n -> Int] /\ \A j \in 1..n : Bytes(a, n)[j] = a + j - 1
      BY DEF Bytes
<1>2. Bytes(o, m) \in Seq(Int) /\ Len(Bytes(o, m)) = m
      BY <1>1, AsSequence
<1>3. DOMAIN Bytes(o, m) = 1..m
      BY DEF Bytes
<1>4. ASSUME NEW n \in Nat PROVE Bytes(o, m) \o Bytes(o + m, n) = Bytes(o, m + n)
  <2> DEFINE s == Bytes(o, m)
             t == Bytes(o + m, n)
             w == Bytes(o, m + n)
  <2>0. o + m \in Int /\ m + n \in Nat
        OBVIOUS
  <2>1. s \in [1..m -> Int] /\ \A j \in 1..m : s[j] = o + j - 1
        BY <1>1
  <2>2. t \in [1..n -> Int] /\ \A j \in 1..n : t[j] = o + m + j - 1
        BY <1>1, <2>0
  <2>3. w \in [1 .. m + n -> Int] /\ \A j \in 1 .. m + n : w[j] = o + j - 1
        BY <1>1, <2>0
  <2> HIDE DEF s, t, w
  <2>4. \A j \in 1..m : w[j] = s[j]
        BY <2>1, <2>3
  <2>5. \A j \in 1..n : w[m + j] = t[j]
        BY <2>2, <2>3
  <2>6. s \o t = w
    <3>1. IsRun(s, m) /\ IsRun(t, n) /\ IsRun(w, m + n)
          BY <2>1, <2>2, <2>3 DEF IsRun
    <3> QED BY <2>4, <2>5, <3>1, Glued
  <2> QED BY <2>6 DEF s, t, w
<1> QED BY <1>2, <1>3, <1>4

Decoded == [byte : Int, key : Int]
Stretch(shift, a, n) == [j \in 1..n |-> [byte |-> shift + (a + j - 1), key |-> a + j - 1]]

LEMMA StretchIs ==
  ASSUME NEW shift \in Int, NEW a \in Int, NEW n \in Nat
  PROVE  /\ Stretch(shift, a, n) \in [1..n -> Decoded] /\ DOMAIN Stretch(shift, a, n) = 1..n
         /\ Stretch(shift, a, n) \in Seq(Decoded) /\ Len(Stretch(shift, a, n)) = n
         /\ \A j \in 1..n : Stretch(shift, a, n)[j] = [byte |-> shift + (a + j - 1), key |-> a + j - 1]
<1>1. \A j \in 1..n : [byte |-> shift + (a + j - 1), key |-> a + j - 1] \in Decoded
      BY DEF Decoded
<1>2. Stretch(shift, a, n) \in [1..n -> Decoded]
      BY <1>1 DEF Stretch
<1>3. Stretch(shift, a, n) \in Seq(Decoded) /\ Len(Stretch(shift, a, n)) = n
      BY <1>2, AsSequence
<1> QED BY <1>2, <1>3 DEF Stretch

\* Named, so that the facts below can be cited for terms.
Joins(s, t, w) == s \o t = w
Halved(run, n, m, front, rest) == SubSeq(run, 1, n) = front /\ SubSeq(run, n + 1, m) = rest

LEMMA StretchGlued ==
  ASSUME NEW shift \in Int, NEW a \in Int, NEW m \in Nat, NEW n \in Nat,
         NEW b, b = a + m, NEW l, l = m + n
  PROVE  Joins(Stretch(shift, a, m), Stretch(shift, b, n), Stretch(shift, a, l))
<1> DEFINE s == Stretch(shift, a, m)
           t == Stretch(shift, a + m, n)
           w == Stretch(shift, a, m + n)
           e(x) == [byte |-> shift + x, key |-> x]
<1>0. a + m \in Int /\ m + n \in Nat
      OBVIOUS
<1>5. s \in [1..m -> Decoded] /\ \A j \in 1..m : s[j] = e(a + j - 1)
      BY StretchIs
<1>6. t \in [1..n -> Decoded] /\ \A j \in 1..n : t[j] = e(a + m + j - 1)
      BY <1>0, StretchIs
<1>7. w \in [1 .. m + n -> Decoded] /\ \A j \in 1 .. m + n : w[j] = e(a + j - 1)
      BY <1>0, StretchIs
<1>1. /\ s \in [1..m -> Decoded] /\ t \in [1..n -> Decoded] /\ w \in [1 .. m + n -> Decoded]
      /\ \A j \in 1..m : s[j] = e(a + j - 1)
      /\ \A j \in 1..n : t[j] = e(a + m + j - 1)
      /\ \A j \in 1 .. m + n : w[j] = e(a + j - 1)
      BY <1>5, <1>6, <1>7
<1> HIDE DEF s, t, w, e
<1>2. \A j \in 1..m : w[j] = s[j]
      BY <1>1
<1>3. \A j \in 1..n : w[m + j] = t[j]
  <2> TAKE j \in 1..n
  <2>1. m + j \in 1 .. m + n /\ a + (m + j) - 1 = a + m + j - 1
        OBVIOUS
  <2> QED BY <1>1, <2>1
<1>4. s \o t = w
  <2>1. IsRun(s, m) /\ IsRun(t, n) /\ IsRun(w, m + n)
        BY <1>1 DEF IsRun
  <2> QED BY <1>2, <1>3, <2>1, Glued
<1> QED BY <1>4 DEF s, t, w, Joins

LEMMA StretchCut ==
  ASSUME NEW shift \in Int, NEW a \in Int, NEW m \in Nat, NEW n \in 0..m,
         NEW b, b = a + n
  PROVE  Halved(Stretch(shift, a, m), n, m, Stretch(shift, a, n), Stretch(shift, b, m - n))
<1> DEFINE s == Stretch(shift, a, m)
           e(x) == [byte |-> shift + x, key |-> x]
<1>1. s \in [1..m -> Decoded] /\ \A j \in 1..m : s[j] = e(a + j - 1)
      BY StretchIs
<1>2. /\ Stretch(shift, a, n) = [j \in 1..n |-> e(a + j - 1)]
      /\ Stretch(shift, a + n, m - n) = [j \in 1 .. m - n |-> e(a + n + j - 1)]
      BY DEF Stretch
<1> HIDE DEF s, e
<1>3. /\ SubSeq(s, 1, n) = [j \in 1..n |-> s[j]]
      /\ SubSeq(s, n + 1, m) = [j \in 1 .. m - n |-> s[n + j]]
      BY <1>1, Halves
<1>4. \A j \in 1..n : s[j] = e(a + j - 1)
      BY <1>1
<1>5. \A j \in 1 .. m - n : s[n + j] = e(a + n + j - 1)
  <2> TAKE j \in 1 .. m - n
  <2>1. n + j \in 1..m /\ a + (n + j) - 1 = a + n + j - 1
        OBVIOUS
  <2> QED BY <1>1, <2>1
<1>6. /\ SubSeq(s, 1, n) = Stretch(shift, a, n)
      /\ SubSeq(s, n + 1, m) = Stretch(shift, a + n, m - n)
      BY <1>2, <1>3, <1>4, <1>5
<1> QED BY <1>6 DEF s, Halved

-----------------------------------------------------------------------------
(***************************************************************************)
(* The fetch: the invariant.                                               *)
(***************************************************************************)
First == chunk.merged_start
Shift == req.header + chunk.vol_off - First

FetchShape ==
  /\ cached \subseteq First..ChunkEndAt
  /\ pc \in {"segment", "cacheread", "request", "body", "attempted", "finish", "done"}
  /\ pos \in First..(ChunkEndAt + 1) /\ keystream = pos
  /\ seg.end \in 0..ChunkEndAt /\ seg.cached \in BOOLEAN
  /\ attempts \in 0..Attempts /\ obj \in Nat /\ closed \in BOOLEAN
  /\ result \in {"open", "ok", "failed"} /\ (pc # "done" <=> result = "open")
  /\ pc \in {"cacheread", "request", "body"} => pos <= seg.end
  /\ pc = "attempted" => pos <= seg.end + 1
  /\ pc = "finish" => pos = ChunkEndAt + 1
  /\ pc = "body" => obj = ObjectOffset(pos)

\* What has been sent and what is batched follow each other, up to the position.
FetchOut ==
  \E m, n \in Nat :
    /\ out = Stretch(Shift, First, m) /\ batch = Stretch(Shift, First + m, n)
    /\ n < OutputBatch /\ First + m + n <= pos
    /\ pc # "done" => First + m + n = pos
    /\ result = "ok" => m = chunk.len

\* What is gathered for the cache is what was read last, from where it begins.
FetchGather ==
  /\ gather \in [start : Int, bytes : Seq(Int)]
  /\ pc \in {"segment", "cacheread", "request"} => gather.bytes = <<>>
  /\ pc \in {"body", "attempted"} =>
       \E n \in Nat : /\ gather.bytes = Bytes(ObjectOffset(gather.start), n)
                      /\ n # 0 => gather.start >= First /\ gather.start + n = pos
FetchWrites ==
  \A w \in writes : w.at \in First..ChunkEndAt /\ w.byte = ObjectOffset(w.at)

FetchInv == ReqOK /\ FetchShape /\ FetchOut /\ FetchGather /\ FetchWrites

LEMMA Places ==
  ASSUME ReqOK
  PROVE  /\ First \in Nat /\ chunk.len \in Nat \ {0} /\ ChunkEndAt \in Nat /\ Shift \in Int
         /\ ChunkEndAt = First + chunk.len - 1
         /\ \A m \in Int : ObjectOffset(m) = Shift + m
         /\ \A m \in Nat : m >= First => ObjectOffset(m) \in Nat
<1>1. /\ chunk.merged_start \in Nat /\ chunk.len \in Nat \ {0} /\ chunk.vol_off \in Nat
      /\ req.header \in Nat
      BY DEF ReqOK, Pieces
<1> DEFINE a == chunk.merged_start
           v == chunk.vol_off
           l == chunk.len
           h == req.header
<1>2. /\ First = a /\ Shift = h + v - a /\ ChunkEndAt = a + l - 1
      /\ \A m : ObjectOffset(m) = h + v + (m - a)
      BY DEF First, Shift, ChunkEndAt, ObjectOffset
<1>3. a \in Nat /\ l \in Nat \ {0} /\ v \in Nat /\ h \in Nat
      BY <1>1
<1> HIDE DEF a, v, l, h
<1>4. ASSUME NEW m \in Int PROVE ObjectOffset(m) = Shift + m /\ (m >= First => ObjectOffset(m) \in Nat)
      BY <1>2, <1>3
<1>5. First \in Nat /\ ChunkEndAt \in Nat /\ Shift \in Int /\ ChunkEndAt = First + l - 1
      BY <1>2, <1>3
<1> QED BY <1>3, <1>4, <1>5 DEF l

\* A request that does not change: nothing that is made of it does.
LEMMA SameRequest ==
  ASSUME req' = req
  PROVE  /\ chunk' = chunk /\ ChunkEndAt' = ChunkEndAt /\ First' = First /\ Shift' = Shift
         /\ (ReqOK => ReqOK')
         /\ \A m : req'.header + chunk'.vol_off + (m - chunk'.merged_start) = ObjectOffset(m)
<1>1. chunk' = chunk
      BY DEF chunk
<1>2. ChunkEndAt' = ChunkEndAt /\ First' = First /\ Shift' = Shift
      BY <1>1 DEF ChunkEndAt, First, Shift
<1>3. PlanIsExact' = PlanIsExact
      BY DEF PlanIsExact
<1> QED BY <1>1, <1>2, <1>3 DEF ReqOK, ObjectOffset

LEMMA FetchInitially == Init => FetchInv
<1> SUFFICES ASSUME Init PROVE FetchInv
    OBVIOUS
<1>1. ReqOK /\ cached \subseteq First..ChunkEndAt
      BY Requests DEF First
<1>2. /\ pc = "segment" /\ pos = First
      /\ seg = [end |-> 0, cached |-> FALSE] /\ attempts = 0 /\ obj = 0
      /\ batch = <<>> /\ keystream = First /\ out = <<>>
      /\ gather = [start |-> 0, bytes |-> <<>>] /\ writes = {}
      /\ closed = FALSE /\ result = "open"
      BY DEF Init, First
<1>3. /\ First \in Nat /\ ChunkEndAt \in Nat /\ ChunkEndAt = First + chunk.len - 1
      /\ chunk.len \in Nat \ {0} /\ Shift \in Int /\ Attempts \in Nat /\ OutputBatch \in Nat \ {0}
      BY <1>1, Places, FetchAssumption
<1>4. FetchShape
  <2>1. pos \in First..(ChunkEndAt + 1) /\ seg.end \in 0..ChunkEndAt /\ attempts \in 0..Attempts
        BY <1>2, <1>3
  <2> QED BY <1>1, <1>2, <2>1 DEF FetchShape
<1>5. FetchOut
  <2>1. out = Stretch(Shift, First, 0) /\ batch = Stretch(Shift, First + 0, 0)
        BY <1>2 DEF Stretch
  <2>2. 0 \in Nat /\ 0 < OutputBatch /\ First + 0 + 0 = pos
        BY <1>2, <1>3
  <2>3. First + 0 + 0 <= pos
        BY <1>2, <1>3
  <2> QED BY <1>2, <2>1, <2>2, <2>3 DEF FetchOut
<1>6. FetchGather /\ FetchWrites
      BY <1>2 DEF FetchGather, FetchWrites
<1> QED BY <1>1, <1>4, <1>5, <1>6 DEF FetchInv

(***************************************************************************)
(* What a step that produces bytes does to them.                           *)
(***************************************************************************)
LEMMA WholeBatches ==
  ASSUME NEW n \in Nat, NEW s, Len(s) = n
  PROVE  Whole(s, FALSE) \in 0..n /\ n - Whole(s, FALSE) < OutputBatch
<1>1. PICK b \in Nat \ {0} : b = OutputBatch
      BY FetchAssumption
<1> DEFINE q == n \div b
<1>2. q \in Nat /\ b * q <= n /\ n < b * q + b
      OBVIOUS
<1>3. Whole(s, FALSE) = q * b
      BY <1>1 DEF Whole
<1> HIDE DEF q
<1>4. b * q = q * b /\ b * q \in Nat
      BY <1>2
<1>5. q * b \in 0..n /\ n - q * b < b
      BY <1>2, <1>4
<1> QED BY <1>1, <1>3, <1>5

LEMMA Appended ==
  ASSUME ReqOK, FetchShape, FetchOut, pc # "done",
         NEW c \in Nat, NEW o, o = ObjectOffset(pos), NEW then, then # "done",
         Append1(Bytes(o, c), then), pos' = pos + c, req' = req
  PROVE  /\ FetchOut' /\ keystream' = pos'
         /\ (pc' = then /\ result' = result) \/ (pc' = "done" /\ result' = "failed")
<1> DEFINE bytes == Bytes(o, c)
           full == batch \o Decrypted(bytes)
           w == Whole(full, FALSE)
<1>1. /\ First \in Nat /\ Shift \in Int /\ pos \in Nat /\ keystream = pos /\ result = "open"
      /\ o = Shift + pos
  <2>1. pos \in Nat
        BY Places DEF FetchShape
  <2> QED BY <2>1, Places DEF FetchShape
<1>2. PICK m \in Nat, n \in Nat :
        /\ out = Stretch(Shift, First, m) /\ batch = Stretch(Shift, First + m, n)
        /\ n < OutputBatch /\ First + m + n = pos
      BY DEF FetchOut
<1>3. Decrypted(bytes) = Stretch(Shift, First + m + n, c) /\ Len(bytes) = c
  <2>1. DOMAIN bytes = 1..c /\ Len(bytes) = c
        BY <1>1, BytesRun
  <2>2. \A i \in 1..c : bytes[i] = o + i - 1
        BY DEF Bytes
  <2>3. \A i \in 1..c : bytes[i] = Shift + (pos + i - 1)
        BY <1>1, <2>2
  <2> HIDE DEF bytes
  <2>4. Decrypted(bytes) = [i \in 1..c |-> [byte |-> bytes[i], key |-> pos + i - 1]]
        BY <1>1, <2>1 DEF Decrypted
  <2>5. Decrypted(bytes) = [i \in 1..c |-> [byte |-> Shift + (pos + i - 1), key |-> pos + i - 1]]
        BY <2>3, <2>4
  <2> QED BY <1>2, <2>1, <2>5 DEF Stretch
<1>4. full = Stretch(Shift, First + m, n + c) /\ Len(full) = n + c /\ First + m \in Int
  <2>1. First + m \in Int /\ n + c \in Nat
        BY <1>1
  <2>2. full = Stretch(Shift, First + m, n + c)
    <3>1. Stretch(Shift, First + m, n) \o Stretch(Shift, First + m + n, c)
            = Stretch(Shift, First + m, n + c)
      <4> DEFINE x == First + m
                 y == First + m + n
                 z == n + c
      <4>1. x \in Int /\ y = x + n /\ z = n + c
            BY <1>1
      <4> HIDE DEF x, y, z
      <4>2. Joins(Stretch(Shift, x, n), Stretch(Shift, y, c), Stretch(Shift, x, z))
            BY <1>1, <4>1, StretchGlued
      <4> QED BY <4>2 DEF x, y, z, Joins
    <3> QED BY <1>2, <1>3, <3>1
  <2>3. Len(Stretch(Shift, First + m, n + c)) = n + c
        BY <1>1, <2>1, StretchIs, Zenon
  <2> QED BY <2>1, <2>2, <2>3
<1>5. w \in 0 .. n + c /\ (n + c) - w < OutputBatch
  <2>1. n + c \in Nat
        OBVIOUS
  <2> QED BY <1>4, <2>1, WholeBatches
<1>6. /\ keystream' = keystream + Len(bytes)
      /\ IF w > 0 /\ closed
         THEN result' = "failed" /\ pc' = "done" /\ UNCHANGED <<batch, out>>
         ELSE /\ out' = out \o SubSeq(full, 1, w) /\ batch' = SubSeq(full, w + 1, Len(full))
              /\ pc' = then /\ UNCHANGED result
      BY DEF Append1
<1> HIDE DEF w, full
<1>7. keystream' = pos'
      BY <1>1, <1>3, <1>6
<1>8. CASE w > 0 /\ closed
  <2>1. result' = "failed" /\ pc' = "done" /\ UNCHANGED <<batch, out>>
        BY <1>6, <1>8
  <2>2. FetchOut'
    <3>1. /\ out' = Stretch(Shift, First, m) /\ batch' = Stretch(Shift, First + m, n)
          /\ n < OutputBatch /\ First + m + n <= pos'
          BY <1>1, <1>2, <2>1
    <3> QED BY <2>1, <3>1, SameRequest DEF FetchOut
  <2> QED BY <1>7, <2>1, <2>2
<1>9. CASE ~(w > 0 /\ closed)
  <2>1. /\ out' = out \o SubSeq(full, 1, w) /\ batch' = SubSeq(full, w + 1, Len(full))
        /\ pc' = then /\ result' = result
        BY <1>6, <1>9
  <2>2. /\ SubSeq(full, 1, w) = Stretch(Shift, First + m, w)
        /\ SubSeq(full, w + 1, Len(full)) = Stretch(Shift, First + m + w, (n + c) - w)
    <3>1. n + c \in Nat
          OBVIOUS
    <3> DEFINE x == First + m
               z == n + c
    <3>2. full = Stretch(Shift, x, z) /\ Len(full) = z /\ w \in 0..z /\ x \in Int /\ z \in Nat
          BY <1>4, <1>5, <3>1
    <3> HIDE DEF x, z
    <3>3. Halved(Stretch(Shift, x, z), w, z, Stretch(Shift, x, w), Stretch(Shift, x + w, z - w))
          BY <1>1, <3>2, StretchCut
    <3> QED BY <3>2, <3>3 DEF x, z, Halved
  <2>3. w \in Nat /\ m + w \in Nat /\ (n + c) - w \in Nat
        BY <1>5
  <2>4. out' = Stretch(Shift, First, m + w)
    <3>1. Stretch(Shift, First, m) \o Stretch(Shift, First + m, w) = Stretch(Shift, First, m + w)
      <4> DEFINE x == First + m
                 z == m + w
      <4>1. x = First + m /\ z = m + w /\ First \in Int
            BY <1>1
      <4> HIDE DEF x, z
      <4>2. Joins(Stretch(Shift, First, m), Stretch(Shift, x, w), Stretch(Shift, First, z))
            BY <1>1, <2>3, <4>1, StretchGlued
      <4> QED BY <4>2 DEF x, z, Joins
    <3> QED BY <1>2, <2>1, <2>2, <3>1
  <2>5. First + m + w = First + (m + w) /\ First + (m + w) + ((n + c) - w) = pos'
        BY <1>1, <1>2, <2>3
  <2>6. FetchOut'
    <3>1. /\ out' = Stretch(Shift, First, m + w)
          /\ batch' = Stretch(Shift, First + (m + w), (n + c) - w)
          BY <2>1, <2>2, <2>4, <2>5
    <3>2. (n + c) - w < OutputBatch /\ result' = "open"
          BY <1>1, <1>5, <2>1
    <3>3. First + (m + w) + ((n + c) - w) <= pos'
          BY <1>1, <2>3, <2>5
    <3> QED BY <2>3, <2>5, <3>1, <3>2, <3>3, SameRequest DEF FetchOut
  <2> QED BY <1>7, <2>1, <2>6
<1> QED BY <1>8, <1>9

\* A set of numbers up to a bound has a greatest one.
LEMMA Greatest ==
  ASSUME NEW b \in Nat, NEW S, S \subseteq 0..b, S # {}
  PROVE  \E e \in S : \A d \in S : d <= e
<1> SUFFICES ASSUME \A e \in S : \E d \in S : ~(d <= e) PROVE FALSE
    OBVIOUS
<1> DEFINE T == {n \in Nat : \E e \in S : e >= n}
<1>1. 0 \in T
  <2>1. PICK e \in S : TRUE
        OBVIOUS
  <2>2. e \in Nat /\ e >= 0
        OBVIOUS
  <2> QED BY <2>2
<1>2. ASSUME NEW n \in Nat, n \in T PROVE n + 1 \in T
  <2>1. PICK e \in S : e >= n
        BY <1>2
  <2>2. PICK d \in S : ~(d <= e)
        OBVIOUS
  <2>3. d \in Nat /\ e \in Nat
        OBVIOUS
  <2>4. d >= n + 1
        BY <2>1, <2>2, <2>3
  <2> QED BY <2>4
<1>3. b + 1 \in T
  <2> HIDE DEF T
  <2> QED BY <1>1, <1>2, Induction
<1> QED BY <1>3

LEMMA Segment ==
  ASSUME NEW p \in Nat, ChunkEndAt \in Nat, p <= ChunkEndAt
  PROVE  SegmentFrom(p).end \in p..ChunkEndAt /\ SegmentFrom(p).cached \in BOOLEAN
<1> DEFINE like == {e \in p..ChunkEndAt : \A m \in p..e : (m \in cached) = (p \in cached)}
<1> DEFINE best(e) == \A d \in like : d <= e
<1>1. p \in like
  <2>1. p \in p..ChunkEndAt /\ \A m \in p..p : m = p
        OBVIOUS
  <2> QED BY <2>1
<1>2. like \subseteq 0..ChunkEndAt /\ like \subseteq p..ChunkEndAt
      OBVIOUS
<1>3. SegmentFrom(p).end = (CHOOSE e \in like : best(e))
      BY DEF SegmentFrom
<1>4. SegmentFrom(p).cached \in BOOLEAN
  <2>1. SegmentFrom(p).cached = (p \in cached)
        BY DEF SegmentFrom
  <2> QED BY <2>1
<1>5. \E e \in like : best(e)
  <2> HIDE DEF like
  <2> QED BY <1>1, <1>2, Greatest
<1>6. (CHOOSE e \in like : best(e)) \in like
  <2> HIDE DEF like, best
  <2> QED BY <1>5
<1> HIDE DEF like, best
<1> QED BY <1>2, <1>3, <1>4, <1>6

LEMMA NextSegmentStep == ASSUME FetchInv, NextSegment PROVE FetchInv'
<1>1. /\ pc = "segment" /\ attempts' = 0
      /\ IF pos > ChunkEndAt THEN pc' = "finish" /\ UNCHANGED seg
         ELSE seg' = SegmentFrom(pos) /\ pc' = IF pos \in cached THEN "cacheread" ELSE "request"
      /\ UNCHANGED <<req, cached, pos, obj, batch, keystream, out, gather, writes, closed, result>>
      BY DEF NextSegment, writing, caching
<1>2. /\ First \in Nat /\ ChunkEndAt \in Nat /\ pos \in First..(ChunkEndAt + 1) /\ Attempts \in Nat
      BY Places, FetchAssumption DEF FetchInv, FetchShape
<1>3. /\ pc' \in {"finish", "cacheread", "request"} /\ result' = "open"
      /\ seg'.end \in 0..ChunkEndAt /\ seg'.cached \in BOOLEAN
      /\ pc' # "finish" => pos <= seg'.end
      /\ pc' = "finish" => pos = ChunkEndAt + 1
  <2>1. result' = "open"
        BY <1>1 DEF FetchInv, FetchShape
  <2>2. CASE pos > ChunkEndAt
        BY <1>1, <1>2, <2>1, <2>2 DEF FetchInv, FetchShape
  <2>3. CASE ~(pos > ChunkEndAt)
    <3>1. pos \in Nat /\ pos <= ChunkEndAt
          BY <1>2, <2>3
    <3>2. SegmentFrom(pos).end \in pos..ChunkEndAt /\ SegmentFrom(pos).cached \in BOOLEAN
          BY <1>2, <3>1, Segment
    <3>3. seg' = SegmentFrom(pos) /\ pc' \in {"cacheread", "request"}
          BY <1>1, <2>3
    <3> QED BY <1>2, <2>1, <3>1, <3>2, <3>3
  <2> QED BY <2>2, <2>3
<1>4. FetchShape'
  <2>1. attempts' \in 0..Attempts
        BY <1>1, <1>2
  <2> QED BY <1>1, <1>3, <2>1, SameRequest DEF FetchInv, FetchShape
<1>5. FetchOut'
      BY <1>1, <1>3, SameRequest DEF FetchInv, FetchOut
<1>6. FetchGather'
      BY <1>1, <1>3 DEF FetchInv, FetchGather
<1>7. FetchWrites'
      BY <1>1, SameRequest DEF FetchInv, FetchWrites, ObjectOffset
<1> QED BY <1>1, <1>4, <1>5, <1>6, <1>7, SameRequest DEF FetchInv

LEMMA CacheReadStep == ASSUME FetchInv, CacheRead PROVE FetchInv'
<1> DEFINE n == Smaller(CacheReadBatch, Remaining)
           then == IF n = Remaining THEN "segment" ELSE "cacheread"
<1>1. /\ pc = "cacheread" /\ Append1(Bytes(ObjectOffset(pos), n), then) /\ pos' = pos + n
      /\ UNCHANGED <<req, cached, seg, attempts, obj, gather, writes, closed>>
      BY DEF CacheRead, caching
<1>2. /\ First \in Nat /\ ChunkEndAt \in Nat /\ pos \in First..(ChunkEndAt + 1)
      /\ seg.end \in 0..ChunkEndAt /\ pos <= seg.end
      BY <1>1, Places DEF FetchInv, FetchShape
<1>3. n \in Nat \ {0} /\ pos + n <= seg.end + 1 /\ (n # Remaining => pos + n <= seg.end)
  <2>1. CacheReadBatch \in Nat \ {0}
        BY FetchAssumption
  <2>2. Remaining = seg.end - pos + 1
        BY DEF Remaining
  <2> QED BY <1>2, <2>1, <2>2 DEF Smaller
<1>4. /\ FetchOut' /\ keystream' = pos'
      /\ (pc' = then /\ result' = result) \/ (pc' = "done" /\ result' = "failed")
  <2>1. pc # "done" /\ then # "done" /\ n \in Nat
        BY <1>1, <1>3
  <2> HIDE DEF n, then
  <2> QED BY <1>1, <2>1, Appended DEF FetchInv
<1>5. /\ pc' \in {"segment", "cacheread", "done"} /\ (pc' = "cacheread" => pos' <= seg.end)
      /\ result' \in {"open", "failed"} /\ (pc' # "done" <=> result' = "open")
      BY <1>1, <1>3, <1>4 DEF FetchInv, FetchShape
<1>6. FetchShape'
  <2>1. pos' \in First..(ChunkEndAt + 1)
        BY <1>1, <1>2, <1>3
  <2> QED BY <1>1, <1>4, <1>5, <2>1, SameRequest DEF FetchInv, FetchShape
<1>7. FetchGather'
      BY <1>1, <1>5 DEF FetchInv, FetchGather
<1>8. FetchWrites'
      BY <1>1, SameRequest DEF FetchInv, FetchWrites, ObjectOffset
<1> QED BY <1>1, <1>4, <1>6, <1>7, <1>8, SameRequest DEF FetchInv

LEMMA RequestStep == ASSUME FetchInv, Request PROVE FetchInv'
<1>1. /\ pc = "request" /\ attempts < Attempts /\ attempts' = attempts + 1
      /\ obj' = ObjectOffset(pos) /\ pc' = "body"
      /\ UNCHANGED <<req, cached, pos, seg, batch, keystream, out, gather, writes, closed, result>>
      BY DEF Request, MayTry, CountAttempt, RangeStart, writing, caching
<1>2. /\ First \in Nat /\ pos \in Nat /\ First <= pos /\ Attempts \in Nat
      BY Places, FetchAssumption DEF FetchInv, FetchShape
<1>3. FetchShape'
  <2>1. attempts' \in 0..Attempts
        BY <1>1, <1>2 DEF FetchInv, FetchShape
  <2>2. obj' \in Nat /\ obj' = ObjectOffset(pos)'
        BY <1>1, <1>2, Places, SameRequest DEF FetchInv, ObjectOffset
  <2> QED BY <1>1, <2>1, <2>2, SameRequest DEF FetchInv, FetchShape
<1>4. FetchOut'
      BY <1>1, SameRequest DEF FetchInv, FetchOut
<1>5. FetchGather'
  <2>1. gather.bytes = <<>> /\ gather \in [start : Int, bytes : Seq(Int)]
        BY <1>1 DEF FetchInv, FetchGather
  <2>2. <<>> = Bytes(ObjectOffset(gather.start)', 0)
        BY DEF Bytes
  <2> QED BY <1>1, <2>1, <2>2 DEF FetchGather
<1>6. FetchWrites'
      BY <1>1, SameRequest DEF FetchInv, FetchWrites, ObjectOffset
<1> QED BY <1>1, <1>3, <1>4, <1>5, <1>6, SameRequest DEF FetchInv

\* Steps that move nothing.
LEMMA StillStep ==
  ASSUME FetchInv,
         UNCHANGED <<req, cached, pos, seg, obj, batch, keystream, out, gather, writes>>,
         attempts' \in 0..Attempts, closed' \in BOOLEAN,
         \/ pc' = pc /\ result' = result
         \/ pc = "cacheread" /\ pc' = "request" /\ result' = result
         \/ pc = "body" /\ pc' = "attempted" /\ result' = result
         \/ pc = "request" /\ pc' = "done" /\ result' = "failed"
  PROVE  FetchInv'
<1>1. FetchShape'
  <2>1. /\ pc' \in {"segment", "cacheread", "request", "body", "attempted", "finish", "done"}
        /\ result' \in {"open", "ok", "failed"} /\ (pc' # "done" <=> result' = "open")
        /\ pc' \in {"cacheread", "request", "body"} => pos <= seg.end
        /\ pc' = "finish" => pos = ChunkEndAt + 1
        /\ pc' = "body" => pc = "body"
        BY DEF FetchInv, FetchShape
  <2>2. pc' = "attempted" => pos <= seg.end + 1
    <3>1. First \in Nat /\ pos \in First..(ChunkEndAt + 1) /\ seg.end \in 0..ChunkEndAt /\ ChunkEndAt \in Nat
          BY Places DEF FetchInv, FetchShape
    <3>2. pc' = "attempted" => pos <= seg.end + 1 \/ pos <= seg.end
          BY DEF FetchInv, FetchShape
    <3> QED BY <3>1, <3>2
  <2>3. pc = "body" => obj' = ObjectOffset(pos)'
        BY SameRequest DEF FetchInv, FetchShape, ObjectOffset
  <2> QED BY <2>1, <2>2, <2>3, SameRequest DEF FetchInv, FetchShape
<1>2. FetchOut'
      BY SameRequest DEF FetchInv, FetchOut
<1>3. FetchGather'
  <2>1. ObjectOffset(gather.start)' = ObjectOffset(gather.start)
        BY SameRequest DEF ObjectOffset
  <2> QED BY <2>1, SameRequest DEF FetchInv, FetchGather
<1>4. FetchWrites'
      BY SameRequest DEF FetchInv, FetchWrites, ObjectOffset
<1> QED BY <1>1, <1>2, <1>3, <1>4, SameRequest DEF FetchInv
\* What goes into the cache is what was gathered, where it belongs.
LEMMA Gathered ==
  ASSUME ReqOK, NEW g, g.start \in Int, NEW n \in Nat, g.bytes = Bytes(ObjectOffset(g.start), n),
         n # 0 => g.start >= First /\ g.start + n <= ChunkEndAt + 1
  PROVE  \A w \in Writes(g) : w.at \in First..ChunkEndAt /\ w.byte = ObjectOffset(w.at)
<1> DEFINE s == g.start
<1>1. /\ First \in Nat /\ ChunkEndAt \in Nat /\ Shift \in Int
      /\ \A m \in Int : ObjectOffset(m) = Shift + m
      BY Places
<1>2. ObjectOffset(s) = Shift + s /\ s \in Int
      BY <1>1
<1>3. DOMAIN g.bytes = 1..n
      BY DEF Bytes
<1>4. \A i \in 1..n : g.bytes[i] = ObjectOffset(s) + i - 1
      BY DEF Bytes
<1> SUFFICES ASSUME NEW w \in Writes(g)
             PROVE  w.at \in First..ChunkEndAt /\ w.byte = ObjectOffset(w.at)
    OBVIOUS
<1>5. PICK i \in 1..n : w = [at |-> s + i - 1, byte |-> g.bytes[i]]
      BY <1>3 DEF Writes
<1>6. w.at = s + i - 1 /\ w.byte = ObjectOffset(s) + i - 1
      BY <1>4, <1>5
<1>7. s >= First /\ s + n <= ChunkEndAt + 1
      BY <1>5
<1> HIDE DEF s
<1>8. s + i - 1 \in First..ChunkEndAt /\ s + i - 1 \in Int
      BY <1>1, <1>2, <1>7
<1>9. ObjectOffset(s + i - 1) = Shift + (s + i - 1)
      BY <1>1, <1>8
<1>10. ObjectOffset(s) + i - 1 = Shift + (s + i - 1)
      BY <1>1, <1>2
<1> QED BY <1>6, <1>8, <1>9, <1>10

LEMMA BodyItemStep == ASSUME FetchInv, NEW k \in Nat \ {0}, BodyItem(k) PROVE FetchInv'
<1> DEFINE t == Take(k)
           bytes == Bytes(obj, t)
           g == Gather(bytes)
           then == IF t = Remaining THEN "attempted" ELSE "body"
<1>1. /\ pc = "body" /\ Append1(Bytes(obj, t), then) /\ pos' = pos + t /\ obj' = obj + k
      /\ \/ gather' = Empty(g) /\ writes' = writes \cup Writes(g)
         \/ gather' = g /\ writes' = writes
      /\ UNCHANGED <<req, cached, seg, attempts, closed>>
      BY DEF BodyItem
<1>2. /\ First \in Nat /\ ChunkEndAt \in Nat /\ Shift \in Int /\ pos \in First..(ChunkEndAt + 1)
      /\ seg.end \in 0..ChunkEndAt /\ pos <= seg.end /\ obj = ObjectOffset(pos) /\ obj \in Nat
      /\ obj = Shift + pos
  <2>1. /\ First \in Nat /\ ChunkEndAt \in Nat /\ Shift \in Int /\ pos \in First..(ChunkEndAt + 1)
        /\ seg.end \in 0..ChunkEndAt /\ pos <= seg.end /\ obj = ObjectOffset(pos) /\ obj \in Nat
        BY <1>1, Places DEF FetchInv, FetchShape
  <2>2. pos \in Int
        BY <2>1
  <2> QED BY <2>1, <2>2, Places DEF FetchInv
<1>3. /\ t \in Nat \ {0} /\ pos + t <= seg.end + 1
      /\ t # Remaining => pos + t <= seg.end /\ t = k
  <2>1. Remaining = seg.end - pos + 1
        BY DEF Remaining
  <2> QED BY <1>2, <2>1 DEF Take, Smaller
<1>4. /\ FetchOut' /\ keystream' = pos'
      /\ (pc' = then /\ result' = result) \/ (pc' = "done" /\ result' = "failed")
  <2>1. pc # "done" /\ then # "done" /\ t \in Nat
        BY <1>1, <1>3
  <2> HIDE DEF t, then
  <2> QED BY <1>1, <1>2, <2>1, Appended DEF FetchInv
<1>5. /\ pc' \in {"attempted", "body", "done"}
      /\ pc' = "body" => pos' <= seg.end /\ obj' = obj + t
      /\ pos' <= seg.end + 1
      /\ result' \in {"open", "failed"} /\ (pc' # "done" <=> result' = "open")
      BY <1>1, <1>3, <1>4 DEF FetchInv, FetchShape
<1>6. obj' \in Nat /\ (pc' = "body" => obj' = ObjectOffset(pos'))
  <2>1. obj' \in Nat
        BY <1>1, <1>2
  <2>2. pos' \in Int /\ pos' = pos + t
        BY <1>1, <1>2, <1>3
  <2>3. ObjectOffset(pos') = Shift + pos'
        BY <2>2, Places DEF FetchInv
  <2> HIDE DEF t
  <2>4. obj + t = Shift + pos'
        BY <1>2, <1>3, <2>2
  <2> QED BY <1>5, <2>1, <2>3, <2>4
<1>7. FetchShape'
  <2>1. pos' \in First..(ChunkEndAt + 1)
        BY <1>1, <1>2, <1>3
  <2>2. pc' = "body" => obj' = ObjectOffset(pos)'
        BY <1>1, <1>6, SameRequest DEF ObjectOffset
  <2> QED BY <1>1, <1>4, <1>5, <1>6, <2>1, <2>2, SameRequest DEF FetchInv, FetchShape
<1>8. PICK n \in Nat :
        /\ gather.bytes = Bytes(ObjectOffset(gather.start), n)
        /\ n # 0 => gather.start >= First /\ gather.start + n = pos
      BY <1>1 DEF FetchInv, FetchGather
<1>9. /\ g.start \in Int /\ g.start >= First /\ g.start + (n + t) = pos'
      /\ g.bytes = Bytes(ObjectOffset(g.start), n + t) /\ g.bytes \in Seq(Int)
      /\ g \in [start : Int, bytes : Seq(Int)]
  <2> DEFINE s == g.start
  <2>1. /\ gather.start \in Int /\ gather.bytes \in Seq(Int)
        /\ s = IF gather.bytes = <<>> THEN pos ELSE gather.start
        /\ g.bytes = gather.bytes \o bytes /\ g = [start |-> s, bytes |-> gather.bytes \o bytes]
        BY DEF Gather, FetchInv, FetchGather
  <2>2. t \in Nat /\ n + t \in Nat
        BY <1>3
  <2>3. Len(gather.bytes) = n /\ (gather.bytes = <<>> <=> n = 0)
    <3>1. ObjectOffset(gather.start) \in Int
      <4> DEFINE a == gather.start
      <4>1. a \in Int /\ ObjectOffset(a) = Shift + a
            BY <2>1, Places DEF FetchInv
      <4> HIDE DEF a
      <4>2. ObjectOffset(a) \in Int
            BY <1>2, <4>1
      <4> QED BY <4>2 DEF a
    <3>2. Len(gather.bytes) = n
          BY <1>8, <3>1, BytesRun
    <3> QED BY <2>1, <3>2, EmptySeq
  <2>4. s \in Int /\ s >= First /\ s + n = pos
    <3>1. CASE n = 0
          BY <1>2, <2>1, <2>3, <3>1
    <3>2. CASE n # 0
          BY <1>8, <2>1, <2>3, <3>2
    <3> QED BY <3>1, <3>2
  <2>5. ObjectOffset(s) \in Int /\ obj = ObjectOffset(s) + n
    <3>1. ObjectOffset(s) = Shift + s
          BY <2>4, Places DEF FetchInv
    <3> HIDE DEF s
    <3> QED BY <1>2, <2>4, <3>1
  <2>6. gather.bytes = Bytes(ObjectOffset(s), n)
    <3>1. CASE n = 0
      <4>1. gather.bytes = <<>> /\ Bytes(ObjectOffset(s), n) = <<>>
            BY <2>3, <3>1 DEF Bytes
      <4> QED BY <4>1
    <3>2. CASE n # 0
          BY <1>8, <2>1, <2>3, <3>2
    <3> QED BY <3>1, <3>2
  <2>7. g.bytes = Bytes(ObjectOffset(s), n + t)
    <3> HIDE DEF t, s, g
    <3>1. Bytes(ObjectOffset(s), n) \o Bytes(obj, t) = Bytes(ObjectOffset(s), n + t)
          BY <2>2, <2>5, BytesRun
    <3> QED BY <2>1, <2>6, <3>1
  <2>8. g.bytes \in Seq(Int)
    <3> HIDE DEF t, s, g
    <3> QED BY <2>2, <2>5, <2>7, BytesRun
  <2>9. s + (n + t) = pos'
    <3> HIDE DEF t, s, g
    <3> QED BY <1>1, <1>2, <2>2, <2>4
  <2> QED BY <2>1, <2>4, <2>7, <2>8, <2>9
<1> HIDE DEF g, t, then
<1>10. FetchWrites'
  <2>1. n + t \in Nat /\ g.start + (n + t) <= ChunkEndAt + 1
        BY <1>2, <1>3, <1>5, <1>9
  <2>2. \A w \in Writes(g) : w.at \in First..ChunkEndAt /\ w.byte = ObjectOffset(w.at)
        BY <1>9, <2>1, Gathered DEF FetchInv
  <2>3. \A w \in writes' : w.at \in First..ChunkEndAt /\ w.byte = ObjectOffset(w.at)
        BY <1>1, <2>2 DEF FetchInv, FetchWrites
  <2> QED BY <1>1, <2>3, SameRequest DEF FetchWrites, ObjectOffset
<1>11. FetchGather'
  <2>1. CASE gather' = Empty(g)
    <3>1. gather'.start = g.start /\ gather'.bytes = <<>> /\ gather' \in [start : Int, bytes : Seq(Int)]
      <4>1. <<>> \in Seq(Int)
            OBVIOUS
      <4> QED BY <1>9, <2>1, <4>1 DEF Empty
    <3>2. gather'.bytes = Bytes(ObjectOffset(gather.start)', 0)
          BY <3>1 DEF Bytes
    <3> QED BY <1>5, <3>1, <3>2 DEF FetchGather
  <2>2. CASE gather' = g
    <3>1. ObjectOffset(gather.start)' = ObjectOffset(g.start)
          BY <1>1, <2>2, SameRequest DEF ObjectOffset
    <3>2. n + t \in Nat
          BY <1>3
    <3>3. gather'.bytes = Bytes(ObjectOffset(gather.start)', n + t)
          BY <1>9, <2>2, <3>1
    <3> QED BY <1>1, <1>5, <1>9, <2>2, <3>2, <3>3, SameRequest DEF FetchGather
  <2> QED BY <1>1, <2>1, <2>2
<1> QED BY <1>1, <1>4, <1>7, <1>10, <1>11, SameRequest DEF FetchInv

\* What is batched joins what has been sent.
LEMMA Flushed ==
  ASSUME ReqOK, FetchOut, pc # "done"
  PROVE  \E m \in Nat : First + m = pos /\ out \o batch = Stretch(Shift, First, m)
<1>1. PICK m \in Nat, n \in Nat :
        /\ out = Stretch(Shift, First, m) /\ batch = Stretch(Shift, First + m, n)
        /\ First + m + n = pos
      BY DEF FetchOut
<1>2. First \in Nat /\ Shift \in Int
      BY Places
<1> DEFINE x == First + m
           z == m + n
<1>3. x = First + m /\ z = m + n /\ z \in Nat /\ First + z = pos
      BY <1>1, <1>2
<1> HIDE DEF x, z
<1>4. Joins(Stretch(Shift, First, m), Stretch(Shift, x, n), Stretch(Shift, First, z))
      BY <1>2, <1>3, StretchGlued
<1>5. out \o batch = Stretch(Shift, First, z)
      BY <1>1, <1>3, <1>4 DEF Joins
<1> QED BY <1>3, <1>5

LEMMA AfterAttemptStep == ASSUME FetchInv, AfterAttempt PROVE FetchInv'
<1>1. /\ pc = "attempted" /\ gather' = Empty(gather) /\ writes' = writes \cup Writes(gather)
      /\ IF Remaining = 0 THEN pc' = "segment" /\ UNCHANGED <<batch, keystream, out, result>>
         ELSE /\ UNCHANGED keystream
              /\ IF batch # <<>> /\ closed
                 THEN result' = "failed" /\ pc' = "done" /\ UNCHANGED <<batch, out>>
                 ELSE out' = out \o batch /\ batch' = <<>> /\ pc' = "request" /\ UNCHANGED result
      /\ UNCHANGED <<req, cached, pos, seg, attempts, obj, closed>>
      BY DEF AfterAttempt, writing, reading
<1>2. /\ First \in Nat /\ ChunkEndAt \in Nat /\ pos \in First..(ChunkEndAt + 1) /\ result = "open"
      /\ seg.end \in 0..ChunkEndAt /\ pos <= seg.end + 1 /\ Remaining = seg.end - pos + 1
      BY <1>1, Places DEF FetchInv, FetchShape, Remaining
<1>3. /\ pc' \in {"segment", "request", "done"} /\ (pc' = "request" => pos <= seg.end)
      /\ result' \in {"open", "failed"} /\ (pc' # "done" <=> result' = "open")
      /\ keystream' = keystream
      BY <1>1, <1>2
<1>4. FetchShape'
      BY <1>1, <1>3, SameRequest DEF FetchInv, FetchShape
<1>5. FetchOut'
  <2>1. CASE UNCHANGED <<batch, out>>
        BY <1>1, <1>3, <2>1, SameRequest DEF FetchInv, FetchOut
  <2>2. CASE out' = out \o batch /\ batch' = <<>>
    <3>1. PICK m \in Nat : First + m = pos /\ out \o batch = Stretch(Shift, First, m)
          BY <1>1, Flushed DEF FetchInv
    <3>2. batch' = Stretch(Shift, First + m, 0)
          BY <2>2 DEF Stretch
    <3>3. 0 < OutputBatch /\ First + m + 0 = pos /\ First + m + 0 <= pos
          BY <1>2, <3>1, FetchAssumption
    <3> QED BY <1>1, <1>3, <2>2, <3>1, <3>2, <3>3, SameRequest DEF FetchOut
  <2> QED BY <1>1, <2>1, <2>2
<1>6. PICK n \in Nat :
        /\ gather.bytes = Bytes(ObjectOffset(gather.start), n)
        /\ n # 0 => gather.start >= First /\ gather.start + n = pos
      BY <1>1 DEF FetchInv, FetchGather
<1>7. gather \in [start : Int, bytes : Seq(Int)]
      BY DEF FetchInv, FetchGather
<1>8. FetchGather'
  <2>1. gather' \in [start : Int, bytes : Seq(Int)] /\ gather'.bytes = <<>>
    <3>1. <<>> \in Seq(Int)
          OBVIOUS
    <3> QED BY <1>1, <1>7, <3>1 DEF Empty
  <2> QED BY <1>3, <2>1 DEF FetchGather
<1>9. FetchWrites'
  <2>1. gather.start \in Int /\ (n # 0 => gather.start >= First /\ gather.start + n <= ChunkEndAt + 1)
        BY <1>2, <1>6, <1>7
  <2>2. \A w \in Writes(gather) : w.at \in First..ChunkEndAt /\ w.byte = ObjectOffset(w.at)
        BY <1>6, <2>1, Gathered DEF FetchInv
  <2>3. \A w \in writes' : w.at \in First..ChunkEndAt /\ w.byte = ObjectOffset(w.at)
        BY <1>1, <2>2 DEF FetchInv, FetchWrites
  <2> QED BY <1>1, <2>3, SameRequest DEF FetchWrites, ObjectOffset
<1> QED BY <1>1, <1>4, <1>5, <1>8, <1>9, SameRequest DEF FetchInv

LEMMA FinishStep == ASSUME FetchInv, Finish PROVE FetchInv'
<1>1. /\ pc = "finish" /\ pc' = "done"
      /\ IF batch # <<>> /\ closed THEN result' = "failed" /\ UNCHANGED <<batch, out>>
         ELSE result' = "ok" /\ out' = out \o batch /\ batch' = <<>>
      /\ UNCHANGED <<req, cached, pos, seg, attempts, obj, keystream, gather, writes, closed>>
      BY DEF Finish, reading, caching
<1>2. /\ First \in Nat /\ ChunkEndAt = First + chunk.len - 1 /\ pos = ChunkEndAt + 1
      /\ chunk.len \in Nat
      BY <1>1, Places DEF FetchInv, FetchShape
<1>3. FetchShape'
      BY <1>1, SameRequest DEF FetchInv, FetchShape
<1>4. FetchOut'
  <2>1. CASE result' = "failed" /\ UNCHANGED <<batch, out>>
        BY <1>1, <2>1, SameRequest DEF FetchInv, FetchOut
  <2>2. CASE result' = "ok" /\ out' = out \o batch /\ batch' = <<>>
    <3>1. PICK m \in Nat : First + m = pos /\ out \o batch = Stretch(Shift, First, m)
          BY <1>1, Flushed DEF FetchInv
    <3>2. batch' = Stretch(Shift, First + m, 0)
          BY <2>2 DEF Stretch
    <3> DEFINE l == chunk.len
    <3>3. 0 < OutputBatch /\ First + m + 0 = pos /\ First + m + 0 <= pos
          BY <1>2, <3>1, FetchAssumption
    <3>4. l \in Nat /\ pos = (First + l - 1) + 1
          BY <1>2
    <3> HIDE DEF l
    <3>5. m = l
          BY <1>2, <3>1, <3>4
    <3> QED BY <1>1, <2>2, <3>1, <3>2, <3>3, <3>5, SameRequest DEF FetchOut, l
  <2> QED BY <1>1, <2>1, <2>2
<1>5. FetchGather'
      BY <1>1 DEF FetchInv, FetchGather
<1>6. FetchWrites'
      BY <1>1, SameRequest DEF FetchInv, FetchWrites, ObjectOffset
<1> QED BY <1>1, <1>3, <1>4, <1>5, <1>6, SameRequest DEF FetchInv

LEMMA FetchStep == FetchInv /\ [Next]_vars => FetchInv'
<1> SUFFICES ASSUME FetchInv, [Next]_vars PROVE FetchInv'
    OBVIOUS
<1>0. attempts \in 0..Attempts /\ closed \in BOOLEAN /\ Attempts \in Nat
      BY FetchAssumption DEF FetchInv, FetchShape
<1>1. CASE NextSegment
      BY <1>1, NextSegmentStep
<1>2. CASE CacheRead
      BY <1>2, CacheReadStep
<1>3. CASE CacheReadFails
      BY <1>0, <1>3, StillStep DEF CacheReadFails, reading, writing, caching
<1>4. CASE Request
      BY <1>4, RequestStep
<1>5. CASE RequestFails
  <2>1. attempts' \in 0..Attempts
        BY <1>0, <1>5 DEF RequestFails, MayTry, CountAttempt
  <2> QED BY <1>0, <1>5, <2>1, StillStep DEF RequestFails, writing, caching
<1>6. CASE \E n \in 1..(chunk.len + 1) : BodyItem(n)
  <2>1. PICK n \in 1..(chunk.len + 1) : BodyItem(n)
        BY <1>6
  <2>2. n \in Nat \ {0}
        BY <2>1, Places DEF FetchInv
  <2> QED BY <2>1, <2>2, BodyItemStep
<1>7. CASE BodyEnds
      BY <1>0, <1>7, StillStep DEF BodyEnds, reading, writing, caching
<1>8. CASE AfterAttempt
      BY <1>8, AfterAttemptStep
<1>9. CASE GiveUp
      BY <1>0, <1>9, StillStep DEF GiveUp, reading, writing, caching
<1>10. CASE Finish
      BY <1>10, FinishStep
<1>11. CASE Close
      BY <1>0, <1>11, StillStep DEF Close, reading, writing, caching
<1>12. CASE UNCHANGED vars
      BY <1>0, <1>12, StillStep DEF vars, reading, writing, caching
<1> QED BY <1>1, <1>2, <1>3, <1>4, <1>5, <1>6, <1>7, <1>8, <1>9, <1>10, <1>11, <1>12
        DEF Next, Fetch, Done
-----------------------------------------------------------------------------
(***************************************************************************)
(* What the invariant is for.                                              *)
(***************************************************************************)
LEMMA RightBytes ==
  ASSUME ReqOK, NEW m \in First..ChunkEndAt
  PROVE  m \in Int /\ RightByte(m) = [byte |-> Shift + m, key |-> m]
<1>1. /\ First \in Nat /\ ChunkEndAt \in Nat /\ m \in Int /\ ObjectOffset(m) = Shift + m
      BY Places
<1>2. m \in chunk.merged_start .. chunk.merged_start + chunk.len - 1
      BY DEF First, ChunkEndAt
<1>3. Home(req.sizes, m) = [vol |-> chunk.vol, off |-> chunk.vol_off + m - chunk.merged_start]
      BY <1>2 DEF ReqOK, PlanIsExact, chunk
<1>4. RightByte(m).byte = req.header + (chunk.vol_off + m - chunk.merged_start)
      BY <1>3 DEF RightByte
<1> DEFINE h == req.header
           v == chunk.vol_off
           a == chunk.merged_start
<1>5. h \in Nat /\ v \in Nat /\ a \in Nat /\ ObjectOffset(m) = h + v + (m - a)
      BY DEF ReqOK, Pieces, ObjectOffset
<1>6. RightByte(m).byte = h + (v + m - a)
      BY <1>4
<1> HIDE DEF h, v, a
<1>7. RightByte(m).byte = Shift + m
      BY <1>1, <1>5, <1>6
<1> QED BY <1>1, <1>7 DEF RightByte

\* Where the fetch is tells what it has sent and what it has cached.
LEMMA FetchIsExact == FetchInv => BytesExact
<1> SUFFICES ASSUME FetchInv PROVE BytesExact
    OBVIOUS
<1>1. /\ First \in Nat /\ ChunkEndAt \in Nat /\ Shift \in Int /\ pos \in First..(ChunkEndAt + 1)
      BY Places DEF FetchInv, FetchShape
<1>2. PICK m \in Nat, n \in Nat :
        /\ out = Stretch(Shift, First, m) /\ First + m + n <= pos
        /\ result = "ok" => m = chunk.len
      BY DEF FetchInv, FetchOut
<1>3. DOMAIN out = 1..m /\ Len(out) = m
      BY <1>1, <1>2, StretchIs
<1>4. ASSUME NEW k \in DOMAIN out PROVE out[k] = RightByte(chunk.merged_start + k - 1)
  <2>1. k \in 1..m
        BY <1>3
  <2>2. out[k] = [byte |-> Shift + (First + k - 1), key |-> First + k - 1]
    <3>1. Stretch(Shift, First, m)[k] = [byte |-> Shift + (First + k - 1), key |-> First + k - 1]
      <4>1. \A j \in 1..m : Stretch(Shift, First, m)[j]
                              = [byte |-> Shift + (First + j - 1), key |-> First + j - 1]
            BY <1>1, StretchIs
      <4> QED BY <2>1, <4>1, Zenon
    <3> QED BY <1>2, <3>1
  <2>3. First + k - 1 \in First..ChunkEndAt
        BY <1>1, <1>2, <2>1
  <2>4. RightByte(First + k - 1) = [byte |-> Shift + (First + k - 1), key |-> First + k - 1]
        BY <2>3, RightBytes DEF FetchInv
  <2> QED BY <2>2, <2>4 DEF First
<1>5. DeliveredExactly
      BY <1>2, <1>3, <1>4 DEF DeliveredExactly
<1>6. ASSUME NEW w \in writes
      PROVE  /\ w.at \in chunk.merged_start..ChunkEndAt
             /\ w.byte = req.header + Home(req.sizes, w.at).off
  <2>1. w.at \in First..ChunkEndAt /\ w.byte = ObjectOffset(w.at)
        BY DEF FetchInv, FetchWrites
  <2>2. w.at \in Int /\ RightByte(w.at) = [byte |-> Shift + w.at, key |-> w.at]
        BY <2>1, RightBytes DEF FetchInv
  <2>3. ObjectOffset(w.at) = Shift + w.at
        BY <2>2, Places DEF FetchInv
  <2>4. RightByte(w.at).byte = req.header + Home(req.sizes, w.at).off
        BY DEF RightByte
  <2> QED BY <2>1, <2>2, <2>3, <2>4 DEF First
<1> QED BY <1>5, <1>6 DEF BytesExact, CachedExactly

LEMMA FetchTyped == FetchInv => TypeOK /\ PlanIsExact
<1> SUFFICES ASSUME FetchInv PROVE TypeOK /\ PlanIsExact
    OBVIOUS
<1>1. /\ First \in Nat /\ ChunkEndAt = First + chunk.len - 1 /\ Shift \in Int
      /\ chunk.len \in Nat \ {0} /\ pos \in First..(ChunkEndAt + 1) /\ keystream = pos
      BY Places DEF FetchInv, FetchShape
<1>2. PICK m \in Nat, n \in Nat :
        /\ out = Stretch(Shift, First, m) /\ batch = Stretch(Shift, First + m, n)
        /\ n < OutputBatch /\ First + m + n <= pos
      BY DEF FetchInv, FetchOut
<1>3. Len(out) = m /\ Len(batch) = n
  <2>1. First + m \in Int
        BY <1>1
  <2> QED BY <1>1, <1>2, <2>1, StretchIs
<1>4. m <= chunk.len /\ keystream \in Nat
  <2> DEFINE l == chunk.len
  <2>1. l \in Nat /\ ChunkEndAt = First + l - 1
        BY <1>1
  <2> HIDE DEF l
  <2>2. m <= l /\ keystream \in Nat
        BY <1>1, <1>2, <2>1
  <2> QED BY <2>2 DEF l
<1>5. TypeOK
      BY <1>2, <1>3, <1>4 DEF TypeOK, FetchInv, FetchShape, ReqOK, First
<1> QED BY <1>5 DEF FetchInv, ReqOK

\* A byte that leaves the fetch, for the player or for the cache, is the byte that
\* belongs at its offset: for every layout, Range header, split and disguise header,
\* every mixture of cached blocks, short, long and broken answers and retries
\* (fetch_chunk, engine.rs), and a fetch that ends well has sent its whole chunk.
THEOREM FetchedExactly == Spec => []BytesExact
BY FetchInitially, FetchStep, FetchIsExact, PTL DEF Spec

-----------------------------------------------------------------------------
(***************************************************************************)
(* Copies: that one loses no file and touches nothing it must leave alone, *)
(* for any number of files and volumes between any two data sources.       *)
(***************************************************************************)
Names == DOMAIN dest
Free == {"none", "new"}

\* Between the choice of the way and the next file there is a file in hand.
CopyInHand == {"plan", "remove", "dest", "volumes", "clean", "open", "replace", "upload",
           "fcheck", "fcopy"}

Place == [kind : {"none", "old", "dir", "new"}, vols : Seq({"part", "whole"})]

FileOK(f) ==
  /\ f.volumes \in Nat
  /\ f.foreign \/ ~C!Managed(task.from) => f.volumes = 1

Shape ==
  /\ task.files \in Seq(C!FilesOf(task.from))
  /\ dest \in [1..Len(task.files) -> Place]
  /\ \A n \in DOMAIN dest : FileOK(task.files[n])
  /\ \A n \in DOMAIN dest : dest[n].kind # "new" => dest[n].vols = <<>>
  /\ nth \in 1 .. Len(task.files) + 1
  /\ copyPc \in CopyInHand \cup {"start", "file", "done"}
  /\ copyPc \in CopyInHand => nth <= Len(task.files)
  /\ volume \in Nat

\* The volumes carried over so far are there, or the last of them under one name.
Landed == IF C!Indexed(task.to) \/ volume = 1 THEN volume - 1 ELSE 1
FirstVolumes ==
  /\ volume \in 1 .. C!Zipped + 1
  /\ dest[nth].vols = [v \in 1 .. Landed |-> "whole"]
  /\ C!Managed(task.to) \/ volume > 1 => dest[nth].kind = "new"

\* What is known of the file in hand: whether it is foreign, that none of its volumes
\* is missing, and that nothing is left at the destination once it was cleared.
Known ==
  /\ copyPc \in {"fcheck", "fcopy"} => C!File.foreign
  /\ copyPc = "plan" => C!Raw
  /\ copyPc \in {"remove", "dest", "volumes"} => ~C!File.missing /\ C!Raw
  /\ copyPc \in {"plan", "remove", "open", "replace"} => ~C!File.foreign
  /\ copyPc \in {"dest", "upload", "fcopy"} => dest[nth] = C!Nothing
  /\ copyPc \in {"volumes", "clean"} => dest[nth].kind \in Free
  /\ copyPc = "volumes" => FirstVolumes

\* The files before the one in hand have come over, if they fit; the source is deleted and success
\* is reported behind the last of them.
CopyBehind ==
  /\ \A n \in 1 .. nth - 1 : C!Unfit(n) \/ C!Whole(n)
  /\ copyResult = "ok" \/ gone => copyPc = "done" /\ nth = Len(task.files) + 1

CopyInv == Shape /\ Known /\ CopyBehind

-----------------------------------------------------------------------------
\* A sequence as a function on its indices.
LEMMA Indices ==
  ASSUME NEW S, NEW n \in Nat, NEW f \in [1..n -> S]
  PROVE  f \in Seq(S) /\ Len(f) = n
OBVIOUS

LEMMA Below == \A l \in Nat, m \in Int : m <= l + 1 => \A n \in 1 .. m - 1 : n \in 1..l
OBVIOUS

LEMMA CopyInitially == MaxFiles \in Nat /\ MaxVolumes \in Nat /\ C!Init => CopyInv
<1> SUFFICES ASSUME MaxFiles \in Nat, MaxVolumes \in Nat, C!Init PROVE CopyInv
    OBVIOUS
<1>1. PICK from, to \in Configs, dir, overwrite, move \in BOOLEAN :
        \E n \in IF dir THEN 0..MaxFiles ELSE {1} : \E files \in [1..n -> C!FilesOf(from)] :
          task = [from |-> from, to |-> to, dir |-> dir, move |-> move,
                  overwrite |-> overwrite, files |-> files]
      BY DEF C!Init
<1>2. PICK n \in Nat : \E files \in [1..n -> C!FilesOf(from)] :
        task = [from |-> from, to |-> to, dir |-> dir, move |-> move,
                overwrite |-> overwrite, files |-> files]
      BY <1>1
<1>. PICK files \in [1..n -> C!FilesOf(from)] :
        task = [from |-> from, to |-> to, dir |-> dir, move |-> move,
                overwrite |-> overwrite, files |-> files]
      BY <1>2
<1>3. /\ files \in Seq(C!FilesOf(from)) /\ Len(files) = n
      /\ task.files = files /\ task.from = from
      BY <1>2, Indices
<1>4. PICK there \in [1..n -> {"none", "old", "dir"}] :
        dest = [m \in 1..n |-> [kind |-> there[m], vols |-> <<>>]]
      BY <1>3 DEF C!Init
<1>5. DOMAIN dest = 1..n /\ \A m \in 1..n : dest[m] = [kind |-> there[m], vols |-> <<>>]
      BY <1>4
<1>6. \A m \in 1..n : FileOK(files[m])
  <2> TAKE m \in 1..n
  <2>1. files[m] \in C!FilesOf(from)
        BY <1>2
  <2> QED BY <1>3, <2>1 DEF FileOK, C!FilesOf
<1>7. Shape
      BY <1>3, <1>5, <1>6 DEF Shape, C!Init, CopyInHand, Place
<1> QED BY <1>7 DEF CopyInv, Known, CopyBehind, C!Init

\* A step that leaves the files alone, or changes the one in hand.
LEMMA OtherFiles ==
  ASSUME CopyInv, copyPc \in CopyInHand, task' = task, nth' \in {nth, nth + 1}, NEW x,
         dest' = dest \/ dest' = [dest EXCEPT ![nth] = x]
  PROVE  /\ nth \in DOMAIN dest /\ DOMAIN dest' = DOMAIN dest
         /\ \A n \in DOMAIN dest \ {nth} : dest'[n] = dest[n]
         /\ dest' # dest => dest'[nth] = x
         /\ \A n : C!Unfit(n)' <=> C!Unfit(n)
BY DEF CopyInv, Shape, C!Unfit, C!Raw, C!Managed, C!Indexed

\* What a step at the file in hand has to show.
LEMMA FileStep ==
  ASSUME CopyInv, copyPc \in CopyInHand, task' = task, gone' = gone,
         NEW x, dest' = [dest EXCEPT ![nth] = x],
         x \in Place, x.kind # "new" => x.vols = <<>>,
         copyPc' \in CopyInHand \cup {"file", "done"}, volume' \in Nat,
         \/ copyPc' # "file" /\ nth' = nth /\ copyResult' # "ok"
         \/ /\ copyPc' = "file" /\ nth' = nth + 1 /\ copyResult' = copyResult
            /\ ~C!Unfit(nth) => x.kind = "new" /\ x.vols = [v \in 1..C!File.volumes |-> "whole"]
  PROVE  Shape' /\ CopyBehind'
<1>1. nth \in DOMAIN dest /\ nth <= Len(task.files) /\ DOMAIN dest' = DOMAIN dest /\ dest'[nth] = x
      BY DEF CopyInv, Shape
<1>2. \A n \in DOMAIN dest \ {nth} : dest'[n] = dest[n]
      BY DEF CopyInv, Shape
<1>3. dest' \in [1..Len(task.files) -> Place] /\ \A n \in DOMAIN dest : (dest'[n].kind # "new" => dest'[n].vols = <<>>)
      BY <1>1, <1>2 DEF CopyInv, Shape
<1>4. nth' \in 1 .. Len(task.files) + 1 /\ (copyPc' \in CopyInHand => nth' <= Len(task.files))
      BY <1>1 DEF CopyInv, Shape, CopyInHand
<1>5. Shape'
      BY <1>1, <1>3, <1>4 DEF CopyInv, Shape, FileOK, C!Managed, C!FilesOf
<1>6. ASSUME NEW n, n \in 1 .. nth' - 1, ~C!Unfit(n)' PROVE C!Whole(n)'
  <2>1. ~C!Unfit(n) /\ n \in DOMAIN dest
    <3>1. ~C!Unfit(n)
          BY <1>6 DEF C!Unfit, C!Raw, C!Managed, C!Indexed
    <3>2. DOMAIN dest = 1..Len(task.files) /\ Len(task.files) \in Nat
          BY DEF CopyInv, Shape
    <3>3. PICK l \in Nat, next \in Int : l = Len(task.files) /\ next = nth' /\ next <= l + 1
          BY <1>4, <3>2
    <3>4. n \in 1 .. next - 1
          BY <1>6, <3>3
    <3>5. n \in 1..l
          BY <3>3, <3>4, Below, Zenon
    <3> QED BY <3>1, <3>2, <3>3, <3>5
  <2>2. CASE n = nth
    <3>1. nth' = nth + 1
          BY <1>6, <2>2 DEF CopyInv, Shape
    <3>2. x.kind = "new" /\ x.vols = [v \in 1..task.files[nth].volumes |-> "whole"]
          BY <2>1, <2>2, <3>1 DEF C!File, CopyInv, Shape
    <3> QED BY <1>1, <2>2, <3>2 DEF C!Whole
  <2>3. CASE n # nth
    <3>1. n \in 1 .. nth - 1
          BY <1>6, <2>3 DEF CopyInv, Shape
    <3> QED BY <1>2, <2>1, <2>3, <3>1 DEF C!Whole, CopyInv, CopyBehind
  <2> QED BY <2>2, <2>3
<1>7. ~gone /\ copyResult # "ok"
      BY DEF CopyInv, CopyBehind, CopyInHand
<1> QED BY <1>5, <1>6, <1>7 DEF CopyBehind

\* So does a step that leaves the destinations as they are.
LEMMA CopyStillStep ==
  ASSUME CopyInv, copyPc \in CopyInHand, UNCHANGED <<task, dest, gone, nth, volume>>,
         copyPc' \in CopyInHand \cup {"done"}, copyResult' # "ok"
  PROVE  Shape' /\ CopyBehind'
<1>1. ~gone
      BY DEF CopyInv, CopyBehind, CopyInHand
<1>2. Shape'
      BY DEF CopyInv, Shape, FileOK, C!Managed, C!FilesOf, CopyInHand
<1> QED BY <1>1, <1>2 DEF CopyInv, CopyBehind, C!Whole, C!Unfit, C!Raw, C!Managed, C!Indexed

LEMMA HandOpen == ASSUME CopyInv, copyPc \in CopyInHand
                  PROVE  copyResult # "ok" /\ ~gone /\ nth \in DOMAIN dest /\ nth \in 1..Len(task.files) /\ volume \in Nat
BY DEF CopyInv, CopyBehind, Shape, CopyInHand

\* Whatever a destination was, it is free once it has been cleared.
LEMMA RemovesStep ==
  ASSUME CopyInv, copyPc \in CopyInHand, NEW p \in {"dest", "upload", "fcopy"}, NEW forbidden,
         C!Removes(p, forbidden), p = "dest" => ~C!File.missing /\ C!Raw, p = "fcopy" => C!File.foreign
  PROVE  CopyInv'
<1>1. copyResult # "ok" /\ ~gone /\ nth \in DOMAIN dest /\ nth \in 1..Len(task.files) /\ volume \in Nat
      BY HandOpen
<1>2. UNCHANGED <<task, gone, nth, volume>>
      BY DEF C!Removes, C!Refuse, C!Stop, C!To
<1>3. copyPc' \in {p, "done"} /\ copyResult' # "ok" /\ copyPc' \in CopyInHand \cup {"done"}
      BY <1>1 DEF C!Removes, C!Refuse, C!Stop, C!To, CopyInHand
<1>4. dest' = dest \/ dest' = [dest EXCEPT ![nth] = C!Nothing]
      BY DEF C!Removes, C!Refuse, C!Stop, C!To
<1>5. Shape' /\ CopyBehind'
  <2>1. CASE dest' = dest
        BY <1>2, <1>3, <2>1, CopyStillStep
  <2>2. CASE dest' = [dest EXCEPT ![nth] = C!Nothing]
    <3>1. C!Nothing \in Place /\ C!Nothing.vols = <<>>
          BY DEF C!Nothing, Place
    <3>2. copyPc' # "file"
          BY <1>3
    <3> HIDE DEF C!Nothing
    <3> QED BY <1>1, <1>2, <1>3, <2>2, <3>1, <3>2, FileStep DEF CopyInHand
  <2> QED BY <1>4, <2>1, <2>2
<1>6. copyPc' = p => dest'[nth] = C!Nothing
  <2>1. dest[nth].kind = "none" => dest[nth] = C!Nothing
        BY <1>1 DEF CopyInv, Shape, C!Nothing, Place
  <2>2. copyPc' = p => (dest' = dest /\ dest[nth].kind = "none") \/ dest' = [dest EXCEPT ![nth] = C!Nothing]
        BY DEF C!Removes, C!Refuse, C!Stop, C!To
  <2> QED BY <1>1, <2>1, <2>2
<1>7. Known'
      BY <1>2, <1>3, <1>6 DEF Known, C!File, C!Raw
<1> QED BY <1>5, <1>7 DEF CopyInv

\* A file is refused, or waits for the next step of its way, with nothing changed.
LEMMA WaitStep ==
  ASSUME CopyInv, copyPc \in CopyInHand, UNCHANGED <<task, dest, gone, nth, volume>>, copyResult' # "ok",
         NEW p \in {"remove", "replace", "done"}, copyPc' = p,
         p # "done" => ~C!File.foreign /\ ~C!File.missing /\ (p = "remove" => C!Raw)
  PROVE  CopyInv'
<1>1. Shape' /\ CopyBehind'
      BY CopyStillStep DEF CopyInHand
<1>2. Known'
      BY DEF Known, C!File, C!Raw
<1> QED BY <1>1, <1>2 DEF CopyInv

\* The volumes of a plan, and the place they go to.
LEMMA Volumes ==
  ASSUME CopyInv, copyPc = "volumes"
  PROVE  /\ dest[nth] \in Place /\ volume \in Nat \ {0} /\ nth \in DOMAIN dest /\ C!File.volumes \in Nat
         /\ ~C!File.missing /\ C!Present(C!File) = C!File.volumes
         /\ ~C!Managed(task.from) => C!File.volumes = 1
         /\ C!Zipped \in Nat /\ (C!Managed(task.to) => C!Zipped = C!File.volumes)
         /\ C!File.volumes = 1 => C!Zipped = 1
<1>1. nth \in DOMAIN dest /\ ~C!File.missing /\ volume \in Nat /\ dest[nth] \in Place
      BY HandOpen DEF CopyInv, Shape, Known, CopyInHand
<1>2. C!File.volumes \in Nat /\ (~C!Managed(task.from) => C!File.volumes = 1)
      BY <1>1 DEF CopyInv, Shape, FileOK, C!File
<1>3. C!Present(C!File) = C!File.volumes
      BY <1>1 DEF C!Present
<1>4. C!Zipped \in Nat /\ (C!Managed(task.to) => C!Zipped = C!File.volumes) /\ (C!File.volumes = 1 => C!Zipped = 1)
      BY <1>2, <1>3 DEF C!Zipped
<1>5. volume \in 1 .. C!Zipped + 1
      BY DEF CopyInv, Known, FirstVolumes
<1> QED BY <1>1, <1>2, <1>3, <1>4, <1>5

LEMMA InPlace ==
  ASSUME CopyInv, copyPc \in CopyInHand
  PROVE  /\ nth \in DOMAIN dest /\ dest[nth] \in Place /\ C!Nothing \in Place
         /\ C!File.volumes \in Nat /\ (C!File.foreign => C!File.volumes = 1)
         /\ \A w \in {"part", "whole"} : C!Put(w) \in Place
         /\ [kind |-> "new", vols |-> <<>>] \in Place
         /\ [kind |-> "new", vols |-> [v \in 1..C!File.volumes |-> "whole"]] \in Place
<1>1. nth \in DOMAIN dest /\ dest[nth] \in Place
      BY HandOpen DEF CopyInv, Shape
<1>2. C!File.volumes \in Nat /\ (C!File.foreign => C!File.volumes = 1)
      BY <1>1 DEF CopyInv, Shape, FileOK, C!File
<1>3. [v \in 1..C!File.volumes |-> "whole"] \in Seq({"part", "whole"})
      BY <1>2, Indices
<1>4. ASSUME NEW w \in {"part", "whole"} PROVE C!Put(w) \in Place
  <2>1. Append(dest[nth].vols, w) \in Seq({"part", "whole"}) /\ <<w>> \in Seq({"part", "whole"})
        BY <1>1 DEF Place
  <2> QED BY <2>1 DEF C!Put, Place
<1> QED BY <1>1, <1>2, <1>3, <1>4 DEF Place, C!Nothing

LEMMA VolumeStep ==
  ASSUME CopyInv, C!CopyVolume
  PROVE  CopyInv'
<1> DEFINE grown(x) == C!Put(x)
<1>0. copyPc = "volumes" /\ volume <= C!Zipped /\ UNCHANGED <<task, gone, nth, copyResult>>
      BY DEF C!CopyVolume
<1>1. dest[nth] \in Place /\ volume \in Nat \ {0} /\ nth \in DOMAIN dest /\ C!Zipped \in Nat
      BY <1>0, Volumes
<1>2. \A x \in {"part", "whole"} : grown(x) \in Place /\ grown(x).kind = "new"
      BY <1>0, InPlace DEF CopyInHand, C!Put
<1>3. copyResult # "ok"
      BY <1>0, HandOpen DEF CopyInHand
<1>4. CASE dest' = [dest EXCEPT ![nth] = grown("whole")] /\ volume' = volume + 1 /\ copyPc' = "volumes"
  <2>1. Shape' /\ CopyBehind'
    <3> DEFINE x == grown("whole")
    <3>1. x \in Place /\ x.kind = "new" /\ dest' = [dest EXCEPT ![nth] = x]
          BY <1>2, <1>4
    <3>2. copyPc' # "file" /\ copyPc' \in CopyInHand /\ volume' \in Nat
          BY <1>1, <1>4 DEF CopyInHand
    <3> HIDE DEF x
    <3> QED BY <1>0, <1>3, <3>1, <3>2, FileStep DEF CopyInHand
  <2>2. /\ dest'[nth].kind = "new"
        /\ dest'[nth].vols = IF C!Indexed(task.to) THEN Append(dest[nth].vols, "whole") ELSE <<"whole">>
        BY <1>1, <1>4 DEF C!Put
  <2>3. dest[nth].vols = [v \in 1 .. Landed |-> "whole"]
        BY <1>0 DEF CopyInv, Known, FirstVolumes
  <2>4. volume' - 1 = volume /\ Landed' = (IF C!Indexed(task.to) THEN volume ELSE 1)
        BY <1>0, <1>1, <1>4 DEF Landed, C!Indexed
  <2>10. dest'[nth].vols = [v \in 1 .. Landed' |-> "whole"]
    <3>1. CASE C!Indexed(task.to)
      <4>1. Landed = volume - 1 /\ Landed' = volume
            BY <1>1, <2>4, <3>1 DEF Landed
      <4>2. Append([v \in 1 .. volume - 1 |-> "whole"], "whole") = [v \in 1 .. volume |-> "whole"]
            BY <1>1
      <4> QED BY <2>2, <2>3, <3>1, <4>1, <4>2
    <3>2. CASE ~C!Indexed(task.to)
      <4>1. <<"whole">> = [v \in 1..1 |-> "whole"]
            OBVIOUS
      <4> QED BY <2>2, <2>4, <3>2, <4>1
    <3> QED BY <3>1, <3>2
  <2>5. C!Zipped' = C!Zipped /\ C!File' = C!File /\ C!Raw' = C!Raw
        BY <1>0 DEF C!Zipped, C!File, C!Raw, C!Managed, C!Present
  <2>6. FirstVolumes'
    <3>1. volume' \in 1 .. C!Zipped + 1 /\ volume' - 1 = volume
          BY <1>0, <1>1, <1>4
    <3>2. dest'[nth'].vols = [v \in 1 .. Landed' |-> "whole"]
          BY <1>0, <2>10
    <3>3. dest'[nth'].kind = "new"
          BY <1>0, <2>2
    <3> QED BY <2>5, <3>1, <3>2, <3>3 DEF FirstVolumes
  <2>7. Known'
        BY <1>0, <1>4, <2>2, <2>5, <2>6 DEF CopyInv, Known, Free
  <2> QED BY <2>1, <2>7 DEF CopyInv
<1>5. CASE /\ dest' \in {dest} \cup {[dest EXCEPT ![nth] = grown(x)] : x \in {"part", "whole"}}
           /\ copyPc' = "clean" /\ volume' = volume
  <2>1. dest' = dest \/ \E x \in {"part", "whole"} : dest' = [dest EXCEPT ![nth] = grown(x)]
        BY <1>5
  <2>2. CASE dest' = dest
    <3>1. Shape' /\ CopyBehind'
          BY <1>0, <1>3, <1>5, <2>2, CopyStillStep DEF CopyInHand
    <3>2. Known'
          BY <1>0, <1>5, <2>2 DEF CopyInv, Known
    <3> QED BY <3>1, <3>2 DEF CopyInv
  <2>3. ASSUME NEW x \in {"part", "whole"}, dest' = [dest EXCEPT ![nth] = grown(x)]
        PROVE  CopyInv'
    <3> DEFINE y == grown(x)
    <3>1. y \in Place /\ y.kind = "new" /\ dest' = [dest EXCEPT ![nth] = y]
          BY <1>2, <2>3
    <3>2. copyPc' # "file" /\ copyPc' \in CopyInHand /\ volume' \in Nat
          BY <1>1, <1>5 DEF CopyInHand
    <3> HIDE DEF y
    <3>3. Shape' /\ CopyBehind'
          BY <1>0, <1>3, <3>1, <3>2, FileStep DEF CopyInHand
    <3>4. Known'
          BY <1>0, <1>1, <1>5, <3>1 DEF Known, Free
    <3> QED BY <3>3, <3>4 DEF CopyInv
  <2> QED BY <2>1, <2>2, <2>3
<1> QED BY <1>4, <1>5 DEF C!CopyVolume, C!Put

\* The way to the next file: the one in hand is whole, or it is unfit.
LEMMA NextStep ==
  ASSUME CopyInv, copyPc \in CopyInHand, C!NextFile, task' = task, gone' = gone,
         NEW x \in Place, dest' = [dest EXCEPT ![nth] = x], x.kind # "new" => x.vols = <<>>,
         ~C!Unfit(nth) => x.kind = "new" /\ x.vols = [v \in 1..C!File.volumes |-> "whole"]
  PROVE  CopyInv'
<1>1. copyPc' = "file" /\ nth' = nth + 1 /\ volume' = volume /\ copyResult' = copyResult
      BY DEF C!NextFile
<1>2. volume' \in Nat
      BY <1>1, HandOpen
<1>3. Shape' /\ CopyBehind'
      BY <1>1, <1>2, FileStep
<1>4. Known'
      BY <1>1 DEF Known
<1> QED BY <1>3, <1>4 DEF CopyInv

\* The end with an error, whatever became of the destination in hand.
LEMMA EndStep ==
  ASSUME CopyInv, copyPc \in CopyInHand, C!Stop, task' = task, gone' = gone,
         NEW x \in Place, x.kind # "new" => x.vols = <<>>,
         dest' = dest \/ dest' = [dest EXCEPT ![nth] = x]
  PROVE  CopyInv'
<1>1. copyPc' = "done" /\ nth' = nth /\ volume' = volume /\ copyResult' # "ok"
      BY DEF C!Stop
<1>2. volume' \in Nat
      BY <1>1, HandOpen
<1>3. Shape' /\ CopyBehind'
  <2>1. CASE dest' = dest
        BY <1>1, <2>1, CopyStillStep
  <2>2. CASE dest' = [dest EXCEPT ![nth] = x]
        BY <1>1, <1>2, <2>2, FileStep
  <2> QED BY <2>1, <2>2
<1>4. Known'
      BY <1>1 DEF Known
<1> QED BY <1>3, <1>4 DEF CopyInv

LEMMA PlanDestStep ==
  ASSUME CopyInv, C!PlanDest
  PROVE  CopyInv'
<1> DEFINE made == [kind |-> "new", vols |-> <<>>]
<1>0. copyPc = "dest" /\ copyPc \in CopyInHand /\ UNCHANGED <<task, entries, gone>>
      BY DEF C!PlanDest, CopyInHand
<1>1. made \in Place /\ made.vols = <<>> /\ nth \in DOMAIN dest /\ copyResult # "ok" /\ dest[nth] = C!Nothing
      BY <1>0, InPlace, HandOpen DEF CopyInv, Known
<1>2. CASE C!Stop /\ (dest' = dest \/ dest' = [dest EXCEPT ![nth] = made])
  <2> HIDE DEF made
  <2> QED BY <1>0, <1>1, <1>2, EndStep
<1>3. CASE /\ ~(C!Managed(task.to) /\ ~C!Managed(task.from))
           /\ dest' = IF C!Managed(task.to) THEN [dest EXCEPT ![nth] = made] ELSE dest
           /\ copyPc' = "volumes" /\ volume' = 1 /\ UNCHANGED <<nth, copyResult>>
  <2>1. copyPc' \in CopyInHand /\ copyPc' # "file" /\ volume' \in Nat
        BY <1>3 DEF CopyInHand
  <2>2. dest' = [dest EXCEPT ![nth] = IF C!Managed(task.to) THEN made ELSE C!Nothing]
        BY <1>1, <1>3 DEF CopyInv, Shape
  <2>3. Shape' /\ CopyBehind'
    <3> DEFINE x == IF C!Managed(task.to) THEN made ELSE C!Nothing
    <3>1. x \in Place /\ x.vols = <<>>
          BY <1>0, <1>1, InPlace DEF C!Nothing
    <3>2. dest' = [dest EXCEPT ![nth] = x]
          BY <2>2
    <3> HIDE DEF x
    <3> QED BY <1>0, <1>1, <1>3, <2>1, <3>1, <3>2, FileStep
  <2>4. dest'[nth].vols = <<>> /\ dest'[nth].kind \in Free /\ (C!Managed(task.to) => dest'[nth].kind = "new")
        BY <1>1, <2>2 DEF C!Nothing, Free
  <2>5. C!Zipped' = C!Zipped /\ C!File' = C!File /\ C!Raw' = C!Raw /\ task' = task /\ nth' = nth
        BY <1>0, <1>3 DEF C!Zipped, C!File, C!Raw, C!Managed, C!Present
  <2>6. ~C!File.missing /\ C!Raw
        BY <1>0 DEF CopyInv, Known
  <2>7. C!Zipped \in Nat
        BY <1>0, <2>6, InPlace DEF C!Zipped, C!Present
  <2>8. FirstVolumes'
        BY <1>3, <2>4, <2>5, <2>7 DEF FirstVolumes, Landed, C!Managed, C!Indexed
  <2>9. Known'
        BY <1>3, <2>4, <2>5, <2>6, <2>8 DEF Known
  <2> QED BY <2>3, <2>9 DEF CopyInv
<1> QED BY <1>2, <1>3 DEF C!PlanDest, C!Container, C!Stop

LEMMA CopyStep == CopyInv /\ [C!Next]_(C!vars) => CopyInv'
<1> SUFFICES ASSUME CopyInv, [C!Next]_(C!vars) PROVE CopyInv'
    OBVIOUS
<1>1. CASE C!Begin
  <2>1. /\ copyPc = "start" /\ UNCHANGED <<task, dest, gone, nth, volume>> /\ copyPc' \in {"file", "done"}
        /\ (copyResult' = copyResult \/ copyResult' = "error")
        BY <1>1 DEF C!Begin, C!To, C!Refuse, C!Stop
  <2>2. copyResult # "ok" /\ ~gone
        BY <2>1 DEF CopyInv, CopyBehind
  <2>3. Shape'
        BY <2>1 DEF CopyInv, Shape, FileOK, C!Managed, C!FilesOf, CopyInHand
  <2>4. Known' /\ CopyBehind'
        BY <2>1, <2>2 DEF CopyInv, Known, CopyBehind, C!Whole, C!Unfit, C!Raw, C!Managed, C!Indexed
  <2> QED BY <2>3, <2>4 DEF CopyInv
<1>2. CASE C!Choose
  <2>1. /\ copyPc = "file" /\ nth <= Len(task.files) /\ UNCHANGED <<task, dest, gone, nth, volume, copyResult>>
        /\ copyPc' = IF C!File.foreign THEN "fcheck" ELSE IF C!Raw THEN "plan" ELSE "open"
        BY <1>2 DEF C!Choose, C!To
  <2>2. copyResult # "ok" /\ ~gone
        BY <2>1 DEF CopyInv, CopyBehind
  <2>3. Shape'
        BY <2>1 DEF CopyInv, Shape, FileOK, C!Managed, C!FilesOf, CopyInHand
  <2>4. Known'
        BY <2>1 DEF Known, C!File, C!Raw
  <2>5. CopyBehind'
        BY <2>1, <2>2 DEF CopyInv, CopyBehind, C!Whole, C!Unfit, C!Raw, C!Managed, C!Indexed
  <2> QED BY <2>3, <2>4, <2>5 DEF CopyInv
<1>3. CASE C!PlanSource
  <2>1. ~C!File.foreign /\ copyResult # "ok" /\ copyPc \in CopyInHand
        BY <1>3, HandOpen DEF C!PlanSource, CopyInv, Known, CopyInHand
  <2>2. /\ copyPc' \in {"remove", "done"} /\ UNCHANGED <<task, dest, gone, nth, volume>> /\ copyResult' # "ok"
        /\ (copyPc' = "remove" => ~C!File.missing /\ C!Raw)
        BY <1>3, <2>1 DEF C!PlanSource, C!To, C!Refuse, C!Stop, CopyInv, Known
  <2> QED BY <2>1, <2>2, WaitStep
<1>4. CASE C!RemoveExisting
  <2>1. ~C!File.missing /\ C!Raw /\ copyPc \in CopyInHand
        BY <1>4 DEF C!RemoveExisting, CopyInv, Known, CopyInHand
  <2> QED BY <1>4, <2>1, RemovesStep DEF C!RemoveExisting
<1>5. CASE C!PlanDest
      BY <1>5, PlanDestStep
<1>6. CASE C!CopyVolume
      BY <1>6, VolumeStep
<1>7. CASE C!VolumesCopied
  <2>1. copyPc = "volumes" /\ copyPc \in CopyInHand /\ volume > C!Zipped /\ C!NextFile /\ UNCHANGED <<task, dest, gone>>
        BY <1>7 DEF C!VolumesCopied, CopyInHand
  <2>2. /\ volume \in 1 .. C!Zipped + 1 /\ dest[nth].vols = [v \in 1 .. Landed |-> "whole"]
        /\ C!Managed(task.to) \/ volume > 1 => dest[nth].kind = "new"
        BY <2>1 DEF CopyInv, Known, FirstVolumes
  <2>3. volume = C!Zipped + 1 /\ volume - 1 = C!Zipped
        BY <2>1, <2>2, Volumes
  <2>4. ~C!Unfit(nth) => Landed = C!File.volumes /\ dest[nth].kind = "new"
    <3>1. C!Raw /\ (C!File.foreign => C!File.volumes = 1)
          BY <2>1, InPlace DEF CopyInv, Known
    <3>2. /\ C!Zipped = (IF C!Managed(task.to) THEN C!File.volumes ELSE IF 1 < C!File.volumes THEN 1 ELSE C!File.volumes)
          /\ C!File.volumes \in Nat
          BY <2>1, Volumes DEF C!Zipped
    <3>3. C!Indexed(task.to) => C!Managed(task.to)
          BY DEF C!Indexed, C!Managed
    <3>4. CASE C!Indexed(task.to)
          BY <2>2, <2>3, <3>2, <3>3, <3>4 DEF Landed
    <3>5. CASE ~C!Indexed(task.to) /\ C!File.volumes = 1
          BY <2>2, <2>3, <3>2, <3>5 DEF Landed
    <3>6. CASE ~C!Indexed(task.to) /\ C!Managed(task.to) /\ C!File.volumes = 0
          BY <2>2, <2>3, <3>2, <3>6 DEF Landed
    <3> QED BY <3>1, <3>4, <3>5, <3>6 DEF C!Unfit, C!File
  <2>5. ~C!Unfit(nth) => dest[nth].kind = "new" /\ dest[nth].vols = [v \in 1..C!File.volumes |-> "whole"]
        BY <2>2, <2>3, <2>4
  <2>6. dest' = [dest EXCEPT ![nth] = dest[nth]] /\ dest[nth] \in Place
        BY <2>1, InPlace DEF CopyInv, Shape
  <2>7. dest[nth].kind # "new" => dest[nth].vols = <<>>
        BY <2>1, InPlace DEF CopyInv, Shape
  <2> QED BY <2>1, <2>5, <2>6, <2>7, NextStep
<1>8. CASE C!Clean
  <2>1. copyPc \in CopyInHand /\ C!Stop /\ UNCHANGED <<task, gone>> /\ C!Nothing.vols = <<>>
        BY <1>8 DEF C!Clean, CopyInHand, C!Nothing
  <2>2. dest' = dest \/ dest' = [dest EXCEPT ![nth] = C!Nothing]
        BY <1>8 DEF C!Clean
  <2>3. C!Nothing \in Place
        BY <2>1, InPlace
  <2> HIDE DEF C!Nothing
  <2> QED BY <2>1, <2>2, <2>3, EndStep
<1>9. CASE C!OpenStream
  <2>1. ~C!File.foreign /\ copyResult # "ok" /\ copyPc \in CopyInHand
        BY <1>9, HandOpen DEF C!OpenStream, CopyInv, Known, CopyInHand
  <2>2. /\ copyPc' \in {"replace", "done"} /\ UNCHANGED <<task, dest, gone, nth, volume>> /\ copyResult' # "ok"
        /\ (copyPc' = "replace" => ~C!File.missing)
        BY <1>9, <2>1 DEF C!OpenStream, C!To, C!Refuse, C!Stop
  <2> QED BY <2>1, <2>2, WaitStep
<1>10. CASE C!Replace
  <2>1. copyPc \in CopyInHand
        BY <1>10 DEF C!Replace, CopyInHand
  <2> QED BY <1>10, <2>1, RemovesStep DEF C!Replace
<1>11. CASE C!Upload
  <2>1. copyPc = "upload" /\ copyPc \in CopyInHand /\ UNCHANGED <<task, gone>>
        BY <1>11 DEF C!Upload, CopyInHand
  <2>2. CASE dest' = [dest EXCEPT ![nth] = C!Complete] /\ C!NextFile
    <3> DEFINE x == C!Complete
    <3>1. x \in Place /\ x.kind = "new" /\ x.vols = [v \in 1..C!File.volumes |-> "whole"]
          BY <2>1, InPlace DEF C!Complete
    <3> HIDE DEF x
    <3> QED BY <2>1, <2>2, <3>1, NextStep DEF x
  <2>3. CASE dest' \in {dest, [dest EXCEPT ![nth] = C!Put("part")]} /\ C!Stop
    <3> DEFINE x == C!Put("part")
    <3>1. x \in Place /\ x.kind = "new"
          BY <2>1, InPlace DEF C!Put
    <3>2. dest' = dest \/ dest' = [dest EXCEPT ![nth] = x]
          BY <2>3
    <3> HIDE DEF x
    <3> QED BY <2>1, <2>3, <3>1, <3>2, EndStep
  <2> QED BY <1>11, <2>2, <2>3 DEF C!Upload
<1>12. CASE C!ForeignCheck
  <2>1. copyPc \in CopyInHand /\ C!File.foreign
        BY <1>12 DEF C!ForeignCheck, CopyInHand, CopyInv, Known
  <2> QED BY <1>12, <2>1, RemovesStep DEF C!ForeignCheck
<1>13. CASE C!ForeignCopy
  <2>1. /\ copyPc = "fcopy" /\ copyPc \in CopyInHand /\ UNCHANGED <<task, gone>>
        /\ C!File.foreign /\ dest[nth] = C!Nothing
        BY <1>13 DEF C!ForeignCopy, CopyInHand, CopyInv, Known
  <2>2. CASE dest' = [dest EXCEPT ![nth] = C!Put("whole")] /\ C!NextFile
    <3> DEFINE x == C!Put("whole")
    <3>1. x \in Place /\ x.kind = "new"
          BY <2>1, InPlace DEF C!Put
    <3>2. x.vols \in {Append(<<>>, "whole"), <<"whole">>} /\ C!File.volumes = 1
          BY <2>1, InPlace DEF C!Put, C!Nothing
    <3>3. Append(<<>>, "whole") = [v \in 1..1 |-> "whole"] /\ <<"whole">> = [v \in 1..1 |-> "whole"]
          OBVIOUS
    <3> HIDE DEF x
    <3> QED BY <2>1, <2>2, <3>1, <3>2, <3>3, NextStep DEF x
  <2>3. CASE dest' \in {dest, [dest EXCEPT ![nth] = C!Put("part")]} /\ C!Stop
    <3> DEFINE x == C!Put("part")
    <3>1. x \in Place /\ x.kind = "new"
          BY <2>1, InPlace DEF C!Put
    <3>2. dest' = dest \/ dest' = [dest EXCEPT ![nth] = x]
          BY <2>3
    <3> HIDE DEF x
    <3> QED BY <2>1, <2>3, <3>1, <3>2, EndStep
  <2> QED BY <1>13, <2>2, <2>3 DEF C!ForeignCopy
<1>14. CASE C!Finish \/ C!DeleteSource \/ C!Abandon
  <2>1. copyPc \in CopyInHand \cup {"start", "file"} /\ copyPc' = "done" /\ UNCHANGED <<task, dest, nth, volume>>
        BY <1>14 DEF C!Finish, C!DeleteSource, C!Abandon, CopyInv, Shape
  <2>2. copyResult' = "ok" \/ gone' => nth = Len(task.files) + 1
        BY <1>14 DEF C!Finish, C!DeleteSource, C!Abandon, CopyInv, Shape, CopyBehind
  <2>3. Shape'
        BY <2>1 DEF CopyInv, Shape, FileOK, C!Managed, C!FilesOf, CopyInHand
  <2>4. Known'
        BY <2>1 DEF Known
  <2>5. CopyBehind'
        BY <2>1, <2>2 DEF CopyInv, CopyBehind, C!Whole, C!Unfit, C!Raw, C!Managed, C!Indexed
  <2> QED BY <2>3, <2>4, <2>5 DEF CopyInv
<1>15. CASE UNCHANGED C!vars
  <2>1. Shape'
        BY <1>15 DEF C!vars, CopyInv, Shape, FileOK, C!Managed, C!FilesOf
  <2>2. Known'
        BY <1>15
        DEF C!vars, CopyInv, Known, FirstVolumes, Landed, C!File, C!Raw, C!Zipped, C!Present,
            C!Managed,
            C!Indexed
  <2>3. CopyBehind'
        BY <1>15 DEF C!vars, CopyInv, CopyBehind, C!Whole, C!Unfit, C!Raw, C!Managed, C!Indexed
  <2> QED BY <2>1, <2>2, <2>3 DEF CopyInv
<1> QED
  BY <1>1, <1>2, <1>3, <1>4, <1>5, <1>6, <1>7, <1>8, <1>9, <1>10, <1>11, <1>12, <1>13, <1>14, <1>15
  DEF C!Next, C!Done

-----------------------------------------------------------------------------
\* What TypeOK says beyond that: where volumes are carried over as they are, no
\* destination gets more of them than its file has.
Typed ==
  /\ \A n \in DOMAIN dest : Len(dest[n].vols) <= task.files[n].volumes \/ ~C!Raw
  /\ \A n \in DOMAIN dest : task.files[n].volumes <= MaxVolumes
  /\ entries \subseteq DOMAIN dest
  /\ gone \in BOOLEAN /\ fault \in BOOLEAN /\ volume \in 1 .. MaxVolumes + 1
  /\ (copyResult = "open") <=> (copyPc # "done")
  /\ copyPc \in {"open", "replace", "upload"} => ~C!Raw

LEMMA TypedInitially == MaxFiles \in Nat /\ MaxVolumes \in Nat /\ C!Init => Typed
<1> SUFFICES ASSUME MaxFiles \in Nat, MaxVolumes \in Nat, C!Init PROVE Typed
    OBVIOUS
<1>1. CopyInv
      BY CopyInitially
<1>2. \A n \in DOMAIN dest : task.files[n] \in C!FilesOf(task.from) /\ dest[n].vols = <<>>
      BY <1>1 DEF CopyInv, Shape, C!Init
<1>3. \A n \in DOMAIN dest : task.files[n].volumes \in 0..MaxVolumes
      BY <1>2 DEF C!FilesOf
<1>4. entries \subseteq DOMAIN dest
      BY DEF C!Init
<1>5. \A n \in DOMAIN dest : Len(dest[n].vols) <= task.files[n].volumes
      BY <1>2, <1>3
<1>6. gone \in BOOLEAN /\ fault \in BOOLEAN /\ volume \in 1 .. MaxVolumes + 1
  <2>1. gone = FALSE /\ fault = FALSE /\ volume = 1
        BY DEF C!Init
  <2>2. FALSE \in BOOLEAN
        OBVIOUS
  <2>3. volume \in 1 .. MaxVolumes + 1
        BY <2>1
  <2> QED BY <2>1, <2>2, <2>3
<1>7. copyResult = "open" /\ copyPc = "start"
      BY DEF C!Init
<1>8. \A n \in DOMAIN dest : task.files[n].volumes <= MaxVolumes
      BY <1>3
<1> QED BY <1>4, <1>5, <1>6, <1>7, <1>8 DEF Typed

\* A step that changes no destination but the one in hand keeps the rest of Typed.
LEMMA TypedFile ==
  ASSUME CopyInv, Typed, task' = task, NEW x, dest' = dest \/ dest' = [dest EXCEPT ![nth] = x],
         nth \in DOMAIN dest => Len(x.vols) <= C!File.volumes \/ ~C!Raw
  PROVE  /\ \A n \in DOMAIN dest' : Len(dest'[n].vols) <= task'.files[n].volumes \/ ~C!Raw'
         /\ \A n \in DOMAIN dest' : task'.files[n].volumes <= MaxVolumes
         /\ DOMAIN dest' = DOMAIN dest /\ (C!Raw' <=> C!Raw)
<1>1. DOMAIN dest' = DOMAIN dest /\ (C!Raw' <=> C!Raw)
      BY DEF CopyInv, Shape, C!Raw
<1>2. ASSUME NEW n \in DOMAIN dest
      PROVE  Len(dest'[n].vols) <= task.files[n].volumes \/ ~C!Raw
  <2>1. CASE dest'[n] = dest[n]
        BY <2>1 DEF Typed
  <2>2. CASE dest'[n] # dest[n]
    <3>1. n = nth /\ dest'[n] = x
          BY <2>2 DEF CopyInv, Shape
    <3> QED BY <3>1 DEF C!File
  <2> QED BY <2>1, <2>2
<1> QED BY <1>1, <1>2 DEF Typed

LEMMA FileBounds ==
  ASSUME MaxVolumes \in Nat, CopyInv, Typed, nth \in DOMAIN dest
  PROVE  /\ C!File.volumes \in Nat /\ Len(C!Nothing.vols) <= C!File.volumes /\ Len(C!Complete.vols) <= C!File.volumes
         /\ copyPc = "volumes" => volume \in Nat /\ volume <= MaxVolumes + 1
         /\ copyPc = "volumes" /\ volume <= C!Zipped => volume <= MaxVolumes /\ (\A w : Len(C!Put(w).vols) <= C!File.volumes)
         /\ copyPc = "fcopy" => (\A w : Len(C!Put(w).vols) <= C!File.volumes)
         /\ copyPc = "upload" => ~C!Raw
<1>1. C!File.volumes \in Nat /\ C!File.volumes <= MaxVolumes
      BY DEF CopyInv, Shape, FileOK, C!File, Typed
<1>2. Len(C!Nothing.vols) = 0 /\ Len(C!Complete.vols) = C!File.volumes
      BY <1>1 DEF C!Nothing, C!Complete
<1>3. ASSUME copyPc = "volumes", volume <= C!Zipped
      PROVE  volume <= MaxVolumes /\ (\A w : Len(C!Put(w).vols) <= C!File.volumes)
  <2>1. C!Zipped <= C!File.volumes /\ C!Zipped \in Nat /\ volume \in Nat \ {0} /\ C!Present(C!File) = C!File.volumes
        BY <1>3, Volumes DEF C!Zipped
  <2>2. dest[nth].vols = [v \in 1 .. Landed |-> "whole"] /\ Landed \in Nat /\ Landed <= volume - 1
        BY <1>3, <2>1 DEF CopyInv, Known, FirstVolumes, Landed
  <2>3. dest[nth].vols \in Seq({"part", "whole"}) /\ Len(dest[nth].vols) = Landed
        BY <2>2
  <2>4. \A w : Len(Append(dest[nth].vols, w)) = Landed + 1 /\ Len(<<w>>) = 1
        BY <2>2, <2>3
  <2>5. \A w : Len(C!Put(w).vols) <= volume
        BY <2>1, <2>2, <2>4 DEF C!Put
  <2> QED BY <1>1, <1>3, <2>1, <2>5
<1>4. ASSUME copyPc = "fcopy" PROVE \A w : Len(C!Put(w).vols) <= C!File.volumes
  <2>1. dest[nth] = C!Nothing /\ C!File.volumes = 1
        BY <1>4, InPlace DEF CopyInv, Known, CopyInHand
  <2>2. \A w : Len(Append(<<>>, w)) = 1 /\ Len(<<w>>) = 1
        OBVIOUS
  <2> QED BY <2>1, <2>2 DEF C!Put, C!Nothing
<1> QED BY <1>1, <1>2, <1>3, <1>4 DEF Typed, CopyInv, Shape

LEMMA TypedStep == MaxVolumes \in Nat /\ CopyInv /\ Typed /\ [C!Next]_(C!vars) => Typed'
<1> SUFFICES ASSUME MaxVolumes \in Nat, CopyInv, Typed, [C!Next]_(C!vars) PROVE Typed'
    OBVIOUS
<1> USE DEF C!Stop, C!Refuse, C!To, C!NextFile
<1>1. task' = task
      BY DEF C!Next, C!vars, C!Begin, C!Choose, C!PlanSource, C!RemoveExisting, C!PlanDest,
             C!CopyVolume,
             C!VolumesCopied,
             C!Clean, C!OpenStream, C!Replace, C!Upload, C!ForeignCheck, C!ForeignCopy, C!Finish, C!DeleteSource,
             C!Abandon, C!Done, C!Removes
<1>2. \E x : /\ dest' = dest \/ dest' = [dest EXCEPT ![nth] = x]
             /\ nth \in DOMAIN dest => Len(x.vols) <= C!File.volumes \/ ~C!Raw
  <2>1. CASE dest' = dest
    <3>1. nth \in DOMAIN dest => Len(C!Nothing.vols) <= C!File.volumes
          BY FileBounds
    <3> QED BY <2>1, <3>1
  <2>2. CASE dest' = [dest EXCEPT ![nth] = C!Nothing]
        BY <2>2, FileBounds
  <2>3. CASE C!PlanDest
    <3>1. Len([kind |-> "new", vols |-> <<>>].vols) = Len(C!Nothing.vols)
          BY DEF C!Nothing
    <3>2. dest' = dest \/ dest' = [dest EXCEPT ![nth] = [kind |-> "new", vols |-> <<>>]]
          BY <2>3 DEF C!PlanDest, C!Container
    <3> QED BY <3>1, <3>2, FileBounds
  <2>4. CASE C!CopyVolume
    <3>1. PICK w : dest' = dest \/ dest' = [dest EXCEPT ![nth] = C!Put(w)]
          BY <2>4 DEF C!CopyVolume
    <3>2. nth \in DOMAIN dest => Len(C!Put(w).vols) <= C!File.volumes
          BY <2>4, FileBounds DEF C!CopyVolume
    <3> QED BY <3>1, <3>2
  <2>5. CASE C!Upload
    <3>1. PICK x : dest' = [dest EXCEPT ![nth] = x]  \/ dest' = dest
          BY <2>5 DEF C!Upload
    <3>2. nth \in DOMAIN dest => ~C!Raw
          BY <2>5, FileBounds DEF C!Upload
    <3> QED BY <3>1, <3>2
  <2>6. CASE C!ForeignCopy
    <3>1. PICK w : dest' = dest \/ dest' = [dest EXCEPT ![nth] = C!Put(w)]
          BY <2>6 DEF C!ForeignCopy
    <3>2. nth \in DOMAIN dest => Len(C!Put(w).vols) <= C!File.volumes
          BY <2>6, FileBounds DEF C!ForeignCopy
    <3> QED BY <3>1, <3>2
  <2> QED
    BY <2>1, <2>2, <2>3, <2>4, <2>5, <2>6
    DEF C!Next, C!vars, C!Begin, C!Choose, C!PlanSource, C!RemoveExisting, C!VolumesCopied, C!Clean,
        C!OpenStream,
        C!Replace,
        C!ForeignCheck, C!Finish, C!DeleteSource, C!Abandon, C!Done, C!Removes
<1>3. /\ \A n \in DOMAIN dest' : Len(dest'[n].vols) <= task'.files[n].volumes \/ ~C!Raw'
      /\ \A n \in DOMAIN dest' : task'.files[n].volumes <= MaxVolumes
      /\ DOMAIN dest' = DOMAIN dest /\ (C!Raw' <=> C!Raw)
      BY <1>1, <1>2, TypedFile
<1>4. entries' \subseteq DOMAIN dest
  <2>1. entries \subseteq DOMAIN dest /\ (copyPc \in CopyInHand => nth \in DOMAIN dest)
        BY HandOpen DEF Typed
  <2> QED
    BY <2>1
    DEF C!Next, C!vars, C!Begin, C!Choose, C!PlanSource, C!RemoveExisting, C!PlanDest, C!CopyVolume,
        C!VolumesCopied,
        C!Clean,
        C!OpenStream, C!Replace, C!Upload, C!ForeignCheck, C!ForeignCopy, C!Finish, C!DeleteSource, C!Abandon, C!Done,
        C!Removes, CopyInHand
<1>5. gone' \in BOOLEAN /\ fault' \in BOOLEAN
      BY DEF Typed, C!Next, C!vars, C!Begin, C!Choose, C!PlanSource, C!RemoveExisting, C!PlanDest,
             C!CopyVolume,
             C!VolumesCopied, C!Clean, C!OpenStream, C!Replace, C!Upload, C!ForeignCheck, C!ForeignCopy, C!Finish,
             C!DeleteSource, C!Abandon, C!Done, C!Removes
<1>6. volume' \in 1 .. MaxVolumes + 1
  <2>1. volume \in 1 .. MaxVolumes + 1 /\ 1 \in 1 .. MaxVolumes + 1
        BY DEF Typed
  <2>2. CASE volume' = volume \/ volume' = 1
        BY <2>1, <2>2
  <2>3. CASE C!CopyVolume /\ volume' = volume + 1
    <3>1. copyPc = "volumes" /\ volume <= C!Zipped /\ nth \in DOMAIN dest
          BY <2>3, HandOpen DEF C!CopyVolume, CopyInHand
    <3>2. volume <= MaxVolumes
          BY <3>1, FileBounds
    <3> QED BY <2>1, <2>3, <3>2
  <2> QED
    BY <2>2, <2>3
    DEF C!Next, C!vars, C!Begin, C!Choose, C!PlanSource, C!RemoveExisting, C!PlanDest, C!CopyVolume,
        C!VolumesCopied,
        C!Clean,
        C!OpenStream, C!Replace, C!Upload, C!ForeignCheck, C!ForeignCopy, C!Finish, C!DeleteSource, C!Abandon, C!Done,
        C!Removes
<1>7. /\ (copyResult' = "open") <=> (copyPc' # "done")
      /\ copyPc' \in {"open", "replace", "upload"} => ~C!Raw
      BY DEF Typed, C!Next, C!vars, C!Begin, C!Choose, C!PlanSource, C!RemoveExisting, C!PlanDest,
             C!CopyVolume,
             C!VolumesCopied, C!Clean, C!OpenStream, C!Replace, C!Upload, C!ForeignCheck, C!ForeignCopy, C!Finish,
             C!DeleteSource, C!Abandon, C!Done, C!Removes
<1> QED BY <1>3, <1>4, <1>5, <1>6, <1>7 DEF Typed

\* A copy that loses nothing, in any state of the invariant.
LEMMA WholeBehind == CopyInv => C!NothingLost
<1> SUFFICES ASSUME CopyInv, copyResult = "ok" \/ gone, NEW n \in DOMAIN dest
             PROVE  C!Unfit(n) \/ C!Whole(n)
    BY DEF C!NothingLost
<1>1. n \in 1 .. nth - 1
      BY DEF CopyInv, Shape, CopyBehind
<1> QED BY <1>1 DEF CopyInv, CopyBehind

LEMMA CopyTypes == CopyInv /\ Typed => C!TypeOK
<1> SUFFICES ASSUME CopyInv, Typed PROVE C!TypeOK
    OBVIOUS
<1>1. \A n \in DOMAIN dest : /\ dest[n].kind \in {"none", "old", "dir", "new"}
                             /\ dest[n].vols \in Seq({"part", "whole"})
                             /\ dest[n].kind # "new" => dest[n].vols = <<>>
      BY DEF CopyInv, Shape, Place
<1> QED BY <1>1 DEF Typed, C!TypeOK, CopyInv, Shape

\* What may not be replaced stays, in any step from such a state.
LEMMA KeepsStep == CopyInv /\ [C!Next]_(C!vars) => [C!Keeps]_(C!vars)
<1> SUFFICES ASSUME CopyInv, C!Next, NEW n \in DOMAIN dest, C!Protected(n), dest' # dest
             PROVE  dest'[n] = dest[n]
    BY DEF C!Keeps
<1>1. \E x : dest' = [dest EXCEPT ![nth] = x]
      BY DEF C!Next, C!Begin, C!Choose, C!PlanSource, C!RemoveExisting, C!PlanDest, C!CopyVolume,
             C!VolumesCopied,
             C!Clean,
             C!OpenStream, C!Replace, C!Upload, C!ForeignCheck, C!ForeignCopy, C!Finish, C!DeleteSource, C!Abandon,
             C!Done, C!vars, C!Removes, C!Refuse, C!Container, C!Put
<1>2. CASE n # nth
      BY <1>1, <1>2 DEF CopyInv, Shape
<1>3. CASE n = nth
  <2>1. dest[nth].kind \in {"old", "dir"}
        BY <1>3 DEF C!Protected
  <2>2. copyPc \notin {"dest", "volumes", "clean", "upload", "fcopy"}
        BY <2>1 DEF CopyInv, Known, Free, C!Nothing
  <2>3. ~task.overwrite \/ (dest[nth].kind = "dir" /\ ~C!File.foreign)
        BY <1>3, <2>1 DEF C!Protected, C!File
  <2>4. ~C!RemoveExisting /\ ~C!Replace
        BY <2>1, <2>3 DEF C!RemoveExisting, C!Replace, C!Removes, C!Refuse
  <2>5. ~C!ForeignCheck
        BY <2>1, <2>3 DEF C!ForeignCheck, C!Removes, C!Refuse, CopyInv, Known
  <2> QED
    BY <2>2, <2>4, <2>5
    DEF C!Next, C!Begin, C!Choose, C!PlanSource, C!PlanDest, C!CopyVolume, C!VolumesCopied, C!Clean,
        C!OpenStream,
        C!Upload,
        C!ForeignCopy, C!Finish, C!DeleteSource, C!Abandon, C!Done, C!vars, C!Refuse
<1> QED BY <1>2, <1>3

\* While a behaviour is about a copy its steps are the copy's; while it is not, the
\* invariant says nothing.
LEMMA CopySteps == [MCNext]_all => kind' = kind /\ (kind = "copy" => [C!Next]_(C!vars))
BY DEF MCNext, Fetches, Uploads, Copies, all, upVars, copyVars, C!vars

Copied == kind = "copy" => CopyInv /\ Typed

LEMMA CopiedAlways == MCSpec => []Copied
<1>0. MaxFiles \in Nat /\ MaxVolumes \in Nat
      BY TransferAssumption
<1>1. MCInit => Copied
      BY <1>0, CopyInitially, TypedInitially DEF MCInit, Copied
<1>2. Copied /\ [MCNext]_all => Copied'
      BY <1>0, CopySteps, CopyStep, TypedStep DEF Copied
<1> QED BY <1>1, <1>2, PTL DEF MCSpec

\* A copy that reports success has every file whole at its destination and a MOVE deletes
\* its source only then, for any number of files and of volumes, from and to any two data
\* sources, but for files whose volumes find fewer names at the destination than there are
\* of them (copy_path, move_copy; NothingLost, Unfit).
THEOREM CopiesLoseNothing == MCSpec => []NothingLost
<1>1. Copied => NothingLost
      BY WholeBehind, CopyTypes DEF Copied, NothingLost
<1> QED BY <1>1, CopiedAlways, PTL

\* What a copy may not replace it never touches (remove_existing; KeepsExisting).
THEOREM CopiesKeepExisting == MCSpec => KeepsExisting
<1>1. Copied /\ [MCNext]_all => [kind = "copy" => C!Keeps]_all
  <2> SUFFICES ASSUME Copied, MCNext, kind = "copy" PROVE C!Keeps
      OBVIOUS
  <2>1. C!Next
        BY DEF MCNext, Fetches, Uploads, Copies
  <2>2. [C!Keeps]_(C!vars)
        BY <2>1, KeepsStep DEF Copied
  <2>3. C!vars' = C!vars => C!Keeps
        BY DEF C!vars, C!Keeps
  <2> QED BY <2>2, <2>3
<1> QED BY <1>1, CopiedAlways, PTL DEF MCSpec, KeepsExisting

-----------------------------------------------------------------------------
(***************************************************************************)
(* Uploads: what SumTo computes and what VolumePlans plans.                *)
(***************************************************************************)
LEMMA SumToIs ==
  ASSUME NEW m \in Nat, NEW s \in [1..m -> Int], NEW f, Sums(f, s, m), NEW n \in 0..m
  PROVE  U!SumTo(s, n) = f[n]
<1> DEFINE Eq(g) == g = [x \in 0..n |-> IF x = 0 THEN 0 ELSE g[x - 1] + s[x]]
           sum == CHOOSE g : Eq(g)
           T == {x \in Nat : x <= n => sum[x] = f[x]}
<1>1. Eq(sum)
  <2> DEFINE g == [x \in 0..n |-> f[x]]
  <2>1. \A x \in 0..n : g[x] = IF x = 0 THEN 0 ELSE g[x - 1] + s[x]
        BY DEF Sums
  <2>2. Eq(g)
        BY <2>1
  <2> QED BY <2>2
<1>2. /\ sum[0] = 0
      /\ \A x \in 1..n : sum[x] = sum[x - 1] + s[x]
  <2> HIDE DEF sum
  <2>1. \A x \in 0..n : sum[x] = IF x = 0 THEN 0 ELSE sum[x - 1] + s[x]
        BY <1>1
  <2> QED BY <2>1
<1> HIDE DEF sum
<1>3. 0 \in T
      BY <1>2 DEF Sums
<1>4. ASSUME NEW x \in Nat, x \in T PROVE x + 1 \in T
  <2> SUFFICES ASSUME x + 1 <= n PROVE sum[x + 1] = f[x + 1]
      OBVIOUS
  <2>1. sum[x + 1] = sum[x] + s[x + 1]
        BY <1>2
  <2>2. f[x + 1] = f[x] + s[x + 1]
        BY DEF Sums
  <2> QED BY <1>4, <2>1, <2>2
<1>5. sum[n] = f[n]
  <2> HIDE DEF T
  <2>1. n \in T
        BY SMTT(30), <1>3, <1>4, Induction
  <2> QED BY <2>1 DEF T
<1>6. U!SumTo(s, n) = sum[n]
      BY DEF U!SumTo, sum
<1> QED BY <1>5, <1>6

LEMMA SumSteps ==
  ASSUME NEW m \in Nat, NEW s \in [1..m -> Int]
  PROVE  /\ U!SumTo(s, 0) = 0
         /\ \A n \in 0..m : U!SumTo(s, n) \in Int
         /\ \A n \in 1..m : U!SumTo(s, n) = U!SumTo(s, n - 1) + s[n]
<1>1. PICK f : Sums(f, s, m)
      BY SumsExist
<1>2. \A n \in 0..m : U!SumTo(s, n) = f[n]
      BY <1>1, SumToIs
<1> QED BY <1>1, <1>2 DEF Sums

LEMMA SumsCompare ==
  ASSUME NEW l \in Nat, NEW m \in Nat, l <= m,
         NEW s \in [1..l -> Int], NEW t \in [1..m -> Int], \A n \in 1..l : s[n] <= t[n],
         NEW n \in 0..l
  PROVE  /\ U!SumTo(s, n) <= U!SumTo(t, n)
         /\ U!SumTo(s, n) = U!SumTo(t, n) => \A j \in 1..n : s[j] = t[j]
<1> DEFINE P(x) == /\ U!SumTo(s, x) <= U!SumTo(t, x)
                   /\ U!SumTo(s, x) = U!SumTo(t, x) => \A j \in 1..x : s[j] = t[j]
           T == {x \in Nat : x <= l => P(x)}
<1>1. 0 \in T
  <2>1. P(0)
        BY SMTT(30), SumSteps
  <2> QED BY <2>1
<1>2. ASSUME NEW x \in Nat, x \in T PROVE x + 1 \in T
  <2> SUFFICES ASSUME x + 1 <= l PROVE P(x + 1)
      OBVIOUS
  <2>1. /\ U!SumTo(s, x + 1) = U!SumTo(s, x) + s[x + 1] /\ U!SumTo(s, x) \in Int
        /\ U!SumTo(t, x + 1) = U!SumTo(t, x) + t[x + 1] /\ U!SumTo(t, x) \in Int
    <3>1. x \in 0..l /\ x + 1 \in 1..l /\ x \in 0..m /\ x + 1 \in 1..m /\ (x + 1) - 1 = x
          OBVIOUS
    <3> QED BY <3>1, SumSteps
  <2>2. s[x + 1] \in Int /\ t[x + 1] \in Int /\ s[x + 1] <= t[x + 1] /\ P(x)
        BY <1>2
  <2>3. U!SumTo(s, x + 1) <= U!SumTo(t, x + 1)
        BY <2>1, <2>2
  <2>4. ASSUME U!SumTo(s, x + 1) = U!SumTo(t, x + 1) PROVE \A j \in 1 .. x + 1 : s[j] = t[j]
    <3>1. U!SumTo(s, x) = U!SumTo(t, x) /\ s[x + 1] = t[x + 1]
          BY <2>1, <2>2, <2>4
    <3>2. \A j \in 1..x : s[j] = t[j]
          BY <2>2, <3>1
    <3> QED BY <3>1, <3>2
  <2> QED BY <2>3, <2>4
<1> HIDE DEF T, P
<1>3. n \in T
  <2>1. Nat \subseteq T
        BY <1>1, <1>2, Induction
  <2> QED BY <2>1
<1> QED BY <1>3 DEF T, P

LEMMA SumsGrow ==
  ASSUME NEW m \in Nat, NEW t \in [1..m -> Nat \ {0}], NEW a \in 0..m, NEW b \in 0..m, a < b
  PROVE  U!SumTo(t, a) < U!SumTo(t, b) /\ U!SumTo(t, a) \in Nat
<1> DEFINE P(x) == /\ U!SumTo(t, x) \in Nat
                   /\ a < x => U!SumTo(t, a) < U!SumTo(t, x)
           T == {x \in Nat : x <= m => P(x)}
<1>0. t \in [1..m -> Int]
      OBVIOUS
<1>1. 0 \in T
  <2>1. P(0)
        BY <1>0, SumSteps
  <2> QED BY <2>1
<1>2. ASSUME NEW x \in Nat, x \in T PROVE x + 1 \in T
  <2> SUFFICES ASSUME x + 1 <= m PROVE P(x + 1)
      OBVIOUS
  <2>1. U!SumTo(t, x + 1) = U!SumTo(t, x) + t[x + 1] /\ U!SumTo(t, a) \in Int
    <3>1. x + 1 \in 1..m /\ (x + 1) - 1 = x
          OBVIOUS
    <3> QED BY <1>0, <3>1, SumSteps
  <2>2. t[x + 1] \in Nat \ {0} /\ P(x)
        BY <1>2
  <2> QED BY <2>1, <2>2
<1> HIDE DEF T, P
<1>3. a \in T /\ b \in T
  <2>1. Nat \subseteq T
        BY ONLY <1>1, <1>2, Induction
  <2> QED BY <2>1
<1> QED BY <1>3 DEF T, P

-----------------------------------------------------------------------------
\* As many volumes as it takes, and no more.
Enough(a, b, count) ==
  /\ count \in Nat \ {0} /\ count * b \in Nat
  /\ count * b >= a /\ count * b < a + b
  /\ \A x \in Nat : x < count => x * b < a /\ x * b \in Nat

LEMMA RoundedUp ==
  ASSUME NEW a \in Nat \ {0}, NEW b \in Nat \ {0}
  PROVE  Enough(a, b, (a + b - 1) \div b)
<1> DEFINE q == (a + b - 1) \div b
<1>1. q \in Nat /\ b * q <= a + b - 1 /\ a + b - 1 < b * q + b
      OBVIOUS
<1> HIDE DEF q
<1>2. b * q = q * b /\ b * q \in Nat
      BY <1>1
<1>3. q * b >= a /\ q * b < a + b
      BY <1>1, <1>2
<1>4. q # 0
      BY <1>1
<1>5. ASSUME NEW x \in Nat, x < q PROVE x * b < a /\ x * b \in Nat
  <2>1. PICK y \in Nat : q = x + 1 + y
    <3>1. q - x - 1 \in Nat /\ q = x + 1 + (q - x - 1)
          BY <1>1, <1>5
    <3> QED BY <3>1
  <2>2. q * b = x * b + b + y * b /\ y * b \in Nat /\ x * b \in Nat
        BY <2>1
  <2> QED BY <1>3, <2>2
<1> QED BY <1>1, <1>2, <1>3, <1>4, <1>5 DEF q, Enough

\* Volumes of at most the limit, none of them empty, that add up to the file.
CutInto(p, total, limit, count) ==
  /\ count \in Nat /\ p \in [1..count -> Nat \ {0}]
  /\ \A n \in 1..count : p[n] <= limit
  /\ U!SumTo(p, count) = total

LEMMA NextSum ==
  ASSUME NEW m \in Nat, NEW s \in [1..m -> Int], NEW x \in Nat, x + 1 <= m
  PROVE  /\ U!SumTo(s, x + 1) = U!SumTo(s, x) + s[x + 1]
         /\ U!SumTo(s, x) \in Int /\ U!SumTo(s, 0) = 0
<1>1. x \in 0..m /\ x + 1 \in 1..m /\ (x + 1) - 1 = x
      OBVIOUS
<1> QED BY <1>1, SumSteps

LEMMA EvenCuts ==
  ASSUME NEW total \in Nat \ {0}, NEW limit \in Nat \ {0},
         NEW count, Enough(total, limit, count),
         NEW p, p = [n \in 1..count |-> U!Lower(limit, total - (n - 1) * limit)]
  PROVE  CutInto(p, total, limit, count)
<1>1. /\ count \in Nat \ {0} /\ count * limit >= total /\ count * limit \in Nat
      /\ \A x \in Nat : x < count => x * limit < total /\ x * limit \in Nat
      BY DEF Enough
<1>2. ASSUME NEW x \in Nat, x < count
      PROVE  /\ p[x + 1] = U!Lower(limit, total - x * limit)
             /\ p[x + 1] \in Nat \ {0} /\ p[x + 1] <= limit
  <2>1. x + 1 \in 1..count /\ (x + 1) - 1 = x
        BY <1>1, <1>2
  <2>2. p[x + 1] = U!Lower(limit, total - x * limit)
        BY <2>1
  <2>3. PICK y \in Nat : y = x * limit /\ y < total
        BY <1>1, <1>2
  <2> QED BY <2>2, <2>3 DEF U!Lower
<1>3. ASSUME NEW n \in 1..count PROVE p[n] \in Nat \ {0} /\ p[n] <= limit
  <2>1. n - 1 \in Nat /\ n - 1 < count /\ (n - 1) + 1 = n
        BY <1>1
  <2> QED BY <1>2, <2>1
<1>4. p \in [1..count -> Nat \ {0}] /\ p \in [1..count -> Int]
  <2>1. p = [n \in 1..count |-> p[n]] /\ \A n \in 1..count : p[n] \in Nat \ {0}
        BY <1>3
  <2>2. p \in [1..count -> Nat \ {0}]
        BY <2>1, ByValues, Zenon
  <2>3. Nat \ {0} \subseteq Int
        OBVIOUS
  <2>4. p \in [1..count -> Int]
        BY <2>1, <2>3, ByValues, Zenon
  <2> QED BY <2>2, <2>4
<1> DEFINE P(x) == U!SumTo(p, x) = U!Lower(x * limit, total)
           T == {x \in Nat : x <= count => P(x)}
<1>5. 0 \in T
  <2>1. 0 * limit = 0 /\ U!Lower(0, total) = 0
        BY DEF U!Lower
  <2> QED BY <1>1, <1>4, <2>1, SumSteps
<1>6. ASSUME NEW x \in Nat, x \in T PROVE x + 1 \in T
  <2> SUFFICES ASSUME x + 1 <= count PROVE P(x + 1)
      OBVIOUS
  <2>1. x < count /\ x + 1 \in 1..count /\ (x + 1) - 1 = x
        BY <1>1
  <2>2. U!SumTo(p, x + 1) = U!SumTo(p, x) + p[x + 1]
        BY <1>1, <1>4, <2>1, SumSteps
  <2>3. PICK y \in Nat : y = x * limit /\ y < total
        BY <1>1, <2>1
  <2>4. U!SumTo(p, x) = y
        BY <1>1, <1>6, <2>1, <2>3 DEF U!Lower
  <2>5. (x + 1) * limit = y + limit
        BY <2>3
  <2>6. p[x + 1] = U!Lower(limit, total - y)
        BY <1>2, <2>1, <2>3
  <2> QED BY <2>2, <2>3, <2>4, <2>5, <2>6 DEF U!Lower
<1>7. P(count)
  <2> HIDE DEF P, T
  <2>1. Nat \subseteq T
        BY <1>5, <1>6, Induction
  <2> QED BY <1>1, <2>1 DEF T
<1>8. U!SumTo(p, count) = total
      BY <1>1, <1>7 DEF U!Lower
<1> QED BY <1>1, <1>3, <1>4, <1>8 DEF CutInto

LEMMA RandomCuts ==
  ASSUME NEW total \in Nat \ {0}, NEW limit \in Nat \ {0},
         NEW count, Enough(total, limit, count),
         NEW d \in [1..count -> 0 .. count * limit - total],
         U!SumOf(d) = count * limit - total,
         NEW p, p = [n \in 1..count |-> limit - d[n]]
  PROVE  CutInto(p, total, limit, count)
<1>1. /\ count \in Nat \ {0} /\ count * limit \in Nat
      /\ count * limit >= total /\ count * limit < total + limit
      BY DEF Enough
<1>2. ASSUME NEW n \in 1..count PROVE p[n] \in Nat \ {0} /\ p[n] <= limit /\ d[n] \in Int
  <2>1. PICK y \in Nat : y = count * limit - total /\ y < limit
        BY <1>1
  <2>2. d[n] \in 0..y
        BY <2>1
  <2> QED BY <2>1, <2>2
<1>3. p \in [1..count -> Nat \ {0}] /\ p \in [1..count -> Int] /\ d \in [1..count -> Int]
      BY <1>2
<1> DEFINE P(x) == U!SumTo(p, x) = x * limit - U!SumTo(d, x)
           T == {x \in Nat : x <= count => P(x)}
<1>4. 0 \in T
  <2>1. 0 * limit = 0 /\ U!SumTo(p, 0) = 0 /\ U!SumTo(d, 0) = 0
        BY <1>1, <1>3, SumSteps
  <2> QED BY <2>1
<1>5. ASSUME NEW x \in Nat, x \in T PROVE x + 1 \in T
  <2> SUFFICES ASSUME x + 1 <= count PROVE P(x + 1)
      OBVIOUS
  <2>1. x \in 0..count /\ x + 1 \in 1..count /\ (x + 1) - 1 = x
        BY <1>1
  <2>2. /\ U!SumTo(p, x + 1) = U!SumTo(p, x) + p[x + 1] /\ U!SumTo(p, x) \in Int
        /\ U!SumTo(d, x + 1) = U!SumTo(d, x) + d[x + 1] /\ U!SumTo(d, x) \in Int
    <3> x + 1 <= count
        BY <2>1
    <3> QED BY <1>1, <1>3, NextSum
  <2>3. p[x + 1] = limit - d[x + 1] /\ d[x + 1] \in Int
        BY <1>2, <2>1
  <2>4. (x + 1) * limit = x * limit + limit /\ x * limit \in Int
        OBVIOUS
  <2>5. P(x)
        BY <1>5, <2>1
  <2> QED BY <2>2, <2>3, <2>4, <2>5
<1>6. P(count)
  <2> HIDE DEF P, T
  <2>1. Nat \subseteq T
        BY <1>4, <1>5, Induction
  <2> QED BY <1>1, <2>1 DEF T
<1>7. U!SumTo(d, count) = count * limit - total
  <2>1. Len(d) = count
        BY <1>1, <1>3, AsSequence
  <2> QED BY <2>1 DEF U!SumOf
<1> QED BY <1>1, <1>2, <1>3, <1>6, <1>7 DEF CutInto

\* Uploads as the callers declare them.
Upload(f) ==
  /\ f.total \in Nat /\ f.max \in Nat /\ f.header \in Nat
  /\ f.split \in BOOLEAN /\ f.random \in BOOLEAN

\* A plan that cuts the file exactly.
Fits(f, p) ==
  /\ p \in [1..Len(p) -> Nat \ {0}] /\ Len(p) \in Nat
  /\ U!SumTo(p, Len(p)) = f.total
  /\ f.split /\ f.max > f.header => \A v \in 1..Len(p) : p[v] + f.header <= f.max

LEMMA CutsFit ==
  ASSUME NEW f, Upload(f), NEW count, NEW p, CutInto(p, f.total, U!DataLimit(f), count)
  PROVE  Fits(f, p)
<1>0. /\ count \in Nat /\ p \in [1..count -> Nat \ {0}]
      /\ U!SumTo(p, count) = f.total /\ \A v \in 1..count : p[v] <= U!DataLimit(f)
      BY DEF CutInto
<1>1. Len(p) = count
      BY <1>0, AsSequence
<1>2. f.max > f.header => U!DataLimit(f) + f.header = f.max /\ U!DataLimit(f) \in Nat
      BY DEF Upload, U!DataLimit, U!Higher
<1>3. \A v \in 1..count : p[v] \in Nat
      BY <1>0
<1>4. ASSUME f.max > f.header, NEW v \in 1..count PROVE p[v] + f.header <= f.max
  <2>1. PICK a, b, c, l \in Nat : /\ a = p[v] /\ b = f.header /\ c = f.max
                                  /\ l = U!DataLimit(f) /\ l + b = c /\ a <= l
        BY <1>0, <1>2, <1>3, <1>4 DEF Upload
  <2>2. a + b <= c
        BY <2>1
  <2> QED BY <2>1, <2>2
<1> QED BY <1>0, <1>1, <1>4 DEF Fits

LEMMA PlansFit == ASSUME NEW f, Upload(f), NEW p \in U!VolumePlans(f) PROVE Fits(f, p)
<1> DEFINE limit == U!DataLimit(f)
           count == (f.total + limit - 1) \div limit
           slack == count * limit - f.total
<1>1. limit \in Nat \ {0} /\ f.total \in Nat
      BY DEF Upload, U!DataLimit, U!Higher
<1>2. CASE f.total = 0
  <2>1. p = <<>>
        BY <1>2 DEF U!VolumePlans
  <2>2. p \in [1..0 -> Int] /\ p \in [1..0 -> Nat \ {0}] /\ Len(p) = 0
        BY <2>1
  <2>3. U!SumTo(p, 0) = 0
    <3> 0 \in Nat
        OBVIOUS
    <3> QED BY <2>2, SumSteps, Zenon
  <2> QED BY <1>2, <2>2, <2>3 DEF Fits
<1>3. CASE f.total # 0 /\ ~f.split
  <2>1. p = <<f.total>>
        BY <1>3 DEF U!VolumePlans
  <2>2. p \in [1..1 -> Int] /\ p \in [1..1 -> Nat \ {0}] /\ Len(p) = 1 /\ p[1] = f.total
        BY <1>1, <1>3, <2>1
  <2>3. U!SumTo(p, 0) = 0 /\ U!SumTo(p, 0 + 1) = U!SumTo(p, 0) + p[0 + 1]
    <3> 0 \in Nat /\ 1 \in Nat /\ 0 + 1 <= 1
        OBVIOUS
    <3> QED BY <2>2, NextSum, Zenon
  <2> QED BY <1>1, <1>3, <2>2, <2>3 DEF Fits
<1>4. CASE f.total # 0 /\ f.split
  <2>0. f.total \in Nat \ {0}
        BY <1>1, <1>4
  <2> HIDE DEF limit
  <2>1. Enough(f.total, limit, count)
        BY <1>1, <2>0, RoundedUp
  <2>2. \/ p = [n \in 1..count |-> U!Lower(limit, f.total - (n - 1) * limit)]
        \/ \E d \in [1..count -> 0..slack] :
             U!SumOf(d) = slack /\ p = [n \in 1..count |-> limit - d[n]]
        BY <1>4 DEF U!VolumePlans, limit
  <2> HIDE DEF count
  <2>3. CASE p = [n \in 1..count |-> U!Lower(limit, f.total - (n - 1) * limit)]
    <3>1. CutInto(p, f.total, limit, count)
          BY <1>1, <2>0, <2>1, <2>3, EvenCuts
    <3> QED BY <3>1, CutsFit DEF limit
  <2>4. CASE \E d \in [1..count -> 0..slack] :
               U!SumOf(d) = slack /\ p = [n \in 1..count |-> limit - d[n]]
    <3>1. PICK d \in [1..count -> 0..slack] :
            U!SumOf(d) = slack /\ p = [n \in 1..count |-> limit - d[n]]
          BY <2>4
    <3>2. CutInto(p, f.total, limit, count)
          BY <1>1, <2>0, <2>1, <3>1, RandomCuts
    <3> QED BY <3>2, CutsFit DEF limit
  <2> QED BY <2>2, <2>3, <2>4
<1> QED BY <1>2, <1>3, <1>4 DEF Upload

-----------------------------------------------------------------------------
\* The units of a volume: its header, then the file's from where the volume begins; and
\* the first n of them.
Start(f, v) == U!SumTo(f.plan, v - 1)
Unit(f, v, j) == IF j <= f.header THEN -1 ELSE Start(f, v) + j - f.header - 1
Cut(f, v, n) == [j \in 1..n |-> Unit(f, v, j)]
Room(f, v) == f.header + f.plan[v]

Planned(f) == Upload(f) /\ Fits(f, f.plan)

LEMMA Starts ==
  ASSUME NEW f, Planned(f), NEW v \in 1..Len(f.plan)
  PROVE  /\ Len(f.plan) \in Nat /\ f.plan[v] \in Nat \ {0} /\ f.header \in Nat
         /\ Room(f, v) \in Nat /\ f.header < Room(f, v)
         /\ Start(f, v) \in Nat /\ f.total \in Nat
         /\ Start(f, v + 1) = Start(f, v) + f.plan[v] /\ Start(f, v + 1) <= f.total
         /\ v < Len(f.plan) => Start(f, v + 1) < f.total
         /\ v = Len(f.plan) => Start(f, v + 1) = f.total
<1> DEFINE m == Len(f.plan)
           p == f.plan
<1>1. m \in Nat /\ p \in [1..m -> Nat \ {0}] /\ p \in [1..m -> Int] /\ U!SumTo(p, m) = f.total
  <2>1. m \in Nat /\ p \in [1..m -> Nat \ {0}] /\ U!SumTo(p, m) = f.total
        BY DEF Planned, Fits
  <2> HIDE DEF m, p
  <2> QED BY <2>1
<1>2. f.header \in Nat /\ f.total \in Nat
      BY DEF Planned, Upload
<1> HIDE DEF m, p
<1>3. v \in 1..m /\ v - 1 \in 0..m /\ v \in 0..m /\ m \in 0..m /\ v - 1 < v /\ (v + 1) - 1 = v
      BY <1>1 DEF m
<1>4. U!SumTo(p, v) = U!SumTo(p, v - 1) + p[v] /\ U!SumTo(p, v - 1) \in Nat
      BY <1>1, <1>3, SumSteps, SumsGrow
<1>5. v < m => U!SumTo(p, v) < U!SumTo(p, m)
      BY <1>1, <1>3, SumsGrow
<1>6. v = m => U!SumTo(p, v) = U!SumTo(p, m)
      OBVIOUS
<1>7. p[v] \in Nat \ {0}
      BY <1>1, <1>3
<1> QED BY <1>1, <1>2, <1>3, <1>4, <1>5, <1>6, <1>7 DEF Start, Room, m, p

LEMMA CutOK ==
  ASSUME NEW f, Planned(f), NEW v \in 1..Len(f.plan), NEW n \in 0..Room(f, v)
  PROVE  /\ Cut(f, v, n) \in Seq(-1 .. f.total - 1) /\ Len(Cut(f, v, n)) = n /\ n \in Nat
         /\ \A k \in 0..n : SubSeq(Cut(f, v, n), 1, k) = Cut(f, v, k)
<1> DEFINE h == f.header
           l == f.plan[v]
           r == Room(f, v)
           b == Start(f, v)
           t == f.total
<1>1. /\ h \in Nat /\ l \in Nat /\ r \in Nat /\ b \in Nat /\ t \in Nat
      /\ r = h + l /\ b + l <= t
      BY Starts DEF Room
<1> HIDE DEF h, l, r, b, t
<1>2. \A j \in 1..n : Unit(f, v, j) \in -1 .. t - 1
  <2> TAKE j \in 1..n
  <2>1. Unit(f, v, j) = IF j <= h THEN -1 ELSE b + j - h - 1
        BY DEF Unit, h, b
  <2>2. n \in 0..r
        BY DEF r
  <2> QED BY <1>1, <2>1, <2>2
<1>3. n \in Nat
      BY <1>1 DEF r
<1>4. Cut(f, v, n) \in [1..n -> -1 .. t - 1]
      BY <1>2 DEF Cut
<1>5. Cut(f, v, n) \in Seq(-1 .. t - 1) /\ Len(Cut(f, v, n)) = n
      BY <1>3, <1>4, AsSequence
<1>6. ASSUME NEW k \in 0..n PROVE SubSeq(Cut(f, v, n), 1, k) = Cut(f, v, k)
      BY <1>3, <1>5, <1>6 DEF Cut
<1> QED BY <1>1, <1>3, <1>5, <1>6 DEF t

LEMMA CutHeader ==
  ASSUME NEW f, Planned(f), NEW v
  PROVE  Cut(f, v, f.header) = [j \in 1..f.header |-> -1]
<1>1. f.header \in Nat
      BY DEF Planned, Upload
<1> QED BY <1>1 DEF Cut, Unit

LEMMA GluedInts ==
  ASSUME NEW m \in Nat, NEW n \in Nat, NEW s \in [1..m -> Int], NEW t \in [1..n -> Int],
         NEW w \in [1 .. m + n -> Int],
         \A j \in 1..m : w[j] = s[j], \A j \in 1..n : w[m + j] = t[j]
  PROVE  s \o t = w
<1>1. IsRun(s, m) /\ IsRun(t, n) /\ IsRun(w, m + n)
      BY DEF IsRun
<1> QED BY <1>1, Glued

LEMMA Behind ==
  ASSUME NEW n \in Nat, NEW h \in Nat, NEW s \in [1..n -> Int]
  PROVE  /\ n <= h => SubSeq(s, h + 1, n) = <<>>
         /\ n > h => /\ SubSeq(s, h + 1, n) \in [1 .. n - h -> Int]
                     /\ \A j \in 1 .. n - h : SubSeq(s, h + 1, n)[j] = s[h + j]
<1>1. s \in Seq(Int) /\ Len(s) = n
      BY AsSequence
<1>2. ASSUME n > h
      PROVE  /\ SubSeq(s, h + 1, n) \in [1 .. n - h -> Int]
             /\ \A j \in 1 .. n - h : SubSeq(s, h + 1, n)[j] = s[h + j]
  <2> DEFINE d == SubSeq(s, h + 1, n)
  <2>1. \A j \in h + 1 .. n : s[j] \in Int
        OBVIOUS
  <2>2. h + 1 \in Int /\ n \in Int /\ h + 1 <= n /\ n - (h + 1) + 1 = n - h /\ n - h \in Nat
        BY <1>2
  <2>3. d \in Seq(Int) /\ Len(d) = n - h /\ \A j \in 1 .. n - h : d[j] = s[h + 1 + j - 1]
        BY <2>1, <2>2, SubSeqProperties
  <2> HIDE DEF d
  <2>4. \A j \in 1 .. n - h : d[j] = s[h + j]
    <3> TAKE j \in 1 .. n - h
    <3>1. h + 1 + j - 1 = h + j
          BY <2>2
    <3> QED BY <2>3, <3>1
  <2>5. d \in [1 .. n - h -> Int]
        BY <2>3, LenProperties
  <2> QED BY <2>4, <2>5 DEF d
<1> QED BY <1>1, <1>2

\* Writing on where the volume stands.
LEMMA CutGrows ==
  ASSUME NEW f, Planned(f), NEW v \in 1..Len(f.plan),
         NEW k \in Nat, NEW n \in Nat, k + n <= f.plan[v]
  PROVE  /\ Cut(f, v, f.header + k) \o [j \in 1..n |-> Start(f, v) + k + j - 1]
              = Cut(f, v, f.header + k + n)
         /\ f.header + k \in 0..Room(f, v) /\ f.header + k + n \in 0..Room(f, v)
<1> DEFINE h == f.header
           l == f.plan[v]
           r == Room(f, v)
           b == Start(f, v)
           s == Cut(f, v, h + k)
           t == [j \in 1..n |-> b + k + j - 1]
           w == Cut(f, v, h + k + n)
<1>1. h \in Nat /\ l \in Nat /\ r \in Nat /\ b \in Nat /\ r = h + l /\ k + n <= l
      BY Starts DEF Room
<1>2. /\ \A j \in 1 .. h + k : s[j] = Unit(f, v, j)
      /\ \A j \in 1 .. h + k + n : w[j] = Unit(f, v, j)
      /\ \A j \in 1..n : t[j] = b + k + j - 1
      /\ \A j : Unit(f, v, j) = IF j <= h THEN -1 ELSE b + j - h - 1
      BY DEF Cut, Unit
<1>3. t \in [1..n -> Int]
      BY <1>1
<1>4. s = [j \in 1 .. h + k |-> s[j]] /\ w = [j \in 1 .. h + k + n |-> w[j]]
      BY DEF Cut
<1> HIDE DEF h, l, r, b, s, t, w
<1>5. h + k \in 0..r /\ h + k + n \in 0..r /\ h + k \in Nat
      BY <1>1
<1>6. \A j \in 1 .. h + k + n : w[j] \in Int
      BY <1>1, <1>2
<1>7. \A j \in 1 .. h + k : s[j] = w[j]
      BY <1>1, <1>2
<1>8. \A j \in 1..n : w[h + k + j] = t[j]
  <2> TAKE j \in 1..n
  <2>1. h + k + j \in 1 .. h + k + n /\ ~(h + k + j <= h)
        BY <1>1
  <2> QED BY <1>1, <1>2, <2>1
<1>9. s \in [1 .. h + k -> Int] /\ w \in [1 .. h + k + n -> Int]
  <2>1. \A j \in 1 .. h + k : s[j] \in Int
        BY SMTT(30), <1>1, <1>6, <1>7
  <2> QED BY <1>4, <1>6, <2>1, ByValues
<1>10. s \o t = w
       BY <1>3, <1>5, <1>7, <1>8, <1>9, GluedInts
<1> QED BY <1>5, <1>10 DEF h, l, r, b, s, t, w

\* What a reader finds behind the header.
DataOf(f, v, n) == SubSeq(Cut(f, v, n), f.header + 1, n)

LEMMA CutData ==
  ASSUME NEW f, Planned(f), NEW v \in 1..Len(f.plan), NEW n \in 0..Room(f, v)
  PROVE  /\ Len(DataOf(f, v, n)) \in Nat /\ Len(DataOf(f, v, n)) <= f.plan[v]
         /\ Len(DataOf(f, v, n)) = f.plan[v] => n = Room(f, v)
         /\ n = Room(f, v) => /\ DataOf(f, v, n) = [j \in 1..f.plan[v] |-> Start(f, v) + j - 1]
                              /\ Len(DataOf(f, v, n)) = f.plan[v]
<1> DEFINE h == f.header
           l == f.plan[v]
           r == Room(f, v)
           b == Start(f, v)
           s == Cut(f, v, n)
           d == SubSeq(s, h + 1, n)
<1>1. h \in Nat /\ l \in Nat \ {0} /\ r \in Nat /\ b \in Nat /\ r = h + l /\ n \in 0..r
      BY Starts DEF Room
<1>2. /\ \A j \in 1..n : s[j] = Unit(f, v, j)
      /\ \A j : Unit(f, v, j) = IF j <= h THEN -1 ELSE b + j - h - 1
      /\ s = [j \in 1..n |-> s[j]]
      BY DEF Cut, Unit
<1>3. DataOf(f, v, n) = d
      BY DEF DataOf
<1> HIDE DEF h, l, r, b, s
<1>4. n \in Nat /\ \A j \in 1..n : s[j] \in Int
      BY <1>1, <1>2
<1>5. s \in [1..n -> Int]
      BY <1>2, <1>4, ByValues
<1> HIDE DEF d
<1>6. CASE n <= h
  <2>1. d = <<>>
        BY <1>1, <1>4, <1>5, <1>6, Behind DEF d
  <2> QED BY <1>1, <1>3, <1>6, <2>1 DEF h, l, r, b
<1>7. CASE n > h
  <2>1. d \in [1 .. n - h -> Int] /\ \A j \in 1 .. n - h : d[j] = s[h + j]
        BY <1>1, <1>4, <1>5, <1>7, Behind DEF d
  <2>2. Len(d) = n - h
    <3> n - h \in Nat
        BY <1>1, <1>4, <1>7
    <3> QED BY <2>1, AsSequence
  <2>3. \A j \in 1 .. n - h : d[j] = b + j - 1
    <3> TAKE j \in 1 .. n - h
    <3>1. h + j \in 1..n /\ ~(h + j <= h)
          BY <1>1, <1>4
    <3>2. d[j] = Unit(f, v, h + j)
          BY <1>2, <2>1, <3>1
    <3>3. Unit(f, v, h + j) = b + (h + j) - h - 1
          BY <1>2, <3>1
    <3> QED BY <1>1, <1>4, <3>2, <3>3
  <2>4. n = r => d = [j \in 1..l |-> b + j - 1]
        BY <1>1, <2>1, <2>3
  <2> QED BY <1>1, <1>3, <1>7, <2>2, <2>4 DEF h, l, r, b
<1> QED BY <1>1, <1>6, <1>7

-----------------------------------------------------------------------------
(***************************************************************************)
(* Uploads: the invariant.                                                 *)
(***************************************************************************)
UpShape ==
  /\ Planned(file)
  /\ folder \in BOOLEAN /\ objects \subseteq U!Volumes
  /\ vol \in 1 .. U!N + 1 /\ sent \in Nat /\ received \in Nat
  /\ item \in Seq(U!Units)
  /\ current \in {0, vol} /\ (current # 0 => current \in U!Volumes /\ sent < file.plan[current])
  /\ eof \in [U!Volumes -> BOOLEAN]
  /\ put \in [U!Volumes -> {"none", "running", "ok", "failed"}]
  /\ pending \subseteq U!Volumes /\ current \notin pending
  /\ upPc \in {"mkdir", "next", "write", "waitone", "waitall", "fail", "cleanup", "done"}
  /\ upResult \in {"open", "ok", "error", "abandoned"}
  /\ (upResult = "open") <=> (upPc # "done")

\* Whoever is still running is among those awaited or in hand.
UpPuts ==
  /\ U!Unfinished \subseteq U!WithCurrent
  /\ upPc \in {"waitone", "waitall", "fail", "cleanup"} => current = 0
  /\ upPc = "cleanup" \/ upResult \in {"ok", "error"} => U!Unfinished = {}
  /\ Cardinality(U!WithCurrent) <= MaxPending
  /\ upPc \in {"mkdir", "next", "write"} => Cardinality(pending) < MaxPending

\* A put has been sent a first part of its volume, and stores a first part of that.
Streams(v) ==
  \E m \in 0..Room(file, v) : \E k \in 0..m :
    chan[v] = Cut(file, v, m) /\ stored[v] = Cut(file, v, k)
UpStreams ==
  /\ DOMAIN chan = U!Volumes /\ DOMAIN stored = U!Volumes
  /\ \A v \in U!Volumes : Streams(v) /\ (put[v] = "none" => stored[v] = <<>>)

\* Until something fails: the volumes before the one in hand have been sent whole and
\* have been, or are, awaited; what has been read and not yet been sent is the item.
InHand == IF current = 0 THEN 0 ELSE sent
UpWriting ==
  upPc \in {"mkdir", "next", "write", "waitone", "waitall"} =>
    /\ \A v \in 1 .. vol - 1 : /\ chan[v] = Cut(file, v, Room(file, v))
                               /\ v \in pending \/ put[v] = "ok"
    /\ pending \subseteq 1 .. vol - 1
    /\ current # 0 => chan[current] = Cut(file, current, file.header + sent)
    /\ \A v \in U!Volumes : v >= vol /\ v # current => put[v] = "none"
    /\ received = Start(file, vol) + InHand + Len(item) /\ received <= file.total
    /\ item = [j \in 1..Len(item) |-> Start(file, vol) + InHand + j - 1]
    /\ upPc \in {"mkdir", "next", "waitall"} => item = <<>>
    /\ upPc = "mkdir" => current = 0 /\ vol = 1
    /\ upPc = "waitall" => vol = U!N + 1
    /\ upPc # "mkdir" => folder

\* What has been answered is there, and all of it once success is reported.
UpStored ==
  /\ upResult # "error" =>
       \A v \in U!Volumes : put[v] = "ok" => v \in objects /\ stored[v] = chan[v]
  /\ upResult = "ok" =>
       folder /\ \A v \in U!Volumes : put[v] = "ok" /\ chan[v] = Cut(file, v, Room(file, v))

UpInv == UpShape /\ UpPuts /\ UpStreams /\ UpWriting /\ UpStored


\* The pipeline's own Cardinality is that of this module.
LEMMA SameCardinality == \A p : U!Cardinality(p) = Cardinality(p)
BY DEF U!Cardinality, Cardinality, U!IsFiniteSet, IsFiniteSet

LEMMA UpFacts ==
  ASSUME UpShape
  PROVE  /\ U!N \in Nat /\ U!Volumes = 1..U!N /\ U!N = Len(file.plan)
         /\ file.total \in Nat /\ file.header \in Nat
         /\ IsFiniteSet(pending) /\ Cardinality(pending) \in Nat
         /\ IsFiniteSet(U!WithCurrent) /\ Cardinality(U!WithCurrent) \in Nat
         /\ Cardinality(U!WithCurrent) <= Cardinality(pending) + 1
         /\ U!WithCurrent \subseteq U!Volumes
         /\ current = 0 => U!WithCurrent = pending
<1>1. U!N \in Nat /\ file.total \in Nat /\ file.header \in Nat /\ MaxPending \in Nat \ {0}
      BY TransferAssumption DEF UpShape, Planned, Fits, Upload, U!N
<1>2. U!Volumes = 1..U!N /\ U!N = Len(file.plan)
      BY DEF U!Volumes, U!N
<1>3. IsFiniteSet(pending)
  <2>1. IsFiniteSet(1..U!N)
        BY <1>1, FS_Interval
  <2>2. pending \subseteq 1..U!N
        BY <1>2 DEF UpShape
  <2> QED BY <2>1, <2>2, FS_Subset
<1>4. Cardinality(pending) \in Nat
      BY <1>3, FS_CardinalityType
<1>5. U!WithCurrent = pending \/ U!WithCurrent = pending \cup {current}
      BY DEF U!WithCurrent
<1>6. /\ IsFiniteSet(pending \cup {current})
      /\ \/ Cardinality(pending \cup {current}) = Cardinality(pending)
         \/ Cardinality(pending \cup {current}) = Cardinality(pending) + 1
      BY <1>3, FS_AddElement
<1>7. U!WithCurrent \subseteq U!Volumes
      BY DEF UpShape, U!WithCurrent
<1>8. current = 0 => U!WithCurrent = pending
  <2>1. 0 \notin pending
        BY <1>1, <1>2 DEF UpShape
  <2> QED BY <2>1 DEF U!WithCurrent
<1>9. /\ IsFiniteSet(U!WithCurrent)
      /\ \/ Cardinality(U!WithCurrent) = Cardinality(pending)
         \/ Cardinality(U!WithCurrent) = Cardinality(pending) + 1
      BY <1>3, <1>5, <1>6
<1>10. Cardinality(U!WithCurrent) \in Nat /\ Cardinality(U!WithCurrent) <= Cardinality(pending) + 1
      BY <1>4, <1>9
<1> QED BY <1>1, <1>2, <1>3, <1>4, <1>7, <1>8, <1>9, <1>10

\* A step that starts no put and awaits none.
LEMMA PutsKept ==
  ASSUME UpShape, UpPuts, put' = put, file' = file, U!WithCurrent' = U!WithCurrent,
         upPc' \in {"waitone", "waitall", "fail", "cleanup"} => current' = 0,
         upPc' = "cleanup" \/ upResult' \in {"ok", "error"} => U!Unfinished = {},
         upPc' \in {"mkdir", "next", "write"} => Cardinality(pending') < MaxPending
  PROVE  UpPuts'
<1>1. U!Unfinished' = U!Unfinished
      BY DEF U!Unfinished, U!Volumes, U!N
<1> QED BY <1>1 DEF UpPuts

\* Nor does one touch what has been sent and stored.
LEMMA StreamsKept ==
  ASSUME UpStreams, UNCHANGED <<file, chan, stored, put>>
  PROVE  UpStreams'
BY DEF UpStreams, Streams, U!Volumes, U!N

LEMMA StoredKept ==
  ASSUME UpStored, UNCHANGED <<file, folder, objects, stored, chan, put>>,
         upResult' # "error" => upResult # "error", upResult' = "ok" => upResult = "ok"
  PROVE  UpStored'
BY DEF UpStored, U!Volumes, U!N

LEMMA FailStep ==
  ASSUME UpInv, U!Fail, upPc \in {"next", "write"},
         UNCHANGED <<file, folder, objects, stored, vol, sent, item, chan, put, upResult>>,
         received' \in Nat
  PROVE  UpInv'
<1>1. /\ upPc' = "fail" /\ current' = 0 /\ pending' = U!WithCurrent
      /\ eof' = U!Sealed(eof, current)
      BY DEF U!Fail
<1>2. U!WithCurrent' = U!WithCurrent
      BY <1>1 DEF U!WithCurrent
<1>3. UpShape'
  <2>1. eof' \in [U!Volumes -> BOOLEAN]
        BY <1>1 DEF U!Sealed, UpInv, UpShape
  <2>2. pending' \subseteq U!Volumes /\ 0 \notin U!Volumes
        BY <1>1, UpFacts DEF UpInv
  <2>3. U!Volumes' = U!Volumes /\ U!N' = U!N /\ U!Units' = U!Units
        BY DEF U!Volumes, U!N, U!Units
  <2>4. upResult = "open" /\ upResult' = "open"
        BY DEF UpInv, UpShape
  <2> QED BY <1>1, <2>1, <2>2, <2>3, <2>4 DEF UpInv, UpShape
<1>4. UpPuts'
      BY <1>1, <1>2, PutsKept DEF UpInv, UpShape
<1>5. UpStreams' /\ UpStored'
      BY StreamsKept, StoredKept DEF UpInv
<1> QED BY <1>1, <1>3, <1>4, <1>5 DEF UpInv, UpWriting

LEMMA NoUnits == \A e : <<>> = [j \in 1..0 |-> e] /\ Len(<<>>) = 0
OBVIOUS

LEMMA CutNone == ASSUME NEW f, NEW v PROVE Cut(f, v, 0) = <<>>
BY DEF Cut

LEMMA StartFirst == ASSUME NEW f, Planned(f) PROVE Start(f, 1) = 0
<1>1. f.plan \in [1..Len(f.plan) -> Nat \ {0}] /\ Len(f.plan) \in Nat
      BY DEF Planned, Fits
<1> DEFINE p == f.plan
           m == Len(p)
<1>2. p \in [1..m -> Int] /\ m \in Nat
      BY <1>1
<1> HIDE DEF p, m
<1>3. U!SumTo(p, 0) = 0
      BY <1>2, SumSteps
<1> QED BY <1>3 DEF Start, p

LEMMA StartOK ==
  ASSUME NEW f, Planned(f), NEW v \in 1 .. Len(f.plan) + 1
  PROVE  Start(f, v) \in Nat
<1>1. Len(f.plan) \in Nat
      BY DEF Planned, Fits
<1>2. CASE v \in 1..Len(f.plan)
      BY <1>2, Starts
<1>3. CASE v = Len(f.plan) + 1 /\ Len(f.plan) # 0
  <2>1. PICK m \in Nat : m = Len(f.plan) /\ m \in 1..Len(f.plan) /\ v = m + 1
        BY <1>1, <1>3
  <2>2. Start(f, m + 1) = Start(f, m) + f.plan[m] /\ Start(f, m) \in Nat /\ f.plan[m] \in Nat
        BY <2>1, Starts
  <2> QED BY <2>1, <2>2
<1>4. CASE v = 1
      BY <1>4, StartFirst
<1> QED BY <1>1, <1>2, <1>3, <1>4

LEMMA FullSize ==
  ASSUME NEW f, Planned(f)
  PROVE  Start(f, Len(f.plan) + 1) = f.total
<1>1. Len(f.plan) \in Nat /\ U!SumTo(f.plan, Len(f.plan)) = f.total
      BY DEF Planned, Fits
<1>2. (Len(f.plan) + 1) - 1 = Len(f.plan)
      BY <1>1
<1> QED BY <1>1, <1>2 DEF Start

LEMMA UpInitially == U!Init => UpInv
<1> SUFFICES ASSUME U!Init PROVE UpInv
    OBVIOUS
<1>1. PICK f \in Files : \E plan \in U!VolumePlans(f) :
        file = [total |-> f.total, split |-> f.split, max |-> f.max,
                random |-> f.random, header |-> f.header, plan |-> plan]
      BY DEF U!Init
<1>. PICK plan \in U!VolumePlans(f) :
        file = [total |-> f.total, split |-> f.split, max |-> f.max,
                random |-> f.random, header |-> f.header, plan |-> plan]
      BY <1>1
<1>2. Upload(f) /\ Fits(f, plan)
  <2>1. f \in [total : Nat, split : BOOLEAN, max : Nat, random : BOOLEAN, header : Nat]
        BY TransferAssumption
  <2>2. Upload(f)
        BY <2>1 DEF Upload
  <2> QED BY <2>2, PlansFit
<1>3. /\ file.total = f.total /\ file.split = f.split /\ file.max = f.max
      /\ file.random = f.random /\ file.header = f.header /\ file.plan = plan
      OBVIOUS
<1>4. Planned(file)
      BY <1>2, <1>3 DEF Planned, Upload, Fits
<1>5. U!N \in Nat /\ U!Volumes = 1..U!N
      BY <1>4 DEF Planned, Fits, U!N, U!Volumes
<1>6. /\ folder = FALSE /\ objects = {} /\ stored = [v \in U!Volumes |-> <<>>]
      /\ vol = 1 /\ sent = 0 /\ received = 0 /\ item = <<>> /\ current = 0
      /\ chan = [v \in U!Volumes |-> <<>>] /\ eof = [v \in U!Volumes |-> FALSE]
      /\ put = [v \in U!Volumes |-> "none"] /\ pending = {}
      /\ upPc = "mkdir" /\ upResult = "open"
      BY DEF U!Init
<1>7. UpShape
  <2>1. item \in Seq(U!Units) /\ vol \in 1 .. U!N + 1 /\ sent \in Nat /\ received \in Nat
        BY <1>5, <1>6
  <2>2. /\ eof \in [U!Volumes -> BOOLEAN]
        /\ put \in [U!Volumes -> {"none", "running", "ok", "failed"}]
        BY <1>6
  <2>3. folder \in BOOLEAN /\ objects \subseteq U!Volumes /\ pending \subseteq U!Volumes /\ current \notin pending
        BY <1>6
  <2> QED BY <1>4, <1>6, <2>1, <2>2, <2>3 DEF UpShape
<1>8. UpPuts
  <2>1. U!Unfinished = {}
        BY <1>6 DEF U!Unfinished
  <2>2. U!WithCurrent = {}
        BY <1>6 DEF U!WithCurrent
  <2>3. Cardinality({}) = 0
        BY FS_EmptySet
  <2>4. MaxPending \in Nat \ {0}
        BY TransferAssumption
  <2> QED BY <1>6, <2>1, <2>2, <2>3, <2>4 DEF UpPuts
<1>9. UpStreams
  <2>1. ASSUME NEW v \in U!Volumes PROVE Streams(v) /\ stored[v] = <<>>
    <3>1. chan[v] = Cut(file, v, 0) /\ stored[v] = Cut(file, v, 0)
          BY <1>6, CutNone
    <3>2. 0 \in 0..Room(file, v) /\ 0 \in 0..0
          BY <1>4, <1>5, Starts DEF U!N
    <3> QED BY <1>6, <3>1, <3>2 DEF Streams
  <2> QED BY <1>6, <2>1 DEF UpStreams
<1>10. UpWriting
  <2>1. Start(file, vol) = 0 /\ InHand = 0 /\ Len(item) = 0
        BY <1>4, <1>6, StartFirst DEF InHand
  <2>2. received = Start(file, vol) + InHand + Len(item) /\ received <= file.total
        BY <1>4, <1>6, <2>1 DEF Planned, Upload
  <2>3. item = [j \in 1..Len(item) |-> Start(file, vol) + InHand + j - 1]
        BY <1>6, <2>1
  <2>4. \A v \in 1 .. vol - 1 : FALSE
        BY <1>6
  <2> QED BY <1>6, <2>2, <2>3, <2>4 DEF UpWriting
<1>11. UpStored
       BY <1>6 DEF UpStored
<1> QED BY <1>7, <1>8, <1>9, <1>10, <1>11 DEF UpInv

LEMMA MakeFolderStep == ASSUME UpInv, U!MakeFolder PROVE UpInv'
<1>1. /\ upPc = "mkdir" /\ upPc' \in {"waitall", "next", "cleanup"}
      /\ upPc' = "waitall" => file.total = 0
      /\ upPc' \in {"waitall", "next"} => folder'
      /\ folder' \in BOOLEAN
      /\ UNCHANGED <<file, objects, stored, vol, sent, received, item, current, chan, eof, put, pending, upResult>>
      BY DEF U!MakeFolder, U!progress, U!puts
<1>2. /\ current = 0 /\ vol = 1 /\ item = <<>> /\ upResult = "open"
      /\ \A v \in U!Volumes : put[v] = "none"
      BY <1>1, UpFacts DEF UpInv, UpWriting, UpShape
<1>3. U!Unfinished = {} /\ Cardinality(pending) < MaxPending
      BY <1>1, <1>2 DEF U!Unfinished, UpInv, UpPuts
<1>4. UpShape'
      BY <1>1, <1>2 DEF UpInv, UpShape, U!Volumes, U!N, U!Units
<1>5. UpPuts'
  <2>1. U!WithCurrent' = U!WithCurrent
        BY <1>1 DEF U!WithCurrent
  <2> QED BY <1>1, <1>2, <1>3, <2>1, PutsKept DEF UpInv
<1>6. UpStreams'
      BY <1>1, StreamsKept DEF UpInv
<1>7. upPc' = "waitall" => vol = U!N + 1
  <2> SUFFICES ASSUME file.total = 0, U!N # 0 PROVE FALSE
      BY <1>1, <1>2
  <2>1. 1 \in 1..Len(file.plan)
        BY UpFacts DEF UpInv
  <2>2. Start(file, 1 + 1) \in Nat /\ Start(file, 1 + 1) <= file.total /\ Start(file, 1) \in Nat
        /\ Start(file, 1 + 1) = Start(file, 1) + file.plan[1] /\ file.plan[1] \in Nat \ {0}
        BY <2>1, Starts DEF UpInv, UpShape
  <2> QED BY <2>2
<1>8. UpWriting'
  <2>1. InHand' = InHand /\ U!Volumes' = U!Volumes /\ U!N' = U!N
        BY <1>1 DEF InHand, U!Volumes, U!N
  <2> QED BY <1>1, <1>2, <1>7, <2>1 DEF UpInv, UpWriting
<1>9. UpStored'
      BY <1>1, <1>2 DEF UpInv, UpStored, U!Volumes, U!N
<1> QED BY <1>4, <1>5, <1>6, <1>8, <1>9 DEF UpInv

LEMMA UpBodyItemStep == ASSUME UpInv, NEW n \in 1..MaxItem, U!BodyItem(n) PROVE UpInv'
<1>1. /\ upPc = "next" /\ received' = received + n
      /\ UNCHANGED <<file, folder, objects, stored, vol, sent, chan, put, upResult>>
      BY DEF U!BodyItem, U!cloud
<1>2. n \in Nat \ {0} /\ received' \in Nat
      BY <1>1, TransferAssumption DEF UpInv, UpShape
<1>3. CASE received + n > file.total
  <2>1. U!Fail /\ item' = item
        BY <1>3 DEF U!BodyItem
  <2> QED BY <1>1, <1>2, <2>1, FailStep
<1>4. CASE ~(received + n > file.total)
  <2>1. /\ item' = [i \in 1..n |-> received + i - 1] /\ upPc' = "write"
        /\ UNCHANGED <<eof, pending, current>>
        BY <1>4 DEF U!BodyItem
  <2>2. received \in Nat /\ file.total \in Nat /\ received + n <= file.total /\ U!Units = -1 .. file.total - 1
        BY <1>2, <1>4, UpFacts DEF UpInv, UpShape, U!Units
  <2>3. item' \in [1..n -> U!Units]
        BY <1>2, <2>1, <2>2
  <2>4. item' \in Seq(U!Units) /\ Len(item') = n
        BY <1>2, <2>3, AsSequence
  <2>5. UpShape'
        BY <1>1, <1>2, <2>1, <2>4 DEF UpInv, UpShape, U!Volumes, U!N, U!Units
  <2>6. UpPuts'
    <3>1. U!WithCurrent' = U!WithCurrent
          BY <2>1 DEF U!WithCurrent
    <3> QED BY <1>1, <2>1, <3>1, PutsKept DEF UpInv, UpPuts, UpShape
  <2>7. UpWriting'
    <3>1. InHand' = InHand /\ U!Volumes' = U!Volumes /\ U!N' = U!N
          BY <1>1, <2>1 DEF InHand, U!Volumes, U!N
    <3>2. item = <<>> /\ received = Start(file, vol) + InHand + Len(item) /\ Len(<<>>) = 0
          BY <1>1, NoUnits DEF UpInv, UpWriting
    <3>3. received = Start(file, vol) + InHand
      <4>1. InHand \in Nat
            BY DEF InHand, UpInv, UpShape
      <4>2. Start(file, vol) \in Int
        <5>1. vol \in 1 .. U!N + 1 /\ U!N \in Nat /\ U!N = Len(file.plan) /\ Planned(file)
              BY UpFacts DEF UpInv, UpShape
        <5> QED BY <5>1, StartOK
      <4> QED BY <3>2, <4>1, <4>2
    <3>4. item' = [j \in 1..n |-> Start(file, vol) + InHand + j - 1]
          BY <2>1, <3>3
    <3> QED BY <1>1, <2>1, <2>2, <2>4, <3>1, <3>3, <3>4 DEF UpInv, UpWriting
  <2> QED BY <1>1, <2>1, <2>5, <2>6, <2>7, StreamsKept, StoredKept DEF UpInv
<1> QED BY <1>3, <1>4

LEMMA BodyErrorStep == ASSUME UpInv, U!BodyError PROVE UpInv'
BY FailStep DEF U!BodyError, U!cloud, UpInv, UpShape

LEMMA SendFailsStep == ASSUME UpInv, U!SendFails PROVE UpInv'
BY FailStep DEF U!SendFails, U!cloud, UpInv, UpShape

LEMMA BodyEndStep == ASSUME UpInv, U!BodyEnd PROVE UpInv'
<1>1. /\ upPc = "next"
      /\ UNCHANGED <<file, folder, objects, stored, vol, sent, received, item, chan, put, upResult>>
      BY DEF U!BodyEnd, U!cloud
<1>2. CASE received # file.total
      BY <1>1, <1>2, FailStep DEF U!BodyEnd, UpInv, UpShape
<1>3. CASE received = file.total
  <2>1. current = 0 /\ vol = U!N + 1
    <3>1. item = <<>> /\ received = Start(file, vol) + InHand + Len(item) /\ Len(<<>>) = 0
          BY <1>1, NoUnits DEF UpInv, UpWriting
    <3>2. vol \in 1 .. U!N + 1 /\ U!N \in Nat /\ U!N = Len(file.plan) /\ Planned(file) /\ InHand \in Nat
          BY UpFacts DEF UpInv, UpShape, InHand
    <3>3. Start(file, vol) \in Int /\ file.total = Start(file, vol) + InHand
          BY <1>3, <3>1, <3>2, StartOK
    <3>4. vol \in 1..U!N => InHand < file.plan[vol]
      <4> SUFFICES ASSUME vol \in 1..U!N PROVE InHand < file.plan[vol]
          OBVIOUS
      <4>1. file.plan[vol] \in Nat \ {0}
            BY <3>2, Starts
      <4> QED BY <4>1 DEF InHand, UpInv, UpShape
    <3>5. vol \notin 1..U!N
      <4> SUFFICES ASSUME vol \in 1..U!N PROVE FALSE
          OBVIOUS
      <4>1. /\ Start(file, vol + 1) = Start(file, vol) + file.plan[vol] /\ Start(file, vol) \in Nat
            /\ Start(file, vol + 1) <= file.total /\ file.plan[vol] \in Nat
            BY <3>2, Starts
      <4> QED BY <3>2, <3>3, <3>4, <4>1
    <3>6. current = 0
          BY <3>5, UpFacts DEF UpInv, UpShape
    <3> QED BY <3>2, <3>5, <3>6
  <2>2. /\ eof' = eof /\ pending' = pending /\ current' = 0 /\ upPc' = "waitall"
    <3>1. U!WithCurrent = pending
          BY <2>1, UpFacts DEF UpInv
    <3> QED BY <1>3, <2>1, <3>1 DEF U!BodyEnd, U!Sealed
  <2>3. InHand' = InHand /\ U!Volumes' = U!Volumes /\ U!N' = U!N /\ U!Units' = U!Units
        BY <1>1, <2>1, <2>2 DEF InHand, U!Volumes, U!N, U!Units
  <2>4. UpShape'
        BY <1>1, <2>1, <2>2, <2>3 DEF UpInv, UpShape
  <2>5. UpPuts'
    <3>1. U!WithCurrent' = U!WithCurrent
          BY <2>1, <2>2 DEF U!WithCurrent
    <3> QED BY <1>1, <2>2, <3>1, PutsKept DEF UpInv, UpShape
  <2>6. UpWriting'
        BY <1>1, <2>1, <2>2, <2>3 DEF UpInv, UpWriting
  <2> QED BY <1>1, <2>4, <2>5, <2>6, StreamsKept, StoredKept DEF UpInv
<1> QED BY <1>2, <1>3

\* A step in the same volume, item and put, from one place of the program to another.
LEMMA PcStep ==
  ASSUME UpInv, upResult = "open", NEW q, upPc' = q,
         UNCHANGED <<file, folder, objects, stored, vol, sent, received, item, current, chan, eof, put>>,
         pending' \subseteq pending, upResult' \in {"open", "ok"}, upResult' = "ok" <=> q = "done",
         q \in {"next", "write", "fail", "cleanup", "done"},
         U!Unfinished \subseteq pending' \cup ({current} \ {0}),
         q \in {"fail", "cleanup", "done"} => current = 0,
         q \in {"cleanup", "done"} => U!Unfinished = {},
         q \in {"next", "write"} =>
            /\ Cardinality(pending') < MaxPending /\ upPc \in {"next", "write", "waitone"}
            /\ \A v \in pending \ pending' : put[v] = "ok"
            /\ q = "next" => item = <<>>,
         q = "done" => /\ upPc = "waitall" /\ pending' = pending
                       /\ \A v \in pending : put[v] = "ok"
  PROVE  UpInv'
<1>1. U!Volumes' = U!Volumes /\ U!N' = U!N /\ U!Units' = U!Units /\ InHand' = InHand
      BY DEF U!Volumes, U!N, U!Units, InHand
<1>2. UpShape'
      BY <1>1 DEF UpInv, UpShape
<1>3. UpPuts'
  <2>1. U!WithCurrent' \subseteq U!WithCurrent
        BY DEF U!WithCurrent
  <2>2. /\ IsFiniteSet(U!WithCurrent) /\ Cardinality(U!WithCurrent) \in Nat
        /\ Cardinality(U!WithCurrent) <= MaxPending /\ MaxPending \in Nat
        BY UpFacts, TransferAssumption DEF UpInv, UpPuts
  <2>3. Cardinality(U!WithCurrent') <= MaxPending
    <3>1. IsFiniteSet(U!WithCurrent') /\ Cardinality(U!WithCurrent') <= Cardinality(U!WithCurrent)
          BY <2>1, <2>2, FS_Subset
    <3>2. Cardinality(U!WithCurrent') \in Nat
          BY <3>1, FS_CardinalityType
    <3> QED BY <2>2, <3>1, <3>2
  <2>4. U!Unfinished' = U!Unfinished
        BY <1>1 DEF U!Unfinished
  <2>5. U!Unfinished \subseteq U!WithCurrent'
        BY DEF U!WithCurrent
  <2> QED BY <2>3, <2>4, <2>5 DEF UpPuts, UpInv, UpShape
<1>4. UpStreams'
      BY StreamsKept DEF UpInv
<1>5. UpWriting'
  <2> SUFFICES ASSUME q \in {"next", "write"} PROVE UpWriting'
      BY DEF UpWriting
  <2>1. upPc \in {"next", "write", "waitone"}
        OBVIOUS
  <2>2. \A v \in pending : v \in pending' \/ put[v] = "ok"
        OBVIOUS
  <2> QED BY <1>1, <2>1, <2>2 DEF UpInv, UpWriting
<1>6. UpStored'
  <2>1. CASE q # "done"
        BY <2>1, StoredKept DEF UpInv
  <2>2. CASE q = "done"
    <3>1. vol = U!N + 1 /\ folder
          BY <2>2 DEF UpInv, UpWriting
    <3>2. \A v \in 1 .. vol - 1 : put[v] = "ok" /\ chan[v] = Cut(file, v, Room(file, v))
          BY <2>2 DEF UpInv, UpWriting
    <3>3. \A v \in U!Volumes : v \in 1 .. vol - 1
          BY <3>1, UpFacts DEF UpInv
    <3> QED BY <1>1, <2>2, <3>1, <3>2, <3>3 DEF UpInv, UpStored
  <2> QED BY <2>1, <2>2
<1> QED BY <1>2, <1>3, <1>4, <1>5, <1>6 DEF UpInv

LEMMA ItemWrittenStep == ASSUME UpInv, U!ItemWritten PROVE UpInv'
<1>1. /\ upPc = "write" /\ item = <<>> /\ upPc' = "next" /\ pending' = pending /\ upResult' = upResult
      /\ UNCHANGED <<file, folder, objects, stored, vol, sent, received, item, current, chan, eof, put>>
      BY DEF U!ItemWritten, U!cloud, U!progress, U!puts
<1>2. upResult = "open"
      BY <1>1 DEF UpInv, UpShape
<1>3. U!Unfinished \subseteq pending \cup ({current} \ {0}) /\ Cardinality(pending) < MaxPending
      BY <1>1 DEF UpInv, UpPuts, U!WithCurrent
<1> QED BY <1>1, <1>2, <1>3, PcStep

LEMMA WaitOneStep == ASSUME UpInv, NEW v \in U!Volumes, U!WaitOne(v) PROVE UpInv'
<1>1. /\ upPc = "waitone" /\ v \in pending /\ put[v] # "running" /\ pending' = pending \ {v}
      /\ upPc' = IF put[v] = "ok" THEN "write" ELSE "fail"
      /\ UNCHANGED <<file, folder, objects, stored, vol, sent, received, item, current, chan, eof, put, upResult>>
      BY DEF U!WaitOne, U!cloud, U!progress, U!puts
<1>2. upResult = "open" /\ current = 0
      BY <1>1 DEF UpInv, UpShape, UpPuts
<1>3. U!Unfinished \subseteq pending' \cup ({current} \ {0})
      BY <1>1 DEF UpInv, UpPuts, U!WithCurrent, U!Unfinished
<1>4. Cardinality(pending') < MaxPending
  <2>1. U!WithCurrent = pending /\ Cardinality(pending) <= MaxPending /\ MaxPending \in Nat
        BY <1>2, UpFacts, TransferAssumption DEF UpInv, UpPuts
  <2>2. IsFiniteSet(pending) /\ Cardinality(pending) \in Nat
        BY UpFacts DEF UpInv
  <2>3. Cardinality(pending \ {v}) = Cardinality(pending) - 1
        BY <1>1, <2>2, FS_RemoveElement
  <2> QED BY <1>1, <2>1, <2>2, <2>3
<1> QED BY <1>1, <1>2, <1>3, <1>4, PcStep

LEMMA WaitAllStep == ASSUME UpInv, U!WaitAll PROVE UpInv'
<1>1. /\ upPc = "waitall" /\ U!Answered /\ pending' = pending
      /\ IF \A v \in pending : put[v] = "ok"
         THEN upPc' = "done" /\ upResult' = "ok"
         ELSE upPc' = "cleanup" /\ upResult' = upResult
      /\ UNCHANGED <<file, folder, objects, stored, vol, sent, received, item, current, chan, eof, put>>
      BY DEF U!WaitAll, U!cloud, U!progress, U!puts
<1>2. upResult = "open" /\ current = 0
      BY <1>1 DEF UpInv, UpShape, UpPuts
<1>3. U!Unfinished = {}
      BY <1>1, <1>2 DEF UpInv, UpPuts, U!WithCurrent, U!Unfinished, U!Answered
<1> QED BY <1>1, <1>2, <1>3, PcStep

LEMMA WaitFailedStep == ASSUME UpInv, U!WaitFailed PROVE UpInv'
<1>1. /\ upPc = "fail" /\ U!Answered /\ pending' = pending /\ upPc' = "cleanup"
      /\ UNCHANGED <<file, folder, objects, stored, vol, sent, received, item, current, chan, eof, put, upResult>>
      BY DEF U!WaitFailed, U!cloud, U!progress, U!puts
<1>2. upResult = "open" /\ current = 0
      BY <1>1 DEF UpInv, UpShape, UpPuts
<1>3. U!Unfinished = {}
      BY <1>1, <1>2 DEF UpInv, UpPuts, U!WithCurrent, U!Unfinished, U!Answered
<1> QED BY <1>1, <1>2, <1>3, PcStep

LEMMA CleanupStep == ASSUME UpInv, U!Cleanup PROVE UpInv'
<1>1. /\ upPc = "cleanup" /\ upPc' = "done" /\ upResult' = "error"
      /\ folder' \in {FALSE, folder} /\ objects' \subseteq objects
      /\ UNCHANGED <<file, stored, vol, sent, received, item, current, chan, eof, put, pending>>
      BY DEF U!Cleanup, U!progress, U!puts
<1>2. UpShape'
      BY <1>1 DEF UpInv, UpShape, U!Volumes, U!N, U!Units
<1>3. UpPuts'
  <2>1. U!WithCurrent' = U!WithCurrent /\ U!Unfinished = {}
        BY <1>1 DEF U!WithCurrent, UpInv, UpPuts
  <2> QED BY <1>1, <2>1, PutsKept DEF UpInv
<1> QED BY <1>1, <1>2, <1>3, StreamsKept DEF UpInv, UpWriting, UpStored

LEMMA AbandonStep == ASSUME UpInv, U!Abandon PROVE UpInv'
<1>1. /\ upPc # "done" /\ eof' = [v \in U!Volumes |-> TRUE] /\ upPc' = "done" /\ upResult' = "abandoned"
      /\ UNCHANGED <<file, folder, objects, stored, vol, sent, received, item, current, chan, put, pending>>
      BY DEF U!Abandon, U!cloud, U!progress
<1>2. UpShape'
  <2>1. U!Volumes' = U!Volumes /\ U!N' = U!N /\ U!Units' = U!Units
        BY <1>1 DEF U!Volumes, U!N, U!Units
  <2>2. eof' \in [U!Volumes -> BOOLEAN]
        BY <1>1
  <2> QED BY <1>1, <2>1, <2>2 DEF UpInv, UpShape
<1>3. UpPuts'
  <2>1. U!WithCurrent' = U!WithCurrent
        BY <1>1 DEF U!WithCurrent
  <2> QED BY <1>1, <2>1, PutsKept DEF UpInv
<1>4. UpStored'
  <2>1. upResult = "open"
        BY <1>1 DEF UpInv, UpShape
  <2> QED BY <1>1, <2>1, StoredKept DEF UpInv
<1> QED BY <1>1, <1>2, <1>3, <1>4, StreamsKept DEF UpInv, UpWriting

\* A put that ends: its object is there, with a part of what it was sent or all of it.
LEMMA PutEnds ==
  ASSUME UpInv, NEW v \in U!Unfinished, NEW how \in {"ok", "failed"},
         put' = [put EXCEPT ![v] = how],
         UNCHANGED <<file, folder, vol, sent, received, item, current, chan, eof, pending, upPc, upResult>>,
         objects' = objects \/ objects' = objects \cup {v},
         NEW part, stored' = stored \/ stored' = [stored EXCEPT ![v] = part],
         part \in U!Prefixes(chan[v]),
         how = "ok" => v \in objects' /\ stored'[v] = chan[v]
  PROVE  UpInv'
<1>1. v \in U!Volumes /\ put[v] = "running"
      BY DEF U!Unfinished
<1>2. U!Volumes' = U!Volumes /\ U!N' = U!N /\ U!Units' = U!Units /\ InHand' = InHand
      BY DEF U!Volumes, U!N, U!Units, InHand
<1>3. put' \in [U!Volumes -> {"none", "running", "ok", "failed"}]
      BY DEF UpInv, UpShape
<1>4. \A w \in U!Volumes \ {v} : put'[w] = put[w]
      BY DEF UpInv, UpShape
<1>5. put'[v] = how
      BY <1>1 DEF UpInv, UpShape
<1>6. upPc # "cleanup" /\ upResult \notin {"ok", "error"}
      BY DEF UpInv, UpPuts
<1>7. UpShape'
      BY <1>1, <1>2, <1>3 DEF UpInv, UpShape
<1>8. UpPuts'
  <2>1. U!Unfinished' \subseteq U!Unfinished /\ U!WithCurrent' = U!WithCurrent
        BY <1>2, <1>4, <1>5 DEF U!Unfinished, U!WithCurrent
  <2> QED BY <1>6, <2>1 DEF UpInv, UpPuts
<1>9. UpStreams'
  <2>1. DOMAIN stored' = U!Volumes /\ \A w \in U!Volumes \ {v} : stored'[w] = stored[w]
        BY DEF UpInv, UpStreams
  <2>2. ASSUME NEW w \in U!Volumes \ {v}
        PROVE  Streams(w)' /\ (put'[w] = "none" => stored'[w] = <<>>)
    <3>1. Streams(w) /\ (put[w] = "none" => stored[w] = <<>>) /\ put'[w] = put[w]
          BY <1>4 DEF UpInv, UpStreams
    <3> QED BY <2>1, <3>1 DEF Streams
  <2>3. Streams(v)'
    <3>1. PICK m \in 0..Room(file, v) : \E k \in 0..m :
            chan[v] = Cut(file, v, m) /\ stored[v] = Cut(file, v, k)
          BY <1>1 DEF UpInv, UpStreams, Streams
    <3>2. v \in 1..Len(file.plan) /\ Planned(file)
          BY <1>1, UpFacts DEF UpInv, UpShape
    <3>3. Len(chan[v]) = m
          BY <3>1, <3>2, CutOK
    <3>4. PICK n \in 0..m : part = SubSeq(chan[v], 1, n)
          BY <3>3 DEF U!Prefixes
    <3>5. part = Cut(file, v, n)
      <4>1. part = SubSeq(Cut(file, v, m), 1, n)
            BY <3>1, <3>4
      <4> QED BY ONLY <3>1, <3>2, <3>4, <4>1, CutOK
    <3>6. stored'[v] = stored[v] \/ stored'[v] = part
          BY <1>1 DEF UpInv, UpStreams
    <3> QED BY <3>1, <3>5, <3>6 DEF Streams
  <2> QED BY <1>2, <1>5, <2>1, <2>2, <2>3 DEF UpInv, UpStreams
<1>10. UpWriting'
  <2> SUFFICES ASSUME upPc \in {"mkdir", "next", "write", "waitone", "waitall"} PROVE UpWriting'
      BY DEF UpWriting
  <2>1. ASSUME NEW w \in 1 .. vol - 1 PROVE w \in pending \/ put'[w] = "ok"
    <3>1. w \in U!Volumes /\ (w \in pending \/ put[w] = "ok")
          BY UpFacts DEF UpInv, UpShape, UpWriting
    <3>2. w = v => w \in pending
          BY <1>1, <3>1
    <3> QED BY <1>4, <3>1, <3>2
  <2>2. ASSUME NEW w \in U!Volumes, w >= vol, w # current PROVE put'[w] = "none"
    <3>1. put[w] = "none"
          BY <2>2 DEF UpInv, UpWriting
    <3> QED BY <1>1, <1>4, <3>1
  <2> QED BY <1>2, <2>1, <2>2 DEF UpInv, UpWriting
<1>11. UpStored'
  <2> SUFFICES ASSUME NEW w \in U!Volumes, put'[w] = "ok" PROVE w \in objects' /\ stored'[w] = chan[w]
      BY <1>2, <1>6 DEF UpStored
  <2>1. CASE w = v
        BY <1>5, <2>1
  <2>2. CASE w # v
    <3>1. w \in objects /\ stored[w] = chan[w]
          BY <1>4, <1>6, <2>2 DEF UpInv, UpStored
    <3>2. stored'[w] = stored[w]
          BY <2>2 DEF UpInv, UpStreams
    <3> QED BY <3>1, <3>2
  <2> QED BY <2>1, <2>2
<1> QED BY <1>7, <1>8, <1>9, <1>10, <1>11 DEF UpInv

LEMMA PutCommitsStep == ASSUME UpInv, NEW v \in U!Volumes, U!PutCommits(v) PROVE UpInv'
<1>1. /\ v \in U!Unfinished /\ put' = [put EXCEPT ![v] = "ok"]
      /\ objects' = objects \cup {v} /\ stored' = [stored EXCEPT ![v] = chan[v]]
      /\ UNCHANGED <<file, folder, vol, sent, received, item, current, chan, eof, pending, upPc, upResult>>
      BY DEF U!PutCommits, U!progress
<1>2. chan[v] \in U!Prefixes(chan[v]) /\ stored'[v] = chan[v]
  <2>1. PICK m \in 0..Room(file, v) : chan[v] = Cut(file, v, m)
        BY DEF UpInv, UpStreams, Streams
  <2>2. v \in 1..Len(file.plan) /\ Planned(file)
        BY UpFacts DEF UpInv, UpShape
  <2>3. Len(chan[v]) = m /\ m \in 0..m /\ SubSeq(chan[v], 1, m) = chan[v]
        BY <2>1, <2>2, CutOK
  <2>4. chan[v] \in U!Prefixes(chan[v])
        BY <2>3 DEF U!Prefixes
  <2>5. stored'[v] = chan[v]
        BY <1>1 DEF UpInv, UpStreams
  <2> QED BY <2>4, <2>5
<1> QED BY <1>1, <1>2, PutEnds

LEMMA PutFailsStep == ASSUME UpInv, NEW v \in U!Volumes, U!PutFails(v) PROVE UpInv'
<1>1. /\ v \in U!Unfinished /\ put' = [put EXCEPT ![v] = "failed"]
      /\ UNCHANGED <<file, folder, vol, sent, received, item, current, chan, eof, pending, upPc, upResult>>
      BY DEF U!PutFails, U!progress
<1>2. CASE objects' = objects /\ stored' = stored
  <2>1. PICK m \in 0..Room(file, v) : chan[v] = Cut(file, v, m)
        BY DEF UpInv, UpStreams, Streams
  <2>2. v \in 1..Len(file.plan) /\ Planned(file)
        BY UpFacts DEF UpInv, UpShape
  <2>3. Len(chan[v]) = m /\ m \in 0..m
        BY <2>1, <2>2, CutOK
  <2>4. SubSeq(chan[v], 1, m) \in U!Prefixes(chan[v])
        BY <2>3 DEF U!Prefixes
  <2> QED BY <1>1, <1>2, <2>4, PutEnds
<1>3. CASE \E part \in U!Prefixes(chan[v]) :
             objects' = objects \cup {v} /\ stored' = [stored EXCEPT ![v] = part]
      BY <1>1, <1>3, PutEnds
<1> QED BY <1>2, <1>3 DEF U!PutFails

LEMMA OpenVolumeStep == ASSUME UpInv, U!OpenVolume PROVE UpInv'
<1>1. /\ upPc = "write" /\ item # <<>> /\ current = 0 /\ current' = vol /\ sent' = 0
      /\ chan' = [chan EXCEPT ![vol] = U!HeaderUnits] /\ put' = [put EXCEPT ![vol] = "running"]
      /\ UNCHANGED <<file, folder, objects, stored, vol, received, item, eof, pending, upPc, upResult>>
      BY DEF U!OpenVolume, U!cloud
<1>2. U!Volumes' = U!Volumes /\ U!N' = U!N /\ U!Units' = U!Units
      BY <1>1 DEF U!Volumes, U!N, U!Units
<1>3. /\ U!N \in Nat /\ U!N = Len(file.plan) /\ U!Volumes = 1..U!N /\ Planned(file)
      /\ vol \in 1 .. U!N + 1 /\ file.header \in Nat /\ file.total \in Nat
      BY UpFacts DEF UpInv, UpShape
<1>4. vol \in U!Volumes
  <2>1. Len(item) \in Nat \ {0}
        BY <1>1, EmptySeq DEF UpInv, UpShape
  <2>2. InHand = 0 /\ received = Start(file, vol) + InHand + Len(item) /\ received <= file.total
        BY <1>1 DEF UpInv, UpWriting, InHand
  <2>3. Start(file, vol) \in Nat
        BY <1>3, StartOK
  <2>4. ASSUME vol = U!N + 1 PROVE FALSE
    <3>1. Start(file, vol) = file.total
          BY <1>3, <2>4, FullSize
    <3> QED BY <1>3, <2>1, <2>2, <3>1
  <2> QED BY <1>3, <2>4
<1>5. /\ current # vol /\ vol \notin pending /\ put[vol] = "none"
      /\ InHand' = 0 /\ InHand = 0
  <2>1. put[vol] = "none" /\ pending \subseteq 1 .. vol - 1 /\ vol # 0
        BY <1>1, <1>3, <1>4 DEF UpInv, UpWriting
  <2>2. vol \notin pending
        BY <1>3, <2>1
  <2> QED BY <1>1, <2>1, <2>2 DEF InHand
<1>6. UpShape'
  <2>1. put' \in [U!Volumes -> {"none", "running", "ok", "failed"}]
        BY <1>1 DEF UpInv, UpShape
  <2>2. file.plan[vol] \in Nat \ {0}
        BY <1>3, <1>4, Starts
  <2> QED BY <1>1, <1>2, <1>4, <1>5, <2>1, <2>2 DEF UpInv, UpShape
<1>7. UpPuts'
  <2>1. U!Unfinished' = U!Unfinished \cup {vol}
        BY <1>1, <1>2, <1>4 DEF U!Unfinished, UpInv, UpShape
  <2>2. U!WithCurrent' = pending \cup {vol} /\ U!WithCurrent = pending
        BY <1>1, <1>3, <1>4, UpFacts DEF U!WithCurrent, UpInv
  <2>3. Cardinality(pending) < MaxPending /\ Cardinality(pending) \in Nat /\ IsFiniteSet(pending)
        BY <1>1, UpFacts DEF UpInv, UpPuts
  <2>4. Cardinality(pending \cup {vol}) = Cardinality(pending) + 1
        BY <1>5, <2>3, FS_AddElement
  <2>5. MaxPending \in Nat
        BY TransferAssumption
  <2>6. Cardinality(U!WithCurrent') <= MaxPending
        BY <2>2, <2>3, <2>4, <2>5
  <2>7. upResult = "open"
        BY <1>1 DEF UpInv, UpShape
  <2> QED BY <1>1, <2>1, <2>2, <2>3, <2>6, <2>7 DEF UpInv, UpPuts
<1>8. U!HeaderUnits = Cut(file, vol, file.header)
      BY <1>3, CutHeader DEF U!HeaderUnits
<1>9. chan'[vol] = U!HeaderUnits /\ \A w \in U!Volumes \ {vol} : chan'[w] = chan[w]
      BY <1>1, <1>4 DEF UpInv, UpStreams
<1>10. UpStreams'
  <2>1. ASSUME NEW w \in U!Volumes \ {vol}
        PROVE  Streams(w)' /\ (put'[w] = "none" => stored'[w] = <<>>)
    <3>1. Streams(w) /\ (put[w] = "none" => stored[w] = <<>>) /\ put'[w] = put[w]
          BY <1>1 DEF UpInv, UpStreams, UpShape
    <3> QED BY <1>1, <1>9, <3>1 DEF Streams
  <2>2. ASSUME NEW w, w = vol
        PROVE  Streams(w)' /\ (put'[w] = "none" => stored'[w] = <<>>)
    <3>1. file.header \in 0..Room(file, w) /\ 0 \in 0..file.header
      <4>1. Room(file, vol) \in Nat /\ file.header < Room(file, vol)
            BY <1>3, <1>4, Starts
      <4> QED BY <1>3, <2>2, <4>1
    <3>2. stored'[w] = Cut(file', w, 0)
          BY <1>1, <1>4, <1>5, <2>2, CutNone DEF UpInv, UpStreams
    <3>3. put'[w] = "running"
          BY <1>1, <1>4, <2>2 DEF UpInv, UpShape
    <3>4. chan'[w] = Cut(file', w, file.header)
          BY <1>1, <1>8, <1>9, <2>2
    <3> QED BY <1>1, <3>1, <3>2, <3>3, <3>4 DEF Streams
  <2>3. DOMAIN chan' = U!Volumes /\ DOMAIN stored' = U!Volumes
        BY <1>1 DEF UpInv, UpStreams
  <2>4. \A w \in U!Volumes : Streams(w)' /\ (put'[w] = "none" => stored'[w] = <<>>)
        BY <2>1, <2>2
  <2> QED BY <1>2, <2>3, <2>4 DEF UpStreams
<1>11. UpWriting'
  <2>1. ASSUME NEW w \in 1 .. vol - 1
        PROVE  chan'[w] = Cut(file, w, Room(file, w)) /\ (w \in pending \/ put'[w] = "ok")
    <3>1. w \in U!Volumes \ {vol}
          BY <1>3
    <3>2. put'[w] = put[w]
          BY <1>1, <3>1 DEF UpInv, UpShape
    <3> QED BY <1>1, <1>9, <3>1, <3>2 DEF UpInv, UpWriting
  <2>2. ASSUME NEW w \in U!Volumes, w >= vol, w # vol PROVE put'[w] = "none"
    <3>1. put'[w] = put[w] /\ w # current
          BY <1>1, <1>3, <2>2 DEF UpInv, UpShape
    <3> QED BY <1>1, <2>2, <3>1 DEF UpInv, UpWriting
  <2>3. file.header + sent' = file.header
        BY <1>1, <1>3
  <2> QED BY <1>1, <1>2, <1>5, <1>8, <1>9, <2>1, <2>2, <2>3 DEF UpInv, UpWriting
<1>12. UpStored'
  <2>1. ASSUME NEW w \in U!Volumes, put'[w] = "ok" PROVE w \in objects /\ stored[w] = chan'[w]
    <3>1. w # vol
          BY <1>1, <2>1 DEF UpInv, UpShape
    <3>2. put[w] = "ok"
          BY <1>1, <2>1, <3>1 DEF UpInv, UpShape
    <3>3. upResult = "open"
          BY <1>1 DEF UpInv, UpShape
    <3> QED BY <1>9, <3>1, <3>2, <3>3 DEF UpInv, UpStored
  <2>2. upResult = "open"
        BY <1>1 DEF UpInv, UpShape
  <2> QED BY <1>1, <1>2, <2>1, <2>2 DEF UpStored
<1> QED BY <1>6, <1>7, <1>10, <1>11, <1>12 DEF UpInv

\* Cutting off the front of a run of units.
LEMMA RunCut ==
  ASSUME NEW b \in Nat, NEW n \in Nat, NEW take \in 0..n, NEW run, run = [j \in 1..n |-> b + j - 1]
  PROVE  /\ SubSeq(run, 1, take) = [j \in 1..take |-> b + j - 1]
         /\ SubSeq(run, take + 1, n) = [j \in 1 .. n - take |-> b + take + j - 1]
<1>1. run \in [1..n -> Int] /\ \A j \in 1..n : run[j] = b + j - 1
      OBVIOUS
<1>2. /\ SubSeq(run, 1, take) = [j \in 1..take |-> run[j]]
      /\ SubSeq(run, take + 1, n) = [j \in 1 .. n - take |-> run[take + j]]
      BY <1>1, Halves
<1>3. \A j \in 1..take : run[j] = b + j - 1
      BY <1>1
<1>4. \A j \in 1 .. n - take : run[take + j] = b + take + j - 1
  <2> TAKE j \in 1 .. n - take
  <2>1. take + j \in 1..n /\ b + (take + j) - 1 = b + take + j - 1
        OBVIOUS
  <2> QED BY <1>1, <2>1
<1> QED BY <1>2, <1>3, <1>4

LEMMA SendPieceStep == ASSUME UpInv, U!SendPiece PROVE UpInv'
<1> DEFINE take == U!Lower(file.plan[vol] - sent, Len(item))
           full == sent + take = file.plan[vol]
           sealed == IF full THEN U!WithCurrent ELSE pending
<1>1. /\ upPc = "write" /\ item # <<>> /\ current # 0 /\ put[current] = "running"
      /\ chan' = [chan EXCEPT ![current] = chan[current] \o SubSeq(item, 1, take)]
      /\ item' = SubSeq(item, take + 1, Len(item))
      /\ sent' = sent + take
      /\ eof' = IF full THEN U!Sealed(eof, current) ELSE eof
      /\ pending' = sealed
      /\ current' = IF full THEN 0 ELSE current
      /\ vol' = IF full THEN vol + 1 ELSE vol
      /\ upPc' = IF full /\ U!MustWait(sealed) THEN "waitone" ELSE "write"
      /\ UNCHANGED <<file, folder, objects, stored, received, put, upResult>>
      BY DEF U!SendPiece, U!cloud, UpInv, UpStreams, UpShape
<1>2. U!Volumes' = U!Volumes /\ U!N' = U!N /\ U!Units' = U!Units
      BY <1>1 DEF U!Volumes, U!N, U!Units
<1>3. /\ U!N \in Nat /\ U!N = Len(file.plan) /\ U!Volumes = 1..U!N /\ Planned(file)
      /\ file.header \in Nat /\ file.total \in Nat
      BY UpFacts DEF UpInv, UpShape
<1>4. current = vol /\ vol \in 1..U!N /\ sent < file.plan[vol] /\ sent \in Nat /\ upResult = "open"
      BY <1>1, <1>3 DEF UpInv, UpShape
<1>5. /\ file.plan[vol] \in Nat \ {0} /\ Start(file, vol) \in Nat
      /\ Start(file, vol + 1) = Start(file, vol) + file.plan[vol]
      BY <1>3, <1>4, Starts
<1>6. Len(item) \in Nat \ {0}
      BY <1>1, EmptySeq DEF UpInv, UpShape
<1>7. /\ received = Start(file, vol) + sent + Len(item) /\ received <= file.total
      /\ item = [j \in 1..Len(item) |-> Start(file, vol) + sent + j - 1]
      BY <1>1 DEF UpInv, UpWriting, InHand
<1>8. take \in 0..Len(item) /\ take \in Nat \ {0} /\ sent + take <= file.plan[vol]
      BY <1>4, <1>5, <1>6 DEF U!Lower
<1> HIDE DEF take
<1>9. /\ SubSeq(item, 1, take) = [j \in 1..take |-> Start(file, vol) + sent + j - 1]
      /\ item' = [j \in 1 .. Len(item) - take |-> Start(file, vol) + sent + take + j - 1]
  <2>1. Start(file, vol) + sent \in Nat
        BY <1>4, <1>5
  <2> QED BY <1>1, <1>6, <1>7, <1>8, <2>1, RunCut
<1>10. Len(item) - take \in Nat /\ Len(item') = Len(item) - take /\ item' \in Seq(U!Units)
  <2>1. Len(item) - take \in Nat
        BY <1>6, <1>8
  <2>2. \A j \in 1 .. Len(item) - take : Start(file, vol) + sent + take + j - 1 \in U!Units
    <3> TAKE j \in 1 .. Len(item) - take
    <3>1. Start(file, vol) + sent + take + j - 1 <= file.total - 1
          BY SMTT(30), <1>3, <1>4, <1>5, <1>6, <1>7, <1>8
    <3> QED BY SMTT(30), <1>3, <1>4, <1>5, <1>8, <3>1 DEF U!Units
  <2>3. item' \in [1 .. Len(item) - take -> U!Units]
        BY <1>9, <2>2
  <2> QED BY <2>1, <2>3, AsSequence
<1>11. /\ chan'[vol] = Cut(file, vol, file.header + sent + take)
       /\ file.header + sent + take \in 0..Room(file, vol)
       /\ file.header + sent \in 0..Room(file, vol)
       /\ \A w \in U!Volumes \ {vol} : chan'[w] = chan[w]
       /\ DOMAIN chan' = U!Volumes
  <2>1. chan[vol] = Cut(file, vol, file.header + sent)
        BY <1>1, <1>4 DEF UpInv, UpWriting
  <2>2. /\ Cut(file, vol, file.header + sent) \o [j \in 1..take |-> Start(file, vol) + sent + j - 1]
             = Cut(file, vol, file.header + sent + take)
        /\ file.header + sent + take \in 0..Room(file, vol)
        /\ file.header + sent \in 0..Room(file, vol)
        BY <1>3, <1>4, <1>8, CutGrows
  <2>3. DOMAIN chan = U!Volumes
        BY DEF UpInv, UpStreams
  <2> QED BY <1>1, <1>3, <1>4, <1>9, <2>1, <2>2, <2>3
<1>12. U!WithCurrent' = U!WithCurrent /\ sealed \subseteq U!Volumes
  <2>1. 0 \notin pending
        BY <1>3 DEF UpInv, UpShape
  <2>2. CASE full
        BY <1>1, <2>2, UpFacts DEF U!WithCurrent, UpInv
  <2>3. CASE ~full
        BY <1>1, <2>3 DEF U!WithCurrent, UpInv, UpShape
  <2> QED BY <2>2, <2>3
<1>13. UpShape'
  <2>1. sent' \in Nat /\ vol' \in 1 .. U!N + 1
        BY SMTT(30), <1>1, <1>3, <1>4, <1>8
  <2>2. eof' \in [U!Volumes -> BOOLEAN]
        BY <1>1 DEF UpInv, UpShape, U!Sealed
  <2>3. /\ current' \in {0, vol'}
        /\ current' # 0 => current' \in U!Volumes /\ sent' < file.plan[current']
    <3>1. CASE full
          BY <1>1, <3>1
    <3>2. CASE ~full
      <4>1. sent + take < file.plan[vol]
            BY <1>4, <1>5, <1>8, <3>2
      <4> QED BY <1>1, <1>3, <1>4, <3>2, <4>1
    <3> QED BY <3>1, <3>2
  <2>4. current' \notin pending'
    <3>1. 0 \notin U!Volumes
          BY <1>3
    <3> QED BY <1>1, <1>12, <3>1 DEF UpInv, UpShape
  <2> QED BY <1>1, <1>2, <1>10, <1>12, <2>1, <2>2, <2>3, <2>4 DEF UpInv, UpShape
<1>14. UpPuts'
  <2>1. upPc' = "waitone" => current' = 0
        BY <1>1
  <2>2. upPc' = "write" => Cardinality(pending') < MaxPending
    <3>1. CASE full
      <4>1. Cardinality(U!WithCurrent) \in Nat /\ MaxPending \in Nat
            BY UpFacts, TransferAssumption DEF UpInv
      <4>2. pending' = U!WithCurrent /\ (upPc' = "write" => ~U!MustWait(U!WithCurrent))
            BY <1>1, <3>1
      <4>3. ~U!MustWait(U!WithCurrent) => Cardinality(U!WithCurrent) < MaxPending
            BY <4>1, SameCardinality DEF U!MustWait
      <4> QED BY <4>2, <4>3
    <3>2. CASE ~full
          BY <1>1, <3>2 DEF UpInv, UpPuts
    <3> QED BY <3>1, <3>2
  <2>3. upPc' \in {"waitone", "write"} /\ upResult' = "open"
        BY <1>1, <1>4
  <2> QED BY <1>1, <1>12, <2>1, <2>2, <2>3, PutsKept DEF UpInv
<1>15. UpStreams'
  <2>1. ASSUME NEW w \in U!Volumes
        PROVE  Streams(w)' /\ (put'[w] = "none" => stored'[w] = <<>>)
    <3>1. Streams(w) /\ (put'[w] = "none" => stored'[w] = <<>>)
          BY <1>1 DEF UpInv, UpStreams
    <3>2. CASE w # vol
          BY <1>1, <1>11, <3>1, <3>2 DEF Streams
    <3>3. CASE w = vol
      <4> DEFINE m == file.header + sent + take
      <4>1. PICK l \in 0..Room(file, w) : \E k \in 0..l :
              chan[w] = Cut(file, w, l) /\ stored[w] = Cut(file, w, k)
            BY <3>1 DEF Streams
      <4>2. Len(chan[w]) = l
            BY <1>3, <4>1, CutOK
      <4>3. l = file.header + sent
        <5>1. chan[vol] = Cut(file, vol, file.header + sent)
              BY <1>1, <1>4 DEF UpInv, UpWriting
        <5>2. file.header + sent \in 0..Room(file, vol)
              BY <1>11
        <5>3. Len(Cut(file, vol, file.header + sent)) = file.header + sent
              BY <1>3, <1>4, <5>2, CutOK
        <5> QED BY <3>3, <4>2, <5>1, <5>3
      <4>4. PICK k \in 0..l : stored[w] = Cut(file, w, k)
            BY <4>1
      <4>5. k \in 0..m
            BY <1>3, <1>4, <1>8, <4>3
      <4>6. m \in 0..Room(file, w) /\ chan'[w] = Cut(file, w, m)
            BY <1>11, <3>3
      <4> HIDE DEF m
      <4>7. Streams(w)'
            BY <1>1, <4>4, <4>5, <4>6 DEF Streams
      <4> QED BY <3>1, <4>7
    <3> QED BY <3>2, <3>3
  <2>2. DOMAIN stored' = U!Volumes
        BY <1>1 DEF UpInv, UpStreams
  <2> QED BY <1>2, <1>11, <2>1, <2>2 DEF UpStreams
<1>16. UpWriting'
  <2>1. /\ vol' - 1 = IF full THEN vol ELSE vol - 1
        /\ pending \subseteq pending' /\ (full => vol \in pending' /\ current' = 0)
        /\ pending' \subseteq pending \cup {vol} /\ (~full => pending' = pending /\ current' = vol)
        BY <1>1, <1>4 DEF U!WithCurrent
  <2>2. ASSUME NEW w \in 1 .. vol' - 1
        PROVE  chan'[w] = Cut(file, w, Room(file, w)) /\ (w \in pending' \/ put[w] = "ok")
    <3>1. CASE w < vol
      <4>1. w \in 1 .. vol - 1 /\ w \in U!Volumes \ {vol}
            BY <1>3, <1>4, <3>1
      <4>2. chan[w] = Cut(file, w, Room(file, w)) /\ (w \in pending \/ put[w] = "ok")
            BY <1>1, <4>1 DEF UpInv, UpWriting
      <4> QED BY <1>11, <2>1, <4>1, <4>2
    <3>2. CASE ~(w < vol)
      <4>1. w = vol /\ full
            BY <1>4, <2>1, <3>2
      <4>2. Room(file, vol) = file.header + sent + take
            BY <1>3, <1>4, <1>8, <4>1 DEF Room
      <4> QED BY <1>11, <2>1, <4>1, <4>2
    <3> QED BY <3>1, <3>2
  <2>3. pending' \subseteq 1 .. vol' - 1
    <3>1. pending \subseteq 1 .. vol - 1
          BY <1>1 DEF UpInv, UpWriting
    <3> QED BY <1>4, <2>1, <3>1
  <2>4. current' # 0 => chan'[current'] = Cut(file, current', file.header + sent')
    <3> SUFFICES ASSUME current' # 0 PROVE chan'[vol] = Cut(file, vol, file.header + sent') /\ current' = vol
        OBVIOUS
    <3>1. current' = vol
          BY <2>1
    <3>2. file.header + sent' = file.header + sent + take
          BY <1>1, <1>3, <1>4, <1>8
    <3> QED BY <1>11, <3>1, <3>2
  <2>5. ASSUME NEW w \in U!Volumes, w >= vol', w # current' PROVE put'[w] = "none"
    <3>1. w >= vol /\ w # current
          BY <1>1, <1>3, <1>4, <2>1, <2>5
    <3> QED BY <1>1, <3>1 DEF UpInv, UpWriting
  <2>6. Start(file, vol') + InHand' = Start(file, vol) + sent + take
    <3>1. CASE full
      <4>1. vol' = vol + 1 /\ InHand' = 0
            BY <1>1, <3>1 DEF InHand
      <4> QED BY <1>4, <1>5, <1>8, <3>1, <4>1
    <3>2. CASE ~full
      <4>1. vol' = vol /\ InHand' = sent + take
            BY <1>1, <1>4, <3>2 DEF InHand
      <4> QED BY <1>4, <1>5, <1>8, <4>1
    <3> QED BY <3>1, <3>2
  <2>7. received = Start(file, vol') + InHand' + Len(item')
    <3>1. \A x, y, z, l \in Nat : x + y + l = (x + y + z) + (l - z)
          OBVIOUS
    <3>2. Start(file, vol) + sent + Len(item) = (Start(file, vol) + sent + take) + (Len(item) - take)
          BY <1>4, <1>5, <1>6, <1>8, <3>1
    <3> QED BY <1>7, <1>10, <2>6, <3>2
  <2>8. item' = [j \in 1..Len(item') |-> Start(file, vol') + InHand' + j - 1]
        BY <1>9, <1>10, <2>6
  <2>9. upPc' \in {"write", "waitone"} /\ folder' /\ received' = received /\ file' = file
        BY <1>1 DEF UpInv, UpWriting
  <2> QED
    BY <1>1, <1>2, <1>7, <2>2, <2>3, <2>4, <2>5, <2>7, <2>8, <2>9 DEF UpWriting
<1>17. UpStored'
  <2>1. ASSUME NEW w \in U!Volumes, put[w] = "ok" PROVE w \in objects /\ stored[w] = chan'[w]
    <3>1. w # vol
          BY <1>1, <1>4, <2>1
    <3> QED BY <1>4, <1>11, <2>1, <3>1 DEF UpInv, UpStored
  <2> QED BY <1>1, <1>2, <1>4, <2>1 DEF UpStored
<1> QED BY <1>13, <1>14, <1>15, <1>16, <1>17 DEF UpInv

LEMMA UpStep == ASSUME UpInv, [U!Next]_(U!vars) PROVE UpInv'
<1>1. CASE U!MakeFolder BY <1>1, MakeFolderStep
<1>2. CASE \E n \in 1..MaxItem : U!BodyItem(n) BY <1>2, UpBodyItemStep
<1>3. CASE U!BodyError BY <1>3, BodyErrorStep
<1>4. CASE U!BodyEnd BY <1>4, BodyEndStep
<1>5. CASE U!OpenVolume BY <1>5, OpenVolumeStep
<1>6. CASE U!SendPiece BY <1>6, SendPieceStep
<1>7. CASE U!SendFails BY <1>7, SendFailsStep
<1>8. CASE U!ItemWritten BY <1>8, ItemWrittenStep
<1>9. CASE \E v \in U!Volumes : U!WaitOne(v) BY <1>9, WaitOneStep
<1>10. CASE U!WaitAll BY <1>10, WaitAllStep
<1>11. CASE U!WaitFailed BY <1>11, WaitFailedStep
<1>12. CASE U!Cleanup BY <1>12, CleanupStep
<1>13. CASE U!Abandon BY <1>13, AbandonStep
<1>14. CASE \E v \in U!Volumes : U!PutCommits(v) BY <1>14, PutCommitsStep
<1>15. CASE \E v \in U!Volumes : U!PutFails(v) BY <1>15, PutFailsStep
<1>16. CASE UNCHANGED U!vars
  <2>1. UNCHANGED <<file, folder, objects, stored, vol, sent, received, item, current,
                    chan, eof, put, pending, upPc, upResult>>
        BY <1>16 DEF U!vars, U!cloud, U!progress, U!puts
  <2>2. U!Volumes' = U!Volumes /\ U!N' = U!N /\ U!Units' = U!Units /\ InHand' = InHand
        BY <2>1 DEF U!Volumes, U!N, U!Units, InHand
  <2>3. UpShape'
        BY <2>1, <2>2 DEF UpInv, UpShape
  <2>4. UpPuts'
        BY <2>1, <2>2 DEF UpInv, UpPuts, U!WithCurrent, U!Unfinished
  <2>5. UpStreams'
        BY <2>1, <2>2 DEF UpInv, UpStreams, Streams
  <2>6. UpWriting'
        BY <2>1, <2>2 DEF UpInv, UpWriting
  <2>7. UpStored'
        BY <2>1, <2>2 DEF UpInv, UpStored
  <2> QED BY <2>3, <2>4, <2>5, <2>6, <2>7 DEF UpInv
<1> QED
  BY <1>1, <1>2, <1>3, <1>4, <1>5, <1>6, <1>7, <1>8, <1>9, <1>10, <1>11, <1>12, <1>13, <1>14,
     <1>15, <1>16 DEF U!Next, U!Upload, U!Done

Uploaded == kind = "upload" => UpInv

LEMMA UploadedAlways == MCSpec => []Uploaded
<1>1. MCInit => Uploaded
      BY UpInitially DEF MCInit, Uploaded
<1>2. Uploaded /\ [MCNext]_all => Uploaded'
  <2> SUFFICES ASSUME Uploaded, [MCNext]_all, kind' = "upload" PROVE UpInv'
      BY DEF Uploaded
  <2>1. kind = "upload" /\ [U!Next]_(U!vars)
    <3>1. CASE Fetches \/ Copies
      <4>1. kind' = kind /\ UNCHANGED upVars
            BY <3>1 DEF Fetches, Copies
      <4> QED BY <4>1 DEF upVars, U!vars, U!cloud, U!progress, U!puts
    <3>2. CASE Uploads
          BY <3>2 DEF Uploads
    <3>3. CASE UNCHANGED all
      <4>1. kind' = kind /\ UNCHANGED upVars
            BY <3>3 DEF all
      <4> QED BY <4>1 DEF upVars, U!vars, U!cloud, U!progress, U!puts
    <3> QED BY <3>1, <3>2, <3>3 DEF MCNext
  <2> QED BY <2>1, UpStep DEF Uploaded
<1> QED BY <1>1, <1>2, PTL DEF MCSpec

(***************************************************************************)
(* MAX_PENDING_UPLOADS, and no reply while a put is left running.          *)
(***************************************************************************)
THEOREM PutsAreAwaited == MCSpec => []PutsAwaited
<1>1. Uploaded => PutsAwaited
  <2> SUFFICES ASSUME UpInv PROVE U!PutsAwaited
      BY DEF Uploaded, PutsAwaited
  <2>1. IsFiniteSet(U!WithCurrent) /\ Cardinality(U!WithCurrent) \in Nat
        BY UpFacts DEF UpInv
  <2>2. U!Unfinished \subseteq U!WithCurrent /\ Cardinality(U!WithCurrent) <= MaxPending
        BY DEF UpInv, UpPuts
  <2>3. Cardinality(U!Unfinished) \in Nat /\ Cardinality(U!Unfinished) <= Cardinality(U!WithCurrent)
        BY <2>1, <2>2, FS_Subset, FS_CardinalityType
  <2>4. Cardinality(U!Unfinished) <= MaxPending
        BY <2>1, <2>2, <2>3, TransferAssumption
  <2> QED BY <2>4, SameCardinality DEF U!PutsAwaited, UpInv, UpPuts
<1> QED BY <1>1, UploadedAlways, PTL

-----------------------------------------------------------------------------
(***************************************************************************)
(* Uploads: what a reader sees.                                            *)
(***************************************************************************)
LEMMA LeavesRun ==
  ASSUME UpShape
  PROVE  /\ U!Leaves \in 0..U!N /\ 1..U!Leaves \subseteq objects
         /\ \A m \in 0..U!N : 1..m \subseteq objects => m <= U!Leaves
<1> DEFINE runs == {n \in 0..U!N : 1..n \subseteq objects}
<1>1. U!N \in Nat
      BY UpFacts
<1>2. \E n \in runs : \A m \in runs : m <= n
  <2> SUFFICES ASSUME \A n \in runs : \E m \in runs : ~(m <= n) PROVE FALSE
      OBVIOUS
  <2>1. 0 \in runs
        BY <1>1
  <2>2. ASSUME NEW n \in Nat, n \in runs PROVE n + 1 \in runs
    <3>1. PICK m \in runs : ~(m <= n)
          BY <2>2
    <3>2. m \in 0..U!N /\ n + 1 <= m /\ 1..m \subseteq objects
          BY <1>1, <3>1
    <3>3. n + 1 \in 0..U!N /\ 1 .. n + 1 \subseteq 1..m
          BY <1>1, <3>2
    <3> QED BY <3>2, <3>3
  <2>3. U!N + 1 \in runs
    <3> HIDE DEF runs
    <3>1. Nat \subseteq runs
          BY <2>1, <2>2, Induction
    <3> QED BY <1>1, <3>1
  <2> QED BY <1>1, <2>3
<1> QED BY <1>2 DEF U!Leaves

\* An object holds a first part of its volume, and what is behind its header is short
\* of the plan unless it holds all of it.
LEMMA Held ==
  ASSUME UpInv, NEW v \in U!Volumes
  PROVE  /\ Len(U!Data(v)) \in Nat /\ Len(U!Data(v)) <= file.plan[v]
         /\ Len(U!Data(v)) = file.plan[v] \/ stored[v] = Cut(file, v, Room(file, v))
              => U!Data(v) = [j \in 1..file.plan[v] |-> Start(file, v) + j - 1] /\ Len(U!Data(v)) = file.plan[v]
<1>1. Planned(file) /\ v \in 1..Len(file.plan)
      BY UpFacts DEF UpInv, UpShape
<1>2. PICK m \in 0..Room(file, v) : \E k \in 0..m : stored[v] = Cut(file, v, k)
      BY DEF UpInv, UpStreams, Streams
<1>3. PICK k \in 0..m : stored[v] = Cut(file, v, k)
      BY <1>2
<1>4. Room(file, v) \in Nat
      BY <1>1, Starts
<1>5. k \in 0..Room(file, v) /\ Room(file, v) \in 0..Room(file, v)
      BY <1>4
<1>6. Len(Cut(file, v, k)) = k /\ Len(Cut(file, v, Room(file, v))) = Room(file, v)
      BY <1>1, <1>5, CutOK
<1>7. U!Data(v) = DataOf(file, v, k)
      BY <1>3, <1>6 DEF U!Data, DataOf
<1>8. stored[v] = Cut(file, v, Room(file, v)) => k = Room(file, v)
      BY <1>3, <1>6
<1> QED BY <1>1, <1>5, <1>7, <1>8, CutData

LEMMA AllOfIt ==
  ASSUME UpInv
  PROVE  /\ U!LayoutTotal = file.total =>
              U!Leaves = U!N /\ \A v \in U!Volumes : Len(U!Data(v)) = file.plan[v]
         /\ U!Leaves = U!N /\ (\A v \in U!Volumes : Len(U!Data(v)) = file.plan[v])
              => U!LayoutTotal = file.total
<1> DEFINE m == U!N
           l == U!Leaves
           p == file.plan
           lens == [v \in 1..l |-> Len(U!Data(v))]
<1>1. m \in Nat /\ m = Len(p) /\ U!Volumes = 1..m
      BY UpFacts DEF UpInv
<1>2. /\ p \in [1..Len(p) -> Nat \ {0}] /\ U!SumTo(p, Len(p)) = file.total
      BY DEF UpInv, UpShape, Planned, Fits
<1>3. l \in 0..m
      BY LeavesRun DEF UpInv
<1>4. \A v \in 1..l : lens[v] = Len(U!Data(v)) /\ lens[v] \in Nat /\ lens[v] <= p[v]
  <2>1. \A v \in 1..l : v \in U!Volumes
        BY <1>1, <1>3
  <2> QED BY <2>1, Held
<1>5. U!LayoutTotal = U!SumTo(lens, Len(lens))
      BY DEF U!LayoutTotal, U!SumOf
<1>6. lens = [v \in 1..l |-> lens[v]]
      OBVIOUS
<1>7. l = m /\ (\A v \in U!Volumes : Len(U!Data(v)) = p[v]) => lens = p
      BY <1>1, <1>2, <1>4, <1>6
<1> HIDE DEF m, l, lens, p
<1>8. l \in Nat /\ l <= m /\ l \in 0..l /\ l \in 0..m /\ m \in 0..m
      BY <1>1, <1>3
<1>9. lens \in [1..l -> Int] /\ Len(lens) = l
  <2>1. \A v \in 1..l : lens[v] \in Int
        BY <1>4
  <2>2. lens \in [1..l -> Int]
        BY <1>6, <2>1, ByValues
  <2> QED BY <1>8, <2>2, AsSequence
<1>10. p \in [1..m -> Int] /\ p \in [1..m -> Nat \ {0}] /\ U!SumTo(p, m) = file.total
       BY <1>1, <1>2
<1>11. /\ U!SumTo(lens, l) <= U!SumTo(p, l)
       /\ U!SumTo(lens, l) = U!SumTo(p, l) => \A v \in 1..l : lens[v] = p[v]
  <2>1. /\ l \in Nat /\ m \in Nat /\ l <= m /\ l \in 0..l
        /\ lens \in [1..l -> Int] /\ p \in [1..m -> Int] /\ \A v \in 1..l : lens[v] <= p[v]
        BY <1>1, <1>4, <1>8, <1>9, <1>10
  <2> QED BY ONLY <2>1, SumsCompare, ZenonT(40)
<1>12. l < m => U!SumTo(p, l) < U!SumTo(p, m)
       BY <1>1, <1>8, <1>10, SumsGrow
<1>13. U!SumTo(lens, l) \in Int /\ U!SumTo(p, l) \in Int /\ U!SumTo(p, m) \in Int
       BY <1>1, <1>8, <1>9, <1>10, SumSteps
<1>14. ASSUME U!LayoutTotal = file.total
       PROVE  l = m /\ \A v \in U!Volumes : Len(U!Data(v)) = p[v]
  <2>1. U!SumTo(lens, l) = U!SumTo(p, m)
        BY <1>5, <1>9, <1>10, <1>14
  <2>2. l = m
        BY <1>1, <1>8, <1>11, <1>12, <1>13, <2>1
  <2>3. \A v \in 1..l : lens[v] = p[v]
        BY <1>11, <2>1, <2>2
  <2> QED BY <1>1, <1>4, <2>2, <2>3
<1>15. ASSUME l = m, \A v \in U!Volumes : Len(U!Data(v)) = p[v]
       PROVE  U!LayoutTotal = file.total
       BY <1>5, <1>7, <1>9, <1>10, <1>15
<1> QED BY <1>14, <1>15 DEF l, m, p

LEMMA ContentIsWhole ==
  ASSUME UpInv, U!Leaves = U!N, \A v \in U!Volumes : Len(U!Data(v)) = file.plan[v]
  PROVE  U!Content = U!Whole
<1> DEFINE n == U!N
           Upto(v) == U!SumTo(file.plan, v)
           Part(v) == [j \in 1..Upto(v) |-> j - 1]
           Eq(g) == g = [v \in 0..n |-> IF v = 0 THEN <<>> ELSE g[v - 1] \o U!Data(v)]
           cat == CHOOSE g : Eq(g)
<1>1. n \in Nat /\ n = Len(file.plan) /\ U!Volumes = 1..n /\ Planned(file)
      BY UpFacts DEF UpInv, UpShape
<1>2. Upto(0) = 0 /\ Upto(n) = file.total
  <2>1. Len(file.plan) \in Nat /\ file.plan \in [1..Len(file.plan) -> Int] /\ U!SumTo(file.plan, Len(file.plan)) = file.total
        BY <1>1 DEF Planned, Fits
  <2> QED BY <1>1, <2>1, SumSteps
<1>3. ASSUME NEW v \in 1..n PROVE Part(v - 1) \o U!Data(v) = Part(v)
  <2> DEFINE a == Start(file, v)
             b == file.plan[v]
             s == [j \in 1..a |-> j - 1]
             t == [j \in 1..b |-> a + j - 1]
             w == [j \in 1 .. a + b |-> j - 1]
  <2>1. a \in Nat /\ b \in Nat /\ Start(file, v + 1) = a + b
        BY <1>1, <1>3, Starts
  <2>2. U!Data(v) = t
        BY <1>1, <1>3, Held
  <2>3. Upto(v - 1) = a /\ Upto(v) = a + b
    <3>1. (v + 1) - 1 = v
          BY <1>1, <1>3
    <3> QED BY <2>1, <3>1 DEF Start
  <2>4. Part(v - 1) = s /\ Part(v) = w
        BY <2>3
  <2> HIDE DEF a, b
  <2>5. s \in [1..a -> Int] /\ t \in [1..b -> Int] /\ w \in [1 .. a + b -> Int]
        BY <2>1
  <2>6. \A j \in 1..a : w[j] = s[j]
        BY <2>1
  <2>7. \A j \in 1..b : w[a + j] = t[j]
        BY <2>1
  <2> HIDE DEF s, t, w
  <2>8. s \o t = w
        BY <2>1, <2>5, <2>6, <2>7, GluedInts
  <2> QED BY <2>2, <2>4, <2>8
<1>4. Part(0) = <<>>
  <2>1. Part(0) = [j \in 1..0 |-> j - 1]
        BY <1>2
  <2> QED BY <2>1
<1> HIDE DEF n, Part
<1>5. Eq(cat)
  <2> DEFINE g == [v \in 0..n |-> Part(v)]
  <2>1. ASSUME NEW v \in 0..n PROVE g[v] = IF v = 0 THEN <<>> ELSE g[v - 1] \o U!Data(v)
    <3>1. CASE v = 0
          BY <1>4, <3>1
    <3>2. CASE v # 0
      <4>1. v \in 1..n /\ v - 1 \in 0..n
            BY <1>1, <3>2
      <4> QED BY <1>3, <3>2, <4>1
    <3> QED BY <3>1, <3>2
  <2>2. Eq(g)
        BY <2>1
  <2> QED BY <2>2
<1>6. /\ cat[0] = <<>>
      /\ \A v \in 1..n : cat[v] = cat[v - 1] \o U!Data(v)
  <2> HIDE DEF cat
  <2>1. \A v \in 0..n : cat[v] = IF v = 0 THEN <<>> ELSE cat[v - 1] \o U!Data(v)
        BY <1>5
  <2>2. 0 \in 0..n /\ \A v \in 1..n : v \in 0..n /\ v # 0
        BY <1>1
  <2> QED BY <2>1, <2>2
<1>7. U!Content = cat[n]
      BY DEF U!Content, cat, n
<1> HIDE DEF cat, Upto
<1>8. cat[n] = Part(n)
  <2> DEFINE T == {x \in Nat : x <= n => cat[x] = Part(x)}
  <2>1. 0 \in T
        BY <1>4, <1>6
  <2>2. ASSUME NEW x \in Nat, x \in T PROVE x + 1 \in T
    <3> SUFFICES ASSUME x + 1 <= n PROVE cat[x + 1] = Part(x + 1)
        OBVIOUS
    <3>1. x + 1 \in 1..n /\ (x + 1) - 1 = x /\ x <= n
          BY <1>1
    <3>2. cat[x] = Part(x)
          BY <2>2, <3>1
    <3>3. cat[x + 1] = cat[x] \o U!Data(x + 1) /\ Part(x) \o U!Data(x + 1) = Part(x + 1)
      <4>1. /\ cat[x + 1] = cat[(x + 1) - 1] \o U!Data(x + 1)
            /\ Part((x + 1) - 1) \o U!Data(x + 1) = Part(x + 1)
            BY <1>3, <1>6, <3>1
      <4> QED BY <3>1, <4>1
    <3> QED BY <3>2, <3>3
  <2> HIDE DEF T
  <2>3. n \in T
        BY <1>1, <2>1, <2>2, Induction
  <2> QED BY <1>1, <2>3 DEF T
<1>9. Part(n) = U!Whole
      BY <1>2 DEF Part, U!Whole
<1> QED BY <1>7, <1>8, <1>9

(***************************************************************************)
(* Whenever a reader looks: what passes its check is the whole file, and   *)
(* what was reported stored passes it.                                     *)
(***************************************************************************)
THEOREM ReadersFindWholeFiles == MCSpec => []WholeOrNothing
<1>1. Uploaded => WholeOrNothing
  <2> SUFFICES ASSUME UpInv PROVE U!WholeOrNothing
      BY DEF Uploaded, WholeOrNothing
  <2>1. U!Readable => U!Content = U!Whole
        BY AllOfIt, ContentIsWhole DEF U!Readable
  <2>2. ASSUME upResult = "ok" PROVE U!Readable
    <3>1. /\ folder
          /\ \A v \in U!Volumes : v \in objects /\ stored[v] = Cut(file, v, Room(file, v))
          BY <2>2 DEF UpInv, UpStored
    <3>2. U!Leaves = U!N
      <4>1. U!N \in Nat /\ U!Volumes = 1..U!N
            BY UpFacts DEF UpInv
      <4>2. U!N \in 0..U!N /\ 1..U!N \subseteq objects
            BY <3>1, <4>1
      <4>3. U!Leaves \in 0..U!N /\ U!N <= U!Leaves
            BY <4>2, LeavesRun DEF UpInv
      <4> QED BY <4>1, <4>3
    <3>3. \A v \in U!Volumes : Len(U!Data(v)) = file.plan[v]
          BY <3>1, Held
    <3> QED BY <3>1, <3>2, <3>3, AllOfIt DEF U!Readable
  <2> QED BY <2>1, <2>2 DEF U!WholeOrNothing
<1> QED BY <1>1, UploadedAlways, PTL

LEMMA UploadTyped == UpInv => U!TypeOK /\ U!PlanFits
<1> SUFFICES ASSUME UpInv PROVE U!TypeOK /\ U!PlanFits
    OBVIOUS
<1>1. U!N \in Nat /\ U!Volumes = 1..U!N /\ U!N = Len(file.plan) /\ Planned(file)
      BY UpFacts DEF UpInv, UpShape
<1>2. ASSUME NEW v \in U!Volumes
      PROVE  /\ chan[v] \in Seq(U!Units) /\ Len(chan[v]) <= file.header + file.plan[v]
             /\ stored[v] \in U!Prefixes(chan[v])
  <2>1. v \in 1..Len(file.plan)
        BY <1>1
  <2>2. PICK m \in 0..Room(file, v) : \E k \in 0..m :
          chan[v] = Cut(file, v, m) /\ stored[v] = Cut(file, v, k)
        BY DEF UpInv, UpStreams, Streams
  <2>3. PICK k \in 0..m : chan[v] = Cut(file, v, m) /\ stored[v] = Cut(file, v, k)
        BY <2>2
  <2>4. /\ Cut(file, v, m) \in Seq(-1 .. file.total - 1) /\ Len(Cut(file, v, m)) = m
        /\ SubSeq(Cut(file, v, m), 1, k) = Cut(file, v, k)
        BY <1>1, <2>1, CutOK
  <2>5. m <= file.header + file.plan[v]
        BY <1>1, <2>1, Starts DEF Room
  <2> QED BY <2>3, <2>4, <2>5 DEF U!Units, U!Prefixes
<1>3. U!TypeOK
      BY <1>2 DEF U!TypeOK, UpInv, UpShape, UpStreams
<1>4. U!PlanFits
      BY <1>1 DEF U!PlanFits, U!SumOf, Planned, Fits, Upload
<1> QED BY <1>3, <1>4

-----------------------------------------------------------------------------
(***************************************************************************)
(* Fetches, and the plans of both directions.                              *)
(***************************************************************************)
LEMMA FetchedAlways == MCSpec => []FetchInv
<1>1. MCInit => FetchInv
      BY FetchInitially DEF MCInit
<1>2. FetchInv /\ [MCNext]_all => FetchInv'
  <2>1. [MCNext]_all => [Next]_vars
        BY DEF MCNext, Fetches, Uploads, Copies, all
  <2> QED BY <2>1, FetchStep
<1> QED BY <1>1, <1>2, PTL DEF MCSpec

\* FetchedExactly, beside the uploads and the copies.
THEOREM ChunksAreExact == MCSpec => []BytesExact
BY FetchedAlways, FetchIsExact, PTL

\* The chunks of a download cover the requested range exactly, one after the other,
\* each inside one volume (plan_chunks_with_head_count), and the volumes of an upload
\* add up to its file, none of them empty or too large (plan_volumes), for every
\* layout, header, file and limit.
THEOREM PlansAreExact == MCSpec => []PlansExact
<1>1. FetchInv /\ Uploaded => PlansExact
      BY FetchTyped, UploadTyped DEF Uploaded, PlansExact
<1> QED BY <1>1, FetchedAlways, UploadedAlways, PTL
=============================================================================
