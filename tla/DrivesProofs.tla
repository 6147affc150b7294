------------------------------- MODULE DrivesProofs -------------------------------
(***************************************************************************)
(* The drives with ids: that every remembered id is the object its path    *)
(* names, that a call which answers Ok has done what it was asked, that a  *)
(* listed file is whole and that a call touches its own paths only, for    *)
(* any number of requests, objects, paths and parts, on either drive, when *)
(* all data sources have one root.                                         *)
(***************************************************************************)
EXTENDS MCDrives, SequenceTheorems, FiniteSetTheorems, WellFoundedInduction, TLAPS

(***************************************************************************)
(* Numbers and sequences.                                                  *)
(***************************************************************************)
LEMMA Induction ==
  ASSUME NEW T, 0 \in T, \A n \in Nat : n \in T => n + 1 \in T
  PROVE  Nat \subseteq T
<1> DEFINE W == {1..n : n \in Nat \ T}
           R == StrictSubsetOrdering(Nat)
<1> SUFFICES ASSUME Nat \ T # {} PROVE FALSE
    OBVIOUS
<1>1. W \subseteq FiniteSubsetsOf(Nat) /\ W # {}
  <2>1. ASSUME NEW n \in Nat PROVE 1..n \in FiniteSubsetsOf(Nat)
        BY FS_Interval DEF FiniteSubsetsOf
  <2> QED BY <2>1
<1>2. PICK w \in W : \A y \in W : ~(<<y, w>> \in R)
  <2> HIDE DEF W, R
  <2> QED BY <1>1, FS_StrictSubsetOrderingWellFounded, WFMin DEF R
<1>3. PICK m \in Nat \ T : w = 1..m
      BY <1>2
<1>4. m - 1 \in Nat \ T
      BY <1>3
<1>5. 1..(m - 1) \in W /\ 1..(m - 1) \subseteq 1..m /\ m \in 1..m /\ m \notin 1..(m - 1)
      BY <1>3, <1>4
<1>6. <<1..(m - 1), 1..m>> \in R
      BY <1>5 DEF StrictSubsetOrdering
<1> QED BY <1>2, <1>3, <1>5, <1>6

\* What Front and Last make of a sequence, and of one with an element more.
LEMMA FrontLast ==
  ASSUME NEW S, NEW s \in Seq(S), s # <<>>
  PROVE  /\ Len(s) \in Nat \ {0} /\ Front(s) \in Seq(S) /\ Len(Front(s)) = Len(s) - 1
         /\ \A i \in 1..Len(s) - 1 : Front(s)[i] = s[i]
         /\ Last(s) = s[Len(s)] /\ Last(s) \in S /\ s = Append(Front(s), Last(s))
<1>1. Len(s) \in Nat \ {0}
  BY EmptySeq
<1>2. /\ Front(s) \in Seq(S) /\ Len(Front(s)) = Len(s) - 1
      /\ \A i \in 1..Len(s) - 1 : Front(s)[i] = s[i]
  <2>1. \A i \in 1..Len(s) - 1 : s[i] \in S
    BY <1>1, LenProperties
  <2>2. 1 \in Int /\ Len(s) - 1 \in Int /\ Len(s) - 1 - 1 + 1 = Len(s) - 1
    BY <1>1
  <2>3. \A i \in 1..Len(s) - 1 : 1 + i - 1 = i
    BY <1>1
  <2> QED
    BY <1>1, <2>1, <2>2, <2>3, SubSeqProperties DEF Front
<1>3. Last(s) = s[Len(s)] /\ Last(s) \in S
  BY <1>1, LenProperties DEF Last
<1>4. s = Append(Front(s), Last(s))
  <2> DEFINE t == Append(Front(s), Last(s))
  <2>1. /\ t \in Seq(S) /\ Len(t) = Len(s) /\ t[Len(s)] = Last(s)
        /\ \A i \in 1..Len(s) - 1 : t[i] = s[i]
    BY <1>1, <1>2, <1>3, AppendProperties
  <2>2. s = t
    <3> HIDE DEF t
    <3>1. \A i \in 1..Len(s) : s[i] = t[i]
      BY <1>1, <1>3, <2>1
    <3> QED
      BY <2>1, <3>1, SeqEqual
  <2> QED
    BY <2>2
<1> QED
  BY <1>1, <1>2, <1>3, <1>4

LEMMA Appended ==
  ASSUME NEW S, NEW s \in Seq(S), NEW n \in S
  PROVE  /\ Append(s, n) \in Seq(S) \ {<<>>} /\ Len(Append(s, n)) = Len(s) + 1
         /\ \A i \in 1..Len(s) : Append(s, n)[i] = s[i]
         /\ Append(s, n)[Len(s) + 1] = n
         /\ Front(Append(s, n)) = s /\ Last(Append(s, n)) = n
<1> DEFINE t == Append(s, n)
<1>1. /\ t \in Seq(S) \ {<<>>} /\ Len(t) = Len(s) + 1
      /\ \A i \in 1..Len(s) : t[i] = s[i]
      /\ t[Len(s) + 1] = n
  BY AppendProperties
<1> HIDE DEF t
<1>2. Last(t) = n
  BY <1>1, LenProperties DEF Last
<1>3. /\ Front(t) \in Seq(S) /\ Len(Front(t)) = Len(t) - 1
      /\ \A i \in 1..Len(t) - 1 : Front(t)[i] = t[i]
  BY <1>1, FrontLast
<1>4. Front(t) = s
  BY <1>1, <1>3, SeqEqual, LenProperties
<1> QED
  BY <1>1, <1>2, <1>4 DEF t

\* The first elements of a sequence, and what it is to begin with another.
LEMMA FirstOf ==
  ASSUME NEW S, NEW s \in Seq(S), NEW n \in 0..Len(s)
  PROVE  /\ SubSeq(s, 1, n) \in Seq(S) /\ Len(SubSeq(s, 1, n)) = n
         /\ \A i \in 1..n : SubSeq(s, 1, n)[i] = s[i]
<1>1. Len(s) \in Nat /\ \A i \in 1..n : s[i] \in S
  BY LenProperties
<1>2. n \in Int /\ 1 \in Int /\ n - 1 + 1 = n
  BY <1>1
<1> QED
  BY <1>1, <1>2, SubSeqProperties

LEMMA PrefixOf ==
  ASSUME NEW S, NEW s \in Seq(S), NEW t \in Seq(S)
  PROVE  IsPrefix(s, t) <=> Len(s) <= Len(t) /\ \A i \in 1..Len(s) : s[i] = t[i]
<1>0. Len(s) \in Nat /\ Len(t) \in Nat
  BY LenProperties
<1>1. CASE Len(s) <= Len(t)
  <2> DEFINE u == SubSeq(s, 1, Len(s))
             v == SubSeq(t, 1, Len(s))
  <2>1. /\ u \in Seq(S) /\ Len(u) = Len(s) /\ \A i \in 1..Len(s) : u[i] = s[i]
        /\ v \in Seq(S) /\ Len(v) = Len(s) /\ \A i \in 1..Len(s) : v[i] = t[i]
    BY <1>0, <1>1, FirstOf
  <2>2. IsPrefix(s, t) <=> u = v
    BY <1>1 DEF IsPrefix
  <2> HIDE DEF u, v
  <2> QED
    BY <1>0, <1>1, <2>1, <2>2, SeqEqual
<1> QED
  BY <1>0, <1>1 DEF IsPrefix

LEMMA PrefixSelf ==
  ASSUME NEW S, NEW s \in Seq(S)
  PROVE  IsPrefix(s, s) /\ IsPrefix(<<>>, s)
<1>1. Len(s) \in Nat
  BY LenProperties
<1>2. IsPrefix(s, s)
  BY <1>1, PrefixOf
<1> DEFINE e == <<>>
<1>3. e \in Seq(S) /\ Len(e) = 0
  OBVIOUS
<1> HIDE DEF e
<1>4. IsPrefix(e, s)
  <2>1. Len(e) <= Len(s) /\ \A i \in 1..Len(e) : e[i] = s[i]
    BY <1>1, <1>3
  <2> QED
    BY ONLY <1>3, <2>1, s \in Seq(S), PrefixOf
<1> QED
  BY <1>2, <1>4 DEF e

LEMMA PrefixTrans ==
  ASSUME NEW S, NEW s \in Seq(S), NEW t \in Seq(S), NEW u \in Seq(S),
         IsPrefix(s, t), IsPrefix(t, u)
  PROVE  IsPrefix(s, u)
<1>1. /\ Len(s) <= Len(t) /\ \A i \in 1..Len(s) : s[i] = t[i]
      /\ Len(t) <= Len(u) /\ \A i \in 1..Len(t) : t[i] = u[i]
  BY PrefixOf
<1>2. Len(s) \in Nat /\ Len(t) \in Nat /\ Len(u) \in Nat
  BY LenProperties
<1>3. Len(s) <= Len(u) /\ \A i \in 1..Len(s) : s[i] = u[i]
  BY <1>1, <1>2
<1> QED
  BY <1>3, PrefixOf

LEMMA PrefixBoth ==
  ASSUME NEW S, NEW s \in Seq(S), NEW t \in Seq(S), IsPrefix(s, t), Len(t) <= Len(s)
  PROVE  s = t
<1>1. Len(s) <= Len(t) /\ \A i \in 1..Len(s) : s[i] = t[i]
  BY PrefixOf
<1>2. Len(s) \in Nat /\ Len(t) \in Nat
  BY LenProperties
<1> QED
  BY <1>1, <1>2, SeqEqual

\* The sequences that begin one with an element more.
LEMMA PrefixAppend ==
  ASSUME NEW S, NEW s \in Seq(S), NEW t \in Seq(S), NEW n \in S
  PROVE  IsPrefix(s, Append(t, n)) <=> s = Append(t, n) \/ IsPrefix(s, t)
<1> DEFINE u == Append(t, n)
<1>1. /\ u \in Seq(S) /\ Len(u) = Len(t) + 1 /\ Len(t) \in Nat /\ Len(s) \in Nat
      /\ \A i \in 1..Len(t) : u[i] = t[i]
  BY Appended, LenProperties
<1> HIDE DEF u
<1>2. IsPrefix(s, u) <=> Len(s) <= Len(u) /\ \A i \in 1..Len(s) : s[i] = u[i]
  BY <1>1, PrefixOf
<1>3. IsPrefix(s, t) <=> Len(s) <= Len(t) /\ \A i \in 1..Len(s) : s[i] = t[i]
  BY PrefixOf
<1>4. CASE Len(s) <= Len(t)
  <2>1. Len(s) <= Len(u) /\ s # u /\ \A i \in 1..Len(s) : u[i] = t[i]
    BY <1>1, <1>4
  <2> QED
    BY <1>2, <1>3, <1>4, <2>1 DEF u
<1>5. CASE Len(s) > Len(t)
  <2>1. ~IsPrefix(s, t)
    BY <1>1, <1>3, <1>5
  <2>2. IsPrefix(s, u) => s = u
    <3> SUFFICES ASSUME IsPrefix(s, u) PROVE s = u
      OBVIOUS
    <3>1. Len(u) <= Len(s)
      BY <1>1, <1>5
    <3> QED
      BY <1>1, <3>1, PrefixBoth
  <2>3. s = u => IsPrefix(s, u)
    BY <1>1, PrefixSelf
  <2> QED
    BY <2>1, <2>2, <2>3 DEF u
<1> QED
  BY <1>1, <1>4, <1>5

LEMMA FrontBefore ==
  ASSUME NEW S, NEW s \in Seq(S), s # <<>>
  PROVE  IsPrefix(Front(s), s) /\ ~IsPrefix(s, Front(s))
<1>1. /\ Len(s) \in Nat \ {0} /\ Front(s) \in Seq(S) /\ Len(Front(s)) = Len(s) - 1
      /\ \A i \in 1..Len(s) - 1 : Front(s)[i] = s[i]
  BY FrontLast
<1> DEFINE f == Front(s)
<1> HIDE DEF f
<1>2. /\ IsPrefix(f, s) <=> Len(f) <= Len(s) /\ \A i \in 1..Len(f) : f[i] = s[i]
      /\ IsPrefix(s, f) => Len(s) <= Len(f)
  BY <1>1, PrefixOf DEF f
<1> QED
  BY <1>1, <1>2 DEF f

\* What a sequence that is put in front does.
LEMMA InFront ==
  ASSUME NEW S, NEW base \in Seq(S), NEW s \in Seq(S)
  PROVE  /\ base \o s \in Seq(S) /\ Len(base \o s) = Len(base) + Len(s)
         /\ Len(base) \in Nat /\ Len(s) \in Nat
         /\ \A i \in 1..Len(base) : (base \o s)[i] = base[i]
         /\ \A i \in 1..Len(s) : (base \o s)[Len(base) + i] = s[i]
<1>1. /\ base \o s \in Seq(S) /\ Len(base \o s) = Len(base) + Len(s)
      /\ \A i \in 1..Len(base) + Len(s) : (base \o s)[i] = IF i <= Len(base) THEN base[i] ELSE s[i - Len(base)]
  BY ConcatProperties
<1>2. Len(base) \in Nat /\ Len(s) \in Nat
  BY LenProperties
<1> DEFINE w == base \o s
<1> HIDE DEF w
<1>3. \A i \in 1..Len(s) : w[Len(base) + i] = s[i]
  <2> SUFFICES ASSUME NEW i \in 1..Len(s) PROVE w[Len(base) + i] = s[i]
    OBVIOUS
  <2>1. Len(base) + i \in 1..Len(base) + Len(s) /\ ~(Len(base) + i <= Len(base)) /\ Len(base) + i - Len(base) = i
    BY <1>2
  <2> QED
    BY <1>1, <2>1 DEF w
<1> QED
  BY <1>1, <1>2, <1>3 DEF w

LEMMA PrefixInFront ==
  ASSUME NEW S, NEW base \in Seq(S), NEW s \in Seq(S), NEW t \in Seq(S)
  PROVE  IsPrefix(base \o s, base \o t) <=> IsPrefix(s, t)
<1> DEFINE u == base \o s
           v == base \o t
<1>1. /\ u \in Seq(S) /\ Len(u) = Len(base) + Len(s) /\ Len(base) \in Nat /\ Len(s) \in Nat
      /\ \A i \in 1..Len(base) : u[i] = base[i]
      /\ \A i \in 1..Len(s) : u[Len(base) + i] = s[i]
  BY InFront
<1>2. /\ v \in Seq(S) /\ Len(v) = Len(base) + Len(t) /\ Len(t) \in Nat
      /\ \A i \in 1..Len(base) : v[i] = base[i]
      /\ \A i \in 1..Len(t) : v[Len(base) + i] = t[i]
  BY InFront
<1> HIDE DEF u, v
<1>3. IsPrefix(u, v) <=> Len(u) <= Len(v) /\ \A i \in 1..Len(u) : u[i] = v[i]
  <2>1. u \in Seq(S) /\ v \in Seq(S)
    BY <1>1, <1>2
  <2> QED
    BY ONLY <2>1, PrefixOf
<1>4. IsPrefix(s, t) <=> Len(s) <= Len(t) /\ \A i \in 1..Len(s) : s[i] = t[i]
  <2> DEFINE p == s
             q == t
  <2>1. p \in Seq(S) /\ q \in Seq(S)
    OBVIOUS
  <2> HIDE DEF p, q
  <2>2. IsPrefix(p, q) <=> Len(p) <= Len(q) /\ \A i \in 1..Len(p) : p[i] = q[i]
    BY ONLY <2>1, PrefixOf
  <2> QED
    BY <2>2 DEF p, q
<1>5. ASSUME IsPrefix(u, v) PROVE IsPrefix(s, t)
  <2>1. Len(s) <= Len(t)
    BY <1>1, <1>2, <1>3, <1>5
  <2>2. ASSUME NEW i \in 1..Len(s) PROVE s[i] = t[i]
    <3>1. Len(base) + i \in 1..Len(u) /\ i \in 1..Len(t)
      BY <1>1, <2>1
    <3> QED
      BY <1>1, <1>2, <1>3, <1>5, <3>1
  <2> QED
    BY <1>4, <2>1, <2>2
<1>6. ASSUME IsPrefix(s, t) PROVE IsPrefix(u, v)
  <2>1. Len(u) <= Len(v) /\ Len(s) <= Len(t)
    BY <1>1, <1>2, <1>4, <1>6
  <2>2. ASSUME NEW i \in 1..Len(u) PROVE u[i] = v[i]
    <3>1. CASE i <= Len(base)
      BY <1>1, <1>2, <3>1
    <3>2. CASE i > Len(base)
      <4> DEFINE j == i - Len(base)
      <4>1. j \in 1..Len(s) /\ j \in 1..Len(t) /\ i = Len(base) + j
        BY <1>1, <1>2, <2>1, <3>2
      <4> HIDE DEF j
      <4> QED
        BY <1>1, <1>2, <1>4, <1>6, <4>1
    <3> QED
      BY <1>1, <3>1, <3>2
  <2> QED
    BY <1>3, <2>1, <2>2
<1> QED
  BY <1>5, <1>6 DEF u, v

LEMMA SameBehind ==
  ASSUME NEW S, NEW base \in Seq(S), NEW s \in Seq(S), NEW t \in Seq(S), base \o s = base \o t
  PROVE  s = t
<1>1. IsPrefix(base \o s, base \o t)
  <2>1. base \o t \in Seq(S)
    BY InFront
  <2> QED
    BY <2>1, PrefixSelf
<1>2. IsPrefix(s, t)
  BY <1>1, PrefixInFront
<1>3. Len(base) + Len(s) = Len(base) + Len(t) /\ Len(base) \in Nat /\ Len(s) \in Nat /\ Len(t) \in Nat
  BY InFront
<1>4. Len(t) <= Len(s)
  BY <1>3
<1> QED
  BY <1>2, <1>4, PrefixBoth

\* A step of a walk: what is left begins with the next name.
LEMMA StepRest ==
  ASSUME NEW S, NEW s \in Seq(S), NEW t \in Seq(S), t # <<>>
  PROVE  /\ Head(t) \in S /\ Tail(t) \in Seq(S) /\ Append(s, Head(t)) \in Seq(S)
         /\ Append(s, Head(t)) \o Tail(t) = s \o t
         /\ IsPrefix(Append(s, Head(t)), s \o t)
<1>1. /\ Head(t) = t[1] /\ Head(t) \in S /\ Tail(t) \in Seq(S) /\ Len(Tail(t)) = Len(t) - 1
      /\ \A i \in 1 .. Len(t) - 1 : Tail(t)[i] = t[i + 1]
      /\ Len(t) \in Nat \ {0} /\ Len(s) \in Nat
  BY HeadTailProperties, EmptySeq, LenProperties
<1> DEFINE h == Head(t)
           l == Tail(t)
           key == Append(s, h)
           v == key \o l
           w == s \o t
<1>2. /\ key \in Seq(S) /\ Len(key) = Len(s) + 1 /\ \A i \in 1..Len(s) : key[i] = s[i]
      /\ key[Len(s) + 1] = h
  BY <1>1, Appended
<1>3. /\ w \in Seq(S) /\ Len(w) = Len(s) + Len(t) /\ \A i \in 1..Len(s) : w[i] = s[i]
      /\ \A i \in 1..Len(t) : w[Len(s) + i] = t[i]
  BY InFront
<1> HIDE DEF key, w
<1> HIDE DEF h, l
<1>4. /\ v \in Seq(S) /\ Len(v) = Len(key) + Len(l) /\ \A i \in 1..Len(key) : v[i] = key[i]
      /\ \A i \in 1..Len(l) : v[Len(key) + i] = l[i]
  <2>1. key \in Seq(S) /\ l \in Seq(S)
    BY <1>1, <1>2 DEF l
  <2> QED
    BY ONLY <2>1, InFront
<1> HIDE DEF v
<1>5. h = t[1] /\ Len(l) = Len(t) - 1 /\ \A i \in 1 .. Len(t) - 1 : l[i] = t[i + 1]
  BY <1>1 DEF h, l
<1>6. Len(v) = Len(w) /\ Len(key) <= Len(w)
  BY <1>1, <1>2, <1>3, <1>4, <1>5
<1>7. ASSUME NEW i \in 1..Len(v) PROVE v[i] = w[i] /\ (i <= Len(key) => key[i] = w[i])
  <2>1. CASE i <= Len(s)
    <3>1. i \in 1..Len(s) /\ i \in 1..Len(key) /\ i <= Len(key)
      BY <1>1, <1>2, <2>1
    <3> QED
      BY <1>2, <1>3, <1>4, <3>1
  <2>2. CASE i = Len(s) + 1
    <3>1. w[Len(s) + 1] = t[1]
      BY <1>1, <1>3
    <3>2. v[Len(s) + 1] = key[Len(s) + 1]
      BY <1>1, <1>2, <1>4
    <3> QED
      BY <1>2, <1>5, <2>2, <3>1, <3>2
  <2>3. CASE i > Len(s) + 1
    <3> DEFINE j == i - (Len(s) + 1)
    <3>1. j \in 1 .. Len(t) - 1 /\ i = Len(key) + j /\ i = Len(s) + (j + 1) /\ j + 1 \in 1..Len(t)
          /\ j \in 1..Len(l) /\ ~(i <= Len(key))
      BY <1>1, <1>2, <1>3, <1>5, <1>6, <2>3
    <3> HIDE DEF j
    <3>2. v[i] = l[j] /\ w[i] = t[j + 1] /\ l[j] = t[j + 1]
      BY <1>3, <1>4, <1>5, <3>1
    <3> QED
      BY <3>1, <3>2
  <2> QED
    BY <1>1, <2>1, <2>2, <2>3
<1>8. v = w
  BY <1>3, <1>4, <1>6, <1>7, SeqEqual
<1>9. IsPrefix(key, w)
  <2>1. \A i \in 1..Len(key) : key[i] = w[i]
    BY <1>1, <1>2, <1>3, <1>6, <1>7
  <2> QED
    BY <1>2, <1>3, <1>6, <2>1, PrefixOf
<1> QED
  BY <1>1, <1>2, <1>8, <1>9 DEF key, h, l, v, w
-----------------------------------------------------------------------------
(***************************************************************************)
(* Paths: the names objects may have, and the root all sources have.       *)
(***************************************************************************)
Labels == Names \cup UNION {Range(RootOf(s)) : s \in Sources}
Spoken == Labels \cup {Planted[i].name : i \in Ids}
Root == RootOf(CHOOSE s \in Sources : TRUE)
Full(p) == Root \o p
At(t, p) == ObjectAt(t, Top, p)

(***************************************************************************)
(* The object at a path, name by name.                                     *)
(***************************************************************************)
\* The fold over the names 1..n of a path, for every subset of them.
Folds(f, t, p, n) ==
  /\ f = [s \in SUBSET (1..n) |-> f[s]]
  /\ \A s \in SUBSET (1..n) :
       f[s] = IF s = {} THEN Top ELSE Child(t, f[s \ {Max(s)}], p[Max(s)])

LEMMA LastIs ==
  ASSUME NEW n \in Nat, NEW s \in SUBSET (1..n), n \in s
  PROVE  Max(s) = n
<1>1. \A y \in s : n >= y
  OBVIOUS
<1>2. ASSUME NEW x \in s, \A y \in s : x >= y PROVE x = n
  <2>1. x >= n /\ n >= x /\ x \in Int
    BY <1>1, <1>2
  <2> QED
    BY <2>1
<1> QED
  BY <1>1, <1>2 DEF Max

LEMMA Shorter ==
  ASSUME NEW n \in Nat, NEW s \in SUBSET (1 .. n + 1), n + 1 \notin s
  PROVE  s \in SUBSET (1..n)
OBVIOUS

LEMMA LastIn ==
  ASSUME NEW n \in Nat
  PROVE  \A s \in SUBSET (1..n) : s # {} => Max(s) \in s
<1> DEFINE T == {m \in Nat : \A s \in SUBSET (1..m) : s # {} => Max(s) \in s}
<1>1. 0 \in T
  <2>1. \A s \in SUBSET (1..0) : s = {}
    OBVIOUS
  <2> QED
    BY <2>1
<1>2. ASSUME NEW m \in Nat, m \in T PROVE m + 1 \in T
  <2> SUFFICES ASSUME NEW s \in SUBSET (1 .. m + 1), s # {} PROVE Max(s) \in s
    OBVIOUS
  <2>1. CASE m + 1 \in s
    BY <2>1, LastIs
  <2>2. CASE m + 1 \notin s
    BY <2>2, <1>2, Shorter
  <2> QED
    BY <2>1, <2>2
<1> HIDE DEF T
<1>3. n \in T
  BY <1>1, <1>2, Induction
<1> QED
  BY <1>3 DEF T

LEMMA FoldsExist ==
  ASSUME NEW n \in Nat, NEW t, NEW p
  PROVE  \E f : Folds(f, t, p, n)
<1> DEFINE T == {m \in Nat : \E f : Folds(f, t, p, m)}
<1>1. 0 \in T
  <2>1. Folds([s \in SUBSET (1..0) |-> Top], t, p, 0)
    BY DEF Folds
  <2> QED
    BY <2>1
<1>2. ASSUME NEW m \in Nat, m \in T PROVE m + 1 \in T
  <2>1. PICK f : Folds(f, t, p, m)
    BY <1>2
  <2> DEFINE g == [s \in SUBSET (1 .. m + 1) |->
                     IF m + 1 \in s THEN Child(t, f[s \ {m + 1}], p[m + 1]) ELSE f[s]]
  <2>2. ASSUME NEW s \in SUBSET (1 .. m + 1)
        PROVE  g[s] = IF s = {} THEN Top ELSE Child(t, g[s \ {Max(s)}], p[Max(s)])
    <3>1. CASE m + 1 \in s
      <4>1. Max(s) = m + 1
        BY <3>1, LastIs
      <4>2. s \ {m + 1} \in SUBSET (1 .. m + 1) /\ m + 1 \notin s \ {m + 1}
        OBVIOUS
      <4>3. g[s \ {m + 1}] = f[s \ {m + 1}]
        BY <4>2
      <4> QED
        BY <3>1, <4>1, <4>3
    <3>2. CASE m + 1 \notin s
      <4>1. s \in SUBSET (1..m)
        BY <3>2, Shorter
      <4>2. g[s] = f[s]
        BY <3>2
      <4>3. CASE s = {}
        BY <4>1, <4>2, <4>3, <2>1 DEF Folds
      <4>4. CASE s # {}
        <5>1. s \ {Max(s)} \in SUBSET (1 .. m + 1) /\ m + 1 \notin s \ {Max(s)}
          BY <3>2
        <5>2. g[s \ {Max(s)}] = f[s \ {Max(s)}]
          BY <5>1
        <5>3. f[s] = Child(t, f[s \ {Max(s)}], p[Max(s)])
          BY <4>1, <4>4, <2>1 DEF Folds
        <5> HIDE DEF g
        <5> QED
          BY <4>2, <4>4, <5>2, <5>3
      <4> QED
        BY <4>3, <4>4
    <3> QED
      BY <3>1, <3>2
  <2>3. g = [s \in SUBSET (1 .. m + 1) |-> g[s]]
    OBVIOUS
  <2> HIDE DEF g
  <2>4. Folds(g, t, p, m + 1)
    BY <2>2, <2>3 DEF Folds
  <2> QED
    BY <2>4
<1> HIDE DEF T
<1>3. n \in T
  BY <1>1, <1>2, Induction
<1> QED
  BY <1>3 DEF T

\* Folds over the same names agree.
LEMMA FoldsAgree ==
  ASSUME NEW n \in Nat, NEW k \in Nat, NEW j \in Nat, n <= k, n <= j, NEW t, NEW p, NEW q,
         \A i \in 1..n : p[i] = q[i], NEW f, NEW g, Folds(f, t, p, k), Folds(g, t, q, j)
  PROVE  f[1..n] = g[1..n]
<1> DEFINE T == {m \in Nat : m <= n => f[1..m] = g[1..m]}
<1>1. 0 \in T
  <2>1. {} \in SUBSET (1..k) /\ {} \in SUBSET (1..j) /\ 1..0 = {}
    OBVIOUS
  <2>2. f[{}] = Top /\ g[{}] = Top
    BY <2>1 DEF Folds
  <2> QED
    BY <2>1, <2>2
<1>2. ASSUME NEW m \in Nat, m \in T PROVE m + 1 \in T
  <2> SUFFICES ASSUME m + 1 <= n PROVE f[1 .. m + 1] = g[1 .. m + 1]
    OBVIOUS
  <2> DEFINE s == 1 .. m + 1
  <2>1. s \in SUBSET (1..k) /\ s \in SUBSET (1..j) /\ s # {} /\ s \ {m + 1} = 1..m
    OBVIOUS
  <2>2. Max(s) = m + 1
    BY LastIs
  <2>3. p[m + 1] = q[m + 1]
    OBVIOUS
  <2>4. f[1..m] = g[1..m]
    BY <1>2
  <2> HIDE DEF s
  <2>5. f[s] = Child(t, f[1..m], p[m + 1]) /\ g[s] = Child(t, g[1..m], q[m + 1])
    BY <2>1, <2>2 DEF Folds
  <2> QED
    BY <2>3, <2>4, <2>5 DEF s
<1> HIDE DEF T
<1>3. n \in T
  BY <1>1, <1>2, Induction
<1> QED
  BY <1>3 DEF T

LEMMA AtFold ==
  ASSUME NEW S, NEW p \in Seq(S), NEW t
  PROVE  \E f : Folds(f, t, p, Len(p)) /\ At(t, p) = f[1..Len(p)]
<1> DEFINE n == Len(p)
           Folded(f) == f = [s \in SUBSET (1..n) |->
                               IF s = {} THEN Top ELSE Child(t, f[s \ {Max(s)}], p[Max(s)])]
<1>1. n \in Nat /\ DOMAIN p = 1..n
  BY LenProperties
<1>2. At(t, p) = (CHOOSE f : Folded(f))[1..n]
  BY <1>1 DEF At, ObjectAt, FoldLeft, MapThenFoldSet
<1> HIDE DEF n
<1>3. ASSUME NEW f PROVE Folds(f, t, p, n) <=> Folded(f)
  BY DEF Folds
<1>4. \E f : Folded(f)
  BY <1>1, <1>3, FoldsExist
<1>5. Folded(CHOOSE f : Folded(f))
  <2> HIDE DEF Folded
  <2> QED
    BY <1>4
<1> DEFINE f == CHOOSE f : Folded(f)
<1>6. Folds(f, t, p, n)
  BY <1>3, <1>5
<1> HIDE DEF f
<1> QED
  BY <1>2, <1>6 DEF f, n

LEMMA AtTop ==
  ASSUME NEW t
  PROVE  At(t, <<>>) = Top
<1> DEFINE p == <<>>
<1>1. p \in Seq({}) /\ Len(p) = 0
  OBVIOUS
<1> HIDE DEF p
<1>2. PICK f : Folds(f, t, p, 0) /\ At(t, p) = f[1..0]
  BY <1>1, AtFold
<1>3. {} \in SUBSET (1..0) /\ 1..0 = {}
  OBVIOUS
<1>4. f[{}] = Top
  BY <1>2, <1>3 DEF Folds
<1> QED
  BY <1>2, <1>3, <1>4 DEF p

LEMMA AtChild ==
  ASSUME NEW S, NEW p \in Seq(S), NEW x \in S, NEW t
  PROVE  At(t, Append(p, x)) = Child(t, At(t, p), x)
<1> DEFINE q == Append(p, x)
           n == Len(p)
<1>1. q \in Seq(S) /\ Len(q) = n + 1 /\ n \in Nat /\ q[n + 1] = x /\ \A i \in 1..n : p[i] = q[i]
  BY Appended, LenProperties
<1>2. PICK f : Folds(f, t, p, n) /\ At(t, p) = f[1..n]
  BY AtFold
<1> HIDE DEF n, q
<1>3. PICK g : Folds(g, t, q, n + 1) /\ At(t, q) = g[1 .. n + 1]
  <2>1. q \in Seq(S) /\ Len(q) = n + 1
    BY <1>1
  <2> QED
    BY <2>1, AtFold
<1>4. f[1..n] = g[1..n]
  BY <1>1, <1>2, <1>3, FoldsAgree
<1> DEFINE s == 1 .. n + 1
<1>5. s \in SUBSET (1 .. n + 1) /\ s # {} /\ s \ {n + 1} = 1..n
  <2>1. n \in Nat
    BY <1>1
  <2>2. n + 1 \in s /\ s \ {n + 1} = 1..n
    BY ONLY <2>1
  <2> QED
    BY <2>2
<1>6. Max(s) = n + 1
  BY <1>1, LastIs
<1>7. g[s] = Child(t, g[1..n], q[n + 1])
  BY <1>3, <1>5, <1>6 DEF Folds
<1> QED
  BY <1>1, <1>2, <1>3, <1>4, <1>7 DEF q

\* Induction over paths, in the form of a set.
LEMMA PathInduction ==
  ASSUME NEW S, NEW T, <<>> \in T, \A p \in Seq(S), x \in S : p \in T => Append(p, x) \in T
  PROVE  Seq(S) \subseteq T
<1> DEFINE U == {n \in Nat : \A p \in Seq(S) : Len(p) = n => p \in T}
<1>1. 0 \in U
  <2>1. \A p \in Seq(S) : Len(p) = 0 => p = <<>>
    BY EmptySeq
  <2> QED
    BY <2>1
<1>2. ASSUME NEW n \in Nat, n \in U PROVE n + 1 \in U
  <2> SUFFICES ASSUME NEW p \in Seq(S), Len(p) = n + 1 PROVE p \in T
    OBVIOUS
  <2>1. p # <<>>
    BY EmptySeq
  <2>2. /\ Front(p) \in Seq(S) /\ Len(Front(p)) = Len(p) - 1 /\ Last(p) \in S
        /\ p = Append(Front(p), Last(p))
    BY <2>1, FrontLast
  <2> DEFINE f == Front(p)
             x == Last(p)
  <2>3. f \in Seq(S) /\ Len(f) = n /\ x \in S /\ p = Append(f, x)
    BY <2>2
  <2> HIDE DEF f, x
  <2>4. f \in T
    BY <1>2, <2>3
  <2> QED
    BY <2>3, <2>4
<1> HIDE DEF U
<1>3. Nat \subseteq U
  BY <1>1, <1>2, Induction
<1>4. \A p \in Seq(S) : Len(p) \in Nat
  BY LenProperties
<1> QED
  BY <1>3, <1>4 DEF U

-----------------------------------------------------------------------------
(***************************************************************************)
(* Trees as a drive keeps them, and the object a path names.               *)
(***************************************************************************)
Objects == [st : States, up : Ids \cup {Nil}, name : Spoken, kind : Kinds,
            parts : SUBSET AllParts]
Made(t, i) == i \in Ids /\ t[i].st # "unused"
Kept(t) ==
  /\ t \in [Ids -> Objects]
  /\ t[Top].st = "live" /\ t[Top].kind = "dir" /\ t[Top].up = Nil
  /\ \A i \in Ids \ {Top} : Made(t, i) => Made(t, t[i].up) /\ t[t[i].up].kind = "dir"
  /\ \A i, j \in Ids : t[i].st = "live" /\ t[j].st = "live" /\ t[i].up = t[j].up
                         /\ t[i].name = t[j].name => i = j
  /\ \A i \in Ids : t[i].st = "live" /\ t[i].kind = "file" => t[i].parts = AllParts

LEMMA IdsAre == Nil \notin Ids /\ Top \in Ids /\ Top # Nil
BY IdsAssumption DEF Nil, Top

LEMMA ChildIs ==
  ASSUME NEW t, Kept(t), NEW f, NEW x
  PROVE  LET e == Child(t, f, x) IN
         /\ e = Nil \/ (e \in Ids /\ f # Nil /\ t[e].st = "live" /\ t[e].up = f /\ t[e].name = x)
         /\ \A i \in Ids : t[i].st = "live" /\ t[i].up = f /\ t[i].name = x /\ f # Nil => e = i
<1> DEFINE e == Child(t, f, x)
           N == {i \in Children(t, f) : t[i].name = x}
<1>1. DOMAIN t = Ids
  BY DEF Kept
<1>2. \A i : i \in N <=> i \in Ids /\ t[i].st = "live" /\ t[i].up = f /\ t[i].name = x
  BY <1>1 DEF Children
<1>3. e = IF f = Nil \/ N = {} THEN Nil ELSE CHOOSE i \in N : TRUE
  BY DEF Child
<1> HIDE DEF e, N
<1>4. f # Nil /\ N # {} => e \in N
  BY <1>3
<1>5. \A i, j \in N : i = j
  BY <1>2 DEF Kept
<1>6. e = Nil \/ (f # Nil /\ e \in N)
  BY <1>3, <1>4
<1>7. \A i \in N : f # Nil => e = i
  BY <1>4, <1>5
<1> QED
  BY <1>2, <1>6, <1>7 DEF e

LEMMA AtEmpty ==
  ASSUME NEW t, Kept(t)
  PROVE  At(t, <<>>) = Top /\ t[Top].st = "live" /\ t[Top].kind = "dir" /\ t[Top].up = Nil
BY AtTop DEF Kept

LEMMA AtIs ==
  ASSUME NEW t, Kept(t), NEW S, NEW p \in Seq(S), p # <<>>
  PROVE  \/ At(t, p) = Nil
         \/ /\ At(t, p) \in Ids \ {Top} /\ t[At(t, p)].st = "live"
            /\ t[At(t, p)].up = At(t, Front(p)) /\ At(t, Front(p)) # Nil
            /\ t[At(t, p)].name = Last(p)
<1>1. Front(p) \in Seq(S) /\ Last(p) \in S /\ p = Append(Front(p), Last(p))
  BY FrontLast
<1> DEFINE f == Front(p)
           x == Last(p)
<1>2. f \in Seq(S) /\ x \in S /\ p = Append(f, x)
  BY <1>1
<1> HIDE DEF f, x
<1>3. At(t, p) = Child(t, At(t, f), x)
  BY <1>2, AtChild
<1>4. /\ t[Top].up = Nil
      /\ At(t, p) = Nil \/ (At(t, p) \in Ids /\ At(t, f) # Nil /\ t[At(t, p)].st = "live"
                              /\ t[At(t, p)].up = At(t, f) /\ t[At(t, p)].name = x)
  BY <1>3, ChildIs, AtEmpty
<1> QED
  BY <1>4 DEF f, x

\* What a path names is live, or nothing.
LEMMA AtLive ==
  ASSUME NEW t, Kept(t), NEW S, NEW p \in Seq(S)
  PROVE  At(t, p) = Nil \/ (At(t, p) \in Ids /\ t[At(t, p)].st = "live")
<1>1. CASE p = <<>>
  BY <1>1, AtEmpty, IdsAre
<1>2. CASE p # <<>>
  BY <1>2, AtIs
<1> QED
  BY <1>1, <1>2

\* Whoever has a name and a folder is what the path of that name in that folder names.
LEMMA AtNamed ==
  ASSUME NEW t, Kept(t), NEW S, NEW p \in Seq(S), NEW x \in S, NEW i \in Ids,
         t[i].st = "live", t[i].up = At(t, p), t[i].name = x, At(t, p) # Nil
  PROVE  At(t, Append(p, x)) = i
<1>1. At(t, Append(p, x)) = Child(t, At(t, p), x)
  BY AtChild
<1> QED
  BY <1>1, ChildIs

\* A path below one that names nothing names nothing.
LEMMA AtAbove ==
  ASSUME NEW t, Kept(t), NEW S, NEW p \in Seq(S), NEW q \in Seq(S), IsPrefix(p, q),
         At(t, q) # Nil
  PROVE  At(t, p) # Nil
<1> DEFINE T == {u \in Seq(S) : IsPrefix(p, u) /\ At(t, u) # Nil => At(t, p) # Nil}
<1>1. <<>> \in T
  <2>1. IsPrefix(p, <<>>) => p = <<>>
    <3> DEFINE e == <<>>
    <3>1. e \in Seq(S) /\ Len(e) = 0 /\ Len(p) \in Nat
      BY LenProperties
    <3> HIDE DEF e
    <3>2. Len(e) <= Len(p)
      BY <3>1
    <3>3. IsPrefix(p, e) => p = e
      BY <3>1, <3>2, PrefixBoth
    <3> QED
      BY <3>3 DEF e
  <2>2. <<>> \in Seq(S)
    OBVIOUS
  <2> QED
    BY <2>1, <2>2
<1>2. ASSUME NEW u \in Seq(S), NEW x \in S, u \in T PROVE Append(u, x) \in T
  <2>1. IsPrefix(p, Append(u, x)) => p = Append(u, x) \/ IsPrefix(p, u)
    BY PrefixAppend
  <2>2. At(t, Append(u, x)) # Nil => At(t, u) # Nil
    <3>1. Append(u, x) \in Seq(S) /\ Append(u, x) # <<>> /\ Front(Append(u, x)) = u
      BY Appended
    <3> DEFINE w == Append(u, x)
    <3>2. w \in Seq(S) /\ w # <<>> /\ Front(w) = u
      BY <3>1
    <3> HIDE DEF w
    <3>3. At(t, w) # Nil => At(t, u) # Nil
      BY <3>2, AtIs
    <3> QED
      BY <3>3 DEF w
  <2>3. Append(u, x) \in Seq(S)
    BY Appended
  <2> QED
    BY <1>2, <2>1, <2>2, <2>3
<1> HIDE DEF T
<1>3. q \in T
  BY <1>1, <1>2, PathInduction
<1> QED
  BY <1>3 DEF T

\* Different paths name different objects.
LEMMA NamedAt ==
  ASSUME NEW t, Kept(t), NEW S, NEW q \in Seq(S), q # <<>>, At(t, Front(q)) # Nil
  PROVE  \A i \in Ids :
            t[i].st = "live" /\ t[i].up = At(t, Front(q)) /\ t[i].name = Last(q) => At(t, q) = i
<1> DEFINE d == Front(q)
           x == Last(q)
<1>1. d \in Seq(S) /\ x \in S /\ q = Append(d, x) /\ At(t, d) # Nil
  BY FrontLast
<1> HIDE DEF d, x
<1>2. At(t, q) = Child(t, At(t, d), x)
  BY <1>1, AtChild
<1>3. \A i \in Ids : t[i].st = "live" /\ t[i].up = At(t, d) /\ t[i].name = x => At(t, q) = i
  BY <1>1, <1>2, ChildIs
<1> QED
  BY <1>3 DEF d, x

LEMMA AtOne ==
  ASSUME NEW t, Kept(t), NEW S, NEW p \in Seq(S), NEW q \in Seq(S),
         At(t, p) = At(t, q), At(t, p) # Nil
  PROVE  p = q
<1> DEFINE T == {u \in Seq(S) : \A w \in Seq(S) : At(t, u) = At(t, w) /\ At(t, u) # Nil => u = w}
<1>0. ASSUME NEW w \in Seq(S), w # <<>> PROVE At(t, w) # Top
  BY <1>0, AtIs, IdsAre
<1>1. <<>> \in T
  <2>1. \A w \in Seq(S) : At(t, w) = Top => w = <<>>
    BY <1>0
  <2>2. <<>> \in Seq(S)
    OBVIOUS
  <2> QED
    BY <2>1, <2>2, AtTop
<1>2. ASSUME NEW u \in Seq(S), NEW x \in S, u \in T PROVE Append(u, x) \in T
  <2> DEFINE v == Append(u, x)
  <2>1. v \in Seq(S) /\ v # <<>> /\ Front(v) = u /\ Last(v) = x
    BY Appended
  <2> HIDE DEF v
  <2> SUFFICES ASSUME NEW w \in Seq(S), At(t, v) = At(t, w), At(t, v) # Nil PROVE v = w
    BY <2>1 DEF v
  <2>2. At(t, v) # Top
    BY <1>0, <2>1
  <2>3. w # <<>>
    BY <2>2, AtTop
  <2>4. t[At(t, v)].up = At(t, u) /\ At(t, u) # Nil /\ t[At(t, v)].name = x
    BY <2>1, AtIs
  <2>5. t[At(t, w)].up = At(t, Front(w)) /\ t[At(t, w)].name = Last(w)
    BY <2>3, AtIs
  <2>6. Front(w) \in Seq(S) /\ w = Append(Front(w), Last(w))
    BY <2>3, FrontLast
  <2>7. Front(w) = u
    BY <1>2, <2>4, <2>5, <2>6
  <2>8. Last(w) = x
    BY <2>4, <2>5
  <2> QED
    BY <2>6, <2>7, <2>8 DEF v
<1> HIDE DEF T
<1>3. p \in T
  BY <1>1, <1>2, PathInduction
<1> QED
  BY <1>3 DEF T

-----------------------------------------------------------------------------
(***************************************************************************)
(* What one object that changes does to the paths.                         *)
(***************************************************************************)
\* A tree stays as a drive keeps it when one object changes.
LEMMA PutIn ==
  ASSUME NEW t, Kept(t), NEW i \in Ids \ {Top}, NEW o \in Objects,
         o.st # "unused" => Made(t, o.up) /\ t[o.up].kind = "dir" /\ o.up # i,
         t[i].st # "unused" => o.st # "unused" /\ o.kind = t[i].kind,
         o.st = "live" =>
            \A j \in Ids \ {i} : ~(t[j].st = "live" /\ t[j].up = o.up /\ t[j].name = o.name),
         o.st = "live" /\ o.kind = "file" => o.parts = AllParts
  PROVE  Kept([t EXCEPT ![i] = o])
<1> DEFINE u == [t EXCEPT ![i] = o]
<1>1. t \in [Ids -> Objects]
  BY DEF Kept
<1>2. u \in [Ids -> Objects] /\ u[i] = o /\ \A j \in Ids \ {i} : u[j] = t[j]
  BY <1>1
<1> HIDE DEF u
<1>3. u[Top].st = "live" /\ u[Top].kind = "dir" /\ u[Top].up = Nil
  BY <1>2, IdsAre DEF Kept
<1>4. ASSUME NEW j \in Ids \ {Top}, Made(u, j) PROVE Made(u, u[j].up) /\ u[u[j].up].kind = "dir"
  <2>1. CASE j = i
    BY <1>2, <1>4, <2>1 DEF Made
  <2>2. CASE j # i
    <3>1. u[j] = t[j] /\ Made(t, t[j].up) /\ t[t[j].up].kind = "dir"
      BY <1>2, <1>4, <2>2 DEF Made, Kept
    <3> DEFINE k == t[j].up
    <3>2. k \in Ids /\ t[k].st # "unused" /\ t[k].kind = "dir" /\ u[j].up = k
      BY <3>1 DEF Made
    <3> HIDE DEF k
    <3>3. u[k].st # "unused" /\ u[k].kind = "dir"
      BY <1>2, <3>2
    <3> QED
      BY <3>2, <3>3 DEF Made
  <2> QED
    BY <2>1, <2>2
<1>5. ASSUME NEW j \in Ids, NEW k \in Ids, u[j].st = "live", u[k].st = "live",
             u[j].up = u[k].up, u[j].name = u[k].name
      PROVE  j = k
  BY <1>2, <1>5 DEF Kept
<1>6. ASSUME NEW j \in Ids, u[j].st = "live", u[j].kind = "file" PROVE u[j].parts = AllParts
  BY <1>2, <1>6 DEF Kept
<1> QED
  BY <1>2, <1>3, <1>4, <1>5, <1>6 DEF Kept, u

\* Where two trees that differ in one object first differ, that object is in one of them.
LEMMA OneMoved ==
  ASSUME NEW t, Kept(t), NEW u, Kept(u), NEW i \in Ids, \A j \in Ids \ {i} : u[j] = t[j],
         NEW S, NEW p \in Seq(S), At(t, p) # At(u, p)
  PROVE  \E q \in Seq(S) : /\ q # <<>> /\ IsPrefix(q, p) /\ At(t, Front(q)) = At(u, Front(q))
                           /\ At(t, q) # At(u, q) /\ (At(t, q) = i \/ At(u, q) = i)
<1> DEFINE Found(w) == \E q \in Seq(S) : /\ q # <<>> /\ IsPrefix(q, w)
                                         /\ At(t, Front(q)) = At(u, Front(q))
                                         /\ At(t, q) # At(u, q) /\ (At(t, q) = i \/ At(u, q) = i)
           T == {w \in Seq(S) : At(t, w) # At(u, w) => Found(w)}
<1>1. <<>> \in T
  <2>1. <<>> \in Seq(S)
    OBVIOUS
  <2> QED
    BY <2>1, AtTop
<1>2. ASSUME NEW w \in Seq(S), NEW x \in S, w \in T PROVE Append(w, x) \in T
  <2> DEFINE v == Append(w, x)
  <2>1. v \in Seq(S) /\ v # <<>> /\ Front(v) = w /\ Last(v) = x
    BY Appended
  <2>2. At(t, v) = Child(t, At(t, w), x) /\ At(u, v) = Child(u, At(u, w), x)
    BY AtChild
  <2>3. IsPrefix(v, v) /\ IsPrefix(w, v)
    BY <2>1, PrefixSelf, PrefixAppend
  <2> HIDE DEF v
  <2>4. CASE At(t, w) # At(u, w)
    <3>1. PICK q \in Seq(S) : /\ q # <<>> /\ IsPrefix(q, w) /\ At(t, Front(q)) = At(u, Front(q))
                              /\ At(t, q) # At(u, q) /\ (At(t, q) = i \/ At(u, q) = i)
      BY <1>2, <2>4
    <3>2. IsPrefix(q, v)
      BY <2>1, <2>3, <3>1, PrefixTrans
    <3> QED
      BY <2>1, <3>1, <3>2 DEF v
  <2>5. CASE At(t, w) = At(u, w)
    <3> DEFINE f == At(t, w)
               e == At(t, v)
               g == At(u, v)
    <3>1. /\ e = Nil \/ (e \in Ids /\ f # Nil /\ t[e].st = "live" /\ t[e].up = f /\ t[e].name = x)
          /\ \A j \in Ids : t[j].st = "live" /\ t[j].up = f /\ t[j].name = x /\ f # Nil => e = j
      BY <2>2, ChildIs
    <3>2. /\ g = Nil \/ (g \in Ids /\ f # Nil /\ u[g].st = "live" /\ u[g].up = f /\ u[g].name = x)
          /\ \A j \in Ids : u[j].st = "live" /\ u[j].up = f /\ u[j].name = x /\ f # Nil => g = j
      BY <2>2, <2>5, ChildIs
    <3> HIDE DEF e, g, f
    <3>3. e # g => e = i \/ g = i
      BY <3>1, <3>2
    <3>4. e # g => Found(v)
      BY <2>1, <2>3, <2>5, <3>3 DEF e, g
    <3> QED
      BY <2>1, <3>4 DEF e, g, v
  <2> QED
    BY <2>4, <2>5
<1> HIDE DEF T
<1>3. p \in T
  BY <1>1, <1>2, PathInduction
<1> QED
  BY <1>3 DEF T

\* An object that is live in neither tree is on no path.
LEMMA NotSeen ==
  ASSUME NEW t, Kept(t), NEW u, Kept(u), NEW i \in Ids, \A j \in Ids \ {i} : u[j] = t[j],
         t[i].st # "live", u[i].st # "live", NEW S, NEW p \in Seq(S)
  PROVE  At(t, p) = At(u, p)
<1> SUFFICES ASSUME At(t, p) # At(u, p) PROVE FALSE
  OBVIOUS
<1>1. PICK q \in Seq(S) : At(t, q) = i \/ At(u, q) = i
  <2>1. \E q \in Seq(S) : /\ q # <<>> /\ IsPrefix(q, p) /\ At(t, Front(q)) = At(u, Front(q))
                         /\ At(t, q) # At(u, q) /\ (At(t, q) = i \/ At(u, q) = i)
    BY ONLY Kept(t), Kept(u), \A j \in Ids \ {i} : u[j] = t[j], p \in Seq(S), At(t, p) # At(u, p),
            i \in Ids, OneMoved
  <2> QED
    BY <2>1
<1>2. i # Nil
  BY IdsAre
<1> QED
  BY <1>1, <1>2, AtLive

\* An object that is thrown away takes its path, and what was below it, along.
LEMMA GoneAt ==
  ASSUME NEW t, Kept(t), NEW q \in Seq(Labels), q # <<>>, At(t, q) # Nil
  PROVE  LET u == [t EXCEPT ![At(t, q)].st = "gone"] IN
         /\ Kept(u) /\ At(u, q) = Nil
         /\ \A p \in Seq(Labels) : At(t, p) # At(u, p) => IsPrefix(q, p)
<1> DEFINE i == At(t, q)
           o == [t[i] EXCEPT !.st = "gone"]
           u == [t EXCEPT ![i].st = "gone"]
<1>1. /\ i \in Ids \ {Top} /\ t[i].st = "live" /\ t[i].up = At(t, Front(q)) /\ t[i].up # Nil
      /\ Front(q) \in Seq(Labels)
  BY AtIs, FrontLast
<1>2. t[i].up # i
  <2> SUFFICES ASSUME t[i].up = i PROVE FALSE
    OBVIOUS
  <2>1. q = Front(q)
    BY <1>1, AtOne
  <2> QED
    BY <2>1, FrontBefore, PrefixSelf
<1>3. t \in [Ids -> Objects] /\ t[i] \in Objects
  BY <1>1 DEF Kept
<1> HIDE DEF i
<1>4. /\ o \in Objects /\ o.st = "gone" /\ o.up = t[i].up /\ o.kind = t[i].kind
      /\ u = [t EXCEPT ![i] = o] /\ u[i] = o /\ \A j \in Ids \ {i} : u[j] = t[j]
  BY <1>1, <1>3 DEF Objects, States
<1>5. Made(t, t[i].up) /\ t[t[i].up].kind = "dir"
  BY <1>1 DEF Kept, Made
<1> HIDE DEF o, u
<1>6. Kept(u)
  BY <1>1, <1>2, <1>4, <1>5, PutIn
<1>7. ASSUME NEW p \in Seq(Labels), At(t, p) # At(u, p) PROVE IsPrefix(q, p)
  <2>1. PICK w \in Seq(Labels) : IsPrefix(w, p) /\ (At(t, w) = i \/ At(u, w) = i)
    <3>1. \A j \in Ids \ {i} : u[j] = t[j]
      BY <1>4
    <3>2. \E w \in Seq(Labels) :
             /\ w # <<>> /\ IsPrefix(w, p) /\ At(t, Front(w)) = At(u, Front(w))
             /\ At(t, w) # At(u, w) /\ (At(t, w) = i \/ At(u, w) = i)
      BY ONLY Kept(t), <1>1, <1>6, <1>7, <3>1, OneMoved
    <3> QED
      BY <3>2
  <2>2. At(u, w) # i
    <3>1. At(u, w) = Nil \/ u[At(u, w)].st = "live"
      BY <1>6, AtLive
    <3>2. u[i].st # "live" /\ i # Nil
      BY <1>1, <1>4, IdsAre
    <3> QED
      BY <3>1, <3>2
  <2>3. w = q
    BY <1>1, <2>1, <2>2, AtOne DEF i
  <2> QED
    BY <2>1, <2>3
<1>8. At(u, q) = Nil
  <2> SUFFICES ASSUME At(u, q) # Nil PROVE FALSE
    OBVIOUS
  <2> DEFINE e == At(u, q)
  <2>1. /\ e \in Ids /\ u[e].st = "live" /\ u[e].up = At(u, Front(q)) /\ u[e].name = Last(q)
    BY <1>6, AtIs
  <2>2. At(u, Front(q)) = At(t, Front(q))
    BY <1>1, <1>7, FrontBefore
  <2>3. t[i].name = Last(q)
    BY AtIs DEF i
  <2>4. e # i
    BY <1>4, <2>1
  <2> HIDE DEF e
  <2>5. u[e] = t[e]
    BY <1>4, <2>1, <2>4
  <2> QED
    BY <1>1, <2>1, <2>2, <2>3, <2>4, <2>5 DEF Kept
<1> QED
  BY <1>6, <1>7, <1>8 DEF u, i

\* An object that becomes live in a folder has its path, and no other path changes.
LEMMA AddedAt ==
  ASSUME NEW t, Kept(t), NEW q \in Seq(Labels), q # <<>>, NEW i \in Ids, NEW u \in [Ids -> Objects],
         \A j \in Ids \ {i} : u[j] = t[j],
         t[i].st # "live", \A j \in Ids : Made(t, j) => t[j].up # i,
         t[i].st # "unused" => u[i].kind = t[i].kind,
         u[i].st = "live", u[i].up = At(t, Front(q)), u[i].name = Last(q), At(t, Front(q)) # Nil,
         t[At(t, Front(q))].kind = "dir", At(t, q) = Nil, u[i].kind = "file" => u[i].parts = AllParts
  PROVE  /\ Kept(u) /\ At(u, q) = i /\ At(u, Front(q)) = At(t, Front(q))
         /\ \A p \in Seq(Labels) : At(t, p) # At(u, p) => p = q
<1> DEFINE o == u[i]
           d == Front(q)
           x == Last(q)
<1>0. d \in Seq(Labels) /\ x \in Labels /\ q = Append(d, x)
  BY FrontLast
<1>1. t \in [Ids -> Objects]
  BY DEF Kept
<1>2. /\ u[i] = o /\ (\A j \in Ids \ {i} : u[j] = t[j]) /\ o \in Objects
      /\ o.st = "live" /\ o.up = At(t, d) /\ o.name = x
  OBVIOUS
<1>3. i # Top /\ i # Nil
  BY IdsAre DEF Kept
<1>4. At(t, d) \in Ids /\ t[At(t, d)].st = "live"
  BY <1>0, AtLive
<1>5. \A j \in Ids \ {i} : ~(t[j].st = "live" /\ t[j].up = o.up /\ t[j].name = o.name)
  <2>1. \A j \in Ids : t[j].st = "live" /\ t[j].up = o.up /\ t[j].name = o.name => At(t, q) = j
    BY NamedAt
  <2> QED
    BY <2>1, IdsAre
<1>6. Kept(u)
  <2>1. Made(t, o.up) /\ t[o.up].kind = "dir" /\ o.up # i
    BY <1>4 DEF Made
  <2>2. u = [t EXCEPT ![i] = o]
    BY <1>1
  <2>3. o.st = "live" /\ (o.kind = "file" => o.parts = AllParts) /\ (t[i].st # "unused" => o.kind = t[i].kind)
    OBVIOUS
  <2> HIDE DEF o, d, x
  <2>4. Kept([t EXCEPT ![i] = o])
    BY <1>2, <1>3, <1>5, <2>1, <2>3, PutIn
  <2> QED
    BY <2>2, <2>4
<1>7. q \in Seq(Labels) /\ q # <<>> /\ Front(q) = d /\ Last(q) = x
  OBVIOUS
<1> HIDE DEF o, d, x
<1>8. ASSUME NEW p \in Seq(Labels), At(t, p) # At(u, p) PROVE IsPrefix(q, p) /\ (At(u, p) = i => p = q)
  <2>1. PICK w \in Seq(Labels) : /\ w # <<>> /\ IsPrefix(w, p) /\ At(t, Front(w)) = At(u, Front(w))
                                 /\ (At(t, w) = i \/ At(u, w) = i)
    <3>1. \A j \in Ids \ {i} : u[j] = t[j]
      BY <1>2
    <3>2. \E w \in Seq(Labels) :
             /\ w # <<>> /\ IsPrefix(w, p) /\ At(t, Front(w)) = At(u, Front(w))
             /\ At(t, w) # At(u, w) /\ (At(t, w) = i \/ At(u, w) = i)
      BY ONLY Kept(t), i \in Ids, <1>6, <1>8, <3>1, OneMoved
    <3> QED
      BY <3>2
  <2>2. At(t, w) # i
    BY <1>3, AtLive
  <2>3. /\ Front(w) \in Seq(Labels) /\ w = Append(Front(w), Last(w))
        /\ At(u, Front(w)) = u[i].up /\ Last(w) = u[i].name
    <3>1. Front(w) \in Seq(Labels) /\ w = Append(Front(w), Last(w))
      BY <2>1, FrontLast
    <3>2. At(u, w) = i
      BY <2>1, <2>2
    <3>3. At(u, w) = Nil \/ (u[At(u, w)].up = At(u, Front(w)) /\ u[At(u, w)].name = Last(w))
      BY <1>6, <2>1, AtIs
    <3> QED
      BY <1>3, <3>1, <3>2, <3>3
  <2>4. Front(w) = d
    <3>1. At(t, Front(w)) = At(t, d)
      BY <1>2, <2>1, <2>3 DEF d
    <3> QED
      BY <1>0, <2>3, <3>1, AtOne DEF d
  <2>5. w = q
    BY <1>0, <1>2, <2>3, <2>4 DEF x
  <2>6. At(u, p) = i => p = q
    BY <1>3, <1>6, <2>1, <2>2, <2>5, AtOne
  <2> QED
    BY <2>1, <2>5, <2>6
<1>9. At(u, d) = At(t, d)
  <2>1. ~IsPrefix(q, d)
    BY <1>7, FrontBefore
  <2> QED
    BY <1>0, <1>8, <2>1
<1>10. At(u, q) = i
  <2>1. u[i].st = "live" /\ u[i].up = At(u, d) /\ u[i].name = x /\ At(u, d) # Nil
    BY <1>2, <1>9 DEF d, x
  <2> QED
    BY <1>0, <1>6, <2>1, AtNamed
<1> DEFINE T == {p \in Seq(Labels) : At(t, p) = At(u, p) \/ p = q}
<1>11. <<>> \in T
  <2>1. <<>> \in Seq(Labels)
    OBVIOUS
  <2> QED
    BY <2>1, AtTop
<1>12. ASSUME NEW g \in Seq(Labels), NEW y \in Labels, g \in T PROVE Append(g, y) \in T
  <2> DEFINE p == Append(g, y)
  <2>1. p \in Seq(Labels) /\ p # <<>> /\ Front(p) = g
    BY Appended
  <2>2. At(u, p) = Child(u, At(u, g), y) /\ At(t, p) = Child(t, At(t, g), y)
    BY AtChild
  <2>3. IsPrefix(q, p) => p = q \/ IsPrefix(q, g)
    BY <1>7, PrefixAppend
  <2> HIDE DEF p
  <2> SUFFICES ASSUME At(t, p) # At(u, p), p # q PROVE FALSE
    BY <2>1 DEF p
  <2>4. IsPrefix(q, g)
    BY <1>8, <2>1, <2>3
  <2>5. At(t, g) = Nil
    BY <1>7, <2>4, AtAbove
  <2>6. At(t, p) = Nil
    BY <2>1, <2>5, AtIs
  <2> DEFINE e == At(u, p)
  <2>7. e \in Ids /\ u[e].st = "live" /\ u[e].up = At(u, g) /\ At(u, g) # Nil
    BY <1>6, <2>1, <2>6, AtIs
  <2>8. e # i
    BY <1>8, <2>1
  <2> HIDE DEF e
  <2>9. Made(t, e) /\ t[e].up = At(u, g)
    BY <1>2, <2>7, <2>8 DEF Made
  <2>10. g # q
    BY <1>10, <2>7, <2>9
  <2>11. At(u, g) = Nil
    BY <1>12, <2>5, <2>10
  <2> QED
    BY <2>7, <2>11
<1> HIDE DEF T
<1>13. \A p \in Seq(Labels) : At(t, p) # At(u, p) => p = q
  <2>1. Seq(Labels) \subseteq T
    BY <1>11, <1>12, PathInduction
  <2> QED
    BY <2>1 DEF T
<1> QED
  BY <1>6, <1>9, <1>10, <1>13 DEF d

\* An object that moves leaves its path, with what is below it, for the other one.
LEMMA MovedAt ==
  ASSUME NEW t, Kept(t), NEW q \in Seq(Labels), q # <<>>, NEW e, e = At(t, q), e # Nil,
         NEW v \in Seq(Labels), v # <<>>, NEW u \in [Ids -> Objects],
         \A j \in Ids \ {e} : u[j] = t[j],
         u[e].st = "live", u[e].up = At(t, Front(v)), u[e].name = Last(v), u[e].kind = t[e].kind,
         u[e].parts = t[e].parts, At(t, Front(v)) # Nil, t[At(t, Front(v))].kind = "dir",
         ~IsPrefix(q, Front(v)), At(t, v) = Nil
  PROVE  /\ Kept(u) /\ At(u, q) = Nil /\ At(u, v) = e
         /\ \A p \in Seq(Labels) : At(t, p) # At(u, p) => IsPrefix(q, p) \/ IsPrefix(v, p)
<1> DEFINE i == At(t, q)
           o == u[e]
           d == Front(v)
           x == Last(v)
           h == Front(q)
<1>1. /\ i \in Ids \ {Top} /\ t[i].st = "live" /\ t[i].up = At(t, h) /\ t[i].up # Nil
      /\ t[i].name = Last(q) /\ e = i
  BY AtIs
<1>2. h \in Seq(Labels) /\ Last(q) \in Labels /\ q = Append(h, Last(q)) /\ ~IsPrefix(q, h)
  BY FrontLast, FrontBefore
<1>3. d \in Seq(Labels) /\ x \in Labels /\ v = Append(d, x)
  BY FrontLast
<1>4. i # At(t, d)
  <2> SUFFICES ASSUME i = At(t, d) PROVE FALSE
    OBVIOUS
  <2>1. q = d
    BY <1>3, AtOne
  <2> QED
    BY <2>1, PrefixSelf
<1>5. t \in [Ids -> Objects] /\ At(t, d) \in Ids /\ t[At(t, d)].st = "live"
  BY <1>3, AtLive DEF Kept
<1>6. u[i] = o /\ (\A j \in Ids \ {i} : u[j] = t[j]) /\ o.up = At(t, d) /\ o.name = x /\ o.st = "live"
  BY <1>1
<1>7. \A j \in Ids \ {i} : ~(t[j].st = "live" /\ t[j].up = o.up /\ t[j].name = o.name)
  <2>1. \A j \in Ids : t[j].st = "live" /\ t[j].up = o.up /\ t[j].name = o.name => At(t, v) = j
    BY NamedAt
  <2> QED
    BY <2>1, IdsAre
<1>8. Kept(u)
  <2>1. Made(t, o.up) /\ t[o.up].kind = "dir" /\ o.up # i /\ o \in Objects
    BY <1>1, <1>4, <1>5 DEF Made
  <2>2. o.kind = "file" => o.parts = AllParts
    BY <1>1 DEF Kept
  <2>3. o.kind = t[i].kind /\ u = [t EXCEPT ![i] = o] /\ i \in Ids \ {Top} /\ o.st = "live"
    BY <1>1, <1>5
  <2> HIDE DEF i, o, d, x
  <2>4. Kept([t EXCEPT ![i] = o])
    BY <1>7, <2>1, <2>2, <2>3, PutIn
  <2> QED
    BY <2>3, <2>4
<1>9. At(t, v) = Nil
  OBVIOUS
<1> HIDE DEF o, d, x, i
<1>10. ASSUME NEW p \in Seq(Labels), At(t, p) # At(u, p) PROVE IsPrefix(q, p) \/ IsPrefix(v, p)
  <2>1. PICK w \in Seq(Labels) : /\ w # <<>> /\ IsPrefix(w, p) /\ At(t, Front(w)) = At(u, Front(w))
                                 /\ (At(t, w) = i \/ At(u, w) = i)
    <3>1. (\A j \in Ids \ {i} : u[j] = t[j]) /\ i \in Ids
      BY <1>1, <1>6
    <3>2. \E w \in Seq(Labels) :
             /\ w # <<>> /\ IsPrefix(w, p) /\ At(t, Front(w)) = At(u, Front(w))
             /\ At(t, w) # At(u, w) /\ (At(t, w) = i \/ At(u, w) = i)
      BY ONLY Kept(t), <1>8, <1>10, <3>1, OneMoved
    <3> QED
      BY <3>2
  <2>2. CASE At(t, w) = i
    <3>1. w = q
      BY <2>2, AtOne DEF i
    <3> QED
      BY <2>1, <3>1
  <2>3. CASE At(u, w) = i
    <3>1. Front(w) \in Seq(Labels) /\ w = Append(Front(w), Last(w))
      BY <2>1, FrontLast
    <3>2. At(u, w) = Nil \/ (u[At(u, w)].up = At(u, Front(w)) /\ u[At(u, w)].name = Last(w))
      BY <1>8, <2>1, AtIs
    <3>3. At(t, Front(w)) = At(t, d) /\ Last(w) = x
      BY <1>1, <1>6, <2>1, <2>3, <3>2, IdsAre DEF d, x
    <3>4. Front(w) = d
      BY <1>3, <3>1, <3>3, AtOne DEF d
    <3>5. w = v
      BY <1>3, <3>1, <3>3, <3>4
    <3> QED
      BY <2>1, <3>5
  <2> QED
    BY <2>1, <2>2, <2>3
<1>11. At(u, d) = At(t, d)
  <2>1. ~IsPrefix(v, d) /\ ~IsPrefix(q, d)
    BY FrontBefore DEF d
  <2> QED
    BY <1>3, <1>10, <2>1
<1>12. At(u, v) = i
  <2>1. u[i].st = "live" /\ u[i].up = At(u, d) /\ u[i].name = x /\ At(u, d) # Nil /\ i \in Ids
    BY <1>1, <1>6, <1>11 DEF d, x
  <2> QED
    BY <1>3, <1>8, <2>1, AtNamed
<1>13. ~IsPrefix(v, q)
  BY <1>3, <1>9, AtAbove
<1>14. At(u, h) = At(t, h)
  <2>1. ~IsPrefix(v, h)
    <3> SUFFICES ASSUME IsPrefix(v, h) PROVE FALSE
      OBVIOUS
    <3>1. IsPrefix(h, q)
      BY FrontBefore
    <3>2. IsPrefix(v, q)
      BY <1>2, <1>3, <3>1, PrefixTrans
    <3> QED
      BY <1>13, <3>2
  <2> QED
    BY <1>2, <1>10, <2>1
<1>15. At(u, q) = Nil
  <2> SUFFICES ASSUME At(u, q) # Nil PROVE FALSE
    OBVIOUS
  <2> DEFINE k == At(u, q)
  <2>1. k \in Ids /\ u[k].st = "live" /\ u[k].up = At(u, h) /\ u[k].name = Last(q)
    BY <1>8, AtIs
  <2>2. k # i
    <3> SUFFICES ASSUME At(u, q) = i PROVE FALSE
      OBVIOUS
    <3>1. i # Nil
      BY <1>1, IdsAre
    <3>2. q = v
      BY <1>3, <1>8, <1>12, <3>1, AtOne
    <3> QED
      BY <1>9, <3>2
  <2> HIDE DEF k
  <2>3. u[k] = t[k]
    BY <1>6, <2>1, <2>2
  <2>4. t[k].up = t[i].up /\ t[k].name = t[i].name /\ t[k].st = "live"
    BY <1>1, <1>14, <2>1, <2>3
  <2> QED
    BY <1>1, <2>1, <2>2, <2>4 DEF Kept
<1> QED
  BY <1>8, <1>10, <1>12, <1>15 DEF i

-----------------------------------------------------------------------------
(***************************************************************************)
(* All sources have one root, whose first name is none a request names and *)
(* no object of which lies in the root: then no path of a request, and     *)
(* none that is listed, is remembered under a path on the way to the root. *)
(***************************************************************************)
OneRoot ==
  /\ \A s \in Sources : RootOf(s) = Root
  /\ Root # <<>> => Head(Root) \notin Names /\ At(Planted, Append(Root, Head(Root))) = Nil

(***************************************************************************)
(* What is known of a request.                                             *)
(***************************************************************************)
Operations == Ops \cup {"list"}
Walks == {"walk", "looked", "create", "again"}
Puts == {"old", "removeOld", "new", "precheck", "made", "unmake", "parts", "complete", "hash",
         "commit", "finish"}
Goals == {"list", "ok", "stat", "move", "old", "precheck"}
Pcs == Walks \cup Puts \cup Goals \cup
       {"idle", "link", "fetch", "trash", "rename", "evict", "failed"}
Call == [pc : Pcs, op : Operations, src : Sources, path : Paths, to : Paths,
         leg : {"root", "path"}, goal : Goals, dest : Paths, create : BOOLEAN,
         at : Ids \cup {Nil}, pre : Seq(Labels), rest : Seq(Labels), kid : Ids \cup {Nil},
         id : Ids \cup {Nil}, part : 1 .. Parts + 1, try : 1..MaxTries,
         how : {"put", "rapid", "precheck"}, changed : BOOLEAN]

Writes(x) == x.op \in {"put", "copy"}
GoalsOf(op) == CASE op = "list" -> {"list"}
                 [] op = "mkdir" -> {"ok"}
                 [] op = "rename" -> {"stat", "move"}
                 [] op = "put" -> {"old"}
                 [] op = "copy" -> {"old", "precheck"}
                 [] OTHER -> {"stat"}
DestOf(x) == IF x.goal \in {"list", "ok"} THEN x.path
             ELSE IF x.goal = "move" THEN Front(x.to) ELSE Front(x.path)
Place(x) == IF x.leg = "root" THEN x.pre ELSE Full(x.pre)
Ahead(x) == Append(Place(x), Head(x.rest))

\* What the layer above has made sure of.
Asked(t, x) == x.pc # "idle" =>
  /\ x.op # "list" => x.path # <<>>
  /\ x.op = "rename" => x.to # <<>> /\ ~IsPrefix(x.path, x.to) /\ ~IsPrefix(x.to, x.path)
  /\ x.op # "rename" => x.to = x.path
  /\ x.op = "mkdir" => At(t, Full(x.path)) = Nil \/ IsDir(t, At(t, Full(x.path)))
  /\ x.op = "copy" \/ x.how = "put"

\* A walk is at the object of the path it has come, and what is left leads to its goal.
Is(t, e, p) == e # Nil /\ e = At(t, Full(p))
Way(t, x) ==
  /\ x.at # Nil /\ x.at = At(t, Place(x))
  /\ x.pre \o x.rest = IF x.leg = "root" THEN Root ELSE x.dest
  /\ x.goal \in GoalsOf(x.op) /\ x.dest = DestOf(x)
  /\ x.goal = "move" => Is(t, x.id, x.path)
Going(t, x) == x.pc \in Walks =>
  /\ Way(t, x) /\ x.rest # <<>>
  /\ x.pc # "walk" => IsDir(t, x.at)
  /\ x.pc = "looked" => x.kid = Nil \/ x.kid = At(t, Ahead(x))

\* An upload that is not complete waits in the folder, and its name is free.
Pending(t, x) ==
  /\ Writes(x) /\ x.id # Nil /\ t[x.id].st = "pending" /\ t[x.id].kind = "file"
  /\ Is(t, t[x.id].up, Front(x.path)) /\ t[x.id].name = Last(x.path)
  /\ At(t, Full(x.path)) = Nil

Sending == {"parts", "complete", "hash", "commit", "finish"}
Does(t, x) ==
  /\ x.pc = "list" => x.op = "list" /\ Is(t, x.at, x.path)
  /\ x.pc = "stat" => x.op \in {"get", "delete", "rename"} /\ Is(t, x.at, Front(x.path))
  /\ x.pc \in Puts => Writes(x)
  /\ x.pc \in {"old", "removeOld", "new", "precheck"} => Is(t, x.at, Front(x.path))
  /\ x.pc = "precheck" => x.op = "copy"
  /\ x.pc = "removeOld" => Is(t, x.kid, x.path)
  /\ x.pc = "new" => At(t, Full(x.path)) = Nil
  /\ x.pc \in {"link", "fetch"} => x.op = "get" /\ Is(t, x.id, x.path)
  /\ x.pc = "trash" => x.op = "delete" /\ Is(t, x.id, x.path)
  /\ x.pc = "move" => x.op = "rename" /\ Is(t, x.id, x.path) /\ Is(t, x.at, Front(x.to))
  /\ x.pc = "rename" => /\ x.op = "rename" /\ Is(t, x.id, Between(x))
                        /\ At(t, Full(x.path)) = Nil /\ Front(x.path) # Front(x.to)
  /\ x.pc = "evict" => /\ x.op \in {"delete", "rename"} /\ At(t, Full(x.path)) = Nil
                       /\ x.op = "rename" => Is(t, x.id, x.to)
  /\ x.pc = "made" => Pending(t, x) \/ (Is(t, x.id, x.path) /\ t[x.id].parts = AllParts
                                          /\ t[x.id].kind = "file")
  /\ x.pc = "unmake" => Pending(t, x) \/ Is(t, x.id, x.path)
  /\ x.pc \in Sending => Pending(t, x)
  /\ x.pc = "parts" => x.part \in AllParts /\ 1 .. x.part - 1 \subseteq t[x.id].parts
  /\ x.pc \in {"complete", "commit", "finish"} => t[x.id].parts = AllParts
Done(t, x) == x.pc = "ok" =>
  /\ x.op = "mkdir" => IsDir(t, At(t, Full(x.path)))
  /\ x.op = "delete" => At(t, Full(x.path)) = Nil
  /\ x.op = "rename" => At(t, Full(x.path)) = Nil /\ Is(t, x.id, x.to)
  /\ x.op = "get" => Is(t, x.id, x.path)
  /\ Writes(x) => Is(t, x.id, x.path) /\ t[x.id].parts = AllParts
Known(t, x) == Asked(t, x) /\ Going(t, x) /\ Does(t, x) /\ Done(t, x)

(***************************************************************************)
(* What is known of it while changes of others, or its own, are unsure.    *)
(***************************************************************************)
\* A call has changed something, or has failed behind a change and put it on record.
Changing(x) == x.op \in {"put", "copy", "rename", "delete"}
Sure(x, D) ==
  /\ x.pc \in {"evict", "rename"} => x.changed
  /\ x.changed => /\ Changing(x) /\ x.pc # "idle"
                  /\ \/ x.pc \in {"evict", "rename", "new", "made"}
                     \/ Changes(x) \subseteq D /\ (x.op = "copy" \/ x.pc = "failed")
  /\ x.pc \notin {"idle", "failed"} =>
       \A p \in D, q \in Uses(x) : IsPrefix(p, q) => x.op = "copy" /\ p = Full(x.path)
Own(t, x, D) == x \in Call /\ Known(t, x) /\ Sure(x, D)

(***************************************************************************)
(* What is remembered: the object of the path, or something at or below a  *)
(* path that is being changed.                                             *)
(***************************************************************************)
NameOf(k) == IF IsPrefix(k, Root) THEN k ELSE Full(k)
Stale(x) == IF x.changed THEN {Full(x.path), Full(x.to)} ELSE {}
Unsure(v, D) == D \cup UNION {Stale(v[c]) : c \in Calls}
Exempt(E, k) == \E p \in E : IsPrefix(p, NameOf(k))
Cached(t, m, E) == \A k \in Keys : m[k] = Nil \/ m[k] = At(t, NameOf(k)) \/ Exempt(E, k)
Bridged(m, E, x) == x.pc = "rename" =>
  \A k \in Keys : IsPrefix(Full(Between(x)), NameOf(k)) => m[k] = Nil \/ Exempt(E, k)
AllApart(v) ==
  \A c, d \in Calls : c # d /\ Running(v[c]) /\ Running(v[d]) =>
     /\ Apart(v[c], v[d])
     /\ v[c].pc = "rename" /\ v[d].pc = "rename" => Between(v[c]) # Between(v[d])
NoEcho(t) == Root # <<>> => At(t, Append(Root, Head(Root))) = Nil
Changed == {Full(w) : w \in Seq(Names) \ {<<>>}}

DrivesInv ==
  /\ Kept(tree) /\ NoEcho(tree)
  /\ pathIds \in [Keys -> Ids \cup {Nil}] /\ links \subseteq Ids /\ begun \in 0..MaxCalls
  /\ drive \in Drives /\ doubt \subseteq Changed
  /\ cur = [c \in Calls |-> cur[c]] /\ \A c \in Calls : Own(tree, cur[c], doubt)
  /\ AllApart(cur)
  /\ Cached(tree, pathIds, Unsure(cur, doubt))
  /\ \A c \in Calls : Bridged(pathIds, Unsure(cur, doubt), cur[c])

-----------------------------------------------------------------------------
(***************************************************************************)
(* Paths of requests.                                                      *)
(***************************************************************************)
LEMMA RootIs == Root \in Seq(Labels) /\ Names \subseteq Labels /\ Labels \subseteq Spoken
<1>1. (CHOOSE s \in Sources : TRUE) \in Sources
  BY SourcesAssumption
<1>2. ASSUME NEW s \in Sources PROVE RootOf(s) \in Seq(Labels)
  <2> DEFINE R == Range(RootOf(s))
             w == RootOf(s)
  <2>1. R \subseteq Labels
    BY DEF Labels
  <2>2. w \in Seq(R)
    BY SourcesAssumption
  <2> HIDE DEF R, w
  <2>3. w \in Seq(Labels)
    BY <2>1, <2>2
  <2> QED
    BY <2>3 DEF w
<1> QED
  BY <1>1, <1>2 DEF Root, Labels, Spoken

LEMMA NamesAre ==
  ASSUME NEW p \in Seq(Names)
  PROVE  p \in Seq(Labels)
BY RootIs

LEMMA FullIs ==
  ASSUME NEW p \in Seq(Labels)
  PROVE  /\ Full(p) \in Seq(Labels) /\ IsPrefix(Root, Full(p)) /\ Full(<<>>) = Root
         /\ (\A q \in Seq(Labels) : IsPrefix(Full(p), Full(q)) <=> IsPrefix(p, q))
         /\ \A q \in Seq(Labels) : Full(p) = Full(q) => p = q
<1>1. Root \in Seq(Labels)
  BY RootIs
<1>2. Full(p) \in Seq(Labels)
  BY <1>1, InFront DEF Full
<1>3. \A q \in Seq(Labels) : IsPrefix(Full(p), Full(q)) <=> IsPrefix(p, q)
  BY <1>1, PrefixInFront DEF Full
<1>4. \A q \in Seq(Labels) : Full(p) = Full(q) => p = q
  BY <1>1, SameBehind DEF Full
<1>5. Full(<<>>) = Root
  BY <1>1, ConcatEmptySeq DEF Full
<1>6. IsPrefix(Root, Full(p))
  <2> DEFINE e == <<>>
  <2>1. e \in Seq(Labels) /\ IsPrefix(e, p)
    BY PrefixSelf
  <2>2. Full(e) = Root
    BY <1>5
  <2> HIDE DEF e
  <2>3. IsPrefix(Root \o e, Root \o p)
    BY <1>1, <2>1, PrefixInFront
  <2> QED
    BY <2>2, <2>3 DEF Full
<1> QED
  BY <1>2, <1>3, <1>4, <1>5, <1>6

LEMMA FullAppend ==
  ASSUME NEW p \in Seq(Labels), NEW x \in Labels
  PROVE  Full(Append(p, x)) = Append(Full(p), x)
<1>1. Root \in Seq(Labels)
  BY RootIs
<1> DEFINE u == Full(Append(p, x))
           l == Append(p, x)
           g == Full(p)
           v == Append(g, x)
<1>2. l \in Seq(Labels) /\ Len(l) = Len(p) + 1 /\ (\A i \in 1..Len(p) : l[i] = p[i]) /\ l[Len(p) + 1] = x
  BY Appended
<1>3. /\ g \in Seq(Labels) /\ Len(g) = Len(Root) + Len(p) /\ Len(Root) \in Nat /\ Len(p) \in Nat
      /\ (\A i \in 1..Len(Root) : g[i] = Root[i]) /\ \A i \in 1..Len(p) : g[Len(Root) + i] = p[i]
  BY <1>1, InFront DEF Full
<1> HIDE DEF l, g
<1>4. v \in Seq(Labels) /\ Len(v) = Len(g) + 1 /\ (\A i \in 1..Len(g) : v[i] = g[i]) /\ v[Len(g) + 1] = x
  <2>1. g \in Seq(Labels)
    BY <1>3
  <2> QED
    BY ONLY <2>1, x \in Labels, Appended
<1>5. /\ u \in Seq(Labels) /\ Len(u) = Len(Root) + Len(l)
      /\ (\A i \in 1..Len(Root) : u[i] = Root[i]) /\ \A i \in 1..Len(l) : u[Len(Root) + i] = l[i]
  BY <1>1, <1>2, InFront DEF Full, l
<1> HIDE DEF u, v
<1>6. Len(u) = Len(v)
  BY <1>2, <1>3, <1>4, <1>5
<1>7. ASSUME NEW i \in 1..Len(u) PROVE u[i] = v[i]
  <2>1. CASE i <= Len(Root)
    <3>1. i \in 1..Len(Root) /\ i \in 1..Len(g)
      BY <1>3, <2>1
    <3> QED
      BY <1>3, <1>4, <1>5, <3>1
  <2>2. CASE i > Len(Root) /\ i <= Len(g)
    <3> DEFINE j == i - Len(Root)
    <3>1. j \in 1..Len(p) /\ j \in 1..Len(l) /\ i = Len(Root) + j /\ i \in 1..Len(g)
      BY <1>2, <1>3, <2>2
    <3> HIDE DEF j
    <3>2. u[i] = l[j] /\ l[j] = p[j] /\ v[i] = g[i] /\ g[i] = p[j]
      BY <1>2, <1>3, <1>4, <1>5, <3>1
    <3> QED
      BY <3>2
  <2>3. CASE i = Len(g) + 1
    <3>1. Len(p) + 1 \in 1..Len(l) /\ i = Len(Root) + (Len(p) + 1)
      BY <1>2, <1>3, <2>3
    <3>2. u[i] = l[Len(p) + 1]
      BY <1>5, <3>1
    <3> QED
      BY <1>2, <1>4, <2>3, <3>2
  <2> QED
    BY <1>3, <1>4, <1>6, <2>1, <2>2, <2>3
<1>8. u = v
  BY <1>4, <1>5, <1>6, <1>7, SeqEqual
<1> QED
  BY <1>8 DEF u, v, g

\* The paths a call goes by, those on the way to them, and those it changes.
Sees(x) == {p \in Seq(Labels) : \E q \in Uses(x) : IsPrefix(p, q)}

LEMMA PathsAre ==
  ASSUME NEW p \in Paths
  PROVE  /\ p \in Seq(Names) /\ p \in Seq(Labels)
         /\ p # <<>> => /\ Front(p) \in Paths /\ Last(p) \in Names /\ Last(p) \in Labels
                        /\ p = Append(Front(p), Last(p))
                        /\ Full(p) = Append(Full(Front(p)), Last(p))
                        /\ Full(p) # <<>> /\ Full(p) # Root
                        /\ Front(Full(p)) = Full(Front(p)) /\ Last(Full(p)) = Last(p)
                        /\ IsPrefix(Full(Front(p)), Full(p)) /\ ~IsPrefix(Full(p), Full(Front(p)))
<1>1. p \in Seq(Names)
  BY SourcesAssumption
<1>2. p \in Seq(Labels)
  BY <1>1, NamesAre
<1>3. ASSUME p # <<>>
      PROVE  /\ Front(p) \in Paths /\ Last(p) \in Names /\ Last(p) \in Labels
             /\ p = Append(Front(p), Last(p)) /\ Front(p) \in Seq(Labels)
  BY <1>1, <1>3, FrontLast, SourcesAssumption, RootIs, NamesAre
<1>4. ASSUME p # <<>>
      PROVE  /\ Full(p) = Append(Full(Front(p)), Last(p)) /\ Full(p) # <<>>
             /\ Front(Full(p)) = Full(Front(p)) /\ Last(Full(p)) = Last(p)
  <2> DEFINE f == Front(p)
             x == Last(p)
             g == Full(f)
  <2>1. f \in Seq(Labels) /\ x \in Labels /\ p = Append(f, x)
    BY <1>3, <1>4
  <2> HIDE DEF f, x
  <2>2. g \in Seq(Labels) /\ Full(p) = Append(g, x)
    BY <2>1, FullIs, FullAppend
  <2> HIDE DEF g
  <2>3. Append(g, x) # <<>> /\ Front(Append(g, x)) = g /\ Last(Append(g, x)) = x
    BY <2>1, <2>2, Appended
  <2> QED
    BY <2>2, <2>3 DEF f, x, g
<1>5. ASSUME p # <<>>
      PROVE  /\ Full(p) # Root
             /\ IsPrefix(Full(Front(p)), Full(p)) /\ ~IsPrefix(Full(p), Full(Front(p)))
  <2>1. <<>> \in Seq(Labels) /\ Full(<<>>) = Root
    BY <1>2, FullIs
  <2>2. IsPrefix(Front(p), p) /\ ~IsPrefix(p, Front(p))
    BY <1>1, <1>5, FrontBefore
  <2>3. Full(p) # Root
    BY <1>2, <1>5, <2>1, FullIs
  <2> QED
    BY <1>2, <1>3, <1>5, <2>2, <2>3, FullIs
<1> QED
  BY <1>1, <1>2, <1>3, <1>4, <1>5

LEMMA WholeIs ==
  ASSUME OneRoot, NEW x \in Call, NEW p
  PROVE  Whole(x, p) = Full(p)
<1>1. x.src \in Sources
  BY DEF Call
<1> QED
  BY <1>1 DEF OneRoot, Whole, Full

LEMMA UsesAre ==
  ASSUME OneRoot, NEW x \in Call
  PROVE  /\ x.path \in Paths /\ x.to \in Paths
         /\ Full(x.path) \in Uses(x) /\ Full(x.to) \in Uses(x)
         /\ \A q \in Uses(x) : \E w \in Seq(Names) : q = Full(w)
         /\ Uses(x) \subseteq Seq(Labels)
         /\ x.op = "list" => \A n \in Names : Full(Append(x.path, n)) \in Uses(x)
<1>1. x.path \in Paths /\ x.to \in Paths
  BY DEF Call
<1>2. /\ Whole(x, x.path) = Full(x.path) /\ Whole(x, x.to) = Full(x.to)
      /\ \A n \in Names : Whole(x, Append(x.path, n)) = Full(Append(x.path, n))
  BY WholeIs
<1>3. \A n \in Names : Append(x.path, n) \in Seq(Names)
  BY <1>1, PathsAre, Appended
<1>4. \A q \in Uses(x) : \E w \in Seq(Names) : q = Full(w)
  <2> SUFFICES ASSUME NEW q \in Uses(x) PROVE \E w \in Seq(Names) : q = Full(w)
    OBVIOUS
  <2>1. \/ q = Full(x.path) \/ q = Full(x.to)
        \/ \E n \in Names : q = Full(Append(x.path, n))
    BY <1>2 DEF Uses
  <2>2. x.path \in Seq(Names) /\ x.to \in Seq(Names)
    BY <1>1, PathsAre
  <2> QED
    BY <1>3, <2>1, <2>2
<1>5. Uses(x) \subseteq Seq(Labels)
  BY <1>4, NamesAre, FullIs
<1> QED
  BY <1>1, <1>2, <1>4, <1>5 DEF Uses

LEMMA BetweenIs ==
  ASSUME NEW x \in Call, x.path # <<>>, x.to # <<>>
  PROVE  /\ Between(x) \in Seq(Names) \ {<<>>} /\ Between(x) \in Seq(Labels)
         /\ Front(Between(x)) = Front(x.to) /\ Last(Between(x)) = Last(x.path)
         /\ Full(Between(x)) = Append(Full(Front(x.to)), Last(x.path))
         /\ Full(Between(x)) \in Seq(Labels)
<1> DEFINE f == Front(x.to)
           n == Last(x.path)
<1>1. f \in Paths /\ n \in Names
  BY PathsAre DEF Call
<1>2. Between(x) = Append(f, n)
  BY DEF Between
<1> HIDE DEF f, n
<1>3. f \in Seq(Names) /\ f \in Seq(Labels) /\ n \in Labels
  BY <1>1, PathsAre, RootIs
<1>4. /\ Append(f, n) \in Seq(Names) \ {<<>>} /\ Front(Append(f, n)) = f /\ Last(Append(f, n)) = n
  BY <1>1, <1>3, Appended
<1>5. Full(Append(f, n)) = Append(Full(f), n)
  BY <1>3, FullAppend
<1>6. Append(f, n) \in Seq(Labels) /\ Full(Append(f, n)) \in Seq(Labels)
  BY <1>4, NamesAre, FullIs
<1> QED
  BY <1>2, <1>4, <1>5, <1>6 DEF f, n

LEMMA ChangesAre ==
  ASSUME OneRoot, NEW x \in Call
  PROVE  Changes(x) = IF x.op \in {"delete", "put", "copy"} THEN {Full(x.path)}
                      ELSE IF x.op = "rename" THEN {Full(x.path), Full(Between(x)), Full(x.to)}
                      ELSE {}
<1>1. /\ Whole(x, x.path) = Full(x.path) /\ Whole(x, x.to) = Full(x.to)
      /\ Whole(x, Between(x)) = Full(Between(x))
  BY WholeIs
<1>2. CASE x.op = "rename"
  <2>1. Changes(x) = {Whole(x, p) : p \in {x.path, Between(x), x.to}}
    BY <1>2 DEF Changes
  <2>2. Changes(x) = {Whole(x, x.path), Whole(x, Between(x)), Whole(x, x.to)}
    BY <2>1
  <2> QED
    BY <1>1, <1>2, <2>2
<1>3. CASE x.op # "rename"
  BY <1>1, <1>3 DEF Changes
<1> QED
  BY <1>2, <1>3

\* What a running call changes lies below the root.
LEMMA ChangesBelow ==
  ASSUME OneRoot, NEW x \in Call, NEW t, Asked(t, x), x.pc # "idle"
  PROVE  Changes(x) \subseteq Changed
<1>1. x.path \in Seq(Names) /\ x.to \in Seq(Names)
  BY UsesAre, PathsAre
<1>2. CASE x.op \in {"delete", "put", "copy"}
  <2>1. x.path # <<>>
    BY <1>2 DEF Asked
  <2> QED
    BY <1>1, <1>2, <2>1, ChangesAre DEF Changed
<1>3. CASE x.op = "rename"
  <2>1. x.path # <<>> /\ x.to # <<>>
    BY <1>3 DEF Asked
  <2>2. Between(x) \in Seq(Names) \ {<<>>}
    BY <2>1, BetweenIs
  <2> QED
    BY <1>1, <1>3, <2>1, <2>2, ChangesAre DEF Changed
<1>4. CASE x.op \notin {"delete", "put", "copy", "rename"}
  BY <1>4, ChangesAre
<1> QED
  BY <1>2, <1>3, <1>4

\* Nothing changed lies on the way to the root.
LEMMA ChangedIs ==
  ASSUME NEW p \in Changed
  PROVE  /\ p \in Seq(Labels) /\ \A k \in Seq(Labels) : IsPrefix(k, Root) => ~IsPrefix(p, k)
<1>1. PICK w \in Seq(Names) : p = Full(w) /\ w # <<>>
  BY DEF Changed
<1>2. w \in Seq(Labels) /\ p \in Seq(Labels) /\ Root \in Seq(Labels)
  BY <1>1, NamesAre, FullIs, RootIs
<1>3. <<>> \in Seq(Labels) /\ Full(<<>>) = Root
  BY <1>2, FullIs
<1>4. ~IsPrefix(p, Root)
  <2> SUFFICES ASSUME IsPrefix(Full(w), Full(<<>>)) PROVE FALSE
    BY <1>1, <1>3
  <2> DEFINE e == <<>>
  <2>1. e \in Seq(Labels) /\ Len(e) = 0 /\ Len(w) \in Nat
    BY <1>2, LenProperties
  <2>2. IsPrefix(Full(w), Full(e))
    OBVIOUS
  <2> HIDE DEF e
  <2>3. IsPrefix(w, e)
    BY <1>2, <2>1, <2>2, FullIs
  <2>4. w = e
    <3>1. Len(e) <= Len(w) /\ w \in Seq(Labels) /\ e \in Seq(Labels)
      BY <1>2, <2>1
    <3> QED
      BY ONLY <2>3, <3>1, PrefixBoth
  <2> QED
    BY <1>1, <2>4 DEF e
<1>5. ASSUME NEW k \in Seq(Labels), IsPrefix(k, Root), IsPrefix(p, k) PROVE FALSE
  BY <1>2, <1>4, <1>5, PrefixTrans
<1> QED
  BY <1>2, <1>5

(***************************************************************************)
(* Keys of PATH_IDS.                                                       *)
(***************************************************************************)
LEMMA FirstName ==
  ASSUME NEW S, NEW s \in Seq(S), NEW t \in Seq(S), s # <<>>, IsPrefix(s, t)
  PROVE  t # <<>> /\ Head(s) = Head(t)
<1>1. Len(s) <= Len(t) /\ \A i \in 1..Len(s) : s[i] = t[i]
  BY PrefixOf
<1>2. Len(s) \in Nat \ {0} /\ Len(t) \in Nat
  BY EmptySeq, LenProperties
<1>3. 1 \in 1..Len(s) /\ Len(t) # 0
  BY <1>1, <1>2
<1>4. t # <<>>
  BY <1>3, EmptySeq
<1> QED
  BY <1>1, <1>3, <1>4, HeadTailProperties

LEMMA KeyOfPath ==
  ASSUME OneRoot, NEW k \in Paths, k # <<>>
  PROVE  ~IsPrefix(k, Root) /\ NameOf(k) = Full(k) /\ k \in Keys
<1>1. k \in Seq(Names) /\ k \in Seq(Labels) /\ Root \in Seq(Labels)
  BY PathsAre, RootIs
<1>2. Head(k) \in Names
  BY <1>1, HeadTailProperties
<1>3. ~IsPrefix(k, Root)
  BY <1>1, <1>2, FirstName DEF OneRoot
<1> QED
  BY <1>3 DEF NameOf, Keys

LEMMA KeyOfRoot ==
  ASSUME OneRoot, NEW k \in Seq(Labels), k # <<>>, IsPrefix(k, Root)
  PROVE  NameOf(k) = k /\ k \in Keys
<1>1. PICK s \in Sources : RootOf(s) = Root
  BY SourcesAssumption DEF OneRoot
<1>2. Len(k) \in Nat \ {0} /\ Len(k) <= Len(Root) /\ Root \in Seq(Labels) /\ Len(Root) \in Nat
  BY EmptySeq, LenProperties, RootIs, PrefixOf
<1>3. k = SubSeq(Root, 1, Len(k))
  <2> DEFINE w == SubSeq(Root, 1, Len(k))
  <2>1. w \in Seq(Labels) /\ Len(w) = Len(k) /\ \A i \in 1..Len(k) : w[i] = Root[i]
    BY <1>2, FirstOf
  <2>2. \A i \in 1..Len(k) : k[i] = Root[i]
    BY <1>2, PrefixOf
  <2> HIDE DEF w
  <2>3. k = w
    BY <2>1, <2>2, SeqEqual
  <2> QED
    BY <2>3 DEF w
<1>4. Len(k) \in 1..Len(RootOf(s))
  BY <1>1, <1>2
<1>5. k \in {SubSeq(RootOf(s), 1, n) : n \in 1..Len(RootOf(s))}
  BY <1>1, <1>3, <1>4
<1> QED
  BY <1>5 DEF NameOf, Keys

LEMMA KeysAre ==
  ASSUME OneRoot, NEW k \in Keys
  PROVE  /\ k \in Seq(Labels) /\ NameOf(k) \in Seq(Labels)
         /\ \/ IsPrefix(k, Root) /\ NameOf(k) = k
            \/ k \in Paths /\ k # <<>> /\ NameOf(k) = Full(k) /\ ~IsPrefix(k, Root)
<1>1. CASE k \in Paths /\ k # <<>>
  BY <1>1, KeyOfPath, PathsAre, FullIs
<1>2. CASE k = <<>>
  <2>1. k \in Seq(Labels)
    BY <1>2
  <2>2. IsPrefix(k, Root)
    BY <1>2, RootIs, PrefixSelf
  <2> QED
    BY <2>1, <2>2 DEF NameOf
<1>3. CASE k \notin Paths
  <2>1. PICK s \in Sources : k \in {SubSeq(RootOf(s), 1, n) : n \in 1..Len(RootOf(s))}
    BY <1>3 DEF Keys
  <2>2. RootOf(s) = Root
    BY DEF OneRoot
  <2>3. PICK n \in 1..Len(Root) : k = SubSeq(Root, 1, n)
    BY <2>1, <2>2
  <2>4. Root \in Seq(Labels) /\ Len(Root) \in Nat
    BY RootIs, LenProperties
  <2>5. n \in 0..Len(Root) /\ n <= Len(Root)
    BY <2>4
  <2>6. k \in Seq(Labels) /\ Len(k) = n /\ \A i \in 1..n : k[i] = Root[i]
    BY <2>3, <2>4, <2>5, FirstOf
  <2>7. IsPrefix(k, Root)
    BY <2>4, <2>5, <2>6, PrefixOf
  <2> QED
    BY <2>6, <2>7 DEF NameOf
<1> QED
  BY <1>1, <1>2, <1>3

-----------------------------------------------------------------------------
(***************************************************************************)
(* What a call sees on its way, and what stays when others act.            *)
(***************************************************************************)
LEMMA SeesBelow ==
  ASSUME OneRoot, NEW x \in Call, NEW p \in Seq(Labels), NEW q \in Sees(x), IsPrefix(p, q)
  PROVE  p \in Sees(x)
<1>1. PICK w \in Uses(x) : IsPrefix(q, w) /\ q \in Seq(Labels)
  BY DEF Sees
<1>2. w \in Seq(Labels)
  BY UsesAre
<1>3. IsPrefix(p, w)
  BY <1>1, <1>2, PrefixTrans
<1> QED
  BY <1>3 DEF Sees

LEMMA SeesIts ==
  ASSUME OneRoot, NEW x \in Call
  PROVE  /\ Full(x.path) \in Sees(x) /\ Full(x.to) \in Sees(x) /\ Root \in Sees(x)
         /\ x.path # <<>> => Full(Front(x.path)) \in Sees(x)
         /\ x.to # <<>> => Full(Front(x.to)) \in Sees(x)
<1>1. x.path \in Paths /\ x.to \in Paths /\ Full(x.path) \in Uses(x) /\ Full(x.to) \in Uses(x)
  BY UsesAre
<1>2. x.path \in Seq(Labels) /\ x.to \in Seq(Labels)
  BY <1>1, PathsAre
<1>3. Full(x.path) \in Seq(Labels) /\ Full(x.to) \in Seq(Labels) /\ IsPrefix(Root, Full(x.path))
  BY <1>2, FullIs
<1>4. Full(x.path) \in Sees(x) /\ Full(x.to) \in Sees(x)
  BY <1>1, <1>3, PrefixSelf DEF Sees
<1>5. Root \in Sees(x)
  BY <1>3, <1>4, RootIs, SeesBelow
<1>6. ASSUME NEW p \in Paths, p # <<>>, Full(p) \in Sees(x) PROVE Full(Front(p)) \in Sees(x)
  <2>1. Front(p) \in Paths /\ IsPrefix(Full(Front(p)), Full(p))
    BY <1>6, PathsAre
  <2>2. Full(Front(p)) \in Seq(Labels)
    BY <2>1, PathsAre, FullIs
  <2> QED
    BY <1>6, <2>1, <2>2, SeesBelow
<1> QED
  BY <1>1, <1>4, <1>5, <1>6

\* A walk keeps to the paths of its call, and the next key is the next path.
LEMMA WayGoes ==
  ASSUME OneRoot, NEW t, NEW x \in Call, Asked(t, x), x.pc # "idle", Way(t, x)
  PROVE  /\ Place(x) \in Seq(Labels) /\ Place(x) \in Sees(x)
         /\ Full(x.dest) \in Sees(x) /\ IsPrefix(Place(x), Full(x.dest))
         /\ x.goal \notin {"list", "ok", "move"} => x.path # <<>> /\ x.dest = Front(x.path)
         /\ x.rest # <<>> => /\ Key(x) \in Keys /\ Key(x) \in Seq(Labels) /\ Key(x) # <<>>
                             /\ NameOf(Key(x)) = Ahead(x) /\ Ahead(x) \in Sees(x)
                             /\ IsPrefix(Ahead(x), Full(x.dest))
                             /\ Head(x.rest) \in Labels /\ Tail(x.rest) \in Seq(Labels)
                             /\ Key(x) \o Tail(x.rest) = x.pre \o x.rest
                             /\ Ahead(x) = IF x.leg = "root" THEN Key(x) ELSE Full(Key(x))
<1>1. /\ x.path \in Paths /\ x.to \in Paths /\ x.dest \in Paths
      /\ x.pre \in Seq(Labels) /\ x.rest \in Seq(Labels) /\ x.leg \in {"root", "path"}
      /\ x.op \in Operations
  BY DEF Call
<1>2. /\ x.pre \o x.rest = IF x.leg = "root" THEN Root ELSE x.dest
      /\ x.goal \in GoalsOf(x.op) /\ x.dest = DestOf(x)
  BY DEF Way
<1>3. /\ x.goal \in {"list", "ok"} => x.dest = x.path
      /\ x.goal = "move" => x.to # <<>> /\ x.dest = Front(x.to)
      /\ x.goal \notin {"list", "ok", "move"} => x.path # <<>> /\ x.dest = Front(x.path)
  BY <1>1, <1>2, RequestsAssumption DEF GoalsOf, DestOf, Asked, Operations
<1>4. Full(x.dest) \in Sees(x)
  BY <1>3, SeesIts
<1>5. x.dest \in Seq(Labels) /\ Full(x.dest) \in Seq(Labels) /\ IsPrefix(Root, Full(x.dest))
  BY <1>1, PathsAre, FullIs
<1>6. Root \in Seq(Labels)
  BY RootIs
<1>7. IsPrefix(x.pre, x.pre \o x.rest)
  <2> DEFINE e == <<>>
             w == x.pre
             l == x.rest
  <2>1. e \in Seq(Labels) /\ IsPrefix(e, l) /\ w \in Seq(Labels) /\ l \in Seq(Labels)
    BY <1>1, PrefixSelf
  <2>2. w \o e = w
    BY <2>1, ConcatEmptySeq
  <2> HIDE DEF w, l, e
  <2>3. IsPrefix(w \o e, w \o l)
    BY <2>1, PrefixInFront
  <2> QED
    BY <2>2, <2>3 DEF w, l
<1>8. /\ Place(x) \in Seq(Labels) /\ IsPrefix(Place(x), Full(x.dest))
  <2>1. CASE x.leg = "root"
    <3>1. IsPrefix(x.pre, Root)
      BY <1>2, <1>7, <2>1
    <3>2. IsPrefix(x.pre, Full(x.dest))
      BY <1>1, <1>5, <1>6, <3>1, PrefixTrans
    <3> QED
      BY <1>1, <2>1, <3>2 DEF Place
  <2>2. CASE x.leg # "root"
    <3>1. IsPrefix(x.pre, x.dest)
      BY <1>2, <1>7, <2>2
    <3>2. Full(x.pre) \in Seq(Labels) /\ IsPrefix(Full(x.pre), Full(x.dest))
      BY <1>1, <1>5, <3>1, FullIs
    <3> QED
      BY <2>2, <3>2 DEF Place
  <2> QED
    BY <2>1, <2>2
<1>9. Place(x) \in Sees(x)
  BY <1>4, <1>8, SeesBelow
<1>10. ASSUME x.rest # <<>>
       PROVE  /\ Key(x) \in Keys /\ Key(x) \in Seq(Labels) /\ Key(x) # <<>>
              /\ NameOf(Key(x)) = Ahead(x) /\ Ahead(x) \in Sees(x)
              /\ IsPrefix(Ahead(x), Full(x.dest))
              /\ Head(x.rest) \in Labels /\ Tail(x.rest) \in Seq(Labels)
              /\ Key(x) \o Tail(x.rest) = x.pre \o x.rest
              /\ Ahead(x) = IF x.leg = "root" THEN Key(x) ELSE Full(Key(x))
  <2> DEFINE k == Key(x)
             h == Head(x.rest)
  <2>1. /\ h \in Labels /\ Tail(x.rest) \in Seq(Labels) /\ k = Append(x.pre, h)
        /\ k \in Seq(Labels) /\ k \o Tail(x.rest) = x.pre \o x.rest
        /\ IsPrefix(k, x.pre \o x.rest)
    BY <1>1, <1>10, StepRest DEF Key
  <2>2. k # <<>>
    BY <1>1, <2>1, Appended
  <2> HIDE DEF k, h
  <2>3. CASE x.leg = "root"
    <3>1. IsPrefix(k, Root)
      BY <1>2, <2>1, <2>3
    <3>2. NameOf(k) = k /\ k \in Keys
      BY <2>1, <2>2, <3>1, KeyOfRoot
    <3>3. Ahead(x) = k
      BY <2>1, <2>3 DEF Ahead, Place, h
    <3>4. IsPrefix(k, Full(x.dest))
      BY <1>5, <1>6, <2>1, <3>1, PrefixTrans
    <3>5. k \in Sees(x)
      BY <1>4, <2>1, <3>4, SeesBelow
    <3> QED
      BY <2>1, <2>2, <2>3, <3>2, <3>3, <3>4, <3>5 DEF k, h
  <2>4. CASE x.leg # "root"
    <3>1. IsPrefix(k, x.dest)
      BY <1>2, <2>1, <2>4
    <3>2. k \in Paths
      <4> DEFINE T == {w \in Seq(Labels) : w \in Paths /\ IsPrefix(k, w) => k \in Paths}
      <4>1. <<>> \in T
        <5> DEFINE e == <<>>
        <5>1. e \in Seq(Labels) /\ Len(e) = 0 /\ Len(k) \in Nat
          BY <2>1, LenProperties
        <5> HIDE DEF e
        <5>2. IsPrefix(k, e) => k = e
          <6>1. Len(e) <= Len(k)
            BY <5>1
          <6> QED
            BY <2>1, <5>1, <6>1, PrefixBoth
        <5>3. e \in T
          BY <5>1, <5>2
        <5> QED
          BY <5>3 DEF e
      <4>2. ASSUME NEW w \in Seq(Labels), NEW n \in Labels, w \in T PROVE Append(w, n) \in T
        <5>1. Append(w, n) \in Seq(Labels) /\ Append(w, n) # <<>> /\ Front(Append(w, n)) = w
          BY Appended
        <5>2. Append(w, n) \in Paths => w \in Paths
          BY <5>1, PathsAre
        <5>3. IsPrefix(k, Append(w, n)) => k = Append(w, n) \/ IsPrefix(k, w)
          BY <2>1, PrefixAppend
        <5> QED
          BY <4>2, <5>1, <5>2, <5>3
      <4> HIDE DEF T
      <4>3. x.dest \in T
        BY <1>5, <4>1, <4>2, PathInduction
      <4> QED
        BY <1>1, <3>1, <4>3 DEF T
    <3>3. NameOf(k) = Full(k) /\ k \in Keys
      BY <2>2, <3>2, KeyOfPath
    <3>4. Ahead(x) = Full(k)
      BY <1>1, <2>1, <2>4, FullAppend DEF Ahead, Place, h
    <3>5. IsPrefix(Full(k), Full(x.dest)) /\ Full(k) \in Seq(Labels)
      BY <1>5, <2>1, <3>1, FullIs
    <3>6. Full(k) \in Sees(x)
      BY <1>4, <3>5, SeesBelow
    <3> QED
      BY <2>1, <2>2, <2>4, <3>3, <3>4, <3>5, <3>6 DEF k, h
  <2> QED
    BY <2>3, <2>4
<1> QED
  BY <1>3, <1>4, <1>8, <1>9, <1>10

\* Objects stay what they are, and what parts they have.
Grown(t, u) == \A i \in Ids : t[i].st # "unused" =>
                 u[i].st # "unused" /\ u[i].kind = t[i].kind /\ t[i].parts \subseteq u[i].parts

\* What others may do to the paths of a call.
Steady(t, u, x) ==
  /\ \A p \in Sees(x) : At(u, p) = At(t, p) \/ (At(t, p) = Nil /\ IsDir(u, At(u, p)))
  /\ Changing(x) => At(u, Full(x.path)) = At(t, Full(x.path)) /\ At(u, Full(x.to)) = At(t, Full(x.to))
  /\ x.pc = "rename" => At(u, Full(Between(x))) = At(t, Full(Between(x)))
  /\ Grown(t, u)
  /\ Pending(t, x) => u[x.id] = t[x.id]

LEMMA DirKept ==
  ASSUME NEW t, Kept(t), NEW u, Grown(t, u), NEW S, NEW p \in Seq(S), At(u, p) = At(t, p)
  PROVE  /\ IsDir(t, At(t, p)) => IsDir(u, At(u, p))
         /\ At(t, p) # Nil => /\ At(t, p) \in Ids /\ t[At(t, p)].parts \subseteq u[At(t, p)].parts
                              /\ u[At(t, p)].kind = t[At(t, p)].kind
<1>1. At(t, p) = Nil \/ (At(t, p) \in Ids /\ t[At(t, p)].st = "live")
  BY AtLive
<1> QED
  BY <1>1 DEF IsDir, Grown

LEMMA WholeStays ==
  ASSUME NEW t, Kept(t), NEW u, Kept(u), NEW i \in Ids, t[i].parts \subseteq u[i].parts,
         t[i].parts = AllParts
  PROVE  u[i].parts = AllParts
BY DEF Kept, Objects

LEMMA IsKept ==
  ASSUME OneRoot, NEW x \in Call, NEW t, NEW u, Steady(t, u, x), NEW e, NEW p,
         Full(p) \in Sees(x), Is(t, e, p)
  PROVE  Is(u, e, p)
BY DEF Is, Steady

LEMMA AskedKept ==
  ASSUME OneRoot, NEW x \in Call, NEW t, NEW u, Kept(t), Kept(u), Asked(t, x), Steady(t, u, x)
  PROVE  Asked(u, x)
<1> SUFFICES ASSUME x.pc # "idle", x.op = "mkdir"
             PROVE  At(u, Full(x.path)) = Nil \/ IsDir(u, At(u, Full(x.path)))
  BY DEF Asked
<1>1. At(t, Full(x.path)) = Nil \/ IsDir(t, At(t, Full(x.path)))
  BY DEF Asked
<1>2. Full(x.path) \in Sees(x) /\ Full(x.path) \in Seq(Labels)
  BY SeesIts DEF Sees
<1>3. CASE At(u, Full(x.path)) = At(t, Full(x.path))
  BY <1>1, <1>2, <1>3, DirKept DEF Steady
<1> QED
  BY <1>1, <1>2, <1>3 DEF Steady

LEMMA GoingKept ==
  ASSUME OneRoot, NEW x \in Call, NEW t, NEW u, Kept(t), Kept(u), Asked(t, x), Going(t, x),
         Steady(t, u, x)
  PROVE  Going(u, x)
<1> SUFFICES ASSUME x.pc \in Walks PROVE Going(u, x)
  BY DEF Going
<1>1. x.pc # "idle"
  BY DEF Walks
<1>2. Way(t, x) /\ x.rest # <<>>
  BY DEF Going
<1>3. /\ Place(x) \in Seq(Labels) /\ Place(x) \in Sees(x) /\ Ahead(x) \in Sees(x)
  BY <1>1, <1>2, WayGoes
<1>4. x.at # Nil /\ x.at = At(t, Place(x))
  BY <1>2 DEF Way
<1>5. At(u, Place(x)) = At(t, Place(x))
  BY <1>3, <1>4 DEF Steady
<1>6. x.goal = "move" => Is(u, x.id, x.path)
  <2>1. x.goal = "move" => Is(t, x.id, x.path)
    BY <1>2 DEF Way
  <2> QED
    BY <2>1, SeesIts, IsKept
<1>7. Way(u, x)
  BY <1>2, <1>4, <1>5, <1>6 DEF Way
<1>8. x.pc # "walk" => IsDir(u, x.at)
  <2>1. IsDir(t, At(t, Place(x))) => IsDir(u, At(u, Place(x)))
    BY <1>3, <1>5, DirKept DEF Steady
  <2> QED
    BY <1>4, <1>5, <2>1 DEF Going
<1>9. x.pc = "looked" => x.kid = Nil \/ x.kid = At(u, Ahead(x))
  BY <1>3 DEF Going, Steady
<1> QED
  BY <1>2, <1>7, <1>8, <1>9 DEF Going

LEMMA PendingKept ==
  ASSUME OneRoot, NEW x \in Call, NEW t, NEW u, Asked(t, x), x.pc # "idle", Pending(t, x),
         Steady(t, u, x)
  PROVE  Pending(u, x)
<1>1. u[x.id] = t[x.id] /\ Changing(x) /\ x.path # <<>>
  BY DEF Steady, Pending, Writes, Changing, Asked
<1>2. Is(t, t[x.id].up, Front(x.path))
  BY DEF Pending
<1>3. Is(u, t[x.id].up, Front(x.path))
  BY <1>1, <1>2, SeesIts, IsKept
<1>4. At(u, Full(x.path)) = Nil
  BY <1>1 DEF Steady, Pending
<1> QED
  BY <1>1, <1>3, <1>4 DEF Pending

LEMMA DoesKept ==
  ASSUME OneRoot, NEW x \in Call, NEW t, NEW u, Kept(t), Kept(u), Asked(t, x), Does(t, x),
         Steady(t, u, x)
  PROVE  Does(u, x)
<1> SUFFICES ASSUME x.pc # "idle" PROVE Does(u, x)
  BY DEF Does, Puts, Sending
<1>1. /\ x.op # "list" => x.path # <<>>
      /\ x.op = "rename" => x.to # <<>>
  BY DEF Asked
<1>2. /\ Full(x.path) \in Sees(x) /\ Full(x.to) \in Sees(x)
      /\ x.path # <<>> => Full(Front(x.path)) \in Sees(x)
      /\ x.to # <<>> => Full(Front(x.to)) \in Sees(x)
  BY SeesIts
<1>3. \A e : Is(t, e, x.path) => Is(u, e, x.path)
  BY <1>2, IsKept
<1>4. \A e : Is(t, e, x.to) => Is(u, e, x.to)
  BY <1>2, IsKept
<1>5. \A e : x.path # <<>> /\ Is(t, e, Front(x.path)) => Is(u, e, Front(x.path))
  BY <1>2, IsKept
<1>6. \A e : x.to # <<>> /\ Is(t, e, Front(x.to)) => Is(u, e, Front(x.to))
  BY <1>2, IsKept
<1>7. Changing(x) /\ At(t, Full(x.path)) = Nil => At(u, Full(x.path)) = Nil
  BY DEF Steady
<1>8. \A e : x.pc = "rename" /\ Is(t, e, Between(x)) => Is(u, e, Between(x))
  BY DEF Is, Steady
<1>9. Pending(t, x) => Pending(u, x) /\ u[x.id] = t[x.id]
  BY PendingKept DEF Steady
<1>10. /\ Is(t, x.id, x.path) /\ t[x.id].parts = AllParts => u[x.id].parts = AllParts
       /\ Is(t, x.id, x.path) => u[x.id].kind = t[x.id].kind
  <2> SUFFICES ASSUME Is(t, x.id, x.path)
               PROVE  /\ t[x.id].parts = AllParts => u[x.id].parts = AllParts
                      /\ u[x.id].kind = t[x.id].kind
    OBVIOUS
  <2>1. x.id # Nil /\ x.id = At(t, Full(x.path)) /\ Full(x.path) \in Seq(Labels)
    BY <1>2 DEF Is, Sees
  <2>2. x.id \in Ids /\ t[x.id].st = "live"
    BY <2>1, AtLive
  <2>3. t[x.id].parts \subseteq u[x.id].parts /\ u[x.id].kind = t[x.id].kind
    BY <2>2 DEF Steady, Grown
  <2> QED
    BY <2>2, <2>3, WholeStays
<1>11. x.pc \in {"list", "stat"} => Does(u, x)
  BY <1>1, <1>3, <1>5 DEF Does, Puts, Sending
<1>12. x.pc \in {"link", "fetch", "trash", "move", "rename", "evict"} => Does(u, x)
  BY <1>1, <1>3, <1>4, <1>6, <1>7, <1>8 DEF Does, Puts, Sending, Changing
<1>13. x.pc \in {"old", "removeOld", "new", "precheck"} => Does(u, x)
  BY <1>1, <1>3, <1>5, <1>7 DEF Does, Puts, Sending, Changing, Writes
<1>14. x.pc \in {"made", "unmake"} => Does(u, x)
  BY <1>3, <1>9, <1>10 DEF Does, Puts, Sending
<1>15. x.pc \in Sending => Does(u, x)
  BY <1>9 DEF Does, Puts, Sending
<1>16. x.pc \notin {"list", "stat", "link", "fetch", "trash", "move", "rename", "evict"} \cup Puts
          => Does(u, x)
  BY DEF Does, Puts, Sending
<1> QED
  BY <1>11, <1>12, <1>13, <1>14, <1>15, <1>16 DEF Puts, Sending

LEMMA DoneKept ==
  ASSUME OneRoot, NEW x \in Call, NEW t, NEW u, Kept(t), Kept(u), Asked(t, x), Done(t, x),
         Steady(t, u, x)
  PROVE  Done(u, x)
<1> SUFFICES ASSUME x.pc = "ok" PROVE Done(u, x)
  BY DEF Done
<1>1. Full(x.path) \in Sees(x) /\ Full(x.to) \in Sees(x) /\ Full(x.path) \in Seq(Labels)
  BY SeesIts DEF Sees
<1>2. \A e : Is(t, e, x.path) => Is(u, e, x.path)
  BY <1>1, IsKept
<1>3. \A e : Is(t, e, x.to) => Is(u, e, x.to)
  BY <1>1, IsKept
<1>4. Changing(x) /\ At(t, Full(x.path)) = Nil => At(u, Full(x.path)) = Nil
  BY DEF Steady
<1>5. IsDir(t, At(t, Full(x.path))) => IsDir(u, At(u, Full(x.path)))
  <2>1. IsDir(t, At(t, Full(x.path))) => At(u, Full(x.path)) = At(t, Full(x.path))
    BY <1>1 DEF Steady, IsDir
  <2> QED
    BY <1>1, <2>1, DirKept DEF Steady
<1>6. Is(t, x.id, x.path) /\ t[x.id].parts = AllParts => u[x.id].parts = AllParts
  <2> SUFFICES ASSUME Is(t, x.id, x.path), t[x.id].parts = AllParts PROVE u[x.id].parts = AllParts
    OBVIOUS
  <2>1. x.id # Nil /\ x.id = At(t, Full(x.path))
    BY DEF Is
  <2>2. x.id \in Ids /\ t[x.id].st = "live"
    BY <1>1, <2>1, AtLive
  <2>3. t[x.id].parts \subseteq u[x.id].parts
    BY <2>2 DEF Steady, Grown
  <2> QED
    BY <2>2, <2>3, WholeStays
<1> QED
  BY <1>2, <1>3, <1>4, <1>5, <1>6 DEF Done, Changing

LEMMA KnownKept ==
  ASSUME OneRoot, NEW x \in Call, NEW t, NEW u, Kept(t), Kept(u), Known(t, x), Steady(t, u, x)
  PROVE  Known(u, x)
BY AskedKept, GoingKept, DoesKept, DoneKept DEF Known

-----------------------------------------------------------------------------
(***************************************************************************)
(* What a step of a call does: paths at or below some it changes become    *)
(* others, and folders appear on its way; only its own upload changes.     *)
(***************************************************************************)
Effect(t, u, x, X) ==
  /\ Kept(u) /\ Grown(t, u)
  /\ \A p \in Seq(Labels) : At(u, p) # At(t, p) =>
        \/ \E q \in X : IsPrefix(q, p)
        \/ At(t, p) = Nil /\ IsDir(u, At(u, p)) /\ p \in Sees(x)
  /\ \A i \in Ids : t[i].st = "pending" /\ u[i] # t[i] => i = x.id /\ Pending(t, x)

SameCall(x, y) == y.op = x.op /\ y.src = x.src /\ y.path = x.path /\ y.to = x.to

LEMMA NoEffect ==
  ASSUME NEW t, Kept(t), NEW x
  PROVE  Effect(t, t, x, {})
BY DEF Effect, Grown

LEMMA OthersSteady ==
  ASSUME OneRoot, NEW t, Kept(t), NEW u, NEW x \in Call, NEW y \in Call, NEW X,
         Effect(t, u, x, X), X \subseteq Changes(x), Apart(x, y), Asked(t, x), x.pc # "idle",
         Asked(t, y), Does(t, y), y.pc # "idle", y.pc = "rename" => Full(Between(y)) \notin X
  PROVE  Steady(t, u, y)
<1>1. /\ \A p \in Changes(x), q \in Uses(y) : ~IsPrefix(p, q)
      /\ \A p \in Changes(y), q \in Uses(x) : ~IsPrefix(p, q)
  BY DEF Apart, KeepsClear
<1>2. Changes(x) \subseteq Seq(Labels) /\ Uses(y) \subseteq Seq(Labels)
  BY ChangesBelow, ChangedIs, UsesAre
<1>3. ASSUME NEW p \in Sees(y), NEW q \in X PROVE ~IsPrefix(q, p)
  <2>1. PICK w \in Uses(y) : IsPrefix(p, w)
    BY DEF Sees
  <2>2. p \in Seq(Labels) /\ q \in Seq(Labels) /\ w \in Seq(Labels)
    BY <1>2 DEF Sees
  <2> SUFFICES ASSUME IsPrefix(q, p) PROVE FALSE
    OBVIOUS
  <2>3. IsPrefix(q, w)
    BY <2>1, <2>2, PrefixTrans
  <2> QED
    BY <1>1, <2>1, <2>3
<1>4. ASSUME NEW p \in Sees(y)
      PROVE  At(u, p) = At(t, p) \/ (At(t, p) = Nil /\ IsDir(u, At(u, p)))
  <2>1. p \in Seq(Labels)
    BY DEF Sees
  <2> QED
    BY <1>3, <2>1 DEF Effect
<1>5. ASSUME NEW p \in Changes(y), p \in Seq(Labels), \A q \in X : ~IsPrefix(q, p)
      PROVE  At(u, p) = At(t, p)
  <2>1. p \notin Sees(x)
    BY <1>1 DEF Sees
  <2> QED
    BY <1>5, <2>1 DEF Effect
<1>6. ASSUME Changing(y)
      PROVE  At(u, Full(y.path)) = At(t, Full(y.path)) /\ At(u, Full(y.to)) = At(t, Full(y.to))
  <2>1. /\ Full(y.path) \in Changes(y) /\ Full(y.to) \in Changes(y)
    BY <1>6, ChangesAre DEF Changing, Asked
  <2>2. Full(y.path) \in Sees(y) /\ Full(y.to) \in Sees(y)
    BY SeesIts
  <2>3. Full(y.path) \in Seq(Labels) /\ Full(y.to) \in Seq(Labels)
    BY <2>2 DEF Sees
  <2> QED
    BY <1>3, <1>5, <2>1, <2>2, <2>3
<1>7. ASSUME y.pc = "rename" PROVE At(u, Full(Between(y))) = At(t, Full(Between(y)))
  <2>1. y.op = "rename"
    BY <1>7 DEF Does
  <2>2. y.path # <<>> /\ y.to # <<>>
    BY <2>1 DEF Asked
  <2> DEFINE w == Full(Between(y))
             f == Full(Front(y.to))
             n == Last(y.path)
  <2>3. w \in Changes(y)
    BY <2>1, ChangesAre
  <2>4. w \in Seq(Labels) /\ w = Append(f, n)
    BY <2>2, BetweenIs
  <2>5. f \in Sees(y) /\ f \in Seq(Labels) /\ n \in Labels
    BY <2>2, SeesIts, PathsAre DEF Sees, Call
  <2>6. w \notin X
    BY <1>7
  <2> HIDE DEF w, f, n
  <2>7. ASSUME NEW q \in X PROVE ~IsPrefix(q, w)
    <3>1. q \in Seq(Labels)
      BY <1>2
    <3>2. IsPrefix(q, w) => q = w \/ IsPrefix(q, f)
      BY <2>4, <2>5, <3>1, PrefixAppend
    <3> QED
      BY <1>3, <2>5, <2>6, <3>2
  <2> QED
    BY <1>5, <2>3, <2>4, <2>7 DEF w
<1>8. ASSUME Pending(t, y) PROVE u[y.id] = t[y.id]
  <2> SUFFICES ASSUME u[y.id] # t[y.id] PROVE FALSE
    OBVIOUS
  <2>1. y.id \in Ids /\ t[y.id].st = "pending"
    BY <1>8 DEF Pending, Call
  <2>2. y.id = x.id /\ Pending(t, x)
    BY <2>1 DEF Effect
  <2>3. /\ At(t, Full(Front(x.path))) = At(t, Full(Front(y.path)))
        /\ At(t, Full(Front(x.path))) # Nil /\ Last(x.path) = Last(y.path)
    BY <1>8, <2>2 DEF Pending, Is
  <2>4. x.path \in Paths /\ y.path \in Paths /\ x.path # <<>> /\ y.path # <<>>
    BY <1>8, <2>2 DEF Pending, Writes, Asked, Call
  <2>5. /\ Front(x.path) \in Seq(Labels) /\ Front(y.path) \in Seq(Labels)
        /\ x.path = Append(Front(x.path), Last(x.path))
        /\ y.path = Append(Front(y.path), Last(y.path))
    BY <2>4, PathsAre
  <2>6. Full(Front(x.path)) \in Seq(Labels) /\ Full(Front(y.path)) \in Seq(Labels)
    BY <2>5, FullIs
  <2>7. Full(Front(x.path)) = Full(Front(y.path))
    BY <2>3, <2>6, AtOne
  <2>8. Front(x.path) = Front(y.path)
    BY <2>5, <2>7, FullIs
  <2>9. x.path = y.path
    BY <2>3, <2>5, <2>8
  <2>10. Full(x.path) \in Changes(x)
    BY <2>2, ChangesAre DEF Pending, Writes
  <2>11. Full(y.path) \in Uses(y) /\ Full(y.path) \in Seq(Labels)
    BY <1>2, UsesAre
  <2> QED
    BY <1>1, <2>9, <2>10, <2>11, PrefixSelf
<1> QED
  BY <1>4, <1>6, <1>7, <1>8 DEF Steady, Effect

LEMMA ApartBoth ==
  ASSUME NEW x, NEW y, Apart(x, y)
  PROVE  Apart(y, x)
BY DEF Apart, KeepsClear

\* A call that another one keeps apart from stays as it is.
LEMMA OwnKept ==
  ASSUME OneRoot, NEW t, Kept(t), NEW u, NEW x \in Call, NEW y, NEW X, NEW D, NEW E,
         Effect(t, u, x, X), X \subseteq Changes(x), Asked(t, x), x.pc # "idle", Own(t, y, D),
         D \subseteq E, E \subseteq D \cup Changes(x),
         y.pc # "idle" => Apart(x, y) /\ (y.pc = "rename" => Full(Between(y)) \notin X)
  PROVE  Own(u, y, E)
<1>1. y \in Call /\ Known(t, y) /\ Sure(y, D)
  BY DEF Own
<1>2. CASE y.pc = "idle"
  <2>1. Known(u, y)
    BY <1>2 DEF Known, Asked, Going, Does, Done, Walks, Puts, Sending
  <2>2. Sure(y, E)
    BY <1>1, <1>2 DEF Sure
  <2> QED
    BY <1>1, <2>1, <2>2 DEF Own
<1>3. CASE y.pc # "idle"
  <2>1. Steady(t, u, y)
    BY <1>1, <1>3, OthersSteady DEF Known
  <2>2. Known(u, y)
    BY <1>1, <2>1, KnownKept DEF Effect
  <2>3. \A p \in Changes(x), q \in Uses(y) : ~IsPrefix(p, q)
    BY <1>3 DEF Apart, KeepsClear
  <2>4. Sure(y, E)
    BY <1>1, <2>3 DEF Sure
  <2> QED
    BY <1>1, <2>2, <2>4 DEF Own
<1> QED
  BY <1>2, <1>3

LEMMA SameCallIs ==
  ASSUME NEW x, NEW y, SameCall(x, y)
  PROVE  Changes(y) = Changes(x) /\ Uses(y) = Uses(x) /\ Between(y) = Between(x)
BY DEF SameCall, Changes, Uses, Whole, Between

LEMMA EchoKept ==
  ASSUME OneRoot, NEW t, Kept(t), NEW u, NEW x \in Call, NEW X, Effect(t, u, x, X),
         X \subseteq Changed, NoEcho(t)
  PROVE  NoEcho(u)
<1> SUFFICES ASSUME Root # <<>> PROVE At(u, Append(Root, Head(Root))) = Nil
  BY DEF NoEcho
<1> DEFINE h == Head(Root)
           p == Append(Root, h)
           s == Append(<<>>, h)
<1>1. Root \in Seq(Labels) /\ h \in Labels /\ h \notin Names
  BY RootIs, HeadTailProperties DEF OneRoot
<1> HIDE DEF h
<1>2. s \in Seq(Labels) /\ s # <<>> /\ Head(s) = h
  BY <1>1
<1>3. p = Full(s)
  <2> DEFINE e == <<>>
  <2>1. e \in Seq(Labels)
    OBVIOUS
  <2>2. Full(e) = Root
    BY <1>1, FullIs
  <2> HIDE DEF e
  <2>3. Full(Append(e, h)) = Append(Full(e), h)
    BY <1>1, <2>1, FullAppend
  <2> QED
    BY <2>2, <2>3 DEF e
<1> HIDE DEF p, s
<1>4. p \in Seq(Labels) /\ IsPrefix(p, p)
  <2>1. p \in Seq(Labels)
    BY <1>2, <1>3, FullIs
  <2> QED
    BY <2>1, PrefixSelf
<1>5. ASSUME NEW w \in Seq(Names), IsPrefix(p, Full(w)) PROVE FALSE
  <2>1. w \in Seq(Labels)
    BY NamesAre
  <2>2. IsPrefix(s, w)
    BY <1>2, <1>3, <1>5, <2>1, FullIs
  <2>3. w # <<>> /\ Head(w) = h
    BY <1>2, <2>1, <2>2, FirstName
  <2>4. Head(w) \in Names
    BY <2>3, HeadTailProperties
  <2> QED
    BY <1>1, <2>3, <2>4
<1>6. p \notin Sees(x)
  BY <1>5, UsesAre DEF Sees
<1>7. ASSUME NEW q \in X, IsPrefix(q, p) PROVE FALSE
  <2>1. q \in Changed
    BY <1>7
  <2>2. q \in Seq(Labels) /\ ~IsPrefix(q, Root)
    BY <1>1, <2>1, ChangedIs, PrefixSelf
  <2>3. q = p
    BY <1>1, <1>7, <2>2, PrefixAppend DEF p
  <2>4. PICK w \in Seq(Names) : q = Full(w)
    BY <2>1 DEF Changed
  <2> QED
    BY <1>4, <1>5, <2>3, <2>4
<1>8. At(t, p) = Nil
  BY DEF NoEcho, p, h
<1>9. At(u, p) = At(t, p)
  BY <1>4, <1>6, <1>7 DEF Effect
<1> QED
  BY <1>8, <1>9 DEF p, h

(***************************************************************************)
(* What a step of a call must keep for the invariant to hold behind it.    *)
(***************************************************************************)
\* What is remembered of a path is what it was, or nothing, or what the path names now.
Learned(m, n, u, x) == \A k \in Keys :
  n[k] = Nil \/ n[k] = m[k] \/ (n[k] = At(u, NameOf(k)) /\ NameOf(k) \in Sees(x))

\* What was unsure is unsure still, or forgotten.
Settles(x, y, n, E) == \A p \in Stale(x) :
  p \in E \cup Stale(y) \/ \A k \in Keys : IsPrefix(p, NameOf(k)) => n[k] = Nil

LEMMA StaleIn ==
  ASSUME OneRoot, NEW x \in Call, NEW D, Sure(x, D), NEW t, Asked(t, x), x.pc # "idle"
  PROVE  Stale(x) \subseteq Changes(x)
BY ChangesAre DEF Sure, Stale, Changing, Asked

LEMMA ExemptKept ==
  ASSUME NEW v, NEW c \in Calls, NEW y, NEW D, NEW E, D \subseteq E, NEW n,
         v = [d \in Calls |-> v[d]], Settles(v[c], y, n, E),
         NEW k \in Keys, Exempt(Unsure(v, D), k)
  PROVE  n[k] = Nil \/ Exempt(Unsure([v EXCEPT ![c] = y], E), k)
<1>1. PICK p \in Unsure(v, D) : IsPrefix(p, NameOf(k))
  BY DEF Exempt
<1> DEFINE w == [v EXCEPT ![c] = y]
<1>2. w[c] = y /\ \A d \in Calls \ {c} : w[d] = v[d]
  OBVIOUS
<1> HIDE DEF w
<1>3. CASE p \in D
  BY <1>1, <1>3 DEF Unsure, Exempt, w
<1>4. CASE \E d \in Calls \ {c} : p \in Stale(v[d])
  <2>1. PICK d \in Calls \ {c} : p \in Stale(w[d])
    BY <1>2, <1>4
  <2>2. p \in Unsure(w, E)
    BY <2>1 DEF Unsure
  <2> QED
    BY <1>1, <2>2 DEF Exempt, w
<1>5. CASE p \in Stale(v[c])
  <2>1. p \in E \cup Stale(w[c]) \/ n[k] = Nil
    BY <1>1, <1>2, <1>5 DEF Settles
  <2>2. p \in Unsure(w, E) \/ n[k] = Nil
    BY <2>1 DEF Unsure
  <2> QED
    BY <1>1, <2>2 DEF Exempt, w
<1> QED
  BY <1>1, <1>3, <1>4, <1>5 DEF Unsure

\* Nothing is remembered at or below a path but what is unsure.
Clear(m, E, q) == \A k \in Keys : IsPrefix(q, NameOf(k)) => m[k] = Nil \/ Exempt(E, k)

LEMMA CachedKept ==
  ASSUME OneRoot, NEW v, NEW c \in Calls, NEW y, NEW D, NEW E, D \subseteq E, NEW m, NEW n,
         v = [d \in Calls |-> v[d]], Settles(v[c], y, n, E),
         NEW t, Kept(t), NEW u, NEW X, Effect(t, u, v[c], X), X \subseteq Seq(Labels),
         \A q \in X : At(t, q) = Nil \/ q \in E \cup Stale(y) \/ Clear(m, Unsure(v, D), q),
         Cached(t, m, Unsure(v, D)), Learned(m, n, u, v[c])
  PROVE  Cached(u, n, Unsure([v EXCEPT ![c] = y], E))
<1> DEFINE w == [v EXCEPT ![c] = y]
<1>0. w[c] = y
  OBVIOUS
<1> SUFFICES ASSUME NEW k \in Keys
             PROVE  n[k] = Nil \/ n[k] = At(u, NameOf(k)) \/ Exempt(Unsure(w, E), k)
  BY DEF Cached
<1>1. NameOf(k) \in Seq(Labels)
  BY KeysAre
<1>2. CASE n[k] = m[k] /\ Exempt(Unsure(v, D), k)
  <2>1. n[k] = Nil \/ Exempt(Unsure([v EXCEPT ![c] = y], E), k)
    BY ONLY D \subseteq E, v = [d \in Calls |-> v[d]], Settles(v[c], y, n, E), c \in Calls,
            k \in Keys, <1>2, ExemptKept
  <2> QED
    BY <2>1
<1>3. CASE n[k] = m[k] /\ m[k] = At(t, NameOf(k)) /\ m[k] # Nil
  <2>1. CASE At(u, NameOf(k)) = At(t, NameOf(k))
    BY <1>3, <2>1
  <2>2. CASE At(u, NameOf(k)) # At(t, NameOf(k))
    <3>1. PICK q \in X : IsPrefix(q, NameOf(k))
      BY <1>1, <1>3, <2>2 DEF Effect
    <3>2. At(t, q) # Nil
      <4>1. q \in Seq(Labels)
        OBVIOUS
      <4>2. At(t, NameOf(k)) # Nil
        BY <1>3
      <4> QED
        BY <1>1, <3>1, <4>1, <4>2, AtAbove
    <3>3. q \in E \cup Stale(y) \/ Clear(m, Unsure(v, D), q)
      BY <3>2
    <3> HIDE DEF w
    <3>4. CASE q \in E \cup Stale(y)
      <4>1. q \in Unsure(w, E)
        BY <1>0, <3>4 DEF Unsure
      <4> QED
        BY <3>1, <4>1 DEF Exempt
    <3>5. CASE Clear(m, Unsure(v, D), q)
      <4>1. Exempt(Unsure(v, D), k)
        BY <1>3, <3>1, <3>5 DEF Clear
      <4> QED
        BY <1>2, <1>3, <4>1
    <3> QED
      BY <3>3, <3>4, <3>5
  <2> QED
    BY <2>1, <2>2
<1>4. m[k] = Nil \/ m[k] = At(t, NameOf(k)) \/ Exempt(Unsure(v, D), k)
  BY DEF Cached
<1>5. n[k] = Nil \/ n[k] = m[k] \/ n[k] = At(u, NameOf(k))
  BY DEF Learned
<1> HIDE DEF w
<1> QED
  BY <1>2, <1>3, <1>4, <1>5

LEMMA BridgesKept ==
  ASSUME OneRoot, NEW v, NEW c \in Calls, NEW y, NEW D, NEW E, D \subseteq E, NEW m, NEW n,
         v = [d \in Calls |-> v[d]], Settles(v[c], y, n, E), NEW u, v[c] \in Call,
         Learned(m, n, u, v[c]), NEW d \in Calls \ {c}, v[d] \in Call, v[d].pc = "rename",
         v[d].op = "rename", Full(Between(v[d])) \in Seq(Labels),
         Apart(v[c], v[d]), Bridged(m, Unsure(v, D), v[d])
  PROVE  Bridged(n, Unsure([v EXCEPT ![c] = y], E), v[d])
<1> DEFINE b1 == Full(Between(v[d]))
<1> SUFFICES ASSUME NEW k \in Keys, IsPrefix(b1, NameOf(k))
             PROVE  n[k] = Nil \/ Exempt(Unsure([v EXCEPT ![c] = y], E), k)
  BY DEF Bridged
<1>1. b1 \in Changes(v[d])
  BY ChangesAre
<1>2. m[k] = Nil \/ Exempt(Unsure(v, D), k)
  BY DEF Bridged
<1>3. Exempt(Unsure(v, D), k) => n[k] = Nil \/ Exempt(Unsure([v EXCEPT ![c] = y], E), k)
  BY ExemptKept
<1>4. ASSUME NameOf(k) \in Sees(v[c]), b1 \in Seq(Labels) PROVE FALSE
  <2>1. PICK q \in Uses(v[c]) : IsPrefix(NameOf(k), q) /\ NameOf(k) \in Seq(Labels)
    BY <1>4 DEF Sees
  <2>2. q \in Seq(Labels)
    BY UsesAre
  <2>3. IsPrefix(b1, q)
    BY <1>4, <2>1, <2>2, PrefixTrans
  <2> QED
    BY <1>1, <2>3 DEF Apart, KeepsClear
<1>5. b1 \in Seq(Labels)
  OBVIOUS
<1> QED
  BY <1>2, <1>3, <1>4, <1>5 DEF Learned

\* What every step does: the invariant holds behind it, and only the paths of a call
\* name another object.
Touched == \A p \in Seq(Labels) : At(tree', p) # At(tree, p) =>
  \E c \in Calls :
     \/ \E q \in Changes(cur[c]) : IsPrefix(q, p)
     \/ At(tree, p) = Nil /\ IsDir(tree', At(tree', p)) /\ p \in Sees(cur[c])
StepOK == DrivesInv' /\ Touched

LEMMA CallIs ==
  ASSUME OneRoot, DrivesInv, NEW c \in Calls
  PROVE  /\ cur[c] \in Call /\ Known(tree, cur[c]) /\ Sure(cur[c], doubt)
         /\ Asked(tree, cur[c]) /\ Going(tree, cur[c]) /\ Does(tree, cur[c]) /\ Done(tree, cur[c])
         /\ cur[c].pc # "idle" =>
              /\ Changes(cur[c]) \subseteq Changed /\ Changes(cur[c]) \subseteq Seq(Labels)
              /\ Stale(cur[c]) \subseteq Changes(cur[c])
         /\ cur[c].op = "rename" /\ cur[c].pc # "idle" =>
              /\ Full(Between(cur[c])) \in Seq(Labels) /\ Full(Between(cur[c])) \in Changes(cur[c])
<1>1. cur[c] \in Call /\ Known(tree, cur[c]) /\ Sure(cur[c], doubt)
  BY DEF DrivesInv, Own
<1>2. Asked(tree, cur[c]) /\ Going(tree, cur[c]) /\ Does(tree, cur[c]) /\ Done(tree, cur[c])
  BY <1>1 DEF Known
<1>3. ASSUME cur[c].pc # "idle"
      PROVE  /\ Changes(cur[c]) \subseteq Changed /\ Changes(cur[c]) \subseteq Seq(Labels)
             /\ Stale(cur[c]) \subseteq Changes(cur[c])
  BY <1>1, <1>2, <1>3, ChangesBelow, ChangedIs, StaleIn
<1>4. ASSUME cur[c].op = "rename", cur[c].pc # "idle"
      PROVE  /\ Full(Between(cur[c])) \in Seq(Labels) /\ Full(Between(cur[c])) \in Changes(cur[c])
  <2>1. cur[c].path # <<>> /\ cur[c].to # <<>>
    BY <1>2, <1>4 DEF Asked
  <2> QED
    BY <1>1, <1>4, <2>1, BetweenIs, ChangesAre
<1> QED
  BY <1>1, <1>2, <1>3, <1>4

LEMMA StepKeeps ==
  ASSUME OneRoot, DrivesInv, NEW c \in Calls, NEW y, NEW X,
         cur' = [cur EXCEPT ![c] = y], cur[c].pc # "idle", y.pc = "idle" \/ SameCall(cur[c], y),
         Effect(tree, tree', cur[c], X), X \subseteq Changes(cur[c]),
         Own(tree', y, doubt'), doubt \subseteq doubt', doubt' \subseteq doubt \cup Changes(cur[c]),
         pathIds' \in [Keys -> Ids \cup {Nil}], Learned(pathIds, pathIds', tree', cur[c]),
         Settles(cur[c], y, pathIds', doubt'),
         \A q \in X : At(tree, q) = Nil \/ q \in doubt' \cup Stale(y)
                       \/ Clear(pathIds, Unsure(cur, doubt), q),
         y.pc = "rename" => At(tree, Full(Between(cur[c]))) = Nil /\ pathIds' = pathIds,
         \A d \in Calls \ {c} : cur[d].pc = "rename" => Full(Between(cur[d])) \notin X,
         links' \subseteq Ids, begun' = begun, drive' = drive
  PROVE  StepOK
<1> DEFINE x == cur[c]
<1>1. /\ cur'[c] = y /\ \A d \in Calls \ {c} : cur'[d] = cur[d]
      /\ cur = [d \in Calls |-> cur[d]] /\ cur' = [d \in Calls |-> cur'[d]]
  BY DEF DrivesInv
<1>2. /\ x \in Call /\ Asked(tree, x) /\ Does(tree, x) /\ Changes(x) \subseteq Changed
      /\ Changes(x) \subseteq Seq(Labels)
  BY CallIs
<1>3. Kept(tree) /\ Kept(tree')
  BY DEF DrivesInv, Effect
<1>4. NoEcho(tree')
  BY <1>2, <1>3, EchoKept DEF DrivesInv
<1>5. doubt' \subseteq Changed
  BY <1>2 DEF DrivesInv
<1>6. \A d \in Calls \ {c} : cur[d].pc # "idle" => Apart(x, cur[d]) /\ Apart(cur[d], x)
  BY DEF DrivesInv, AllApart, Running
<1>7. ASSUME NEW d \in Calls PROVE Own(tree', cur'[d], doubt')
  <2>1. CASE d = c
    BY <1>1, <2>1
  <2>2. CASE d # c
    <3>1. Own(tree, cur[d], doubt)
      BY DEF DrivesInv
    <3>2. cur[d].pc # "idle" => Apart(x, cur[d]) /\ (cur[d].pc = "rename" => Full(Between(cur[d])) \notin X)
      BY <1>6, <2>2
    <3> HIDE DEF x
    <3>3. Own(tree', cur[d], doubt')
      BY <1>2, <1>3, <3>1, <3>2, OwnKept DEF x
    <3> QED
      BY <1>1, <2>2, <3>3
  <2> QED
    BY <2>1, <2>2
<1>8. AllApart(cur')
  <2> SUFFICES ASSUME NEW d \in Calls, NEW e \in Calls, d # e, cur'[d].pc # "idle", cur'[e].pc # "idle"
               PROVE  /\ Apart(cur'[d], cur'[e])
                      /\ cur'[d].pc = "rename" /\ cur'[e].pc = "rename"
                            => Between(cur'[d]) # Between(cur'[e])
    BY DEF AllApart, Running
  <2>1. CASE d # c /\ e # c
    BY <1>1, <2>1 DEF DrivesInv, AllApart, Running
  <2>2. ASSUME NEW f \in Calls \ {c}, cur[f].pc # "idle", y.pc # "idle"
        PROVE  /\ Apart(y, cur[f]) /\ Apart(cur[f], y)
               /\ y.pc = "rename" /\ cur[f].pc = "rename" => Between(y) # Between(cur[f])
    <3>1. SameCall(x, y)
      BY <2>2
    <3>2. Changes(y) = Changes(x) /\ Uses(y) = Uses(x) /\ Between(y) = Between(x)
      BY <3>1, SameCallIs
    <3>3. Apart(y, cur[f]) /\ Apart(cur[f], y)
      BY <1>6, <2>2, <3>2 DEF Apart
    <3>4. ASSUME y.pc = "rename", cur[f].pc = "rename" PROVE Between(y) # Between(cur[f])
      <4>1. Is(tree, cur[f].id, Between(cur[f]))
        BY <3>4, CallIs DEF Does
      <4> QED
        BY <3>2, <3>4, <4>1 DEF Is
    <3> QED
      BY <3>3, <3>4
  <2>3. CASE d = c
    BY <1>1, <2>2, <2>3
  <2>4. CASE e = c
    BY <1>1, <2>2, <2>4
  <2> QED
    BY <2>1, <2>3, <2>4
<1>9. Cached(tree', pathIds', Unsure(cur', doubt'))
  <2>1. X \subseteq Seq(Labels)
    BY <1>2
  <2>2. Cached(tree, pathIds, Unsure(cur, doubt))
    BY DEF DrivesInv
  <2>3. Cached(tree', pathIds', Unsure([cur EXCEPT ![c] = y], doubt'))
    BY ONLY OneRoot, c \in Calls, doubt \subseteq doubt', <1>1, <1>3, <2>1, <2>2,
            Settles(cur[c], y, pathIds', doubt'), Effect(tree, tree', cur[c], X),
            \A q \in X : At(tree, q) = Nil \/ q \in doubt' \cup Stale(y)
                          \/ Clear(pathIds, Unsure(cur, doubt), q),
            Learned(pathIds, pathIds', tree', cur[c]), CachedKept, ZenonT(60)
  <2> QED
    BY <2>3
<1>10. ASSUME NEW d \in Calls PROVE Bridged(pathIds', Unsure(cur', doubt'), cur'[d])
  <2>1. CASE d # c /\ cur[d].pc = "rename"
    <3>1. cur[d] \in Call /\ cur[d].op = "rename" /\ Full(Between(cur[d])) \in Seq(Labels)
      BY <2>1, CallIs DEF Does
    <3>2. Apart(x, cur[d]) /\ Bridged(pathIds, Unsure(cur, doubt), cur[d]) /\ d \in Calls \ {c}
      BY <1>6, <2>1 DEF DrivesInv
    <3>3. Bridged(pathIds', Unsure([cur EXCEPT ![c] = y], doubt'), cur[d])
      BY <1>1, <1>2, <2>1, <3>1, <3>2, BridgesKept
    <3> QED
      BY <1>1, <2>1, <3>3
  <2>2. CASE d = c /\ y.pc = "rename"
    <3>1. SameCall(x, y)
      BY <2>2
    <3>2. Between(y) = Between(x) /\ Own(tree', y, doubt')
      BY <3>1, SameCallIs
    <3>3. x.op = "rename"
      BY <2>2, <3>1, <3>2 DEF Own, Known, Does, SameCall
    <3>4. Full(Between(x)) \in Seq(Labels)
      BY <3>3, CallIs
    <3>5. SUFFICES ASSUME NEW k \in Keys, IsPrefix(Full(Between(x)), NameOf(k))
                   PROVE  pathIds'[k] = Nil \/ Exempt(Unsure(cur', doubt'), k)
      BY <1>1, <2>2, <3>2 DEF Bridged
    <3>6. NameOf(k) \in Seq(Labels) /\ At(tree, Full(Between(x))) = Nil
      BY <2>2, KeysAre
    <3>7. At(tree, NameOf(k)) = Nil
      BY <1>3, <3>4, <3>5, <3>6, AtAbove
    <3>8. pathIds[k] = Nil \/ Exempt(Unsure(cur, doubt), k)
      BY <3>7 DEF DrivesInv, Cached
    <3>9. Exempt(Unsure(cur, doubt), k) =>
             pathIds'[k] = Nil \/ Exempt(Unsure([cur EXCEPT ![c] = y], doubt'), k)
      BY <1>1, ExemptKept
    <3> QED
      BY <2>2, <3>8, <3>9
  <2>3. CASE cur'[d].pc # "rename"
    BY <2>3 DEF Bridged
  <2> QED
    BY <1>1, <2>1, <2>2, <2>3
<1>11. links' \subseteq Ids /\ begun' \in 0..MaxCalls /\ drive' \in Drives
  BY DEF DrivesInv
<1>12. DrivesInv'
  BY <1>1, <1>3, <1>4, <1>5, <1>7, <1>8, <1>9, <1>10, <1>11 DEF DrivesInv
<1>13. Touched
  BY DEF Touched, Effect
<1> QED
  BY <1>12, <1>13 DEF StepOK

\* A step that only moves its call on.
LEMMA CallMoves ==
  ASSUME OneRoot, DrivesInv, NEW c \in Calls, NEW y, Set(c, y), UNCHANGED <<tree, pathIds, doubt, begun>>,
         links' \subseteq Ids, cur[c].pc # "idle", SameCall(cur[c], y), y.changed = cur[c].changed,
         y.pc # "rename", Own(tree, y, doubt), drive' = drive
  PROVE  StepOK
<1>1. /\ cur' = [cur EXCEPT ![c] = y] /\ tree' = tree /\ pathIds' = pathIds /\ doubt' = doubt
      /\ begun' = begun
  BY DEF Set
<1> DEFINE X == {}
<1>2. /\ Effect(tree, tree', cur[c], X) /\ X \subseteq Changes(cur[c]) /\ \A q : q \notin X
  BY <1>1, NoEffect DEF DrivesInv
<1> HIDE DEF X
<1>3. Learned(pathIds, pathIds', tree', cur[c])
  BY <1>1 DEF Learned
<1>4. Settles(cur[c], y, pathIds', doubt')
  BY DEF Settles, Stale, SameCall
<1>5. pathIds' \in [Keys -> Ids \cup {Nil}]
  BY <1>1 DEF DrivesInv
<1>6. /\ doubt \subseteq doubt' /\ doubt' \subseteq doubt \cup Changes(cur[c]) /\ Own(tree', y, doubt')
  BY <1>1
<1> QED
  BY <1>1, <1>2, <1>3, <1>4, <1>5, <1>6, StepKeeps

LEMMA CallGoesOn ==
  ASSUME OneRoot, DrivesInv, NEW c \in Calls, NEW y, OnlyCall(c, y), cur[c].pc # "idle",
         SameCall(cur[c], y), y.changed = cur[c].changed, y.pc # "rename",
         Own(tree, y, doubt), drive' = drive
  PROVE  StepOK
<1>1. Set(c, y) /\ UNCHANGED <<tree, pathIds, doubt, begun>> /\ links' \subseteq Ids
  BY DEF OnlyCall, DrivesInv
<1> QED
  BY <1>1, CallMoves

-----------------------------------------------------------------------------
(***************************************************************************)
(* Walks.                                                                  *)
(***************************************************************************)
\* A walk with no name left is at the folder it was for.
LEMMA ArrivedOwn ==
  ASSUME OneRoot, NEW t, Kept(t), NEW D, NEW z \in Call, NEW y \in Call, z.pc = "walk",
         Asked(t, z), Way(t, z), Sure(z, D),
         SameCall(z, y), y.pc = z.goal, y.at = z.at, y.id = z.id, y.changed = z.changed,
         y.how = z.how, Is(t, z.at, z.dest)
  PROVE  Own(t, y, D)
<1>1. z.goal \in GoalsOf(z.op) /\ z.dest = DestOf(z) /\ (z.goal = "move" => Is(t, z.id, z.path))
  BY DEF Way
<1>2. z.op \in Operations /\ z.goal \in Goals
  BY DEF Call
<1>3. /\ z.goal = "list" => z.op = "list" /\ z.dest = z.path
      /\ z.goal = "ok" => z.op = "mkdir" /\ z.dest = z.path
      /\ z.goal = "stat" => z.op \in {"get", "delete", "rename"} /\ z.dest = Front(z.path)
      /\ z.goal = "move" => z.op = "rename" /\ z.dest = Front(z.to)
      /\ z.goal \in {"old", "precheck"} => Writes(z) /\ z.dest = Front(z.path)
      /\ z.goal = "precheck" => z.op = "copy"
  BY <1>1, <1>2, RequestsAssumption DEF GoalsOf, DestOf, Operations, Writes
<1>4. y.op = z.op /\ y.path = z.path /\ y.to = z.to
  BY DEF SameCall
<1>5. Asked(t, y)
  BY <1>2, <1>4 DEF Asked
<1>6. Going(t, y)
  BY <1>2 DEF Going, Walks, Goals
<1>7. Does(t, y)
  BY <1>1, <1>2, <1>3, <1>4 DEF Does, Puts, Sending, Goals, Writes
<1>8. Done(t, y)
  <2> SUFFICES ASSUME z.goal = "ok" PROVE IsDir(t, At(t, Full(z.path)))
    BY <1>3, <1>4 DEF Done, Writes
  <2> QED
    BY <1>3 DEF Asked, Is
<1>9. Sure(y, D)
  <2>1. Changes(y) = Changes(z) /\ Uses(y) = Uses(z)
    BY SameCallIs
  <2> QED
    BY <1>2, <1>4, <2>1 DEF Sure, Changing, Goals
<1> QED
  BY <1>5, <1>6, <1>7, <1>8, <1>9 DEF Own, Known

LEMMA OnwardOwn ==
  ASSUME OneRoot, NEW t, Kept(t), NEW D, NEW z \in Call, z.pc = "walk", Asked(t, z), Way(t, z),
         Sure(z, D)
  PROVE  LET y == Onward(z) IN
         /\ Own(t, y, D) /\ SameCall(z, y) /\ y.changed = z.changed
         /\ y.pc \notin {"rename", "idle"}
<1> DEFINE y == Onward(z)
           path == [z EXCEPT !.leg = "path", !.pre = <<>>, !.rest = z.dest]
           end == [path EXCEPT !.rest = <<>>, !.pc = z.goal]
<1>1. /\ z.dest \in Paths /\ z.goal \in Goals /\ z.pre \in Seq(Labels) /\ z.rest \in Seq(Labels)
      /\ z.leg \in {"root", "path"}
  BY DEF Call
<1>2. z.dest \in Seq(Labels) /\ <<>> \in Seq(Labels)
  BY <1>1, PathsAre
<1>3. z.pre \o z.rest = IF z.leg = "root" THEN Root ELSE z.dest
  BY DEF Way
<1>4. z.rest = <<>> => z.pre = IF z.leg = "root" THEN Root ELSE z.dest
  BY <1>1, <1>3, ConcatEmptySeq
<1>5. Full(<<>>) = Root
  BY <1>2, FullIs
<1>6. CASE z.rest # <<>>
  <2>1. y = z
    BY <1>6 DEF Onward
  <2>2. Known(t, z)
    BY <1>6 DEF Known, Going, Does, Done, Puts, Sending, Walks
  <2> QED
    BY <2>1, <2>2 DEF Own, SameCall
<1>7. CASE z.rest = <<>> /\ z.leg = "root" /\ z.dest # <<>>
  <2>1. y = path
    BY <1>7 DEF Onward
  <2>2. /\ path \in Call /\ path.pc = "walk" /\ SameCall(z, path) /\ path.changed = z.changed
        /\ path.at = z.at /\ path.id = z.id /\ path.how = z.how /\ path.leg = "path"
        /\ path.pre = <<>> /\ path.rest = z.dest /\ path.dest = z.dest /\ path.goal = z.goal
    BY <1>2 DEF Call, SameCall
  <2> HIDE DEF path
  <2>3. path.op = z.op /\ path.path = z.path /\ path.to = z.to
    BY <2>2 DEF SameCall
  <2>4. z.at = At(t, Root)
    BY <1>4, <1>7 DEF Way, Place
  <2>5. Place(path) = Root
    BY <1>5, <2>2 DEF Place
  <2>6. path.pre \o path.rest = z.dest
    BY <1>2, <2>2, ConcatEmptySeq
  <2>7. DestOf(path) = DestOf(z)
    BY <2>2, <2>3 DEF DestOf
  <2>8. Way(t, path)
    BY <2>2, <2>3, <2>4, <2>5, <2>6, <2>7 DEF Way
  <2>9. Known(t, path)
    BY <1>7, <2>2, <2>3, <2>8 DEF Known, Asked, Going, Does, Done, Puts, Sending, Walks
  <2>10. Sure(path, D)
    <3>1. Changes(path) = Changes(z) /\ Uses(path) = Uses(z)
      BY <2>2, SameCallIs
    <3> QED
      BY <2>2, <2>3, <3>1 DEF Sure, Changing
  <2> QED
    BY <2>1, <2>2, <2>9, <2>10 DEF Own
<1>8. CASE z.rest = <<>> /\ ~(z.leg = "root" /\ z.dest # <<>>)
  <2>1. y = end
    BY <1>8 DEF Onward
  <2>2. /\ end \in Call /\ end.pc = z.goal /\ SameCall(z, end) /\ end.changed = z.changed
        /\ end.at = z.at /\ end.id = z.id /\ end.how = z.how
    BY <1>1, <1>2 DEF Call, SameCall, Pcs
  <2> HIDE DEF end
  <2>3. Place(z) = Full(z.dest)
    BY <1>1, <1>4, <1>5, <1>8 DEF Place
  <2>4. Is(t, z.at, z.dest)
    BY <2>3 DEF Is, Way
  <2>5. Own(t, end, D)
    BY <2>2, <2>4, ArrivedOwn
  <2> QED
    BY <1>1, <2>1, <2>2, <2>5 DEF Goals
<1> QED
  BY <1>6, <1>7, <1>8

LEMMA WalkToOwn ==
  ASSUME OneRoot, NEW t, Kept(t), NEW D, NEW z \in Call, Asked(t, [z EXCEPT !.pc = "walk"]),
         z.changed => z.op = "copy" /\ Changes(z) \subseteq D,
         \A p \in D, q \in Uses(z) : IsPrefix(p, q) => z.op = "copy" /\ p = Full(z.path),
         NEW goal \in GoalsOf(z.op), NEW path \in Paths, NEW create \in BOOLEAN,
         goal \in {"list", "ok"} => path = z.path,
         goal = "move" => path = Front(z.to) /\ Is(t, z.id, z.path),
         goal \notin {"list", "ok", "move"} => path = Front(z.path)
  PROVE  LET y == WalkTo(z, goal, path, create) IN
         /\ Own(t, y, D) /\ SameCall(z, y) /\ y.changed = z.changed
         /\ y.pc \notin {"rename", "idle"}
<1> DEFINE w == [z EXCEPT !.pc = "walk", !.leg = "root", !.at = Top, !.pre = <<>>,
                          !.rest = RootOf(z.src), !.goal = goal, !.dest = path,
                          !.create = create]
<1>1. WalkTo(z, goal, path, create) = Onward(w)
  BY DEF WalkTo
<1>2. RootOf(z.src) = Root /\ Root \in Seq(Labels) /\ z.op \in Operations
  BY RootIs DEF OneRoot, Call
<1>3. goal \in Goals
  BY <1>2, RequestsAssumption DEF GoalsOf, Goals, Operations
<1>4. /\ w \in Call /\ w.pc = "walk" /\ SameCall(z, w) /\ w.changed = z.changed /\ w.at = Top
      /\ w.id = z.id /\ w.how = z.how /\ w.leg = "root" /\ w.pre = <<>> /\ w.rest = Root
      /\ w.goal = goal /\ w.dest = path
  <2> DEFINE e == <<>>
  <2>1. e \in Seq(Labels) /\ Top \in Ids
    BY IdsAre
  <2> HIDE DEF e
  <2>2. RootOf(z.src) \in Seq(Labels)
    BY <1>2
  <2>3. [z EXCEPT !.pc = "walk", !.leg = "root", !.at = Top, !.pre = e, !.rest = RootOf(z.src),
                  !.goal = goal, !.dest = path, !.create = create] \in Call
    BY <1>3, <2>1, <2>2 DEF Call, Pcs, Walks
  <2>4. w \in Call
    BY <2>3 DEF e
  <2> QED
    BY <1>2, <2>4 DEF Call, SameCall
<1>5. w.op = z.op /\ w.path = z.path /\ w.to = z.to
  BY <1>4 DEF SameCall
<1> DEFINE v == [z EXCEPT !.pc = "walk"]
<1>6. v.pc = "walk" /\ v.op = z.op /\ v.path = z.path /\ v.to = z.to /\ v.how = z.how
  BY DEF Call
<1> HIDE DEF w, v
<1>7. Asked(t, w)
  <2>1. Asked(t, v)
    BY DEF v
  <2> QED
    BY <1>4, <1>5, <1>6, <2>1 DEF Asked
<1>8. Way(t, w)
  <2>1. w.pre \o w.rest = Root
    BY <1>2, <1>4, ConcatEmptySeq
  <2>2. Place(w) = <<>>
    BY <1>4 DEF Place
  <2>3. At(t, Place(w)) = Top
    BY <2>2, AtTop
  <2>4. w.dest = DestOf(w)
    BY <1>4, <1>5 DEF DestOf
  <2> QED
    BY <1>4, <1>5, <2>1, <2>3, <2>4, IdsAre DEF Way
<1>9. Sure(w, D)
  <2>1. Changes(w) = Changes(z) /\ Uses(w) = Uses(z)
    BY <1>4, SameCallIs
  <2> QED
    BY <1>4, <1>5, <2>1 DEF Sure, Changing
<1>10. LET y == Onward(w) IN /\ Own(t, y, D) /\ SameCall(w, y) /\ y.changed = w.changed
                             /\ y.pc \notin {"rename", "idle"}
  BY <1>4, <1>7, <1>8, <1>9, OnwardOwn
<1> QED
  BY <1>1, <1>4, <1>10 DEF SameCall

\* A walk that takes its next step.
LEMMA StepOwn ==
  ASSUME OneRoot, NEW t, Kept(t), NEW D, NEW x \in Call, x.pc \in Walks, Asked(t, x),
         Way(t, x), x.rest # <<>>, Sure(x, D), NEW e \in Ids, e = At(t, Ahead(x))
  PROVE  LET y == Step(x, e) IN
         /\ Own(t, y, D) /\ SameCall(x, y) /\ y.changed = x.changed
         /\ y.pc \notin {"rename", "idle"}
<1> DEFINE w == [x EXCEPT !.pc = "walk", !.at = e, !.pre = Key(x), !.rest = Tail(x.rest)]
<1>1. Step(x, e) = Onward(w)
  BY DEF Step
<1>2. x.pc # "idle"
  BY DEF Walks
<1>3. /\ Key(x) \in Seq(Labels) /\ Tail(x.rest) \in Seq(Labels)
      /\ Key(x) \o Tail(x.rest) = x.pre \o x.rest
      /\ Ahead(x) = IF x.leg = "root" THEN Key(x) ELSE Full(Key(x))
  BY <1>2, WayGoes
<1>4. /\ w \in Call /\ w.pc = "walk" /\ SameCall(x, w) /\ w.changed = x.changed /\ w.at = e
      /\ w.id = x.id /\ w.how = x.how /\ w.leg = x.leg /\ w.pre = Key(x)
      /\ w.rest = Tail(x.rest) /\ w.goal = x.goal /\ w.dest = x.dest
  BY <1>3 DEF Call, SameCall, Pcs, Walks
<1>5. w.op = x.op /\ w.path = x.path /\ w.to = x.to
  BY <1>4 DEF SameCall
<1> HIDE DEF w
<1>6. Asked(t, w)
  BY <1>2, <1>4, <1>5 DEF Asked
<1>7. Way(t, w)
  <2>1. Place(w) = Ahead(x)
    BY <1>3, <1>4 DEF Place
  <2>2. DestOf(w) = DestOf(x)
    BY <1>4, <1>5 DEF DestOf
  <2> QED
    BY <1>3, <1>4, <1>5, <2>1, <2>2, IdsAre DEF Way
<1>8. Sure(w, D)
  <2>1. Changes(w) = Changes(x) /\ Uses(w) = Uses(x)
    BY <1>4, SameCallIs
  <2> QED
    BY <1>4, <1>5, <2>1 DEF Sure, Changing, Walks
<1>9. LET y == Onward(w) IN /\ Own(t, y, D) /\ SameCall(w, y) /\ y.changed = w.changed
                             /\ y.pc \notin {"rename", "idle"}
  BY <1>4, <1>6, <1>7, <1>8, OnwardOwn
<1> QED
  BY <1>1, <1>4, <1>9 DEF SameCall

\* What the next name of a walk leads to is not in doubt.
LEMMA NotExempt ==
  ASSUME OneRoot, DrivesInv, NEW c \in Calls, cur[c].pc \in Walks
  PROVE  ~Exempt(Unsure(cur, doubt), Key(cur[c]))
<1> DEFINE x == cur[c]
<1>1. /\ x \in Call /\ x.pc # "idle" /\ Asked(tree, x) /\ Way(tree, x) /\ x.rest # <<>>
      /\ Sure(x, doubt) /\ x.pc # "failed"
  BY CallIs DEF Going, Walks
<1>2. Stale(x) \subseteq Changes(x)
  BY <1>1, CallIs
<1> HIDE DEF x
<1>3. /\ NameOf(Key(x)) = Ahead(x) /\ Ahead(x) \in Sees(x) /\ Ahead(x) \in Seq(Labels)
      /\ IsPrefix(Ahead(x), Full(x.dest)) /\ Full(x.dest) \in Seq(Labels)
  BY <1>1, WayGoes DEF Sees
<1>4. ASSUME NEW p \in Seq(Labels), IsPrefix(p, Ahead(x))
      PROVE  \E q \in Uses(x) : IsPrefix(p, q)
  BY <1>1, <1>3, <1>4, SeesBelow DEF Sees
<1>5. ASSUME x.op = "copy" PROVE ~IsPrefix(Full(x.path), Ahead(x))
  <2>1. x.goal \in {"old", "precheck"}
    BY <1>1, <1>5 DEF Way, GoalsOf
  <2>2. x.path # <<>> /\ x.dest = Front(x.path) /\ x.path \in Paths
    BY <1>1, <2>1, WayGoes, UsesAre
  <2>3. /\ Full(x.path) \in Seq(Labels) /\ ~IsPrefix(Full(x.path), Full(x.dest))
    BY <2>2, PathsAre, FullIs
  <2> QED
    BY <1>3, <2>3, PrefixTrans
<1>6. ASSUME NEW p \in doubt PROVE ~IsPrefix(p, Ahead(x))
  <2>1. p \in Seq(Labels)
    BY ChangedIs DEF DrivesInv
  <2> SUFFICES ASSUME IsPrefix(p, Ahead(x)) PROVE FALSE
    OBVIOUS
  <2>2. x.op = "copy" /\ p = Full(x.path)
    BY <1>1, <1>4, <2>1 DEF Sure
  <2> QED
    BY <1>5, <2>2
<1>7. ASSUME NEW d \in Calls, NEW p \in Stale(cur[d]) PROVE ~IsPrefix(p, Ahead(x))
  <2>1. CASE d = c
    <3>1. x.changed /\ p \in Changes(x)
      BY <1>2, <1>7, <2>1 DEF Stale, x
    <3>2. x.op = "copy"
      BY <1>1, <3>1 DEF Sure, Walks, x
    <3>3. p = Full(x.path)
      BY <1>1, <3>1, <3>2, ChangesAre
    <3> QED
      BY <1>5, <3>2, <3>3
  <2>2. CASE d # c
    <3>1. cur[d].changed
      BY <1>7 DEF Stale
    <3>2. cur[d].pc # "idle"
      BY <3>1, CallIs DEF Sure
    <3>3. p \in Changes(cur[d]) /\ p \in Seq(Labels)
      BY <1>7, <3>2, CallIs
    <3>4. Apart(cur[d], x)
      BY <1>1, <2>2, <3>2 DEF DrivesInv, AllApart, Running, x
    <3>5. \A q \in Uses(x) : ~IsPrefix(p, q)
      BY <3>3, <3>4 DEF Apart, KeepsClear
    <3> QED
      BY <1>4, <3>3, <3>5
  <2> QED
    BY <2>1, <2>2
<1> QED
  BY <1>3, <1>6, <1>7 DEF Exempt, Unsure, x

\* A failed call, or one that goes on without the instant transfer.
LEMMA FailedOwn ==
  ASSUME OneRoot, NEW t, Kept(t), NEW D, NEW E, NEW x \in Call, Asked(t, x),
         x.pc \notin {"idle", "failed"}, Sure(x, D), E \subseteq D \cup Changes(x),
         x.changed => Changes(x) \subseteq E
  PROVE  LET y == Failed(x) IN
         /\ Own(t, y, E) /\ SameCall(x, y) /\ y.changed = x.changed
         /\ y.pc \notin {"rename", "idle"}
<1>1. CASE x.how = "put"
  <2> DEFINE y == [x EXCEPT !.pc = "failed"]
  <2>1. Failed(x) = y
    BY <1>1 DEF Failed
  <2>2. y \in Call /\ y.pc = "failed" /\ SameCall(x, y) /\ y.changed = x.changed /\ y.how = x.how
    BY DEF Call, SameCall, Pcs
  <2> HIDE DEF y
  <2>3. y.op = x.op /\ y.path = x.path /\ y.to = x.to
    BY <2>2 DEF SameCall
  <2>4. Known(t, y)
    BY <2>2, <2>3 DEF Known, Asked, Going, Does, Done, Walks, Puts, Sending
  <2>5. Sure(y, E)
    <3>1. Changes(y) = Changes(x)
      BY <2>2, SameCallIs
    <3> QED
      BY <2>2, <2>3, <3>1 DEF Sure, Changing
  <2> QED
    BY <2>1, <2>2, <2>4, <2>5 DEF Own
<1>2. CASE x.how # "put"
  <2> DEFINE z == [x EXCEPT !.how = "put"]
             w == [z EXCEPT !.pc = "walk"]
  <2>1. Failed(x) = WalkTo(z, "old", Front(x.path), TRUE)
    BY <1>2 DEF Failed
  <2>2. z \in Call /\ SameCall(x, z) /\ z.changed = x.changed /\ z.how = "put"
    BY DEF Call, SameCall
  <2>3. w.pc = "walk" /\ w.op = z.op /\ w.path = z.path /\ w.to = z.to /\ w.how = "put"
    BY DEF Call
  <2> HIDE DEF z, w
  <2>4. z.op = x.op /\ z.path = x.path /\ z.to = x.to
    BY <2>2 DEF SameCall
  <2>5. x.op = "copy" /\ x.path # <<>> /\ x.path \in Paths
    BY <1>2 DEF Asked, Call
  <2>6. Asked(t, w)
    BY <2>3, <2>4, <2>5 DEF Asked
  <2>7. Changes(z) = Changes(x) /\ Uses(z) = Uses(x) /\ Changes(x) = {Full(x.path)}
    BY <2>2, <2>5, SameCallIs, ChangesAre
  <2>8. \A p \in E, q \in Uses(z) : IsPrefix(p, q) => z.op = "copy" /\ p = Full(z.path)
    BY <2>4, <2>5, <2>7 DEF Sure
  <2>9. Front(x.path) \in Paths /\ "old" \in GoalsOf(z.op)
    BY <2>4, <2>5, PathsAre DEF GoalsOf
  <2>10. z.changed => z.op = "copy" /\ Changes(z) \subseteq E
    BY <2>2, <2>4, <2>5, <2>7
  <2>11. LET y == WalkTo(z, "old", Front(x.path), TRUE) IN
         /\ Own(t, y, E) /\ SameCall(z, y) /\ y.changed = z.changed
         /\ y.pc \notin {"rename", "idle"}
    BY <2>2, <2>4, <2>6, <2>8, <2>9, <2>10, WalkToOwn DEF w
  <2> QED
    BY <2>1, <2>2, <2>11 DEF SameCall
<1> QED
  BY <1>1, <1>2

LEMMA SettlesOn ==
  ASSUME NEW x, NEW y, SameCall(x, y), x.changed => y.changed, NEW n, NEW E
  PROVE  Settles(x, y, n, E)
BY DEF Settles, Stale, SameCall

LEMMA GiveUpKeeps ==
  ASSUME OneRoot, DrivesInv, NEW c \in Calls, GiveUp(c), cur[c].pc \notin {"idle", "failed"},
         drive' = drive
  PROVE  StepOK
<1> DEFINE x == cur[c]
           y == Failed(x)
           X == {}
<1>1. /\ cur' = [cur EXCEPT ![c] = y] /\ tree' = tree /\ pathIds' = pathIds
      /\ doubt' = (IF x.changed THEN doubt \cup Changes(x) ELSE doubt)
      /\ begun' = begun /\ links' = links
  BY DEF GiveUp, Set
<1>2. x \in Call /\ Asked(tree, x) /\ Sure(x, doubt)
  BY CallIs
<1>3. /\ doubt \subseteq doubt' /\ doubt' \subseteq doubt \cup Changes(x)
      /\ x.changed => Changes(x) \subseteq doubt'
  BY <1>1
<1>4. /\ Own(tree, y, doubt') /\ SameCall(x, y) /\ y.changed = x.changed
      /\ y.pc \notin {"rename", "idle"}
  BY <1>2, <1>3, FailedOwn DEF DrivesInv
<1>5. Effect(tree, tree', x, X) /\ X \subseteq Changes(x) /\ \A q : q \notin X
  BY <1>1, NoEffect DEF DrivesInv
<1> HIDE DEF y, X
<1>6. Learned(pathIds, pathIds', tree', x) /\ Settles(x, y, pathIds', doubt')
  BY <1>1, <1>4, SettlesOn DEF Learned
<1>7. pathIds' \in [Keys -> Ids \cup {Nil}] /\ links' \subseteq Ids
  BY <1>1 DEF DrivesInv
<1> QED
  BY <1>1, <1>3, <1>4, <1>5, <1>6, <1>7, StepKeeps

LEMMA RequestFailsKeeps ==
  ASSUME OneRoot, DrivesInv, NEW c \in Calls, RequestFails(c), drive' = drive
  PROVE  StepOK
BY GiveUpKeeps DEF RequestFails, Settled

\* A call that still walks the same way, and one that is as sure as it was.
LEMMA WalkOwn ==
  ASSUME OneRoot, NEW t, NEW D, NEW x \in Call, Own(t, x, D), x.pc \in Walks, NEW y \in Call,
         y.pc \in {"looked", "create", "again"}, SameCall(x, y), y.leg = x.leg, y.at = x.at,
         y.pre = x.pre, y.rest = x.rest, y.goal = x.goal, y.dest = x.dest, y.id = x.id,
         y.how = x.how, y.changed = x.changed, IsDir(t, x.at),
         y.pc = "looked" => y.kid = Nil \/ y.kid = At(t, Ahead(x))
  PROVE  Own(t, y, D)
<1>1. y.op = x.op /\ y.path = x.path /\ y.to = x.to
  BY DEF SameCall
<1>2. Place(y) = Place(x) /\ Ahead(y) = Ahead(x) /\ DestOf(y) = DestOf(x)
  BY <1>1 DEF Place, Ahead, DestOf
<1>3. Asked(t, x) /\ Way(t, x) /\ x.rest # <<>> /\ Sure(x, D)
  BY DEF Own, Known, Going
<1>4. Asked(t, y)
  BY <1>1, <1>3 DEF Asked, Walks
<1>5. Way(t, y)
  BY <1>1, <1>2, <1>3 DEF Way
<1>6. Going(t, y) /\ Does(t, y) /\ Done(t, y)
  BY <1>2, <1>3, <1>5 DEF Going, Does, Done, Walks, Puts, Sending
<1>7. Sure(y, D)
  <2>1. Changes(y) = Changes(x) /\ Uses(y) = Uses(x)
    BY SameCallIs
  <2> QED
    BY <1>1, <1>3, <2>1 DEF Sure, Changing, Walks
<1> QED
  BY <1>4, <1>6, <1>7 DEF Own, Known

LEMMA SureOn ==
  ASSUME NEW x, NEW y, NEW D, Sure(x, D), SameCall(x, y), y.changed = x.changed,
         x.pc \notin {"idle", "failed"}, y.pc \notin {"evict", "rename", "idle"},
         x.changed /\ x.pc \in {"evict", "rename", "new", "made"} => y.pc \in {"new", "made"}
  PROVE  Sure(y, D)
<1>1. Changes(y) = Changes(x) /\ Uses(y) = Uses(x)
  BY SameCallIs
<1>2. y.op = x.op /\ y.path = x.path /\ y.to = x.to
  BY DEF SameCall
<1> QED
  BY <1>1, <1>2 DEF Sure, Changing

-----------------------------------------------------------------------------
(***************************************************************************)
(* The walk of either drive.                                               *)
(***************************************************************************)
LEMMA WalkHitKeeps ==
  ASSUME OneRoot, DrivesInv, NEW c \in Calls, WalkHit(c), drive' = drive
  PROVE  StepOK
<1> DEFINE x == cur[c]
           k == Key(x)
           e == pathIds[k]
           y == Step(x, e)
<1>1. x.pc = "walk" /\ e # Nil /\ OnlyCall(c, y)
  BY DEF WalkHit
<1>2. /\ x \in Call /\ x.pc # "idle" /\ x.pc \in Walks /\ Asked(tree, x) /\ Way(tree, x)
      /\ x.rest # <<>> /\ Sure(x, doubt)
  BY <1>1, CallIs DEF Going, Walks
<1>3. k \in Keys /\ NameOf(k) = Ahead(x)
  BY <1>2, WayGoes
<1>4. ~Exempt(Unsure(cur, doubt), k)
  BY <1>2, NotExempt
<1> HIDE DEF k
<1>5. e = At(tree, Ahead(x)) /\ e \in Ids
  BY <1>1, <1>3, <1>4 DEF DrivesInv, Cached
<1>6. /\ Own(tree, y, doubt) /\ SameCall(x, y) /\ y.changed = x.changed
      /\ y.pc \notin {"rename", "idle"}
  BY <1>2, <1>5, StepOwn DEF DrivesInv
<1> QED
  BY <1>1, <1>2, <1>6, CallGoesOn

LEMMA WalkLookKeeps ==
  ASSUME OneRoot, DrivesInv, NEW c \in Calls, WalkLook(c), drive' = drive
  PROVE  StepOK
<1> DEFINE x == cur[c]
           e == Child(tree, x.at, Head(x.rest))
           y == [x EXCEPT !.pc = "looked", !.kid = e]
<1>1. x.pc = "walk" /\ IsDir(tree, x.at) /\ OnlyCall(c, y)
  BY DEF WalkLook
<1>2. /\ x \in Call /\ x.pc # "idle" /\ x.pc \in Walks /\ Asked(tree, x) /\ Way(tree, x)
      /\ x.rest # <<>> /\ Own(tree, x, doubt)
  BY <1>1, CallIs DEF Going, Walks, DrivesInv
<1>3. Place(x) \in Seq(Labels) /\ Head(x.rest) \in Labels /\ x.at = At(tree, Place(x))
  BY <1>2, WayGoes DEF Way
<1>4. e = At(tree, Ahead(x)) /\ e \in Ids \cup {Nil}
  <2>1. e = At(tree, Ahead(x))
    BY <1>3, AtChild DEF Ahead
  <2> QED
    BY <2>1, ChildIs DEF DrivesInv
<1> HIDE DEF e
<1>5. /\ y \in Call /\ y.pc = "looked" /\ SameCall(x, y) /\ y.leg = x.leg /\ y.at = x.at
      /\ y.pre = x.pre /\ y.rest = x.rest /\ y.goal = x.goal /\ y.dest = x.dest /\ y.id = x.id
      /\ y.how = x.how /\ y.changed = x.changed /\ y.kid = e
  BY <1>2, <1>4 DEF Call, SameCall, Pcs, Walks
<1> HIDE DEF y
<1>6. Own(tree, y, doubt)
  BY <1>1, <1>2, <1>4, <1>5, WalkOwn
<1> QED
  BY <1>1, <1>2, <1>5, <1>6, CallGoesOn

\* The object the next name leads to is remembered.
LEMMA LearnKeeps ==
  ASSUME OneRoot, DrivesInv, NEW c \in Calls, cur[c].pc \in Walks,
         Effect(tree, tree', cur[c], {}), Steady(tree, tree', cur[c]),
         NEW e \in Ids, e = At(tree', Ahead(cur[c])), Learn(c, e), drive' = drive
  PROVE  StepOK
<1> DEFINE x == cur[c]
           k == Key(x)
           y == Step(x, e)
           X == {}
<1>1. /\ cur' = [cur EXCEPT ![c] = y] /\ pathIds' = [pathIds EXCEPT ![k] = e]
      /\ doubt' = doubt /\ begun' = begun /\ links' = links
  BY DEF Learn, Set
<1>2. /\ x \in Call /\ x.pc # "idle" /\ Sure(x, doubt) /\ Known(tree, x) /\ Asked(tree, x)
  BY CallIs DEF Walks
<1>3. Kept(tree) /\ Kept(tree')
  BY DEF DrivesInv, Effect
<1>4. Asked(tree', x) /\ Way(tree', x) /\ x.rest # <<>>
  <2>1. Known(tree', x)
    BY <1>2, <1>3, KnownKept
  <2> QED
    BY <2>1 DEF Known, Going
<1>5. /\ Own(tree', y, doubt') /\ SameCall(x, y) /\ y.changed = x.changed
      /\ y.pc \notin {"rename", "idle"}
  BY <1>1, <1>2, <1>3, <1>4, StepOwn
<1>6. k \in Keys /\ NameOf(k) = Ahead(x) /\ Ahead(x) \in Sees(x)
  BY <1>2, <1>4, WayGoes
<1>7. Effect(tree, tree', x, X) /\ X \subseteq Changes(x) /\ \A q : q \notin X
  OBVIOUS
<1> HIDE DEF y, X, k
<1>8. Learned(pathIds, pathIds', tree', x) /\ pathIds' \in [Keys -> Ids \cup {Nil}]
  BY <1>1, <1>6 DEF Learned, DrivesInv
<1>9. Settles(x, y, pathIds', doubt')
  BY <1>5, SettlesOn
<1>10. links' \subseteq Ids /\ doubt \subseteq doubt' /\ doubt' \subseteq doubt \cup Changes(x)
  BY <1>1 DEF DrivesInv
<1> QED
  BY <1>1, <1>2, <1>5, <1>7, <1>8, <1>9, <1>10, StepKeeps

LEMMA NoChange ==
  ASSUME NEW t, Kept(t), NEW x
  PROVE  Effect(t, t, x, {}) /\ Steady(t, t, x)
BY NoEffect DEF Steady, Grown

LEMMA WalkFoundKeeps ==
  ASSUME OneRoot, DrivesInv, NEW c \in Calls, WalkFound(c), drive' = drive
  PROVE  StepOK
<1> DEFINE x == cur[c]
           e == x.kid
           y == [x EXCEPT !.pc = "create"]
<1>1. /\ x.pc = "looked"
      /\ \/ IsDir(tree, e) /\ Learn(c, e) /\ UNCHANGED tree
         \/ GiveUp(c)
         \/ OnlyCall(c, y)
  BY DEF WalkFound
<1>2. /\ x \in Call /\ x.pc # "idle" /\ x.pc \in Walks /\ Asked(tree, x) /\ Way(tree, x)
      /\ x.rest # <<>> /\ Own(tree, x, doubt) /\ IsDir(tree, x.at)
      /\ (e = Nil \/ e = At(tree, Ahead(x)))
  BY <1>1, CallIs DEF Going, Walks, DrivesInv
<1>3. CASE IsDir(tree, e) /\ Learn(c, e) /\ UNCHANGED tree
  <2>1. e \in Ids /\ e = At(tree', Ahead(x))
    BY <1>2, <1>3 DEF IsDir, Call
  <2>2. Effect(tree, tree', x, {}) /\ Steady(tree, tree', x)
    BY <1>3, NoChange DEF DrivesInv
  <2> QED
    BY <1>2, <1>3, <2>1, <2>2, LearnKeeps
<1>4. CASE GiveUp(c)
  BY <1>1, <1>4, GiveUpKeeps
<1>5. CASE OnlyCall(c, y)
  <2>1. /\ y \in Call /\ y.pc = "create" /\ SameCall(x, y) /\ y.leg = x.leg /\ y.at = x.at
        /\ y.pre = x.pre /\ y.rest = x.rest /\ y.goal = x.goal /\ y.dest = x.dest /\ y.id = x.id
        /\ y.how = x.how /\ y.changed = x.changed
    BY <1>2 DEF Call, SameCall, Pcs, Walks
  <2> HIDE DEF y
  <2>2. Own(tree, y, doubt)
    BY <1>2, <2>1, WalkOwn
  <2> QED
    BY <1>2, <1>5, <2>1, <2>2, CallGoesOn
<1> QED
  BY <1>1, <1>3, <1>4, <1>5

-----------------------------------------------------------------------------
(***************************************************************************)
(* What either drive does at the end of a walk.                            *)
(***************************************************************************)
\* An entry that is remembered under a key is the object of the key's path.
LEMMA EntryIs ==
  ASSUME OneRoot, NEW t, Kept(t), NoEcho(t), NEW p \in Paths, NEW e, Is(t, e, p),
         NEW i \in Ids, t[i].st = "live", t[i].up = e, Append(p, t[i].name) \in Keys
  PROVE  LET k == Append(p, t[i].name) IN
         /\ i = At(t, NameOf(k)) /\ t[i].name \in Names /\ NameOf(k) = Full(k)
<1> DEFINE n == t[i].name
           k == Append(p, n)
<1>1. p \in Seq(Names) /\ p \in Seq(Labels) /\ p \in Seq(Spoken) /\ n \in Spoken
  <2>1. p \in Seq(Names) /\ p \in Seq(Labels)
    BY PathsAre
  <2>2. p \in Seq(Spoken)
    BY <2>1, RootIs
  <2>3. n \in Spoken
    BY DEF Kept, Objects
  <2> QED
    BY <2>1, <2>2, <2>3
<1>2. /\ k \in Keys /\ k \in Seq(Labels)
      /\ \/ IsPrefix(k, Root) /\ NameOf(k) = k
         \/ k \in Paths /\ k # <<>> /\ NameOf(k) = Full(k)
  BY KeysAre
<1>3. Len(p) \in Nat /\ Len(k) = Len(p) + 1 /\ k[Len(p) + 1] = n /\ k # <<>>
  BY <1>1, Appended, LenProperties
<1>4. n \in Labels
  <2>1. Len(p) + 1 \in 1..Len(k)
    BY <1>3
  <2> HIDE DEF k
  <2> QED
    BY <1>2, <1>3, <2>1
<1>5. e # Nil /\ e = At(t, Full(p)) /\ Full(p) \in Seq(Labels)
  BY <1>1, FullIs DEF Is
<1>6. At(t, Append(Full(p), n)) = i
  BY <1>4, <1>5, AtNamed
<1>7. Full(k) = Append(Full(p), n)
  BY <1>1, <1>4, FullAppend
<1>8. CASE k \in Paths /\ NameOf(k) = Full(k)
  <2>1. k \in Seq(Names)
    BY <1>8, PathsAre
  <2>2. Len(p) + 1 \in 1..Len(k)
    BY <1>3
  <2> HIDE DEF k
  <2>3. n \in Names
    BY <1>3, <2>1, <2>2
  <2> QED
    BY <1>6, <1>7, <1>8, <2>3 DEF k
<1>9. CASE IsPrefix(k, Root)
  <2>1. Root # <<>> /\ Head(k) = Head(Root)
    BY <1>2, <1>3, <1>9, RootIs, FirstName
  <2>2. p = <<>>
    <3> SUFFICES ASSUME p # <<>> PROVE FALSE
      OBVIOUS
    <3>1. IsPrefix(p, p)
      BY <1>1, PrefixSelf
    <3>2. IsPrefix(p, k)
      BY <1>1, <1>4, <3>1, PrefixAppend
    <3>3. Head(p) = Head(k) /\ Head(p) \in Names
      BY <1>1, <1>2, <3>2, FirstName
    <3> QED
      BY <2>1, <3>3 DEF OneRoot
  <2>3. Head(k) = n
    BY <1>1, <1>3, <1>2, <2>2
  <2>4. Full(p) = Root
    BY <1>1, <2>2, FullIs
  <2>5. At(t, Append(Root, Head(Root))) = i
    BY <1>6, <2>1, <2>3, <2>4
  <2> QED
    BY <2>1, <2>5, IdsAre DEF NoEcho
<1> QED
  BY <1>2, <1>8, <1>9

LEMMA ListKeeps ==
  ASSUME OneRoot, DrivesInv, NEW c \in Calls, List(c), drive' = drive
  PROVE  StepOK
<1> DEFINE x == cur[c]
           y == [x EXCEPT !.pc = "ok"]
           kids == Children(tree, x.at)
           X == {}
           at(k, i) == i \in kids /\ Append(x.path, tree[i].name) = k
<1>1. /\ x.pc = "list" /\ tree' = tree /\ doubt' = doubt /\ begun' = begun /\ links' = links
      /\ cur' = [cur EXCEPT ![c] = y]
  BY DEF List, Set
<1>2. pathIds' = [k \in Keys |-> IF \E i \in kids : Append(x.path, tree[i].name) = k
                                 THEN CHOOSE i \in kids : Append(x.path, tree[i].name) = k
                                 ELSE pathIds[k]]
  BY DEF List
<1>3. /\ x \in Call /\ x.op = "list" /\ Is(tree, x.at, x.path) /\ Asked(tree, x)
      /\ Sure(x, doubt) /\ x.path \in Paths
  BY <1>1, CallIs, UsesAre DEF Does
<1>4. kids \subseteq Ids /\ \A i \in kids : tree[i].st = "live" /\ tree[i].up = x.at
  BY DEF Children, DrivesInv, Kept
<1>5. ASSUME NEW k \in Keys
      PROVE  \/ pathIds'[k] = pathIds[k]
             \/ /\ pathIds'[k] = At(tree, NameOf(k)) /\ NameOf(k) \in Sees(x)
                /\ pathIds'[k] \in Ids
  <2>1. CASE \E i \in kids : Append(x.path, tree[i].name) = k
    <3> DEFINE i == CHOOSE i \in kids : Append(x.path, tree[i].name) = k
    <3>1. i \in kids /\ Append(x.path, tree[i].name) = k /\ pathIds'[k] = i
      BY <1>2, <2>1
    <3> HIDE DEF i, kids
    <3>2. i \in Ids /\ tree[i].st = "live" /\ tree[i].up = x.at
      BY <1>4, <3>1
    <3>3. i = At(tree, NameOf(k)) /\ tree[i].name \in Names /\ NameOf(k) = Full(k)
      BY <1>3, <3>1, <3>2, EntryIs DEF DrivesInv
    <3>4. Full(k) \in Uses(x) /\ Full(k) \in Seq(Labels)
      BY <1>3, <3>1, <3>3, UsesAre
    <3>5. Full(k) \in Sees(x)
      BY <3>4, PrefixSelf DEF Sees
    <3> QED
      BY <3>1, <3>2, <3>3, <3>5
  <2>2. CASE ~\E i \in kids : Append(x.path, tree[i].name) = k
    BY <1>2, <2>2
  <2> QED
    BY <2>1, <2>2
<1>6. pathIds' \in [Keys -> Ids \cup {Nil}]
  <2>1. pathIds' = [k \in Keys |-> pathIds'[k]]
    BY <1>2
  <2> QED
    BY <1>5, <2>1 DEF DrivesInv
<1>7. Learned(pathIds, pathIds', tree', x)
  BY <1>1, <1>5 DEF Learned
<1>8. y \in Call /\ y.pc = "ok" /\ y.changed = x.changed /\ SameCall(x, y) /\ y.how = x.how
  BY <1>3 DEF Call, Pcs, Goals, SameCall
<1>9. y.op = x.op /\ y.path = x.path /\ y.to = x.to
  BY <1>8 DEF SameCall
<1>10. Effect(tree, tree', x, X) /\ X \subseteq Changes(x) /\ \A q : q \notin X
  BY <1>1, NoEffect DEF DrivesInv
<1> HIDE DEF y, X
<1>11. Known(tree, y)
  BY <1>1, <1>3, <1>8, <1>9 DEF Known, Asked, Going, Does, Done, Writes, Walks, Puts, Sending
<1>12. Sure(y, doubt)
  BY <1>1, <1>3, <1>8, SureOn
<1>13. Own(tree', y, doubt') /\ Settles(x, y, pathIds', doubt')
  BY <1>1, <1>8, <1>11, <1>12, SettlesOn DEF Own
<1>14. links' \subseteq Ids /\ doubt \subseteq doubt' /\ doubt' \subseteq doubt \cup Changes(x)
  BY <1>1 DEF DrivesInv
<1> QED
  BY <1>1, <1>6, <1>7, <1>8, <1>10, <1>13, <1>14, StepKeeps

\* What a folder holds under the last name of a path.
LEMMA KidIs ==
  ASSUME NEW t, Kept(t), NEW p \in Paths, p # <<>>, NEW e, Is(t, e, Front(p))
  PROVE  /\ Child(t, e, Last(p)) = At(t, Full(p))
         /\ At(t, Full(p)) \in Ids \cup {Nil}
<1>1. /\ Full(p) = Append(Full(Front(p)), Last(p)) /\ Front(p) \in Seq(Labels) /\ Last(p) \in Labels
      /\ Full(Front(p)) \in Seq(Labels)
  BY PathsAre, FullIs
<1>2. Child(t, e, Last(p)) = At(t, Full(p))
  BY <1>1, AtChild DEF Is
<1> QED
  BY <1>2, ChildIs

\* A call that stays at its place, with what is known of the step it goes on with.
LEMMA PlainOwn ==
  ASSUME OneRoot, NEW t, NEW u, NEW D, NEW x \in Call, x.pc \notin {"idle", "failed"}, NEW y \in Call,
         SameCall(x, y), Asked(t, x), Sure(x, D), y.how = x.how, y.changed = x.changed,
         y.op # "mkdir", y.pc \notin Walks \cup {"idle", "evict", "rename"}, Does(u, y), Done(u, y),
         x.changed /\ x.pc \in {"evict", "rename", "new", "made"} => y.pc \in {"new", "made"}
  PROVE  Own(u, y, D)
<1>1. y.op = x.op /\ y.path = x.path /\ y.to = x.to
  BY DEF SameCall
<1>2. Known(u, y)
  BY <1>1 DEF Known, Asked, Going
<1>3. Sure(y, D)
  BY SureOn
<1> QED
  BY <1>2, <1>3 DEF Own

LEMMA StatKeeps ==
  ASSUME OneRoot, DrivesInv, NEW c \in Calls, Stat(c), drive' = drive
  PROVE  StepOK
<1> DEFINE x == cur[c]
           e == Child(tree, x.at, Last(x.path))
           found == [x EXCEPT !.id = e]
           link == [found EXCEPT !.pc = "link"]
           trash == [found EXCEPT !.pc = "trash"]
           move == [found EXCEPT !.pc = "move", !.at = x.at]
           walk == WalkTo(found, "move", Front(x.to), TRUE)
<1>1. /\ x.pc = "stat" /\ IsDir(tree, x.at)
      /\ \/ GiveUp(c)
         \/ e # Nil /\ x.op = "get" /\ OnlyCall(c, link)
         \/ e # Nil /\ x.op = "delete" /\ OnlyCall(c, trash)
         \/ e # Nil /\ x.op = "rename" /\ Front(x.path) = Front(x.to) /\ OnlyCall(c, move)
         \/ e # Nil /\ x.op = "rename" /\ OnlyCall(c, walk)
  BY DEF Stat
<1>2. /\ x \in Call /\ Is(tree, x.at, Front(x.path)) /\ x.op \in {"get", "delete", "rename"}
      /\ Asked(tree, x) /\ Sure(x, doubt) /\ x.path \in Paths /\ x.to \in Paths /\ x.at # Nil
  BY <1>1, CallIs, UsesAre DEF Does, Is
<1>3. x.path # <<>> /\ (x.op = "rename" => x.to # <<>>)
  BY <1>1, <1>2 DEF Asked
<1>4. e = At(tree, Full(x.path)) /\ e \in Ids \cup {Nil}
  BY <1>2, <1>3, KidIs DEF DrivesInv
<1>5. ~x.changed
  BY <1>1, <1>2 DEF Sure
<1> HIDE DEF e
<1>6. /\ found \in Call /\ SameCall(x, found) /\ found.changed = x.changed /\ found.how = x.how
      /\ found.id = e
  BY <1>2, <1>4 DEF Call, SameCall
<1>7. CASE GiveUp(c)
  BY <1>1, <1>7, GiveUpKeeps
<1>8. ASSUME NEW y \in Call, SameCall(x, y), y.changed = x.changed, y.how = x.how, y.id = e, e # Nil,
             \/ y.pc = "link" /\ x.op = "get"
             \/ y.pc = "trash" /\ x.op = "delete"
             \/ y.pc = "move" /\ x.op = "rename" /\ y.at = x.at /\ Front(x.path) = Front(x.to),
             OnlyCall(c, y)
      PROVE  StepOK
  <2>1. y.op = x.op /\ y.path = x.path /\ y.to = x.to
    BY <1>8 DEF SameCall
  <2>2. Does(tree, y) /\ Done(tree, y)
    BY <1>2, <1>4, <1>8, <2>1 DEF Does, Done, Is, Puts, Sending
  <2>3. Own(tree, y, doubt)
    BY <1>1, <1>2, <1>8, <2>1, <2>2, PlainOwn DEF Walks
  <2> QED
    BY <1>1, <1>8, <2>3, CallGoesOn
<1>9. CASE e # Nil /\ x.op = "get" /\ OnlyCall(c, link)
  <2>1. /\ link \in Call /\ SameCall(x, link) /\ link.changed = x.changed /\ link.how = x.how
        /\ link.id = e /\ link.pc = "link"
    BY <1>6 DEF Call, SameCall, Pcs
  <2> HIDE DEF link
  <2> QED
    BY <1>8, <1>9, <2>1
<1>10. CASE e # Nil /\ x.op = "delete" /\ OnlyCall(c, trash)
  <2>1. /\ trash \in Call /\ SameCall(x, trash) /\ trash.changed = x.changed /\ trash.how = x.how
        /\ trash.id = e /\ trash.pc = "trash"
    BY <1>6 DEF Call, SameCall, Pcs
  <2> HIDE DEF trash
  <2> QED
    BY <1>8, <1>10, <2>1
<1>11. CASE e # Nil /\ x.op = "rename" /\ Front(x.path) = Front(x.to) /\ OnlyCall(c, move)
  <2>1. /\ move \in Call /\ SameCall(x, move) /\ move.changed = x.changed /\ move.how = x.how
        /\ move.id = e /\ move.pc = "move" /\ move.at = x.at
    BY <1>2, <1>6 DEF Call, SameCall, Pcs, Goals
  <2> HIDE DEF move
  <2> QED
    BY <1>8, <1>11, <2>1
<1>12. CASE e # Nil /\ x.op = "rename" /\ OnlyCall(c, walk)
  <2> DEFINE w == [found EXCEPT !.pc = "walk"]
  <2>1. w.pc = "walk" /\ w.op = found.op /\ w.path = found.path /\ w.to = found.to /\ w.how = found.how
    BY <1>6 DEF Call
  <2> HIDE DEF found, w
  <2>2. found.op = x.op /\ found.path = x.path /\ found.to = x.to
    BY <1>6 DEF SameCall
  <2>3. Asked(tree, w)
    BY <1>1, <1>2, <1>6, <2>1, <2>2 DEF Asked
  <2>4. Uses(found) = Uses(x)
    BY <1>6, SameCallIs
  <2>5. \A p \in doubt, q \in Uses(found) : IsPrefix(p, q) => found.op = "copy" /\ p = Full(found.path)
    BY <1>1, <1>2, <1>12, <2>2, <2>4 DEF Sure
  <2>6. /\ "move" \in GoalsOf(found.op) /\ Front(x.to) \in Paths /\ Is(tree, found.id, found.path)
    BY <1>2, <1>3, <1>4, <1>6, <1>12, <2>2, PathsAre DEF GoalsOf, Is
  <2>7. /\ Own(tree, walk, doubt) /\ SameCall(found, walk) /\ walk.changed = found.changed
        /\ walk.pc \notin {"rename", "idle"}
    BY <1>5, <1>6, <2>2, <2>3, <2>5, <2>6, WalkToOwn DEF w, DrivesInv
  <2> HIDE DEF walk
  <2>8. SameCall(x, walk)
    BY <1>6, <2>7 DEF SameCall
  <2> QED
    BY <1>1, <1>6, <1>12, <2>7, <2>8, CallGoesOn
<1> QED
  BY <1>1, <1>7, <1>9, <1>10, <1>11, <1>12

\* A link that is remembered, fetched by and forgotten.
LEMMA LinkKeeps ==
  ASSUME OneRoot, DrivesInv, NEW c \in Calls, Link(c), drive' = drive
  PROVE  StepOK
<1> DEFINE x == cur[c]
           y == [x EXCEPT !.pc = "fetch"]
<1>1. /\ x.pc = "link" /\ links' = links \cup {x.id} /\ Set(c, y)
      /\ UNCHANGED <<tree, pathIds, doubt, begun>>
  BY DEF Link
<1>2. /\ x \in Call /\ x.op = "get" /\ Is(tree, x.id, x.path) /\ Asked(tree, x) /\ Sure(x, doubt)
  BY <1>1, CallIs DEF Does
<1>3. y \in Call /\ y.pc = "fetch" /\ SameCall(x, y) /\ y.changed = x.changed /\ y.how = x.how /\ y.id = x.id
  BY <1>2 DEF Call, SameCall, Pcs
<1> HIDE DEF y
<1>4. y.op = x.op /\ y.path = x.path /\ y.to = x.to
  BY <1>3 DEF SameCall
<1>5. Does(tree, y) /\ Done(tree, y)
  BY <1>2, <1>3, <1>4 DEF Does, Done, Puts, Sending
<1>6. Own(tree, y, doubt)
  BY <1>1, <1>2, <1>3, <1>4, <1>5, PlainOwn DEF Walks
<1>7. links' \subseteq Ids
  BY <1>1, <1>2 DEF DrivesInv, Is, Call
<1> QED
  BY <1>1, <1>3, <1>6, <1>7, CallMoves

LEMMA FetchKeeps ==
  ASSUME OneRoot, DrivesInv, NEW c \in Calls, Fetch(c), drive' = drive
  PROVE  StepOK
<1> DEFINE x == cur[c]
<1>1. /\ x.pc = "fetch" /\ links' \subseteq Ids /\ UNCHANGED <<tree, pathIds, doubt, begun>>
      /\ \E pc \in {"ok", "failed"} : Set(c, [x EXCEPT !.pc = pc])
  BY DEF Fetch, OnlyCall, DrivesInv
<1>2. PICK pc \in {"ok", "failed"} : Set(c, [x EXCEPT !.pc = pc])
  BY <1>1
<1> DEFINE y == [x EXCEPT !.pc = pc]
<1>3. /\ x \in Call /\ x.op = "get" /\ Is(tree, x.id, x.path) /\ Asked(tree, x) /\ Sure(x, doubt)
  BY <1>1, CallIs DEF Does
<1>4. y \in Call /\ y.pc = pc /\ SameCall(x, y) /\ y.changed = x.changed /\ y.how = x.how /\ y.id = x.id
  BY <1>2, <1>3 DEF Call, SameCall, Pcs, Goals
<1>5. Set(c, y)
  BY <1>2
<1> HIDE DEF y
<1>6. y.op = x.op /\ y.path = x.path /\ y.to = x.to
  BY <1>4 DEF SameCall
<1>7. Does(tree, y) /\ Done(tree, y)
  BY <1>2, <1>3, <1>4, <1>6 DEF Does, Done, Puts, Sending, Writes
<1>8. Own(tree, y, doubt)
  BY <1>1, <1>2, <1>3, <1>4, <1>6, <1>7, PlainOwn DEF Walks
<1> QED
  BY <1>1, <1>2, <1>4, <1>5, <1>8, CallMoves

\* The object at a path is thrown away.
LEMMA GoneEffect ==
  ASSUME NEW t, Kept(t), NEW q \in Seq(Labels), q # <<>>, NEW e, e = At(t, q), e # Nil, NEW x
  PROVE  LET u == [t EXCEPT ![e].st = "gone"] IN
         /\ Effect(t, u, x, {q}) /\ At(u, q) = Nil
         /\ \A p \in Seq(Labels) : At(t, p) # At(u, p) => IsPrefix(q, p)
<1> DEFINE u == [t EXCEPT ![e].st = "gone"]
<1>1. /\ Kept(u) /\ At(u, q) = Nil
      /\ \A p \in Seq(Labels) : At(t, p) # At(u, p) => IsPrefix(q, p)
  BY GoneAt
<1>2. e \in Ids /\ t[e].st = "live"
  BY AtLive
<1>3. /\ t \in [Ids -> Objects] /\ u[e] = [t[e] EXCEPT !.st = "gone"]
      /\ \A i \in Ids \ {e} : u[i] = t[i]
  BY <1>2 DEF Kept
<1>4. t[e] \in Objects /\ u[e].st = "gone" /\ u[e].kind = t[e].kind /\ u[e].parts = t[e].parts
  BY <1>2, <1>3 DEF Objects
<1> HIDE DEF u
<1>5. Grown(t, u)
  BY <1>3, <1>4 DEF Grown
<1>6. \A i \in Ids : t[i].st = "pending" => u[i] = t[i]
  BY <1>2, <1>3
<1>7. Effect(t, u, x, {q})
  BY <1>1, <1>5, <1>6 DEF Effect
<1> QED
  BY <1>1, <1>7 DEF u

\* The old names of calls that rename are none a call uses.
LEMMA OthersBetween ==
  ASSUME OneRoot, DrivesInv, NEW c \in Calls, cur[c].pc # "idle", NEW d \in Calls \ {c},
         cur[d].pc = "rename"
  PROVE  Full(Between(cur[d])) \notin Uses(cur[c])
<1>1. cur[d] \in Call /\ cur[d].op = "rename" /\ cur[c] \in Call
  BY CallIs DEF Does
<1>2. Full(Between(cur[d])) \in Changes(cur[d]) /\ Full(Between(cur[d])) \in Seq(Labels)
  BY <1>1, CallIs
<1>3. Apart(cur[d], cur[c])
  BY DEF DrivesInv, AllApart, Running
<1>4. IsPrefix(Full(Between(cur[d])), Full(Between(cur[d])))
  BY <1>2, PrefixSelf
<1> QED
  BY <1>2, <1>3, <1>4 DEF Apart, KeepsClear

\* A call takes the object away that its path names.
LEMMA RemoveKeeps ==
  ASSUME OneRoot, DrivesInv, NEW c \in Calls, NEW y, cur[c].pc # "idle", Changing(cur[c]),
         cur[c].op # "rename", NEW e, Is(tree, e, cur[c].path),
         tree' = [tree EXCEPT ![e].st = "gone"], cur' = [cur EXCEPT ![c] = y],
         UNCHANGED <<pathIds, doubt, begun, links>>, drive' = drive,
         SameCall(cur[c], y), y.changed, y.pc # "rename",
         At(tree', Full(cur[c].path)) = Nil /\ Kept(tree')
         /\ (\A p \in Seq(Labels) : At(tree, p) # At(tree', p) => IsPrefix(Full(cur[c].path), p))
           => Own(tree', y, doubt)
  PROVE  StepOK
<1> DEFINE x == cur[c]
           q == Full(x.path)
           X == {q}
<1>1. x \in Call /\ Asked(tree, x)
  BY CallIs
<1>2. x.path # <<>> /\ x.path \in Paths
  BY <1>1, UsesAre DEF Asked, Changing
<1>3. q \in Seq(Labels) /\ q # <<>> /\ q \in Uses(x)
  BY <1>1, <1>2, PathsAre, FullIs, UsesAre
<1>4. e = At(tree, q) /\ e # Nil
  BY DEF Is
<1>5. Changes(x) = X
  BY <1>1, ChangesAre DEF Changing
<1> HIDE DEF q
<1>6. /\ Effect(tree, tree', x, X) /\ At(tree', q) = Nil
      /\ \A p \in Seq(Labels) : At(tree, p) # At(tree', p) => IsPrefix(q, p)
  <2>1. Kept(tree)
    BY DEF DrivesInv
  <2> DEFINE u == [tree EXCEPT ![e].st = "gone"]
  <2>2. /\ Effect(tree, u, x, {q}) /\ At(u, q) = Nil
        /\ \A p \in Seq(Labels) : At(tree, p) # At(u, p) => IsPrefix(q, p)
    BY ONLY <2>1, <1>3, <1>4, GoneEffect, ZenonT(40)
  <2>3. tree' = u
    OBVIOUS
  <2> HIDE DEF u
  <2> QED
    BY <2>2, <2>3
<1>7. Own(tree', y, doubt')
  BY <1>6 DEF q, Effect
<1>8. q \in Stale(y)
  BY DEF Stale, SameCall, q
<1>9. \A p \in X : At(tree, p) = Nil \/ p \in doubt' \cup Stale(y)
  BY <1>8
<1>10. \A d \in Calls \ {c} : cur[d].pc = "rename" => Full(Between(cur[d])) \notin X
  BY <1>3, OthersBetween
<1> HIDE DEF X
<1>11. Settles(x, y, pathIds', doubt') /\ Learned(pathIds, pathIds', tree', x)
  BY SettlesOn DEF Learned
<1>12. /\ pathIds' \in [Keys -> Ids \cup {Nil}] /\ links' \subseteq Ids /\ begun' = begun
       /\ doubt \subseteq doubt' /\ doubt' \subseteq doubt \cup Changes(x)
  BY DEF DrivesInv
<1> QED
  BY <1>5, <1>6, <1>7, <1>9, <1>10, <1>11, <1>12, StepKeeps

LEMMA TrashKeeps ==
  ASSUME OneRoot, DrivesInv, NEW c \in Calls, Trash(c), drive' = drive
  PROVE  StepOK
<1> DEFINE x == cur[c]
           y == [x EXCEPT !.pc = "evict", !.changed = TRUE]
<1>1. /\ x.pc = "trash" /\ tree' = [tree EXCEPT ![x.id].st = "gone"]
      /\ cur' = [cur EXCEPT ![c] = y] /\ UNCHANGED <<pathIds, doubt, begun, links>>
  BY DEF Trash, Set
<1>2. /\ x \in Call /\ x.op = "delete" /\ Is(tree, x.id, x.path) /\ Asked(tree, x) /\ Sure(x, doubt)
  BY <1>1, CallIs DEF Does
<1>3. /\ y \in Call /\ y.pc = "evict" /\ SameCall(x, y) /\ y.changed = TRUE /\ y.how = x.how
      /\ y.id = x.id
  BY <1>2 DEF Call, SameCall, Pcs
<1> HIDE DEF y
<1>4. y.op = x.op /\ y.path = x.path /\ y.to = x.to
  BY <1>3 DEF SameCall
<1>5. ASSUME At(tree', Full(x.path)) = Nil PROVE Own(tree', y, doubt)
  <2>1. Known(tree', y)
    BY <1>1, <1>2, <1>3, <1>4, <1>5 DEF Known, Asked, Going, Does, Done, Walks, Puts, Sending
  <2>2. Uses(y) = Uses(x)
    BY <1>3, SameCallIs
  <2>3. Sure(y, doubt)
    BY <1>1, <1>2, <1>3, <1>4, <2>2 DEF Sure, Changing
  <2> QED
    BY <1>3, <2>1, <2>3 DEF Own
<1> QED
  BY <1>1, <1>2, <1>3, <1>5, RemoveKeeps DEF Changing

\* What a change forgets is everything remembered at and below its path.
LEMMA Forgotten ==
  ASSUME OneRoot, NEW p \in Paths, p # <<>>, NEW k \in Keys, IsPrefix(Full(p), NameOf(k))
  PROVE  IsPrefix(p, k)
<1>1. p \in Seq(Names) \ {<<>>} /\ p \in Seq(Labels)
  BY PathsAre
<1>2. Full(p) \in Changed
  BY <1>1 DEF Changed
<1>3. /\ k \in Seq(Labels)
      /\ (IsPrefix(k, Root) /\ NameOf(k) = k) \/ NameOf(k) = Full(k)
  BY KeysAre
<1>4. CASE IsPrefix(k, Root) /\ NameOf(k) = k
  BY <1>2, <1>3, <1>4, ChangedIs
<1>5. CASE NameOf(k) = Full(k)
  BY <1>1, <1>3, <1>5, FullIs
<1> QED
  BY <1>3, <1>4, <1>5

LEMMA ForgetSettles ==
  ASSUME OneRoot, NEW x \in Call, x.path # <<>>, x.to # <<>>, NEW y, NEW gone,
         x.path \in gone, x.to \in gone, NEW m \in [Keys -> Ids \cup {Nil}], NEW E, NEW u
  PROVE  /\ Settles(x, y, Without(m, gone), E) /\ Learned(m, Without(m, gone), u, x)
         /\ Without(m, gone) \in [Keys -> Ids \cup {Nil}]
<1> DEFINE n == Without(m, gone)
<1>1. n = [k \in Keys |-> IF \E p \in gone : IsPrefix(p, k) THEN Nil ELSE m[k]]
  BY DEF Without, Under
<1>2. \A k \in Keys : n[k] = Nil \/ n[k] = m[k]
  BY <1>1
<1>3. n \in [Keys -> Ids \cup {Nil}]
  BY <1>1
<1>4. ASSUME NEW p \in gone, NEW k \in Keys, IsPrefix(p, k) PROVE n[k] = Nil
  BY <1>1, <1>4
<1> HIDE DEF n
<1>5. ASSUME NEW p \in {x.path, x.to}, NEW k \in Keys, IsPrefix(Full(p), NameOf(k)) PROVE n[k] = Nil
  <2>1. p \in Paths /\ p # <<>> /\ p \in gone
    BY <1>5, UsesAre
  <2> QED
    BY <1>4, <1>5, <2>1, Forgotten
<1>6. Settles(x, y, n, E)
  BY <1>5 DEF Settles, Stale
<1>7. Learned(m, n, u, x)
  BY <1>2 DEF Learned
<1> QED
  BY <1>3, <1>6, <1>7 DEF n

LEMMA EvictKeeps ==
  ASSUME OneRoot, DrivesInv, NEW c \in Calls, Evict(c), drive' = drive
  PROVE  StepOK
<1> DEFINE x == cur[c]
           y == [x EXCEPT !.pc = "ok", !.changed = FALSE]
           gone == {x.path, x.to}
           X == {}
<1>1. /\ x.pc = "evict" /\ pathIds' = Without(pathIds, gone) /\ cur' = [cur EXCEPT ![c] = y]
      /\ tree' = tree /\ doubt' = doubt /\ begun' = begun /\ links' = links
  BY DEF Evict, Set
<1>2. /\ x \in Call /\ x.op \in {"delete", "rename"} /\ At(tree, Full(x.path)) = Nil
      /\ (x.op = "rename" => Is(tree, x.id, x.to)) /\ Asked(tree, x) /\ Sure(x, doubt)
  BY <1>1, CallIs DEF Does
<1>3. x.path # <<>> /\ x.to # <<>>
  BY <1>1, <1>2 DEF Asked
<1>4. /\ y \in Call /\ y.pc = "ok" /\ SameCall(x, y) /\ y.changed = FALSE /\ y.how = x.how
      /\ y.id = x.id
  BY <1>2, ZenonT(40) DEF Call, SameCall, Pcs, Goals
<1>5. x.path \in gone /\ x.to \in gone
  OBVIOUS
<1>6. Effect(tree, tree', x, X) /\ X \subseteq Changes(x) /\ \A q : q \notin X
  BY <1>1, NoEffect DEF DrivesInv
<1> HIDE DEF y, gone, X
<1>7. y.op = x.op /\ y.path = x.path /\ y.to = x.to
  BY <1>4 DEF SameCall
<1>8. Known(tree', y)
  BY <1>1, <1>2, <1>4, <1>7 DEF Known, Asked, Going, Does, Done, Walks, Puts, Sending, Writes
<1>9. Sure(y, doubt')
  <2>1. Uses(y) = Uses(x)
    BY <1>4, SameCallIs
  <2> QED
    BY <1>1, <1>2, <1>4, <1>7, <2>1 DEF Sure
<1>10. /\ Settles(x, y, pathIds', doubt') /\ Learned(pathIds, pathIds', tree', x)
       /\ pathIds' \in [Keys -> Ids \cup {Nil}]
  BY <1>1, <1>2, <1>3, <1>5, ForgetSettles DEF DrivesInv
<1>11. /\ links' \subseteq Ids /\ doubt \subseteq doubt' /\ doubt' \subseteq doubt \cup Changes(x)
       /\ Own(tree', y, doubt')
  BY <1>1, <1>4, <1>8, <1>9 DEF DrivesInv, Own
<1> QED
  BY <1>1, <1>4, <1>6, <1>10, <1>11, StepKeeps

LEMMA PutLookKeeps ==
  ASSUME OneRoot, DrivesInv, NEW c \in Calls, PutLook(c), drive' = drive
  PROVE  StepOK
<1> DEFINE x == cur[c]
           e == Child(tree, x.at, Last(x.path))
           y == [x EXCEPT !.kid = e, !.pc = IF e = Nil THEN "new" ELSE "removeOld"]
<1>1. x.pc = "old" /\ OnlyCall(c, y)
  BY DEF PutLook
<1>2. /\ x \in Call /\ Is(tree, x.at, Front(x.path)) /\ Writes(x) /\ Asked(tree, x)
      /\ Sure(x, doubt) /\ x.path \in Paths
  BY <1>1, CallIs, UsesAre DEF Does, Puts
<1>3. x.path # <<>>
  BY <1>1, <1>2 DEF Asked, Writes
<1>4. e = At(tree, Full(x.path)) /\ e \in Ids \cup {Nil}
  BY <1>2, <1>3, KidIs DEF DrivesInv
<1> HIDE DEF e
<1>5. /\ y \in Call /\ SameCall(x, y) /\ y.changed = x.changed /\ y.how = x.how /\ y.at = x.at
      /\ y.kid = e /\ y.pc = IF e = Nil THEN "new" ELSE "removeOld"
  BY <1>2, <1>4, ZenonT(40) DEF Call, SameCall, Pcs, Puts
<1> HIDE DEF y
<1>6. y.op = x.op /\ y.path = x.path /\ y.to = x.to
  BY <1>5 DEF SameCall
<1>7. Does(tree, y) /\ Done(tree, y)
  BY <1>2, <1>4, <1>5, <1>6 DEF Does, Done, Puts, Sending, Writes, Is
<1>8. Own(tree, y, doubt)
  BY <1>1, <1>2, <1>5, <1>6, <1>7, PlainOwn DEF Walks, Writes
<1> QED
  BY <1>1, <1>5, <1>8, CallGoesOn

LEMMA RemoveOldKeeps ==
  ASSUME OneRoot, DrivesInv, NEW c \in Calls, RemoveOld(c), drive' = drive
  PROVE  StepOK
<1> DEFINE x == cur[c]
           y == [x EXCEPT !.pc = "new", !.changed = TRUE]
<1>1. /\ x.pc = "removeOld" /\ tree' = [tree EXCEPT ![x.kid].st = "gone"]
      /\ cur' = [cur EXCEPT ![c] = y] /\ UNCHANGED <<pathIds, doubt, begun, links>>
  BY DEF RemoveOld, Set
<1>2. /\ x \in Call /\ Writes(x) /\ Is(tree, x.kid, x.path) /\ Is(tree, x.at, Front(x.path))
      /\ Asked(tree, x) /\ Sure(x, doubt) /\ x.path \in Paths
  BY <1>1, CallIs, UsesAre DEF Does, Puts
<1>3. /\ y \in Call /\ y.pc = "new" /\ SameCall(x, y) /\ y.changed = TRUE /\ y.how = x.how
      /\ y.at = x.at
  BY <1>2 DEF Call, SameCall, Pcs, Puts
<1> HIDE DEF y
<1>4. y.op = x.op /\ y.path = x.path /\ y.to = x.to
  BY <1>3 DEF SameCall
<1>5. x.path # <<>>
  BY <1>1, <1>2 DEF Asked, Writes
<1>6. ASSUME At(tree', Full(x.path)) = Nil, Kept(tree'),
             \A p \in Seq(Labels) : At(tree, p) # At(tree', p) => IsPrefix(Full(x.path), p)
      PROVE  Own(tree', y, doubt)
  <2>1. Full(Front(x.path)) \in Seq(Labels) /\ ~IsPrefix(Full(x.path), Full(Front(x.path)))
    BY <1>2, <1>5, PathsAre, FullIs
  <2>2. Is(tree', y.at, Front(y.path))
    BY <1>2, <1>3, <1>4, <1>6, <2>1 DEF Is
  <2>3. Does(tree', y) /\ Done(tree', y) /\ Going(tree', y)
    BY <1>2, <1>3, <1>4, <1>6, <2>2 DEF Does, Done, Going, Walks, Puts, Sending, Writes
  <2>4. Asked(tree', y)
    BY <1>1, <1>2, <1>3, <1>4 DEF Asked, Writes
  <2>5. Uses(y) = Uses(x)
    BY <1>3, SameCallIs
  <2>6. Sure(y, doubt)
    BY <1>1, <1>2, <1>3, <1>4, <2>5 DEF Sure, Changing, Writes
  <2> QED
    BY <1>3, <2>3, <2>4, <2>6 DEF Own, Known
<1> QED
  BY <1>1, <1>2, <1>3, <1>6, RemoveKeeps DEF Changing, Writes

LEMMA IdleIs ==
  /\ Idle \in Call /\ Idle.pc = "idle" /\ ~Idle.changed /\ Idle.how = "put"
  /\ \A t, D : Own(t, Idle, D)
<1> DEFINE e == <<>>
           s == CHOOSE s \in Sources : TRUE
<1>1. e \in Paths /\ e \in Seq(Labels) /\ s \in Sources
  BY SourcesAssumption
<1>2. 1 \in 1 .. Parts + 1 /\ 1 \in 1..MaxTries
  BY PartsAssumption DEF MaxTries
<1>3. Idle = [pc |-> "idle", op |-> "list", src |-> s,
         path |-> e, to |-> e, leg |-> "root", goal |-> "list", dest |-> e,
         create |-> FALSE, at |-> Nil, pre |-> e, rest |-> e, kid |-> Nil,
         id |-> Nil, part |-> 1, try |-> 1, how |-> "put", changed |-> FALSE]
  BY DEF Idle
<1> HIDE DEF e, s
<1>4. Idle \in Call
  BY <1>1, <1>2, <1>3 DEF Call, Pcs, Operations, Goals
<1>5. Idle.pc = "idle" /\ Idle.changed = FALSE /\ Idle.how = "put"
  BY <1>3
<1>6. ASSUME NEW t, NEW D PROVE Own(t, Idle, D)
  BY <1>4, <1>5 DEF Own, Known, Asked, Going, Does, Done, Sure, Walks, Puts, Sending
<1> QED
  BY <1>4, <1>5, <1>6

LEMMA ReplyKeeps ==
  ASSUME OneRoot, DrivesInv, NEW c \in Calls, Reply(c), drive' = drive
  PROVE  StepOK
<1> DEFINE x == cur[c]
           X == {}
<1>1. /\ x.pc \in {"ok", "failed"} /\ cur' = [cur EXCEPT ![c] = Idle] /\ tree' = tree
      /\ pathIds' = pathIds /\ doubt' = doubt /\ begun' = begun /\ links' = links
  BY DEF Reply, Set
<1>2. x \in Call /\ Sure(x, doubt) /\ Stale(x) \subseteq Changes(x)
  BY <1>1, CallIs
<1>3. Effect(tree, tree', x, X) /\ X \subseteq Changes(x) /\ \A q : q \notin X
  BY <1>1, NoEffect DEF DrivesInv
<1> HIDE DEF X
<1>4. Settles(x, Idle, pathIds', doubt')
  BY <1>1, <1>2 DEF Settles, Sure, Stale
<1>5. Learned(pathIds, pathIds', tree', x) /\ Own(tree', Idle, doubt') /\ Idle.pc = "idle"
  BY <1>1, IdleIs DEF Learned
<1>6. /\ pathIds' \in [Keys -> Ids \cup {Nil}] /\ links' \subseteq Ids
      /\ doubt \subseteq doubt' /\ doubt' \subseteq doubt \cup Changes(x)
  BY <1>1 DEF DrivesInv
<1> QED
  BY <1>1, <1>3, <1>4, <1>5, <1>6, StepKeeps

-----------------------------------------------------------------------------
(***************************************************************************)
(* Calls begin, and what was unsure is settled.                            *)
(***************************************************************************)
LEMMA DoubtEndsKeeps ==
  ASSUME OneRoot, DrivesInv, NEW p, DoubtEnds(p), drive' = drive
  PROVE  StepOK
<1> DEFINE ends(k) == \E s \in Sources : Under(RootOf(s) \o k, p)
<1>1. /\ p \in doubt /\ (\A c \in Calls : cur[c].pc = "idle") /\ doubt' = doubt \ {p}
      /\ pathIds' = [k \in Keys |-> IF ends(k) THEN Nil ELSE pathIds[k]]
      /\ tree' = tree /\ cur' = cur /\ begun' = begun /\ links' = links
  BY DEF DoubtEnds, Running
<1>2. ASSUME NEW k \in Keys PROVE ends(k) <=> IsPrefix(p, Full(k))
  BY SourcesAssumption DEF OneRoot, Under, Full
<1> HIDE DEF ends
<1>3. p \in Changed
  BY <1>1 DEF DrivesInv
<1>4. ASSUME NEW c \in Calls PROVE Own(tree', cur'[c], doubt') /\ Stale(cur[c]) = {}
  <2>1. Own(tree, cur[c], doubt) /\ cur[c].pc = "idle"
    BY <1>1 DEF DrivesInv
  <2> DEFINE x == cur[c]
  <2> HIDE DEF x
  <2>2. ~x.changed /\ Own(tree, x, doubt')
    BY <2>1 DEF Own, Sure, x
  <2> QED
    BY <1>1, <2>2 DEF Stale, x
<1>5. Unsure(cur, doubt) = doubt /\ Unsure(cur', doubt') = doubt \ {p}
  BY <1>1, <1>4 DEF Unsure
<1>6. ASSUME NEW k \in Keys
      PROVE  pathIds'[k] = Nil \/ pathIds'[k] = At(tree', NameOf(k)) \/ Exempt(doubt \ {p}, k)
  <2>1. CASE ends(k)
    BY <1>1, <2>1
  <2>2. CASE ~ends(k)
    <3>1. pathIds'[k] = pathIds[k]
      BY <1>1, <2>2
    <3>2. pathIds[k] = Nil \/ pathIds[k] = At(tree, NameOf(k)) \/ Exempt(doubt, k)
      BY <1>5 DEF DrivesInv, Cached
    <3>3. /\ k \in Seq(Labels)
          /\ (IsPrefix(k, Root) /\ NameOf(k) = k) \/ NameOf(k) = Full(k)
      BY KeysAre
    <3>4. ~IsPrefix(p, NameOf(k))
      BY <1>2, <1>3, <2>2, <3>3, ChangedIs
    <3>5. Exempt(doubt, k) => Exempt(doubt \ {p}, k)
      BY <3>4 DEF Exempt
    <3> QED
      BY <1>1, <3>1, <3>2, <3>5
  <2> QED
    BY <2>1, <2>2
<1>7. Cached(tree', pathIds', Unsure(cur', doubt'))
  BY <1>5, <1>6 DEF Cached
<1>8. pathIds' \in [Keys -> Ids \cup {Nil}]
  BY <1>1 DEF DrivesInv
<1>9. \A c \in Calls : Bridged(pathIds', Unsure(cur', doubt'), cur'[c])
  BY <1>1 DEF Bridged
<1>10. AllApart(cur')
  BY <1>1 DEF DrivesInv
<1>11. DrivesInv'
  BY <1>1, <1>4, <1>7, <1>8, <1>9, <1>10 DEF DrivesInv
<1>12. Touched
  BY <1>1 DEF Touched
<1> QED
  BY <1>11, <1>12 DEF StepOK

\* A call begins with a walk.
LEMMA BeginKeeps ==
  ASSUME OneRoot, DrivesInv, NEW c \in Calls, NEW call \in Call, NEW z \in Call, SameCall(call, z),
         ~z.changed, z.op = "copy" \/ z.how = "put", NEW goal \in GoalsOf(z.op), goal # "move",
         NEW path, NEW create \in BOOLEAN, path \in Paths,
         goal \in {"list", "ok"} => path = z.path,
         goal \notin {"list", "ok"} => path = Front(z.path),
         Begin(c, call, WalkTo(z, goal, path, create)), drive' = drive
  PROVE  StepOK
<1> DEFINE y == WalkTo(z, goal, path, create)
           w == [z EXCEPT !.pc = "walk"]
<1>1. /\ cur[c].pc = "idle" /\ begun < MaxCalls /\ Sensible(call) /\ KeepsClear(doubt, Uses(call))
      /\ (\A d \in Calls : cur[d].pc # "idle" => Apart(call, cur[d]))
      /\ cur' = [cur EXCEPT ![c] = y] /\ begun' = begun + 1
      /\ tree' = tree /\ pathIds' = pathIds /\ doubt' = doubt /\ links' = links
  BY DEF Begin, Running
<1>2. z.op = call.op /\ z.path = call.path /\ z.to = call.to /\ Uses(z) = Uses(call)
  BY SameCallIs DEF SameCall
<1>3. \A q : Named(call, q) = At(tree, Full(q))
  BY WholeIs DEF Named, At
<1>4. w.pc = "walk" /\ w.op = z.op /\ w.path = z.path /\ w.to = z.to /\ w.how = z.how
  BY DEF Call
<1> HIDE DEF w
<1>5. Asked(tree, w)
  <2>1. /\ call.op # "list" => call.path # <<>>
        /\ call.op = "rename" => call.to # <<>> /\ ~IsPrefix(call.path, call.to) /\ ~IsPrefix(call.to, call.path)
        /\ call.op # "rename" => call.to = call.path
        /\ call.op = "mkdir" => Named(call, call.path) = Nil \/ IsDir(tree, Named(call, call.path))
    BY <1>1 DEF Sensible, Related
  <2> QED
    BY <1>2, <1>3, <1>4, <2>1 DEF Asked
<1>6. \A p \in doubt, q \in Uses(z) : ~IsPrefix(p, q)
  BY <1>1, <1>2 DEF KeepsClear
<1>7. goal = "move" => path = Front(z.to) /\ Is(tree, z.id, z.path)
  OBVIOUS
<1>8. /\ Own(tree, y, doubt) /\ SameCall(z, y) /\ y.changed = z.changed
      /\ y.pc \notin {"rename", "idle"}
  <2>1. Kept(tree)
    BY DEF DrivesInv
  <2>2. Asked(tree, [z EXCEPT !.pc = "walk"])
    BY <1>5 DEF w
  <2>3. goal \notin {"list", "ok", "move"} => path = Front(z.path)
    OBVIOUS
  <2> QED
    BY ONLY OneRoot, <2>1, z \in Call, <2>2, ~z.changed, <1>6, goal \in GoalsOf(z.op),
       path \in Paths,
            create \in BOOLEAN, goal \in {"list", "ok"} => path = z.path, <1>7, <2>3, WalkToOwn
<1> HIDE DEF y
<1>9. /\ cur'[c] = y /\ (\A d \in Calls \ {c} : cur'[d] = cur[d]) /\ cur' = [d \in Calls |-> cur'[d]]
  BY <1>1 DEF DrivesInv
<1>10. \A d \in Calls : Own(tree', cur'[d], doubt')
  BY <1>1, <1>8, <1>9 DEF DrivesInv
<1>11. AllApart(cur')
  <2>1. Changes(y) = Changes(call) /\ Uses(y) = Uses(call)
    <3>1. SameCall(call, y)
      BY <1>8 DEF SameCall
    <3> QED
      BY <3>1, SameCallIs
  <2>2. \A d \in Calls \ {c} : cur[d].pc # "idle" => Apart(y, cur[d]) /\ Apart(cur[d], y)
    BY <1>1, <2>1 DEF Apart
  <2> QED
    BY <1>8, <1>9, <2>2 DEF DrivesInv, AllApart, Running
<1>12. Unsure(cur', doubt') = Unsure(cur, doubt)
  <2>1. Stale(y) = {}
    BY <1>8 DEF Stale
  <2>2. Stale(cur[c]) = {}
    BY <1>1, CallIs DEF Stale, Sure
  <2>3. \A d \in Calls : Stale(cur'[d]) = Stale(cur[d])
    BY <1>9, <2>1, <2>2
  <2> QED
    BY <1>1, <2>3 DEF Unsure
<1>13. Cached(tree', pathIds', Unsure(cur', doubt'))
  BY <1>1, <1>12 DEF DrivesInv
<1>14. ASSUME NEW d \in Calls PROVE Bridged(pathIds', Unsure(cur', doubt'), cur'[d])
  <2>1. CASE d = c
    BY <1>8, <1>9, <2>1 DEF Bridged
  <2>2. CASE d # c
    BY <1>1, <1>9, <1>12, <2>2 DEF DrivesInv
  <2> QED
    BY <2>1, <2>2
<1>15. begun' \in 0..MaxCalls
  BY <1>1, RequestsAssumption DEF DrivesInv
<1>16. DrivesInv'
  BY <1>1, <1>9, <1>10, <1>11, <1>13, <1>14, <1>15 DEF DrivesInv
<1>17. Touched
  BY <1>1 DEF Touched
<1> QED
  BY <1>16, <1>17 DEF StepOK

LEMMA FirstWalkKeeps ==
  ASSUME OneRoot, DrivesInv, NEW c \in Calls, NEW call \in Call, NEW z \in Call, SameCall(call, z),
         ~z.changed, z.op = "copy" \/ z.how = "put", Begin(c, call, FirstWalk(z)), drive' = drive
  PROVE  StepOK
<1>1. z.op = call.op /\ z.path = call.path /\ z.op \in Operations /\ z.path \in Paths
  BY DEF SameCall, Call
<1>2. z.op # "list" => z.path # <<>>
  BY <1>1 DEF Begin, Sensible
<1>3. z.op # "list" => Front(z.path) \in Paths
  BY <1>1, <1>2, PathsAre
<1>4. CASE z.op = "list"
  <2>1. FirstWalk(z) = WalkTo(z, "list", z.path, FALSE) /\ "list" \in GoalsOf(z.op)
    BY <1>4 DEF FirstWalk, GoalsOf
  <2> QED
    BY <1>1, <2>1, BeginKeeps
<1>5. CASE z.op = "mkdir"
  <2>1. FirstWalk(z) = WalkTo(z, "ok", z.path, TRUE) /\ "ok" \in GoalsOf(z.op)
    BY <1>5 DEF FirstWalk, GoalsOf
  <2> QED
    BY <1>1, <2>1, BeginKeeps
<1>6. CASE z.op \in {"put", "copy"}
  <2>1. FirstWalk(z) = WalkTo(z, "old", Front(z.path), TRUE) /\ "old" \in GoalsOf(z.op)
    BY <1>6 DEF FirstWalk, GoalsOf
  <2> QED
    BY <1>3, <1>6, <2>1, BeginKeeps
<1>7. CASE z.op \in {"get", "delete", "rename"}
  <2>1. FirstWalk(z) = WalkTo(z, "stat", Front(z.path), FALSE) /\ "stat" \in GoalsOf(z.op)
    BY <1>7 DEF FirstWalk, GoalsOf
  <2> QED
    BY <1>3, <1>7, <2>1, BeginKeeps
<1> QED
  BY <1>1, <1>4, <1>5, <1>6, <1>7, RequestsAssumption DEF Operations

LEMMA RequestIs ==
  ASSUME NEW op \in Ops, NEW s \in Sources, NEW path \in Paths, NEW to \in Paths
  PROVE  LET x == Request(op, s, path, to) IN
         x \in Call /\ ~x.changed /\ x.how = "put" /\ x.op = op
<1>1. Idle \in Call /\ ~Idle.changed /\ Idle.how = "put" /\ op \in Operations
  BY IdleIs, RequestsAssumption DEF Operations
<1> QED
  BY <1>1 DEF Request, Call

-----------------------------------------------------------------------------
(***************************************************************************)
(* Steps that change the tree and leave what is remembered as it is.       *)
(***************************************************************************)
LEMMA TreeMoves ==
  ASSUME OneRoot, DrivesInv, NEW c \in Calls, NEW y, NEW X, Effect(tree, tree', cur[c], X),
         X \subseteq Changes(cur[c]), X \subseteq Uses(cur[c]), Set(c, y),
         UNCHANGED <<pathIds, doubt, begun, links>>, cur[c].pc # "idle", SameCall(cur[c], y),
         cur[c].changed => y.changed, y.pc # "rename", Own(tree', y, doubt),
         \A q \in X : At(tree, q) = Nil \/ q \in Stale(y), drive' = drive
  PROVE  StepOK
<1> DEFINE x == cur[c]
<1>1. cur' = [cur EXCEPT ![c] = y]
  BY DEF Set
<1>2. \A d \in Calls \ {c} : cur[d].pc = "rename" => Full(Between(cur[d])) \notin X
  BY OthersBetween
<1>3. Settles(x, y, pathIds', doubt') /\ Learned(pathIds, pathIds', tree', x)
  BY SettlesOn DEF Learned
<1>4. /\ pathIds' \in [Keys -> Ids \cup {Nil}] /\ links' \subseteq Ids /\ begun' = begun
      /\ doubt \subseteq doubt' /\ doubt' \subseteq doubt \cup Changes(x)
  BY DEF DrivesInv
<1>5. Own(tree', y, doubt') /\ \A q \in X : At(tree, q) = Nil \/ q \in doubt' \cup Stale(y)
  OBVIOUS
<1> QED
  BY <1>1, <1>2, <1>3, <1>4, <1>5, StepKeeps

LEMMA FreshIs ==
  ASSUME NEW t, Kept(t), NEW i \in Fresh(t)
  PROVE  /\ i \in Ids \ {Top} /\ t[i].st = "unused"
         /\ \A j \in Ids : Made(t, j) => t[j].up # i
<1>1. i \in Ids /\ t[i].st = "unused"
  BY DEF Fresh, Kept
<1>2. ASSUME NEW j \in Ids, Made(t, j) PROVE t[j].up # i
  <2>1. CASE j = Top
    BY <1>1, <2>1, IdsAre DEF Kept
  <2>2. CASE j # Top
    BY <1>1, <1>2, <2>2 DEF Kept, Made
  <2> QED
    BY <2>1, <2>2
<1> QED
  BY <1>1, <1>2 DEF Kept

\* The folder a call makes on its way.
LEMMA FolderMade ==
  ASSUME OneRoot, NEW t, Kept(t), NEW x \in Call, Known(t, x), x.pc = "create",
         At(t, Ahead(x)) = Nil, NEW id \in Fresh(t), NEW o \in Objects,
         o.st = "live", o.up = x.at, o.name = Head(x.rest), o.kind = "dir"
  PROVE  LET u == [t EXCEPT ![id] = o] IN
         Effect(t, u, x, {}) /\ Steady(t, u, x) /\ At(u, Ahead(x)) = id
<1> DEFINE u == [t EXCEPT ![id] = o]
           d == Place(x)
           n == Head(x.rest)
<1>1. /\ Asked(t, x) /\ Way(t, x) /\ x.rest # <<>> /\ IsDir(t, x.at) /\ x.pc # "idle"
  BY DEF Known, Going, Walks
<1>2. /\ d \in Seq(Labels) /\ n \in Labels /\ Ahead(x) = Append(d, n) /\ Ahead(x) \in Sees(x)
      /\ Ahead(x) \in Seq(Labels) /\ IsPrefix(Ahead(x), Full(x.dest)) /\ Full(x.dest) \in Seq(Labels)
      /\ (x.goal \notin {"list", "ok", "move"} => x.path # <<>> /\ x.dest = Front(x.path))
  BY <1>1, WayGoes DEF Sees, Ahead
<1>3. id \in Ids \ {Top} /\ t[id].st = "unused" /\ \A j \in Ids : Made(t, j) => t[j].up # id
  BY FreshIs
<1>4. x.at = At(t, d) /\ x.at # Nil /\ t[x.at].kind = "dir"
  BY <1>1 DEF Way, IsDir
<1>5. /\ Kept(u) /\ At(u, Append(d, n)) = id
      /\ \A p \in Seq(Labels) : At(t, p) # At(u, p) => p = Append(d, n)
  <2> DEFINE q == Append(d, n)
  <2>1. q \in Seq(Labels) /\ q # <<>> /\ Front(q) = d /\ Last(q) = n
    BY <1>2, Appended
  <2>2. At(t, q) = Nil /\ o.name = n
    BY <1>2
  <2> HIDE DEF d, n, q
  <2>3. /\ t[id].st # "live" /\ (t[id].st # "unused" => u[id].kind = t[id].kind)
        /\ (\A j \in Ids : Made(t, j) => t[j].up # id) /\ id \in Ids
    BY <1>3
  <2>4. /\ u \in [Ids -> Objects] /\ (\A j \in Ids \ {id} : u[j] = t[j]) /\ u[id] = o
    BY <1>3 DEF Kept
  <2> HIDE DEF u
  <2>5. /\ u[id].st = "live" /\ u[id].up = At(t, Front(q)) /\ u[id].name = Last(q)
        /\ (u[id].kind = "file" => u[id].parts = AllParts)
        /\ At(t, Front(q)) # Nil /\ t[At(t, Front(q))].kind = "dir"
    BY <1>4, <2>1, <2>2, <2>4
  <2>6. /\ Kept(u) /\ At(u, q) = id
        /\ \A p \in Seq(Labels) : At(t, p) # At(u, p) => p = q
    BY <2>1, <2>2, <2>3, <2>4, <2>5, AddedAt
  <2> QED
    BY <2>6 DEF q
<1>6. u[id] = o /\ \A i \in Ids \ {id} : u[i] = t[i]
  BY <1>3 DEF Kept
<1> HIDE DEF u, d, n
<1>7. Grown(t, u)
  BY <1>3, <1>6 DEF Grown
<1>8. IsDir(u, id)
  BY <1>3, <1>6, IdsAre DEF IsDir
<1>9. \A p \in Seq(Labels) : At(u, p) # At(t, p) =>
         p = Ahead(x) /\ At(t, p) = Nil /\ IsDir(u, At(u, p)) /\ p \in Sees(x)
  BY <1>2, <1>5, <1>8
<1>10. \A i \in Ids : t[i].st = "pending" => u[i] = t[i]
  BY <1>3, <1>6
<1>11. Effect(t, u, x, {})
  BY <1>5, <1>7, <1>9, <1>10 DEF Effect
<1>12. ASSUME Changing(x)
       PROVE  At(u, Full(x.path)) = At(t, Full(x.path)) /\ At(u, Full(x.to)) = At(t, Full(x.to))
  <2>1. x.path \in Paths /\ x.to \in Paths /\ x.path # <<>> /\ x.to # <<>>
    BY <1>1, <1>12, UsesAre DEF Asked, Changing
  <2>2. /\ Full(x.path) \in Seq(Labels) /\ Full(x.to) \in Seq(Labels)
        /\ IsPrefix(Full(Front(x.path)), Full(x.path)) /\ ~IsPrefix(Full(x.path), Full(Front(x.path)))
        /\ ~IsPrefix(Full(x.to), Full(Front(x.to)))
        /\ Full(Front(x.path)) \in Seq(Labels)
    BY <2>1, PathsAre, FullIs
  <2>3. CASE x.goal = "move"
    <3>1. x.dest = Front(x.to) /\ Is(t, x.id, x.path)
      BY <1>1, <2>3 DEF Way, DestOf
    <3> QED
      BY <1>2, <1>9, <2>2, <3>1 DEF Is
  <2>4. CASE x.goal # "move"
    <3>1. x.dest = Front(x.path)
      BY <1>1, <1>2, <1>12, <2>4 DEF Way, GoalsOf, Changing
    <3>2. Full(x.path) # Ahead(x)
      BY <1>2, <2>2, <3>1
    <3>3. Full(x.to) # Ahead(x)
      <4> SUFFICES ASSUME Full(x.to) = Ahead(x) PROVE FALSE
        OBVIOUS
      <4>1. IsPrefix(Full(x.to), Full(x.path))
        BY <1>2, <2>2, <3>1, PrefixTrans
      <4>2. IsPrefix(x.to, x.path)
        BY <2>1, <4>1, PathsAre, FullIs
      <4>3. x.op # "rename"
        BY <1>1, <4>2 DEF Asked
      <4>4. x.to = x.path
        BY <1>1, <4>3 DEF Asked
      <4> QED
        BY <3>2, <4>4
    <3> QED
      BY <1>9, <2>2, <3>2, <3>3
  <2> QED
    BY <2>3, <2>4
<1>13. Pending(t, x) => u[x.id] = t[x.id]
  <2> SUFFICES ASSUME Pending(t, x) PROVE u[x.id] = t[x.id]
    OBVIOUS
  <2>1. x.id \in Ids /\ t[x.id].st = "pending"
    BY DEF Pending, Call
  <2> QED
    BY <1>10, <2>1
<1>14. Steady(t, u, x)
  BY <1>7, <1>9, <1>12, <1>13 DEF Steady, Sees
<1> QED
  BY <1>2, <1>5, <1>11, <1>14 DEF u

\* An object that is not listed is made, filled or thrown away.
LEMMA Hidden ==
  ASSUME OneRoot, NEW t, Kept(t), NEW x \in Call, NEW i \in Ids \ {Top}, NEW u \in [Ids -> Objects],
         \A j \in Ids \ {i} : u[j] = t[j], t[i].st # "live", u[i].st \in {"pending", "gone"},
         Made(t, u[i].up), t[u[i].up].kind = "dir", u[i].up # i,
         t[i].st # "unused" => u[i].kind = t[i].kind /\ t[i].parts \subseteq u[i].parts,
         t[i].st = "pending" => i = x.id /\ Pending(t, x)
  PROVE  Effect(t, u, x, {}) /\ \A p \in Seq(Labels) : At(u, p) = At(t, p)
<1>1. Kept(u)
  <2> DEFINE o == u[i]
  <2>1. u = [t EXCEPT ![i] = o] /\ o \in Objects
    BY DEF Kept
  <2> HIDE DEF o
  <2>2. Kept([t EXCEPT ![i] = o])
    BY <2>1, PutIn DEF o
  <2> QED
    BY <2>1, <2>2
<1>2. \A p \in Seq(Labels) : At(u, p) = At(t, p)
  BY <1>1, NotSeen
<1>3. Grown(t, u)
  BY DEF Grown
<1>4. \A j \in Ids : t[j].st = "pending" /\ u[j] # t[j] => j = x.id /\ Pending(t, x)
  OBVIOUS
<1>5. Effect(t, u, x, {})
  BY <1>1, <1>2, <1>3, <1>4 DEF Effect
<1> QED
  BY <1>2, <1>5

\* A file enters the folder of its path.
Lists(t, u, x, i) ==
    /\ Kept(t) /\ x \in Call /\ x.path # <<>> /\ i \in Ids
    /\ u \in [Ids -> Objects] /\ \A j \in Ids \ {i} : u[j] = t[j]
    /\ Is(t, u[i].up, Front(x.path)) /\ IsDir(t, u[i].up) /\ At(t, Full(x.path)) = Nil
    /\ t[i].st \in {"unused", "pending"} /\ \A j \in Ids : Made(t, j) => t[j].up # i
    /\ t[i].st = "pending" => i = x.id /\ Pending(t, x) /\ t[i].kind = "file"
    /\ u[i].st = "live" /\ u[i].kind = "file" /\ u[i].parts = AllParts /\ u[i].name = Last(x.path)

LEMMA Listed ==
  ASSUME OneRoot, NEW t, NEW u, NEW x, NEW i, Lists(t, u, x, i)
  PROVE  /\ Effect(t, u, x, {Full(x.path)}) /\ At(u, Full(x.path)) = i
         /\ \A q \in Seq(Labels) : At(u, q) # At(t, q) => q = Full(x.path)
<1> USE DEF Lists
<1> DEFINE p == x.path
           d == Full(Front(p))
           n == Last(p)
           w == Full(p)
           o == u[i]
<1>1. w \in Seq(Labels) /\ w # <<>> /\ Front(w) = d /\ Last(w) = n
  BY UsesAre, PathsAre, FullIs
<1>2. o.up = At(t, d) /\ At(t, d) # Nil /\ t[At(t, d)].kind = "dir" /\ o.name = n /\ At(t, w) = Nil
  BY DEF Is, IsDir
<1> HIDE DEF p, d, n, w
<1>3. /\ Kept(u) /\ At(u, w) = i
      /\ \A q \in Seq(Labels) : At(t, q) # At(u, q) => q = w
  <2>1. /\ o.st = "live" /\ o.up = At(t, Front(w)) /\ o.name = Last(w) /\ o.kind = "file"
        /\ o.parts = AllParts /\ At(t, Front(w)) # Nil /\ t[At(t, Front(w))].kind = "dir"
    BY <1>1, <1>2
  <2>2. /\ t[i].st # "live" /\ (t[i].st # "unused" => o.kind = t[i].kind)
        /\ \A j \in Ids : Made(t, j) => t[j].up # i
    OBVIOUS
  <2> QED
    BY <1>1, <1>2, <2>1, <2>2, AddedAt
<1>4. t[i].parts \subseteq AllParts
  BY DEF Kept, Objects
<1>5. Grown(t, u)
  BY <1>4 DEF Grown
<1>6. \A j \in Ids : t[j].st = "pending" /\ u[j] # t[j] => j = x.id /\ Pending(t, x)
  OBVIOUS
<1>7. IsPrefix(w, w)
  BY <1>1, PrefixSelf
<1>8. Effect(t, u, x, {w})
  BY <1>3, <1>5, <1>6, <1>7 DEF Effect
<1> QED
  BY <1>3, <1>8 DEF w, p

\* A folder is made, and its id is learned, to be looked up or lost.
LEMMA FolderKeeps ==
  ASSUME OneRoot, DrivesInv, NEW c \in Calls, cur[c].pc = "create",
         Child(tree, cur[c].at, Head(cur[c].rest)) = Nil, NEW id \in Fresh(tree), NEW o,
         o = [st |-> "live", up |-> cur[c].at, name |-> Head(cur[c].rest), kind |-> "dir", parts |-> {}],
         tree' = [tree EXCEPT ![id] = o],
         \/ Learn(c, id)
         \/ /\ Set(c, Failed(cur[c])) \/ Set(c, [cur[c] EXCEPT !.pc = "again"])
            /\ UNCHANGED <<pathIds, doubt, begun, links>>,
         drive' = drive
  PROVE  StepOK
<1> DEFINE x == cur[c]
           again == [x EXCEPT !.pc = "again"]
           X == {}
<1>1. /\ x \in Call /\ Known(tree, x) /\ Asked(tree, x) /\ Way(tree, x) /\ x.rest # <<>>
      /\ Sure(x, doubt) /\ x.pc # "idle" /\ x.pc \in Walks /\ Kept(tree)
  BY CallIs DEF Going, Walks, DrivesInv
<1>2. /\ Place(x) \in Seq(Labels) /\ Head(x.rest) \in Labels /\ x.at = At(tree, Place(x))
  BY <1>1, WayGoes DEF Way
<1>3. At(tree, Ahead(x)) = Nil
  BY <1>2, AtChild DEF Ahead
<1>4. /\ o \in Objects /\ o.st = "live" /\ o.up = x.at /\ o.name = Head(x.rest) /\ o.kind = "dir"
  BY <1>1, <1>2, RootIs DEF Objects, States, Kinds, Call
<1>5. Effect(tree, tree', x, {}) /\ Steady(tree, tree', x) /\ At(tree', Ahead(x)) = id
  BY <1>1, <1>3, <1>4, FolderMade
<1>6. Kept(tree') /\ Known(tree', x) /\ id \in Ids
  BY <1>1, <1>5, KnownKept, FreshIs DEF Effect
<1>7. CASE Learn(c, id)
  BY <1>1, <1>5, <1>6, <1>7, LearnKeeps
<1>8. /\ Effect(tree, tree', x, X) /\ X \subseteq Changes(x) /\ X \subseteq Uses(x) /\ \A q : q \notin X
  BY <1>5
<1> HIDE DEF X
<1>9. CASE Set(c, Failed(x)) /\ UNCHANGED <<pathIds, doubt, begun, links>>
  <2>1. x.changed => Changes(x) \subseteq doubt
    BY <1>1 DEF Sure, Walks
  <2>2. x.pc \notin {"idle", "failed"} /\ Asked(tree', x)
    BY <1>1, <1>6 DEF Walks, Known
  <2>3. /\ Own(tree', Failed(x), doubt) /\ SameCall(x, Failed(x)) /\ Failed(x).changed = x.changed
        /\ Failed(x).pc \notin {"rename", "idle"}
    BY <1>1, <1>6, <2>1, <2>2, FailedOwn
  <2> QED
    BY <1>1, <1>8, <1>9, <2>3, TreeMoves
<1>10. CASE Set(c, again) /\ UNCHANGED <<pathIds, doubt, begun, links>>
  <2>1. /\ again \in Call /\ again.pc = "again" /\ SameCall(x, again) /\ again.leg = x.leg
        /\ again.at = x.at /\ again.pre = x.pre /\ again.rest = x.rest /\ again.goal = x.goal
        /\ again.dest = x.dest /\ again.id = x.id /\ again.how = x.how /\ again.changed = x.changed
    BY <1>1 DEF Call, SameCall, Pcs, Walks
  <2>2. Own(tree', x, doubt) /\ IsDir(tree', x.at)
    BY <1>1, <1>6 DEF Own, Known, Going, Walks
  <2> HIDE DEF again
  <2>3. Own(tree', again, doubt)
    BY <1>1, <2>1, <2>2, WalkOwn
  <2> QED
    BY <1>1, <1>8, <1>10, <2>1, <2>3, TreeMoves
<1> QED
  BY <1>7, <1>9, <1>10

\* The name is taken: the object that has it is learned.
LEMMA FoundKeeps ==
  ASSUME OneRoot, DrivesInv, NEW c \in Calls, cur[c].pc \in {"create", "again"},
         NEW e, e = Child(tree, cur[c].at, Head(cur[c].rest)), e # Nil, Learn(c, e),
         tree' = tree, drive' = drive
  PROVE  StepOK
<1> DEFINE x == cur[c]
<1>1. /\ x \in Call /\ Asked(tree, x) /\ Way(tree, x) /\ x.rest # <<>>
      /\ x.pc # "idle" /\ x.pc \in Walks /\ Kept(tree)
  BY CallIs DEF Going, Walks, DrivesInv
<1>2. /\ Place(x) \in Seq(Labels) /\ Head(x.rest) \in Labels /\ x.at = At(tree, Place(x))
  BY <1>1, WayGoes DEF Way
<1>3. At(tree', Ahead(x)) = e
  BY <1>2, AtChild DEF Ahead
<1>4. e \in Ids
  BY <1>1, ChildIs
<1>5. Effect(tree, tree', x, {}) /\ Steady(tree, tree', x)
  BY <1>1, NoChange
<1> QED
  BY <1>1, <1>3, <1>4, <1>5, LearnKeeps

-----------------------------------------------------------------------------
(***************************************************************************)
(* The two drives speak of the same walk.                                  *)
(***************************************************************************)
LEMMA AliyunSame ==
  /\ (\A s : Aliyun!Front(s) = Front(s))
  /\ (\A s : Aliyun!Last(s) = Last(s))
  /\ (\A s, t : Aliyun!IsPrefix(s, t) <=> IsPrefix(s, t))
  /\ (\A t, e, n : Aliyun!Child(t, e, n) = Child(t, e, n))
  /\ (\A t, e, p : Aliyun!ObjectAt(t, e, p) = ObjectAt(t, e, p))
  /\ (\A t, e : Aliyun!IsDir(t, e) <=> IsDir(t, e))
  /\ (\A t : Aliyun!Fresh(t) = Fresh(t))
  /\ (\A e : Aliyun!Live(e) <=> Live(e))
  /\ (\A x : Aliyun!Between(x) = Between(x))
  /\ (\A x, p : Aliyun!Whole(x, p) = Whole(x, p))
  /\ (\A x : Aliyun!Changes(x) = Changes(x))
  /\ (\A x : Aliyun!Uses(x) = Uses(x))
  /\ (\A x, y : Aliyun!KeepsClear(x, y) <=> KeepsClear(x, y))
  /\ (\A x, y : Aliyun!Apart(x, y) <=> Apart(x, y))
  /\ (\A x, p : Aliyun!Named(x, p) = Named(x, p))
  /\ (\A x : Aliyun!Running(x) <=> Running(x))
  /\ (\A x, y : Aliyun!Related(x, y) <=> Related(x, y))
  /\ (\A x : Aliyun!Sensible(x) <=> Sensible(x))
  /\ (\A x : Aliyun!Onward(x) = Onward(x))
  /\ (\A x, g, p, e : Aliyun!WalkTo(x, g, p, e) = WalkTo(x, g, p, e))
  /\ (\A x : Aliyun!FirstWalk(x) = FirstWalk(x))
  /\ (\A o, s, p, t : Aliyun!Request(o, s, p, t) = Request(o, s, p, t))
  /\ (\A c, x, y : Aliyun!Begin(c, x, y) <=> Begin(c, x, y))
  /\ (\A c, x : Aliyun!Set(c, x) <=> Set(c, x))
  /\ (\A c, x : Aliyun!OnlyCall(c, x) <=> OnlyCall(c, x))
  /\ (\A x : Aliyun!Failed(x) = Failed(x))
  /\ (\A c : Aliyun!GiveUp(c) <=> GiveUp(c))
  /\ (\A x : Aliyun!Key(x) = Key(x))
  /\ (\A x, e : Aliyun!Step(x, e) = Step(x, e))
  /\ (\A c : Aliyun!WalkHit(c) <=> WalkHit(c))
  /\ (\A c : Aliyun!WalkLook(c) <=> WalkLook(c))
  /\ (\A c, e : Aliyun!Learn(c, e) <=> Learn(c, e))
  /\ (\A c : Aliyun!WalkFound(c) <=> WalkFound(c))
  /\ (\A c : Aliyun!List(c) <=> List(c))
  /\ (\A c : Aliyun!Stat(c) <=> Stat(c))
  /\ (\A c : Aliyun!Link(c) <=> Link(c))
  /\ (\A c : Aliyun!Fetch(c) <=> Fetch(c))
  /\ (\A c : Aliyun!Trash(c) <=> Trash(c))
  /\ (\A m, g : Aliyun!Without(m, g) = Without(m, g))
  /\ (\A c : Aliyun!Evict(c) <=> Evict(c))
  /\ (\A c : Aliyun!PutLook(c) <=> PutLook(c))
  /\ (\A c : Aliyun!RemoveOld(c) <=> RemoveOld(c))
  /\ (\A x : Aliyun!PartFailed(x) = PartFailed(x))
  /\ (\A x, n : Aliyun!PartSent(x, n) = PartSent(x, n))
  /\ (\A c : Aliyun!RequestFails(c) <=> RequestFails(c))
  /\ (\A c : Aliyun!Reply(c) <=> Reply(c))
  /\ (\A p : Aliyun!DoubtEnds(p) <=> DoubtEnds(p))
<1>1. \A s : Aliyun!Front(s) = Front(s)
  BY DEF Front, Aliyun!Front
<1>2. \A s : Aliyun!Last(s) = Last(s)
  BY DEF Last, Aliyun!Last
<1>3. \A s, t : Aliyun!IsPrefix(s, t) <=> IsPrefix(s, t)
  BY DEF IsPrefix, Aliyun!IsPrefix
<1>4. \A t, e, n : Aliyun!Child(t, e, n) = Child(t, e, n)
  BY DEF Child, Children, Nil, Aliyun!Child, Aliyun!Children, Aliyun!Nil
<1>5. \A t, e, p : Aliyun!ObjectAt(t, e, p) = ObjectAt(t, e, p)
  BY DEF ObjectAt, Child, Children, Nil, FoldLeft, MapThenFoldSet, Max, Aliyun!ObjectAt,
     Aliyun!Child, Aliyun!Children, Aliyun!Nil, Aliyun!FoldLeft, Aliyun!MapThenFoldSet,
     Aliyun!Max
<1>6. \A t, e : Aliyun!IsDir(t, e) <=> IsDir(t, e)
  BY DEF IsDir, Nil, Aliyun!IsDir, Aliyun!Nil
<1>7. \A t : Aliyun!Fresh(t) = Fresh(t)
  BY DEF Fresh, Aliyun!Fresh
<1>8. \A e : Aliyun!Live(e) <=> Live(e)
  BY DEF Live, Nil, Aliyun!Live, Aliyun!Nil
<1>9. \A x : Aliyun!Between(x) = Between(x)
  BY <1>1, <1>2 DEF Between, Aliyun!Between
<1>10. \A x, p : Aliyun!Whole(x, p) = Whole(x, p)
  BY DEF Whole, Aliyun!Whole
<1>11. \A x : Aliyun!Changes(x) = Changes(x)
  BY <1>9, <1>10 DEF Changes, Aliyun!Changes
<1>12. \A x : Aliyun!Uses(x) = Uses(x)
  BY <1>10 DEF Uses, Aliyun!Uses
<1>13. \A x, y : Aliyun!KeepsClear(x, y) <=> KeepsClear(x, y)
  BY <1>3 DEF KeepsClear, Aliyun!KeepsClear
<1>14. \A x, y : Aliyun!Apart(x, y) <=> Apart(x, y)
  BY <1>11, <1>12, <1>13 DEF Apart, Aliyun!Apart
<1>15. \A x, p : Aliyun!Named(x, p) = Named(x, p)
  BY <1>5, <1>10 DEF Named, Top, Aliyun!Named, Aliyun!Top
<1>16. \A x : Aliyun!Running(x) <=> Running(x)
  BY DEF Running, Aliyun!Running
<1>17. \A x, y : Aliyun!Related(x, y) <=> Related(x, y)
  BY <1>3 DEF Related, Aliyun!Related
<1>18. \A x : Aliyun!Sensible(x) <=> Sensible(x)
  BY <1>15, <1>6, <1>17 DEF Sensible, Nil, Aliyun!Sensible, Aliyun!Nil
<1>19. \A x : Aliyun!Onward(x) = Onward(x)
  BY DEF Onward, Aliyun!Onward
<1>20. \A x, g, p, e : Aliyun!WalkTo(x, g, p, e) = WalkTo(x, g, p, e)
  BY <1>19 DEF WalkTo, Top, Aliyun!WalkTo, Aliyun!Top
<1>21. \A x : Aliyun!FirstWalk(x) = FirstWalk(x)
  BY <1>20, <1>1 DEF FirstWalk, Aliyun!FirstWalk
<1>22. \A o, s, p, t : Aliyun!Request(o, s, p, t) = Request(o, s, p, t)
  BY DEF Request, Idle, Nil, Aliyun!Request, Aliyun!Idle, Aliyun!Nil
<1>23. \A c, x, y : Aliyun!Begin(c, x, y) <=> Begin(c, x, y)
  BY <1>18, <1>16, <1>14, <1>13, <1>12 DEF Begin, Aliyun!Begin
<1>24. \A c, x : Aliyun!Set(c, x) <=> Set(c, x)
  BY DEF Set, Aliyun!Set
<1>25. \A c, x : Aliyun!OnlyCall(c, x) <=> OnlyCall(c, x)
  BY <1>24 DEF OnlyCall, Aliyun!OnlyCall
<1>26. \A x : Aliyun!Failed(x) = Failed(x)
  BY <1>20, <1>1 DEF Failed, Aliyun!Failed
<1>27. \A c : Aliyun!GiveUp(c) <=> GiveUp(c)
  BY <1>24, <1>26, <1>11 DEF GiveUp, Aliyun!GiveUp
<1>28. \A x : Aliyun!Key(x) = Key(x)
  BY DEF Key, Aliyun!Key
<1>29. \A x, e : Aliyun!Step(x, e) = Step(x, e)
  BY <1>19, <1>28 DEF Step, Aliyun!Step
<1>30. \A c : Aliyun!WalkHit(c) <=> WalkHit(c)
  BY <1>28, <1>29, <1>25 DEF WalkHit, Nil, Aliyun!WalkHit, Aliyun!Nil
<1>31. \A c : Aliyun!WalkLook(c) <=> WalkLook(c)
  BY <1>28, <1>6, <1>4, <1>25 DEF WalkLook, Nil, Aliyun!WalkLook, Aliyun!Nil
<1>32. \A c, e : Aliyun!Learn(c, e) <=> Learn(c, e)
  BY <1>28, <1>24, <1>29 DEF Learn, Aliyun!Learn
<1>33. \A c : Aliyun!WalkFound(c) <=> WalkFound(c)
  BY <1>6, <1>32, <1>27, <1>25 DEF WalkFound, Nil, Aliyun!WalkFound, Aliyun!Nil
<1>34. \A c : Aliyun!List(c) <=> List(c)
  BY <1>6, <1>24 DEF List, Children, Keys, Aliyun!List, Aliyun!Children, Aliyun!Keys
<1>35. \A c : Aliyun!Stat(c) <=> Stat(c)
  BY <1>6, <1>4, <1>27, <1>25, <1>20, <1>1, <1>2 DEF Stat, Nil, Aliyun!Stat, Aliyun!Nil
<1>36. \A c : Aliyun!Link(c) <=> Link(c)
  BY <1>8, <1>24 DEF Link, Aliyun!Link
<1>37. \A c : Aliyun!Fetch(c) <=> Fetch(c)
  BY <1>25, <1>24 DEF Fetch, Aliyun!Fetch
<1>38. \A c : Aliyun!Trash(c) <=> Trash(c)
  BY <1>8, <1>24 DEF Trash, Aliyun!Trash
<1>39. \A m, g : Aliyun!Without(m, g) = Without(m, g)
  BY <1>3 DEF Without, Under, Keys, Nil, Aliyun!Without, Aliyun!Under, Aliyun!Keys, Aliyun!Nil
<1>40. \A c : Aliyun!Evict(c) <=> Evict(c)
  BY <1>39, <1>24 DEF Evict, Aliyun!Evict
<1>41. \A c : Aliyun!PutLook(c) <=> PutLook(c)
  BY <1>2, <1>6, <1>4, <1>25 DEF PutLook, Nil, Aliyun!PutLook, Aliyun!Nil
<1>42. \A c : Aliyun!RemoveOld(c) <=> RemoveOld(c)
  BY <1>8, <1>24 DEF RemoveOld, Aliyun!RemoveOld
<1>43. \A x : Aliyun!PartFailed(x) = PartFailed(x)
  BY DEF PartFailed, MaxTries, Aliyun!PartFailed, Aliyun!MaxTries
<1>44. \A x, n : Aliyun!PartSent(x, n) = PartSent(x, n)
  BY DEF PartSent, LastPart, Aliyun!PartSent, Aliyun!LastPart
<1>45. \A c : Aliyun!RequestFails(c) <=> RequestFails(c)
  BY <1>27 DEF RequestFails, Settled, Aliyun!RequestFails, Aliyun!Settled
<1>46. \A c : Aliyun!Reply(c) <=> Reply(c)
  BY <1>24 DEF Reply, Idle, Nil, Aliyun!Reply, Aliyun!Idle, Aliyun!Nil
<1>47. \A p : Aliyun!DoubtEnds(p) <=> DoubtEnds(p)
  BY <1>3, <1>16 DEF DoubtEnds, Under, Keys, Nil, Aliyun!DoubtEnds, Aliyun!Under, Aliyun!Keys,
     Aliyun!Nil
<1> QED
  BY <1>1, <1>2, <1>3, <1>4, <1>5, <1>6, <1>7, <1>8, <1>9, <1>10, <1>11, <1>12, <1>13, <1>14, <1>15,
     <1>16, <1>17, <1>18, <1>19, <1>20, <1>21, <1>22, <1>23, <1>24, <1>25, <1>26, <1>27, <1>28,
     <1>29, <1>30, <1>31, <1>32, <1>33, <1>34, <1>35, <1>36, <1>37, <1>38, <1>39, <1>40, <1>41,
     <1>42, <1>43, <1>44, <1>45, <1>46, <1>47

LEMMA QuarkSame ==
  /\ (\A s : Quark!Front(s) = Front(s))
  /\ (\A s : Quark!Last(s) = Last(s))
  /\ (\A s, t : Quark!IsPrefix(s, t) <=> IsPrefix(s, t))
  /\ (\A t, e, n : Quark!Child(t, e, n) = Child(t, e, n))
  /\ (\A t, e, p : Quark!ObjectAt(t, e, p) = ObjectAt(t, e, p))
  /\ (\A t, e : Quark!IsDir(t, e) <=> IsDir(t, e))
  /\ (\A t : Quark!Fresh(t) = Fresh(t))
  /\ (\A e : Quark!Live(e) <=> Live(e))
  /\ (\A x : Quark!Between(x) = Between(x))
  /\ (\A x, p : Quark!Whole(x, p) = Whole(x, p))
  /\ (\A x : Quark!Changes(x) = Changes(x))
  /\ (\A x : Quark!Uses(x) = Uses(x))
  /\ (\A x, y : Quark!KeepsClear(x, y) <=> KeepsClear(x, y))
  /\ (\A x, y : Quark!Apart(x, y) <=> Apart(x, y))
  /\ (\A x, p : Quark!Named(x, p) = Named(x, p))
  /\ (\A x : Quark!Running(x) <=> Running(x))
  /\ (\A x, y : Quark!Related(x, y) <=> Related(x, y))
  /\ (\A x : Quark!Sensible(x) <=> Sensible(x))
  /\ (\A x : Quark!Onward(x) = Onward(x))
  /\ (\A x, g, p, e : Quark!WalkTo(x, g, p, e) = WalkTo(x, g, p, e))
  /\ (\A x : Quark!FirstWalk(x) = FirstWalk(x))
  /\ (\A o, s, p, t : Quark!Request(o, s, p, t) = Request(o, s, p, t))
  /\ (\A c, x, y : Quark!Begin(c, x, y) <=> Begin(c, x, y))
  /\ (\A c, x : Quark!Set(c, x) <=> Set(c, x))
  /\ (\A c, x : Quark!OnlyCall(c, x) <=> OnlyCall(c, x))
  /\ (\A x : Quark!Failed(x) = Failed(x))
  /\ (\A c : Quark!GiveUp(c) <=> GiveUp(c))
  /\ (\A x : Quark!Key(x) = Key(x))
  /\ (\A x, e : Quark!Step(x, e) = Step(x, e))
  /\ (\A c : Quark!WalkHit(c) <=> WalkHit(c))
  /\ (\A c : Quark!WalkLook(c) <=> WalkLook(c))
  /\ (\A c, e : Quark!Learn(c, e) <=> Learn(c, e))
  /\ (\A c : Quark!WalkFound(c) <=> WalkFound(c))
  /\ (\A c : Quark!List(c) <=> List(c))
  /\ (\A c : Quark!Stat(c) <=> Stat(c))
  /\ (\A c : Quark!Link(c) <=> Link(c))
  /\ (\A c : Quark!Fetch(c) <=> Fetch(c))
  /\ (\A c : Quark!Trash(c) <=> Trash(c))
  /\ (\A m, g : Quark!Without(m, g) = Without(m, g))
  /\ (\A c : Quark!Evict(c) <=> Evict(c))
  /\ (\A c : Quark!PutLook(c) <=> PutLook(c))
  /\ (\A c : Quark!RemoveOld(c) <=> RemoveOld(c))
  /\ (\A x : Quark!PartFailed(x) = PartFailed(x))
  /\ (\A x, n : Quark!PartSent(x, n) = PartSent(x, n))
  /\ (\A c : Quark!RequestFails(c) <=> RequestFails(c))
  /\ (\A c : Quark!Reply(c) <=> Reply(c))
  /\ (\A p : Quark!DoubtEnds(p) <=> DoubtEnds(p))
<1>1. \A s : Quark!Front(s) = Front(s)
  BY DEF Front, Quark!Front
<1>2. \A s : Quark!Last(s) = Last(s)
  BY DEF Last, Quark!Last
<1>3. \A s, t : Quark!IsPrefix(s, t) <=> IsPrefix(s, t)
  BY DEF IsPrefix, Quark!IsPrefix
<1>4. \A t, e, n : Quark!Child(t, e, n) = Child(t, e, n)
  BY DEF Child, Children, Nil, Quark!Child, Quark!Children, Quark!Nil
<1>5. \A t, e, p : Quark!ObjectAt(t, e, p) = ObjectAt(t, e, p)
  BY DEF ObjectAt, Child, Children, Nil, FoldLeft, MapThenFoldSet, Max, Quark!ObjectAt,
     Quark!Child, Quark!Children, Quark!Nil, Quark!FoldLeft, Quark!MapThenFoldSet, Quark!Max
<1>6. \A t, e : Quark!IsDir(t, e) <=> IsDir(t, e)
  BY DEF IsDir, Nil, Quark!IsDir, Quark!Nil
<1>7. \A t : Quark!Fresh(t) = Fresh(t)
  BY DEF Fresh, Quark!Fresh
<1>8. \A e : Quark!Live(e) <=> Live(e)
  BY DEF Live, Nil, Quark!Live, Quark!Nil
<1>9. \A x : Quark!Between(x) = Between(x)
  BY <1>1, <1>2 DEF Between, Quark!Between
<1>10. \A x, p : Quark!Whole(x, p) = Whole(x, p)
  BY DEF Whole, Quark!Whole
<1>11. \A x : Quark!Changes(x) = Changes(x)
  BY <1>9, <1>10 DEF Changes, Quark!Changes
<1>12. \A x : Quark!Uses(x) = Uses(x)
  BY <1>10 DEF Uses, Quark!Uses
<1>13. \A x, y : Quark!KeepsClear(x, y) <=> KeepsClear(x, y)
  BY <1>3 DEF KeepsClear, Quark!KeepsClear
<1>14. \A x, y : Quark!Apart(x, y) <=> Apart(x, y)
  BY <1>11, <1>12, <1>13 DEF Apart, Quark!Apart
<1>15. \A x, p : Quark!Named(x, p) = Named(x, p)
  BY <1>5, <1>10 DEF Named, Top, Quark!Named, Quark!Top
<1>16. \A x : Quark!Running(x) <=> Running(x)
  BY DEF Running, Quark!Running
<1>17. \A x, y : Quark!Related(x, y) <=> Related(x, y)
  BY <1>3 DEF Related, Quark!Related
<1>18. \A x : Quark!Sensible(x) <=> Sensible(x)
  BY <1>15, <1>6, <1>17 DEF Sensible, Nil, Quark!Sensible, Quark!Nil
<1>19. \A x : Quark!Onward(x) = Onward(x)
  BY DEF Onward, Quark!Onward
<1>20. \A x, g, p, e : Quark!WalkTo(x, g, p, e) = WalkTo(x, g, p, e)
  BY <1>19 DEF WalkTo, Top, Quark!WalkTo, Quark!Top
<1>21. \A x : Quark!FirstWalk(x) = FirstWalk(x)
  BY <1>20, <1>1 DEF FirstWalk, Quark!FirstWalk
<1>22. \A o, s, p, t : Quark!Request(o, s, p, t) = Request(o, s, p, t)
  BY DEF Request, Idle, Nil, Quark!Request, Quark!Idle, Quark!Nil
<1>23. \A c, x, y : Quark!Begin(c, x, y) <=> Begin(c, x, y)
  BY <1>18, <1>16, <1>14, <1>13, <1>12 DEF Begin, Quark!Begin
<1>24. \A c, x : Quark!Set(c, x) <=> Set(c, x)
  BY DEF Set, Quark!Set
<1>25. \A c, x : Quark!OnlyCall(c, x) <=> OnlyCall(c, x)
  BY <1>24 DEF OnlyCall, Quark!OnlyCall
<1>26. \A x : Quark!Failed(x) = Failed(x)
  BY <1>20, <1>1 DEF Failed, Quark!Failed
<1>27. \A c : Quark!GiveUp(c) <=> GiveUp(c)
  BY <1>24, <1>26, <1>11 DEF GiveUp, Quark!GiveUp
<1>28. \A x : Quark!Key(x) = Key(x)
  BY DEF Key, Quark!Key
<1>29. \A x, e : Quark!Step(x, e) = Step(x, e)
  BY <1>19, <1>28 DEF Step, Quark!Step
<1>30. \A c : Quark!WalkHit(c) <=> WalkHit(c)
  BY <1>28, <1>29, <1>25 DEF WalkHit, Nil, Quark!WalkHit, Quark!Nil
<1>31. \A c : Quark!WalkLook(c) <=> WalkLook(c)
  BY <1>28, <1>6, <1>4, <1>25 DEF WalkLook, Nil, Quark!WalkLook, Quark!Nil
<1>32. \A c, e : Quark!Learn(c, e) <=> Learn(c, e)
  BY <1>28, <1>24, <1>29 DEF Learn, Quark!Learn
<1>33. \A c : Quark!WalkFound(c) <=> WalkFound(c)
  BY <1>6, <1>32, <1>27, <1>25 DEF WalkFound, Nil, Quark!WalkFound, Quark!Nil
<1>34. \A c : Quark!List(c) <=> List(c)
  BY <1>6, <1>24 DEF List, Children, Keys, Quark!List, Quark!Children, Quark!Keys
<1>35. \A c : Quark!Stat(c) <=> Stat(c)
  BY <1>6, <1>4, <1>27, <1>25, <1>20, <1>1, <1>2 DEF Stat, Nil, Quark!Stat, Quark!Nil
<1>36. \A c : Quark!Link(c) <=> Link(c)
  BY <1>8, <1>24 DEF Link, Quark!Link
<1>37. \A c : Quark!Fetch(c) <=> Fetch(c)
  BY <1>25, <1>24 DEF Fetch, Quark!Fetch
<1>38. \A c : Quark!Trash(c) <=> Trash(c)
  BY <1>8, <1>24 DEF Trash, Quark!Trash
<1>39. \A m, g : Quark!Without(m, g) = Without(m, g)
  BY <1>3 DEF Without, Under, Keys, Nil, Quark!Without, Quark!Under, Quark!Keys, Quark!Nil
<1>40. \A c : Quark!Evict(c) <=> Evict(c)
  BY <1>39, <1>24 DEF Evict, Quark!Evict
<1>41. \A c : Quark!PutLook(c) <=> PutLook(c)
  BY <1>2, <1>6, <1>4, <1>25 DEF PutLook, Nil, Quark!PutLook, Quark!Nil
<1>42. \A c : Quark!RemoveOld(c) <=> RemoveOld(c)
  BY <1>8, <1>24 DEF RemoveOld, Quark!RemoveOld
<1>43. \A x : Quark!PartFailed(x) = PartFailed(x)
  BY DEF PartFailed, MaxTries, Quark!PartFailed, Quark!MaxTries
<1>44. \A x, n : Quark!PartSent(x, n) = PartSent(x, n)
  BY DEF PartSent, LastPart, Quark!PartSent, Quark!LastPart
<1>45. \A c : Quark!RequestFails(c) <=> RequestFails(c)
  BY <1>27 DEF RequestFails, Settled, Quark!RequestFails, Quark!Settled
<1>46. \A c : Quark!Reply(c) <=> Reply(c)
  BY <1>24 DEF Reply, Idle, Nil, Quark!Reply, Quark!Idle, Quark!Nil
<1>47. \A p : Quark!DoubtEnds(p) <=> DoubtEnds(p)
  BY <1>3, <1>16 DEF DoubtEnds, Under, Keys, Nil, Quark!DoubtEnds, Quark!Under, Quark!Keys,
     Quark!Nil
<1> QED
  BY <1>1, <1>2, <1>3, <1>4, <1>5, <1>6, <1>7, <1>8, <1>9, <1>10, <1>11, <1>12, <1>13, <1>14, <1>15,
     <1>16, <1>17, <1>18, <1>19, <1>20, <1>21, <1>22, <1>23, <1>24, <1>25, <1>26, <1>27, <1>28,
     <1>29, <1>30, <1>31, <1>32, <1>33, <1>34, <1>35, <1>36, <1>37, <1>38, <1>39, <1>40, <1>41,
     <1>42, <1>43, <1>44, <1>45, <1>46, <1>47

LEMMA AliyunWalkCreateKeeps ==
  ASSUME OneRoot, DrivesInv, NEW c \in Calls, Aliyun!WalkCreate(c), drive' = drive
  PROVE  StepOK
<1> DEFINE old == Child(tree, cur[c].at, Head(cur[c].rest))
           o == [st |-> "live", up |-> cur[c].at, name |-> Head(cur[c].rest), kind |-> "dir",
                 parts |-> {}]
<1>1. /\ cur[c].pc = "create"
      /\ \/ old # Nil /\ Learn(c, old) /\ tree' = tree
         \/ /\ old = Nil
            /\ \E id \in Fresh(tree) :
                 /\ tree' = [tree EXCEPT ![id] = o]
                 /\ \/ Learn(c, id)
                    \/ Set(c, Failed(cur[c])) /\ UNCHANGED <<pathIds, doubt, begun, links>>
  BY AliyunSame DEF Aliyun!WalkCreate, Nil, Aliyun!Nil
<1>2. CASE old # Nil /\ Learn(c, old) /\ tree' = tree
  BY <1>1, <1>2, FoundKeeps
<1>3. CASE /\ old = Nil
           /\ \E id \in Fresh(tree) :
                 /\ tree' = [tree EXCEPT ![id] = o]
                 /\ \/ Learn(c, id)
                    \/ Set(c, Failed(cur[c])) /\ UNCHANGED <<pathIds, doubt, begun, links>>
  <2>1. PICK id \in Fresh(tree) :
                 /\ tree' = [tree EXCEPT ![id] = o]
                 /\ \/ Learn(c, id)
                    \/ Set(c, Failed(cur[c])) /\ UNCHANGED <<pathIds, doubt, begun, links>>
    BY <1>3
  <2> QED
    BY <1>1, <1>3, <2>1, FolderKeeps
<1> QED
  BY <1>1, <1>2, <1>3

LEMMA QuarkWalkCreateKeeps ==
  ASSUME OneRoot, DrivesInv, NEW c \in Calls, Quark!WalkCreate(c), drive' = drive
  PROVE  StepOK
<1> DEFINE old == Child(tree, cur[c].at, Head(cur[c].rest))
           o == [st |-> "live", up |-> cur[c].at, name |-> Head(cur[c].rest), kind |-> "dir",
                 parts |-> {}]
           again == [cur[c] EXCEPT !.pc = "again"]
           Lost == (Set(c, Failed(cur[c])) \/ Set(c, again))
                     /\ UNCHANGED <<pathIds, doubt, begun, links>>
<1>1. /\ cur[c].pc = "create"
      /\ \/ old # Nil /\ OnlyCall(c, again)
         \/ /\ old = Nil
            /\ \E id \in Fresh(tree) : tree' = [tree EXCEPT ![id] = o] /\ (Learn(c, id) \/ Lost)
  BY QuarkSame DEF Quark!WalkCreate, Nil, Quark!Nil
<1>2. CASE old # Nil /\ OnlyCall(c, again)
  <2> DEFINE x == cur[c]
  <2>1. x \in Call /\ Own(tree, x, doubt) /\ x.pc \in Walks /\ x.pc # "idle" /\ IsDir(tree, x.at)
    BY <1>1, CallIs DEF Going, Walks, DrivesInv
  <2>2. /\ again \in Call /\ again.pc = "again" /\ SameCall(x, again) /\ again.leg = x.leg
        /\ again.at = x.at /\ again.pre = x.pre /\ again.rest = x.rest /\ again.goal = x.goal
        /\ again.dest = x.dest /\ again.id = x.id /\ again.how = x.how /\ again.changed = x.changed
    BY <2>1 DEF Call, SameCall, Pcs, Walks
  <2> HIDE DEF again
  <2>3. Own(tree, again, doubt)
    BY <2>1, <2>2, WalkOwn
  <2> QED
    BY <1>2, <2>1, <2>2, <2>3, CallGoesOn
<1>3. CASE /\ old = Nil
           /\ \E id \in Fresh(tree) : tree' = [tree EXCEPT ![id] = o] /\ (Learn(c, id) \/ Lost)
  <2>1. PICK id \in Fresh(tree) : tree' = [tree EXCEPT ![id] = o] /\ (Learn(c, id) \/ Lost)
    BY <1>3
  <2> QED
    BY <1>1, <1>3, <2>1, FolderKeeps
<1> QED
  BY <1>1, <1>2, <1>3

LEMMA LookAgainKeeps ==
  ASSUME OneRoot, DrivesInv, NEW c \in Calls, Quark!LookAgain(c), drive' = drive
  PROVE  StepOK
<1> DEFINE e == Child(tree, cur[c].at, Head(cur[c].rest))
<1>1. cur[c].pc = "again" /\ e # Nil /\ Learn(c, e) /\ tree' = tree
  BY QuarkSame DEF Quark!LookAgain, Nil, Quark!Nil
<1> QED
  BY <1>1, FoundKeeps
-----------------------------------------------------------------------------
(***************************************************************************)
(* Writes.                                                                 *)
(***************************************************************************)
\* A call that goes on, and may have changed something, or have it confirmed.
LEMMA TurnOwn ==
  ASSUME OneRoot, NEW t, NEW u, NEW D, NEW x \in Call, x.pc \notin {"idle", "failed"}, NEW y \in Call,
         SameCall(x, y), Asked(t, x), Sure(x, D), y.how = x.how, y.op # "mkdir", Changing(x),
         y.pc \notin Walks \cup {"idle"}, Does(u, y), Done(u, y),
         y.changed => y.pc \in {"evict", "rename", "new", "made"},
         y.pc \in {"evict", "rename"} => y.changed
  PROVE  Own(u, y, D)
<1>1. y.op = x.op /\ y.path = x.path /\ y.to = x.to
  BY DEF SameCall
<1>2. Known(u, y)
  BY <1>1 DEF Known, Asked, Going
<1>3. Uses(y) = Uses(x)
  BY SameCallIs
<1>4. Sure(y, D)
  BY <1>1, <1>3 DEF Sure, Changing
<1> QED
  BY <1>2, <1>4 DEF Own

\* A record enters the folder of a write, listed or not.
LEMMA NewFile ==
  ASSUME OneRoot, NEW t, Kept(t), NEW x \in Call, Writes(x), x.path # <<>>,
         Is(t, x.at, Front(x.path)), IsDir(t, x.at), At(t, Full(x.path)) = Nil,
         NEW i \in Fresh(t), NEW u \in [Ids -> Objects], \A j \in Ids \ {i} : u[j] = t[j],
         u[i].st \in {"live", "pending"}, u[i].up = x.at, u[i].name = Last(x.path),
         u[i].kind = "file", u[i].st = "live" => u[i].parts = AllParts
  PROVE  /\ Effect(t, u, x, IF u[i].st = "live" THEN {Full(x.path)} ELSE {})
         /\ i \in Ids /\ i # Nil
         /\ u[i].st = "live" => Is(u, i, x.path)
         /\ u[i].st = "pending" => \A y : SameCall(x, y) /\ y.id = i => Pending(u, y)
<1> DEFINE p == x.path
           e == x.at
<1>1. /\ i \in Ids \ {Top} /\ t[i].st = "unused" /\ i # Nil
      /\ \A j \in Ids : Made(t, j) => t[j].up # i
  BY FreshIs, IdsAre
<1>2. p \in Paths /\ Front(p) \in Paths
  BY UsesAre, PathsAre
<1>3. Full(p) \in Seq(Labels) /\ Full(Front(p)) \in Seq(Labels)
  BY <1>2, PathsAre, FullIs
<1>4. e \in Ids /\ t[e].st = "live" /\ t[e].kind = "dir" /\ e = At(t, Full(Front(p)))
  <2>1. e # Nil /\ e = At(t, Full(Front(p))) /\ t[e].kind = "dir"
    BY DEF Is, IsDir
  <2> QED
    BY <1>3, <2>1, AtLive
<1>5. CASE u[i].st = "live"
  <2>1. t[i].st \in {"unused", "pending"} /\ t[i].st # "pending"
    BY <1>1
  <2>2. Lists(t, u, x, i)
    BY <1>1, <1>5, <2>1 DEF Lists
  <2>3. Effect(t, u, x, {Full(x.path)}) /\ At(u, Full(x.path)) = i
    BY ONLY OneRoot, <2>2, Listed
  <2> QED
    BY <1>1, <1>5, <2>3 DEF Is
<1>6. CASE u[i].st = "pending"
  <2>1. Made(t, u[i].up) /\ t[u[i].up].kind = "dir" /\ u[i].up # i
    BY <1>1, <1>4 DEF Made
  <2>2. Effect(t, u, x, {}) /\ \A q \in Seq(Labels) : At(u, q) = At(t, q)
    BY <1>1, <1>6, <2>1, Hidden
  <2>3. Is(u, u[i].up, Front(p)) /\ At(u, Full(p)) = Nil
    BY <1>3, <2>2 DEF Is
  <2>4. ASSUME NEW y, SameCall(x, y), y.id = i PROVE Pending(u, y)
    <3>1. y.op = x.op /\ y.path = p
      BY <2>4 DEF SameCall
    <3> QED
      BY <1>1, <1>6, <2>3, <2>4, <3>1 DEF Pending, Writes
  <2> QED
    BY <1>1, <1>6, <2>2, <2>4
<1> QED
  BY <1>5, <1>6

\* An upload that is complete enters its folder.
LEMMA Enters ==
  ASSUME OneRoot, NEW t, Kept(t), NEW x \in Call, x.path # <<>>, Pending(t, x),
         NEW u, u = [t EXCEPT ![x.id].st = "live", ![x.id].parts = AllParts]
  PROVE  /\ Effect(t, u, x, {Full(x.path)})
         /\ Is(u, x.id, x.path) /\ u[x.id].parts = AllParts
<1> DEFINE i == x.id
           p == x.path
           e == t[i].up
<1>1. /\ i \in Ids /\ t[i].st = "pending" /\ t[i].kind = "file" /\ Is(t, e, Front(p)) /\ i # Nil
      /\ t[i].name = Last(p) /\ At(t, Full(p)) = Nil
  BY DEF Pending, Call
<1>2. t \in [Ids -> Objects] /\ t[i] \in Objects
  BY <1>1 DEF Kept
<1>3. /\ u \in [Ids -> Objects] /\ u[i].st = "live" /\ u[i].kind = "file" /\ u[i].parts = AllParts
      /\ u[i].up = e /\ u[i].name = Last(p) /\ \A j \in Ids \ {i} : u[j] = t[j]
  BY <1>1, <1>2 DEF Objects, States
<1>4. IsDir(t, u[i].up) /\ Is(t, u[i].up, Front(p))
  BY <1>1, <1>3, IdsAre DEF Kept, Made, IsDir, Is
<1>5. \A j \in Ids : Made(t, j) => t[j].up # i
  <2> SUFFICES ASSUME NEW j \in Ids, Made(t, j), t[j].up = i PROVE FALSE
    OBVIOUS
  <2>1. j # Top
    BY <1>1, IdsAre DEF Kept
  <2> QED
    BY <1>1, <2>1 DEF Kept
<1>6. /\ t[i].st = "pending" => i = x.id /\ Pending(t, x) /\ t[i].kind = "file"
      /\ t[i].st \in {"unused", "pending"}
  BY <1>1
<1>7. At(t, Full(x.path)) = Nil /\ u[i].name = Last(x.path) /\ Is(t, u[i].up, Front(x.path))
  BY <1>1, <1>3, <1>4
<1>8. Lists(t, u, x, i)
  BY <1>1, <1>3, <1>4, <1>5, <1>6, <1>7 DEF Lists
<1> HIDE DEF i, e, p
<1>9. Effect(t, u, x, {Full(x.path)}) /\ At(u, Full(x.path)) = i
  BY ONLY OneRoot, <1>8, Listed
<1> QED
  BY <1>1, <1>3, <1>9 DEF Is, i, p
\* The record an upload asks for.
Record(st, e, n) == [st |-> st, up |-> e, name |-> n, kind |-> "file",
                     parts |-> IF st = "live" THEN AllParts ELSE {}]
With(t, i, o) == [t EXCEPT ![i] = o]

LEMMA RecordEnters ==
  ASSUME OneRoot, NEW t, Kept(t), NEW x \in Call, Writes(x), x.path # <<>>,
         Is(t, x.at, Front(x.path)), IsDir(t, x.at), At(t, Full(x.path)) = Nil,
         NEW i \in Fresh(t), NEW st \in {"live", "pending"}, NEW u,
         u = With(t, i, Record(st, x.at, Last(x.path)))
  PROVE  /\ Effect(t, u, x, IF st = "live" THEN {Full(x.path)} ELSE {})
         /\ i \in Ids /\ i # Nil
         /\ st = "live" => Is(u, i, x.path) /\ u[i].parts = AllParts /\ u[i].kind = "file"
         /\ st = "pending" => \A y : SameCall(x, y) /\ y.id = i => Pending(u, y)
<1> DEFINE o == Record(st, x.at, Last(x.path))
<1>1. i \in Ids /\ x.at \in Ids \cup {Nil} /\ Last(x.path) \in Spoken /\ t \in [Ids -> Objects]
  BY FreshIs, UsesAre, PathsAre, RootIs DEF Kept, Call
<1>2. o \in Objects
  BY <1>1 DEF Objects, States, Kinds, Record
<1>3. /\ o.st = st /\ o.up = x.at /\ o.name = Last(x.path) /\ o.kind = "file"
      /\ o.parts = IF st = "live" THEN AllParts ELSE {}
  BY DEF Record
<1> HIDE DEF o
<1>4. u \in [Ids -> Objects] /\ u[i] = o /\ \A j \in Ids \ {i} : u[j] = t[j]
  BY <1>1, <1>2 DEF o, With
<1>5. /\ u[i].st \in {"live", "pending"} /\ u[i].up = x.at /\ u[i].name = Last(x.path)
      /\ u[i].kind = "file" /\ (u[i].st = "live" => u[i].parts = AllParts) /\ u[i].st = st
  BY <1>3, <1>4
<1>6. /\ Effect(t, u, x, IF u[i].st = "live" THEN {Full(x.path)} ELSE {})
      /\ i \in Ids /\ i # Nil
      /\ u[i].st = "live" => Is(u, i, x.path)
      /\ u[i].st = "pending" => \A y : SameCall(x, y) /\ y.id = i => Pending(u, y)
  BY ONLY OneRoot, Kept(t), x \in Call, Writes(x), x.path # <<>>, Is(t, x.at, Front(x.path)),
          IsDir(t, x.at), At(t, Full(x.path)) = Nil, i \in Fresh(t), <1>4, <1>5, NewFile
<1> QED
  BY <1>5, <1>6

LEMMA PutCreateKeeps ==
  ASSUME OneRoot, DrivesInv, NEW c \in Calls, Aliyun!PutCreate(c), drive' = drive
  PROVE  StepOK
<1> DEFINE x == cur[c]
           p == Full(x.path)
<1>1. /\ x.pc = "new" /\ IsDir(tree, x.at) /\ Child(tree, x.at, Last(x.path)) = Nil
      /\ UNCHANGED <<pathIds, doubt, begun, links>>
      /\ \E st \in {"live", "pending"}, i \in Fresh(tree) :
            /\ tree' = [tree EXCEPT ![i] = [st |-> st, up |-> x.at, name |-> Last(x.path),
                                 kind |-> "file", parts |-> IF st = "live" THEN AllParts ELSE {}]]
            /\ Set(c, [x EXCEPT !.id = i, !.pc = "made", !.changed = TRUE])
  BY AliyunSame DEF Aliyun!PutCreate, Aliyun!CreateFile, Aliyun!AllParts, AllParts, Nil, Aliyun!Nil
<1>2. /\ x \in Call /\ Is(tree, x.at, Front(x.path)) /\ Writes(x) /\ Asked(tree, x)
      /\ Sure(x, doubt) /\ x.path \in Paths /\ Kept(tree)
  BY <1>1, CallIs, UsesAre DEF Does, Puts, DrivesInv
<1>3. x.path # <<>> /\ Changing(x)
  BY <1>1, <1>2 DEF Asked, Writes, Changing
<1>4. At(tree, p) = Nil
  BY <1>1, <1>2, <1>3, KidIs
<1>5. PICK st \in {"live", "pending"}, i \in Fresh(tree) :
            /\ tree' = [tree EXCEPT ![i] = [st |-> st, up |-> x.at, name |-> Last(x.path),
                                 kind |-> "file", parts |-> IF st = "live" THEN AllParts ELSE {}]]
            /\ Set(c, [x EXCEPT !.id = i, !.pc = "made", !.changed = TRUE])
  BY <1>1
<1> DEFINE y == [x EXCEPT !.id = i, !.pc = "made", !.changed = TRUE]
           X == IF st = "live" THEN {p} ELSE {}
<1>6. /\ Effect(tree, tree', x, X) /\ i \in Ids /\ i # Nil
      /\ st = "live" => Is(tree', i, x.path) /\ tree'[i].parts = AllParts /\ tree'[i].kind = "file"
      /\ st = "pending" => \A z : SameCall(x, z) /\ z.id = i => Pending(tree', z)
  <2>1. At(tree, Full(x.path)) = Nil
    BY <1>4
  <2> HIDE DEF X, p
  <2>2. X = IF st = "live" THEN {Full(x.path)} ELSE {}
    BY DEF X, p
  <2>3. tree' = With(tree, i, Record(st, x.at, Last(x.path)))
    BY <1>5 DEF With, Record
  <2>4. IsDir(tree, x.at)
    BY <1>1
  <2> HIDE DEF x, y
  <2>5. /\ Effect(tree, tree', x, IF st = "live" THEN {Full(x.path)} ELSE {})
        /\ i \in Ids /\ i # Nil
        /\ st = "live" => Is(tree', i, x.path) /\ tree'[i].parts = AllParts /\ tree'[i].kind = "file"
        /\ st = "pending" => \A z : SameCall(x, z) /\ z.id = i => Pending(tree', z)
    BY ONLY OneRoot, <1>2, <1>3, <2>1, <2>3, <2>4, i \in Fresh(tree), st \in {"live", "pending"},
            RecordEnters
  <2> QED
    BY <2>2, <2>5
<1>7. /\ y \in Call /\ y.pc = "made" /\ SameCall(x, y) /\ y.changed = TRUE /\ y.how = x.how
      /\ y.id = i
  BY <1>2, <1>6 DEF Call, SameCall, Pcs, Puts
<1>8. Set(c, y)
  BY <1>5
<1>9. X \subseteq Changes(x) /\ X \subseteq Uses(x) /\ \A q \in X : At(tree, q) = Nil
  BY <1>2, <1>4, ChangesAre, UsesAre DEF Writes
<1> HIDE DEF y, X
<1>10. y.op = x.op /\ y.path = x.path /\ y.to = x.to
  BY <1>7 DEF SameCall
<1>11. Does(tree', y) /\ Done(tree', y)
  BY <1>2, <1>6, <1>7, <1>10 DEF Does, Done, Puts, Sending, Writes
<1>12. Own(tree', y, doubt)
  BY <1>1, <1>2, <1>3, <1>7, <1>10, <1>11, TurnOwn DEF Walks, Writes
<1> QED
  BY <1>1, <1>6, <1>7, <1>8, <1>9, <1>12, TreeMoves

LEMMA PutMadeKeeps ==
  ASSUME OneRoot, DrivesInv, NEW c \in Calls, Aliyun!PutMade(c), drive' = drive
  PROVE  StepOK
<1> DEFINE x == cur[c]
           z == [x EXCEPT !.changed = FALSE]
           y == IF tree[x.id].st = "live" THEN [z EXCEPT !.pc = "ok"]
                ELSE IF x.how = "rapid" THEN [z EXCEPT !.pc = "unmake"]
                ELSE IF Parts = 0 THEN [z EXCEPT !.pc = "complete"]
                ELSE [z EXCEPT !.pc = "parts", !.part = 1, !.try = 1]
           gone == {x.path}
           X == {}
<1>1. /\ x.pc = "made" /\ pathIds' = Without(pathIds, gone) /\ x \in Call
      /\ tree' = tree /\ doubt' = doubt /\ begun' = begun /\ links' = links
  BY AliyunSame, CallIs DEF Aliyun!PutMade
<1>2. z.id = x.id /\ z.how = x.how
  BY <1>1 DEF Call
<1>3. cur' = [cur EXCEPT ![c] = y]
  <2>1. Set(c, IF tree[z.id].st = "live" THEN [z EXCEPT !.pc = "ok"]
               ELSE IF z.how = "rapid" THEN [z EXCEPT !.pc = "unmake"]
               ELSE IF Parts = 0 THEN [z EXCEPT !.pc = "complete"]
               ELSE [z EXCEPT !.pc = "parts", !.part = 1, !.try = 1])
    BY AliyunSame DEF Aliyun!PutMade
  <2> HIDE DEF z
  <2> QED
    BY <1>2, <2>1 DEF Set
<1>4. /\ Writes(x) /\ Asked(tree, x) /\ Sure(x, doubt) /\ Kept(tree)
      /\ Pending(tree, x) \/ (Is(tree, x.id, x.path) /\ tree[x.id].parts = AllParts)
  BY <1>1, CallIs DEF Does, Puts, DrivesInv
<1>5. x.path # <<>> /\ x.to = x.path /\ Changing(x) /\ x.path \in Paths
  BY <1>1, <1>4, UsesAre DEF Asked, Writes, Changing
<1>6. /\ tree[x.id].st = "live" => Is(tree, x.id, x.path) /\ tree[x.id].parts = AllParts
      /\ tree[x.id].st # "live" => Pending(tree, x)
  <2>1. Is(tree, x.id, x.path) => tree[x.id].st = "live"
    BY <1>4, <1>5, PathsAre, FullIs, AtLive DEF Is
  <2> QED
    BY <1>4, <2>1 DEF Pending
<1>7. /\ y \in Call /\ SameCall(x, y) /\ y.changed = FALSE /\ y.how = x.how /\ y.id = x.id
      /\ \/ y.pc = "ok" /\ tree[x.id].st = "live"
         \/ y.pc = "unmake" /\ tree[x.id].st # "live"
         \/ y.pc = "complete" /\ tree[x.id].st # "live" /\ Parts = 0
         \/ y.pc = "parts" /\ y.part = 1 /\ tree[x.id].st # "live" /\ Parts # 0
  <2>1. 1 \in 1 .. Parts + 1 /\ 1 \in 1..MaxTries
    BY PartsAssumption DEF MaxTries
  <2> QED
    BY <1>1, <2>1, ZenonT(40) DEF Call, SameCall, Pcs, Puts, Goals
<1>8. Effect(tree, tree', x, X) /\ X \subseteq Changes(x) /\ \A q : q \notin X
  BY <1>1, NoEffect DEF DrivesInv
<1>9. x.path \in gone /\ x.to \in gone
  BY <1>5
<1> HIDE DEF y, gone, X, z
<1>10. y.op = x.op /\ y.path = x.path /\ y.to = x.to
  BY <1>7 DEF SameCall
<1>11. /\ Parts = 0 => \A i \in Ids : tree[i].parts = AllParts
       /\ Parts # 0 => 1 \in AllParts
       /\ 1 .. 1 - 1 = {}
  <2>1. Parts = 0 => AllParts = {}
    BY DEF AllParts
  <2>2. \A i \in Ids : tree[i].parts \subseteq AllParts
    BY <1>4 DEF Kept, Objects
  <2>3. (Parts # 0 => 1 \in AllParts) /\ 1 .. 1 - 1 = {}
    BY PartsAssumption DEF AllParts
  <2> QED
    BY <2>1, <2>2, <2>3
<1>12. Pending(tree, x) => Pending(tree, y) /\ x.id \in Ids
  BY <1>1, <1>7, <1>10 DEF Pending, Writes, Call
<1>13. Does(tree, y) /\ Done(tree, y)
  <2>1. CASE y.pc = "ok"
    BY <1>4, <1>6, <1>7, <1>10, <2>1 DEF Does, Done, Puts, Sending, Writes
  <2>2. CASE y.pc = "unmake"
    BY <1>4, <1>6, <1>7, <1>10, <1>12, <2>2 DEF Does, Done, Puts, Sending, Writes
  <2>3. CASE y.pc = "complete"
    BY <1>4, <1>6, <1>7, <1>10, <1>11, <1>12, <2>3 DEF Does, Done, Puts, Sending, Writes
  <2>4. CASE y.pc = "parts"
    BY <1>4, <1>6, <1>7, <1>10, <1>11, <1>12, <2>4 DEF Does, Done, Puts, Sending, Writes
  <2> QED
    BY <1>7, <2>1, <2>2, <2>3, <2>4
<1>14. Own(tree, y, doubt)
  BY <1>1, <1>4, <1>5, <1>7, <1>10, <1>13, TurnOwn DEF Walks, Writes
<1>15. /\ Settles(x, y, pathIds', doubt') /\ Learned(pathIds, pathIds', tree', x)
       /\ pathIds' \in [Keys -> Ids \cup {Nil}]
  BY <1>1, <1>5, <1>9, ForgetSettles DEF DrivesInv
<1>16. /\ links' \subseteq Ids /\ doubt \subseteq doubt' /\ doubt' \subseteq doubt \cup Changes(x)
       /\ Own(tree', y, doubt')
  BY <1>1, <1>14 DEF DrivesInv
<1> QED
  BY <1>1, <1>3, <1>7, <1>8, <1>15, <1>16, StepKeeps

\* One attempt at one part of an upload.
LEMMA PartKeeps ==
  ASSUME OneRoot, DrivesInv, NEW c \in Calls, cur[c].pc = "parts", NEW stored \in BOOLEAN,
         NEW answered \in BOOLEAN, answered => stored \/ cur[c].part \in tree[cur[c].id].parts,
         tree' = IF stored THEN [tree EXCEPT ![cur[c].id].parts = @ \cup {cur[c].part}] ELSE tree,
         NEW next \in {"complete", "commit"},
         Set(c, IF answered THEN PartSent(cur[c], next) ELSE PartFailed(cur[c])),
         UNCHANGED <<pathIds, doubt, begun, links>>, drive' = drive
  PROVE  StepOK
<1> DEFINE x == cur[c]
           i == x.id
           y == IF answered THEN PartSent(x, next) ELSE PartFailed(x)
           X == {}
           o == [tree[i] EXCEPT !.parts = @ \cup {x.part}]
<1>1. /\ x \in Call /\ Writes(x) /\ Asked(tree, x) /\ Sure(x, doubt) /\ Kept(tree)
      /\ Pending(tree, x) /\ x.part \in AllParts /\ 1 .. x.part - 1 \subseteq tree[i].parts
  BY CallIs DEF Does, Puts, Sending, DrivesInv
<1>2. x.path # <<>> /\ Changing(x) /\ x.path \in Paths
  BY <1>1, UsesAre DEF Asked, Writes, Changing
<1>3. /\ i \in Ids /\ i # Nil /\ tree[i].st = "pending" /\ tree[i].kind = "file" /\ i # Top
      /\ tree \in [Ids -> Objects] /\ tree[i] \in Objects
  BY <1>1 DEF Pending, Call, Kept
<1>4. /\ o \in Objects /\ o.st = "pending" /\ o.kind = "file" /\ o.up = tree[i].up
      /\ o.name = tree[i].name /\ o.parts = tree[i].parts \cup {x.part}
  BY <1>1, <1>3 DEF Objects
<1>5. stored => tree' = [tree EXCEPT ![i] = o] /\ tree'[i] = o
  BY <1>3
<1>6. /\ Made(tree, o.up) /\ tree[o.up].kind = "dir" /\ o.up # i
  <2>1. Made(tree, i)
    BY <1>3 DEF Made
  <2>2. Made(tree, tree[i].up) /\ tree[tree[i].up].kind = "dir"
    BY <1>1, <1>3, <2>1 DEF Kept
  <2> QED
    BY <1>3, <1>4, <2>2
<1> HIDE DEF o, i
<1>7. Effect(tree, tree', x, X) /\ \A q \in Seq(Labels) : At(tree', q) = At(tree, q)
  <2>1. CASE stored
    <3>1. (tree[i].st = "pending" => i = x.id /\ Pending(tree, x)) /\ i \in Ids \ {Top}
      BY <1>1, <1>3 DEF i
    <3>2. /\ tree' \in [Ids -> Objects] /\ \A j \in Ids \ {i} : tree'[j] = tree[j]
          /\ tree'[i] = o
      BY <1>3, <1>4, <1>5, <2>1
    <3>3. /\ tree[i].st # "live" /\ tree'[i].st \in {"pending", "gone"}
          /\ Made(tree, tree'[i].up) /\ tree[tree'[i].up].kind = "dir" /\ tree'[i].up # i
          /\ tree[i].st # "unused" => tree'[i].kind = tree[i].kind /\ tree[i].parts \subseteq tree'[i].parts
      BY <1>3, <1>4, <1>6, <3>2
    <3> HIDE DEF x
    <3>4. Effect(tree, tree', x, {}) /\ \A q \in Seq(Labels) : At(tree', q) = At(tree, q)
      BY ONLY OneRoot, <1>1, <3>1, <3>2, <3>3, Hidden
    <3> HIDE DEF X
    <3>5. X = {}
      BY DEF X
    <3> QED
      BY <3>4, <3>5
  <2>2. CASE ~stored
    BY <1>1, <2>2, NoEffect
  <2> QED
    BY <2>1, <2>2
<1>8. /\ tree[i].parts \subseteq tree'[i].parts /\ (answered => x.part \in tree'[i].parts)
      /\ tree'[i].st = "pending" /\ tree'[i].kind = "file" /\ tree'[i].up = tree[i].up
      /\ tree'[i].name = tree[i].name /\ tree'[i].parts \subseteq AllParts
  <2>1. tree'[i].parts \subseteq AllParts
    BY <1>3, <1>4, <1>5 DEF Objects
  <2> QED
    BY <1>3, <1>4, <1>5, <2>1 DEF i
<1>9. /\ y \in Call /\ SameCall(x, y) /\ y.changed = x.changed /\ y.how = x.how /\ y.id = x.id
      /\ \/ y.pc = "parts" /\ y.part = x.part
         \/ y.pc = "failed"
         \/ y.pc = "parts" /\ answered /\ x.part # Parts /\ y.part = x.part + 1
         \/ y.pc = next /\ answered /\ x.part = Parts
  <2>1. /\ x.part + 1 \in 1 .. Parts + 1 /\ x.try \in 1..MaxTries /\ 1 \in 1..MaxTries
        /\ (x.try < MaxTries => x.try + 1 \in 1..MaxTries)
    BY <1>1, PartsAssumption DEF Call, AllParts, MaxTries
  <2> QED
    BY <1>1, <2>1, ZenonT(40) DEF Call, SameCall, Pcs, Puts, PartSent, PartFailed, LastPart
<1>10. Set(c, y) /\ X \subseteq Changes(x) /\ X \subseteq Uses(x) /\ \A q : q \notin X
  OBVIOUS
<1> HIDE DEF y, X
<1>11. y.op = x.op /\ y.path = x.path /\ y.to = x.to
  BY <1>9 DEF SameCall
<1>12. Pending(tree', y)
  <2>1. Full(x.path) \in Seq(Labels) /\ Full(Front(x.path)) \in Seq(Labels)
    BY <1>2, PathsAre, FullIs
  <2>2. /\ Is(tree', tree[i].up, Front(x.path)) /\ At(tree', Full(x.path)) = Nil
        /\ tree[i].name = Last(x.path) /\ x.id = i
    BY <1>1, <1>7, <2>1 DEF Pending, Is, i
  <2> QED
    BY <1>1, <1>3, <1>8, <1>9, <1>11, <2>2 DEF Pending, Writes
<1>13. x.part \in 1..Parts /\ (answered => 1 .. x.part \subseteq tree'[i].parts)
       /\ 1 .. x.part - 1 \subseteq tree'[i].parts
  <2>1. x.part \in 1..Parts /\ \A n \in 1 .. x.part : n = x.part \/ n \in 1 .. x.part - 1
    BY <1>1, PartsAssumption DEF AllParts
  <2> QED
    BY <1>1, <1>8, <2>1 DEF i
<1>14. /\ y.pc = "parts" => y.part \in AllParts /\ 1 .. y.part - 1 \subseteq tree'[y.id].parts
       /\ y.pc \in {"complete", "commit", "finish"} => tree'[y.id].parts = AllParts
  <2>1. CASE y.pc = "parts" /\ y.part = x.part
    BY <1>1, <1>9, <1>13, <2>1 DEF i
  <2>2. CASE y.pc = "parts" /\ answered /\ x.part # Parts /\ y.part = x.part + 1
    BY <1>9, <1>13, <2>2, PartsAssumption DEF i, AllParts
  <2>3. CASE y.pc = next /\ answered /\ x.part = Parts
    BY <1>8, <1>9, <1>13, <2>3 DEF i, AllParts
  <2> QED
    BY <1>9, <2>1, <2>2, <2>3
<1>15. CASE y.pc # "failed"
  <2>1. Does(tree', y) /\ Done(tree', y)
    BY <1>1, <1>9, <1>11, <1>12, <1>14, <1>15 DEF Does, Done, Puts, Sending, Writes
  <2>2. Own(tree', y, doubt)
    BY <1>1, <1>9, <1>11, <1>15, <2>1, PlainOwn DEF Walks, Writes
  <2> QED
    BY <1>7, <1>9, <1>10, <1>15, <2>2, TreeMoves
<1>16. CASE y.pc = "failed"
  <2>1. Known(tree', y)
    BY <1>1, <1>9, <1>11, <1>16 DEF Known, Asked, Going, Does, Done, Walks, Puts, Sending, Writes
  <2>2. Changes(y) = Changes(x)
    BY <1>9, SameCallIs
  <2>3. Sure(y, doubt)
    BY <1>1, <1>9, <1>11, <1>16, <2>2 DEF Sure, Changing
  <2>4. Own(tree', y, doubt)
    BY <1>9, <2>1, <2>3 DEF Own
  <2> QED
    BY <1>7, <1>9, <1>10, <1>16, <2>4, TreeMoves
<1> QED
  BY <1>15, <1>16
\* An upload that ends with an error, and one that ends in a listed file.
LEMMA UploadFails ==
  ASSUME OneRoot, NEW t, NEW u, NEW D, NEW x \in Call, Writes(x), Asked(t, x), Sure(x, D),
         x.pc \in Sending, NEW y \in Call, SameCall(x, y), y.pc = "failed", y.changed = x.changed,
         y.how = x.how
  PROVE  Own(u, y, D)
<1>1. y.op = x.op /\ y.path = x.path /\ y.to = x.to /\ x.pc # "idle"
  BY DEF SameCall, Sending
<1>2. Known(u, y)
  BY <1>1 DEF Known, Asked, Going, Does, Done, Walks, Puts, Sending, Writes
<1>3. Changes(y) = Changes(x)
  BY SameCallIs
<1>4. Sure(y, D)
  BY <1>1, <1>3 DEF Sure, Changing, Sending
<1> QED
  BY <1>2, <1>4 DEF Own

LEMMA EnteredKeeps ==
  ASSUME OneRoot, DrivesInv, NEW c \in Calls, cur[c].pc \in {"complete", "hash", "finish"},
         tree' = [tree EXCEPT ![cur[c].id].st = "live", ![cur[c].id].parts = AllParts],
         NEW y, Set(c, y), UNCHANGED <<pathIds, doubt, begun, links>>, drive' = drive,
         \/ y = [cur[c] EXCEPT !.pc = "ok"] \/ y = [cur[c] EXCEPT !.pc = "failed"]
         \/ y = Failed(cur[c])
  PROVE  StepOK
<1> DEFINE x == cur[c]
           X == {Full(x.path)}
<1>1. /\ x \in Call /\ Writes(x) /\ Asked(tree, x) /\ Sure(x, doubt) /\ Kept(tree)
      /\ Pending(tree, x) /\ x.pc \in Sending
  BY CallIs DEF Does, Puts, Sending, DrivesInv
<1>2. x.path # <<>> /\ Changing(x) /\ x.op # "mkdir"
  BY <1>1 DEF Asked, Writes, Changing, Sending
<1>3. Effect(tree, tree', x, X) /\ Is(tree', x.id, x.path) /\ tree'[x.id].parts = AllParts
  <2> DEFINE u == [tree EXCEPT ![x.id].st = "live", ![x.id].parts = AllParts]
  <2>1. tree' = u
    OBVIOUS
  <2>2. /\ Effect(tree, u, x, {Full(x.path)})
        /\ Is(u, x.id, x.path) /\ u[x.id].parts = AllParts
    BY ONLY OneRoot, <1>1, <1>2, Enters
  <2> HIDE DEF u
  <2> QED
    BY <2>1, <2>2
<1>4. /\ X \subseteq Changes(x) /\ X \subseteq Uses(x) /\ \A q \in X : At(tree, q) = Nil
      /\ x.pc # "idle"
  BY <1>1, ChangesAre, UsesAre DEF Writes, Pending, Sending
<1>5. Kept(tree') /\ Asked(tree', x)
  BY <1>1, <1>2, <1>3 DEF Effect, Asked
<1>6. x.changed => Changes(x) \subseteq doubt
  BY <1>1 DEF Sure, Sending
<1> HIDE DEF X
<1>7. CASE y = [cur[c] EXCEPT !.pc = "ok"]
  <2>1. /\ y \in Call /\ SameCall(x, y) /\ y.pc = "ok" /\ y.changed = x.changed /\ y.how = x.how
        /\ y.id = x.id
    BY <1>1, <1>7 DEF Call, SameCall, Pcs, Goals
  <2>2. y.op = x.op /\ y.path = x.path /\ y.to = x.to
    BY <2>1 DEF SameCall
  <2>3. Does(tree', y) /\ Done(tree', y)
    BY <1>1, <1>3, <2>1, <2>2 DEF Does, Done, Puts, Sending, Writes
  <2>4. Own(tree', y, doubt)
    BY <1>1, <1>2, <2>1, <2>2, <2>3, PlainOwn DEF Walks, Sending
  <2> QED
    BY <1>3, <1>4, <2>1, <2>4, TreeMoves
<1>8. CASE y = [cur[c] EXCEPT !.pc = "failed"]
  <2>1. /\ y \in Call /\ SameCall(x, y) /\ y.pc = "failed" /\ y.changed = x.changed /\ y.how = x.how
    BY <1>1, <1>8 DEF Call, SameCall, Pcs
  <2>2. Own(tree', y, doubt)
    BY <1>1, <2>1, UploadFails
  <2> QED
    BY <1>3, <1>4, <2>1, <2>2, TreeMoves
<1>9. CASE y = Failed(cur[c])
  <2>1. doubt \subseteq doubt \cup Changes(x) /\ x.pc \notin {"idle", "failed"}
    OBVIOUS
  <2> HIDE DEF x
  <2>2. LET w == Failed(x) IN
        /\ Own(tree', w, doubt) /\ SameCall(x, w) /\ w.changed = x.changed
        /\ w.pc \notin {"rename", "idle"}
    BY ONLY OneRoot, <1>1, <1>5, <1>6, <2>1, FailedOwn
  <2> USE DEF x
  <2>3. /\ Own(tree', y, doubt) /\ SameCall(x, y) /\ y.changed = x.changed
        /\ y.pc \notin {"rename", "idle"}
    BY <1>9, <2>2
  <2> QED
    BY <1>3, <1>4, <2>3, TreeMoves
<1> QED
  BY <1>7, <1>8, <1>9

LEMMA CompleteKeeps ==
  ASSUME OneRoot, DrivesInv, NEW c \in Calls, Aliyun!Complete(c), drive' = drive
  PROVE  StepOK
<1>1. /\ cur[c].pc = "complete" /\ tree' = [tree EXCEPT ![cur[c].id].st = "live"]
      /\ Set(c, [cur[c] EXCEPT !.pc = "ok"]) \/ Set(c, [cur[c] EXCEPT !.pc = "failed"])
      /\ UNCHANGED <<pathIds, doubt, begun, links>>
  BY AliyunSame DEF Aliyun!Complete
<1>2. cur[c] \in Call /\ Kept(tree) /\ tree[cur[c].id].parts = AllParts /\ Pending(tree, cur[c])
  BY <1>1, CallIs DEF Does, Sending, DrivesInv
<1>3. cur[c].id \in Ids /\ tree \in [Ids -> Objects] /\ tree[cur[c].id] \in Objects
  BY <1>2 DEF Pending, Call, Kept
<1>4. tree' = [tree EXCEPT ![cur[c].id].st = "live", ![cur[c].id].parts = AllParts]
  BY <1>1, <1>2, <1>3 DEF Objects
<1> QED
  BY <1>1, <1>4, EnteredKeeps

LEMMA SendPartKeeps ==
  ASSUME OneRoot, DrivesInv, NEW c \in Calls, Aliyun!SendPart(c), drive' = drive
  PROVE  StepOK
<1>1. /\ cur[c].pc = "parts" /\ UNCHANGED <<pathIds, doubt, begun, links>>
      /\ \E stored, answered \in BOOLEAN :
           /\ answered => stored \/ cur[c].part \in tree[cur[c].id].parts
           /\ tree' = IF stored THEN [tree EXCEPT ![cur[c].id].parts = @ \cup {cur[c].part}] ELSE tree
           /\ Set(c, IF answered THEN PartSent(cur[c], "complete") ELSE PartFailed(cur[c]))
  BY AliyunSame DEF Aliyun!SendPart
<1> QED
  BY <1>1, PartKeeps

LEMMA PrecheckKeeps ==
  ASSUME OneRoot, DrivesInv, NEW c \in Calls, Aliyun!Precheck(c), drive' = drive
  PROVE  StepOK
<1> DEFINE x == cur[c]
           old == Child(tree, x.at, Last(x.path))
           z == [x EXCEPT !.how = "rapid"]
           found == [x EXCEPT !.id = old, !.pc = "unmake"]
           made(i) == [x EXCEPT !.id = i, !.pc = "unmake"]
<1>1. /\ x.pc = "precheck" /\ IsDir(tree, x.at)
      /\ \/ OnlyCall(c, WalkTo(z, "old", Front(x.path), TRUE))
         \/ old # Nil /\ OnlyCall(c, found)
         \/ /\ old = Nil
            /\ \E i \in Fresh(tree) : /\ tree' = With(tree, i, Record("pending", x.at, Last(x.path)))
                                      /\ Set(c, made(i))
            /\ UNCHANGED <<pathIds, doubt, begun, links>>
  BY AliyunSame DEF Aliyun!Precheck, Aliyun!CreateFile, Nil, Aliyun!Nil, Aliyun!AllParts, AllParts,
                    With, Record
<1>2. /\ x \in Call /\ Writes(x) /\ Asked(tree, x) /\ Sure(x, doubt) /\ Kept(tree)
      /\ Is(tree, x.at, Front(x.path)) /\ x.op = "copy"
  BY <1>1, CallIs DEF Does, Puts, DrivesInv
<1>3. x.path # <<>> /\ x.path \in Paths /\ Front(x.path) \in Paths /\ x.pc # "idle"
  BY <1>1, <1>2, UsesAre, PathsAre DEF Asked
<1>4. old = At(tree, Full(x.path)) /\ old \in Ids \cup {Nil}
  BY <1>2, <1>3, KidIs
<1>5. x.changed => Changes(x) \subseteq doubt
  BY <1>1, <1>2 DEF Sure
<1>6. CASE OnlyCall(c, WalkTo(z, "old", Front(x.path), TRUE))
  <2> DEFINE y == WalkTo(z, "old", Front(x.path), TRUE)
  <2>1. /\ z \in Call /\ z.op = "copy" /\ z.changed = x.changed /\ SameCall(x, z) /\ z.path = x.path
        /\ Asked(tree, [z EXCEPT !.pc = "walk"])
    BY <1>1, <1>2 DEF Call, SameCall, Asked
  <2>2. Changes(z) = Changes(x) /\ Uses(z) = Uses(x)
    BY <2>1, SameCallIs
  <2>3. \A p \in doubt, q \in Uses(z) : IsPrefix(p, q) => z.op = "copy" /\ p = Full(z.path)
    BY <1>1, <1>2, <2>1, <2>2 DEF Sure
  <2>4. "old" \in GoalsOf(z.op) /\ TRUE \in BOOLEAN /\ Front(x.path) = Front(z.path)
    BY <2>1 DEF GoalsOf
  <2>5. z.changed => z.op = "copy" /\ Changes(z) \subseteq doubt
    BY <1>5, <2>1, <2>2
  <2> HIDE DEF z
  <2>6. /\ Own(tree, y, doubt) /\ SameCall(z, y) /\ y.changed = z.changed
        /\ y.pc \notin {"rename", "idle"}
    BY <1>2, <1>3, <2>1, <2>3, <2>4, <2>5, WalkToOwn
  <2> HIDE DEF y
  <2>7. SameCall(x, y) /\ y.changed = x.changed
    BY <2>1, <2>6 DEF SameCall
  <2> QED
    BY <1>3, <1>6, <2>6, <2>7, CallGoesOn DEF y
<1>7. CASE old # Nil /\ OnlyCall(c, found)
  <2>1. /\ found \in Call /\ SameCall(x, found) /\ found.pc = "unmake" /\ found.id = old
        /\ found.changed = x.changed /\ found.how = x.how
    BY <1>2, <1>4 DEF Call, SameCall, Pcs, Puts
  <2> HIDE DEF found
  <2>2. found.op = x.op /\ found.path = x.path /\ found.to = x.to
    BY <2>1 DEF SameCall
  <2>3. Does(tree, found) /\ Done(tree, found)
    BY <1>2, <1>4, <1>7, <2>1, <2>2 DEF Does, Done, Puts, Sending, Writes, Is
  <2>4. Own(tree, found, doubt)
    BY <1>1, <1>2, <2>1, <2>2, <2>3, PlainOwn DEF Walks
  <2> QED
    BY <1>3, <1>7, <2>1, <2>4, CallGoesOn
<1>8. CASE /\ old = Nil
           /\ \E i \in Fresh(tree) : /\ tree' = With(tree, i, Record("pending", x.at, Last(x.path)))
                                     /\ Set(c, made(i))
           /\ UNCHANGED <<pathIds, doubt, begun, links>>
  <2>1. PICK i \in Fresh(tree) : /\ tree' = With(tree, i, Record("pending", x.at, Last(x.path)))
                                 /\ Set(c, made(i))
    BY <1>8
  <2> DEFINE y == made(i)
             X == {}
  <2>2. At(tree, Full(x.path)) = Nil
    BY <1>4, <1>8
  <2>3. IsDir(tree, x.at) /\ "pending" \in {"live", "pending"}
    BY <1>1
  <2> HIDE DEF x
  <2>4. /\ Effect(tree, tree', x, IF "pending" = "live" THEN {Full(x.path)} ELSE {})
        /\ i \in Ids /\ i # Nil
        /\ "pending" = "pending" => \A w : SameCall(x, w) /\ w.id = i => Pending(tree', w)
    BY ONLY OneRoot, <1>2, <1>3, <2>1, <2>2, <2>3, i \in Fresh(tree), RecordEnters
  <2> USE DEF x
  <2>5. /\ y \in Call /\ SameCall(x, y) /\ y.pc = "unmake" /\ y.id = i
        /\ y.changed = x.changed /\ y.how = x.how
    BY <1>2, <2>4 DEF Call, SameCall, Pcs, Puts
  <2>6. Set(c, y)
    BY <2>1
  <2>7. Effect(tree, tree', x, X) /\ X \subseteq Changes(x) /\ X \subseteq Uses(x) /\ \A q : q \notin X
    BY <2>4
  <2> HIDE DEF y, X
  <2>8. y.op = x.op /\ y.path = x.path /\ y.to = x.to /\ Pending(tree', y)
    BY <2>4, <2>5 DEF SameCall
  <2>9. Does(tree', y) /\ Done(tree', y)
    BY <1>2, <2>5, <2>8 DEF Does, Done, Puts, Sending, Writes
  <2>10. Own(tree', y, doubt)
    BY <1>1, <1>2, <2>5, <2>8, <2>9, PlainOwn DEF Walks
  <2> QED
    BY <1>3, <1>8, <2>5, <2>6, <2>7, <2>10, TreeMoves
<1> QED
  BY <1>1, <1>6, <1>7, <1>8

LEMMA UnmakeKeeps ==
  ASSUME OneRoot, DrivesInv, NEW c \in Calls, Aliyun!Unmake(c), drive' = drive
  PROVE  StepOK
<1> DEFINE x == cur[c]
           i == x.id
           y == Failed(x)
           u == [tree EXCEPT ![i].st = "gone"]
           none == {}
<1>1. /\ x.pc = "unmake" /\ (tree' = u \/ tree' = tree) /\ Set(c, y)
      /\ doubt' = (IF Live(i) THEN doubt \cup Changes(x) ELSE doubt)
      /\ UNCHANGED <<pathIds, begun, links>>
  BY AliyunSame DEF Aliyun!Unmake
<1>2. /\ x \in Call /\ Writes(x) /\ Asked(tree, x) /\ Sure(x, doubt) /\ Kept(tree)
      /\ Pending(tree, x) \/ Is(tree, i, x.path)
  BY <1>1, CallIs DEF Does, Puts, DrivesInv
<1>3. x.path # <<>> /\ x.path \in Paths /\ x.pc # "idle" /\ x.op # "mkdir" /\ Changes(x) = {Full(x.path)}
  BY <1>1, <1>2, UsesAre, ChangesAre DEF Asked, Writes
<1>4. Full(x.path) \in Seq(Labels) /\ Full(x.path) # <<>>
  BY <1>3, PathsAre, FullIs
<1>5. /\ doubt \subseteq doubt' /\ doubt' \subseteq doubt \cup Changes(x)
      /\ Is(tree, i, x.path) => Full(x.path) \in doubt'
      /\ x.changed => Changes(x) \subseteq doubt'
  <2>1. Is(tree, i, x.path) => Live(i)
    BY <1>2, <1>4, AtLive DEF Is, Live
  <2>2. x.changed => Changes(x) \subseteq doubt
    BY <1>1, <1>2 DEF Sure
  <2> QED
    BY <1>1, <1>3, <2>1, <2>2
<1> HIDE DEF i
<1>6. \E X : /\ Effect(tree, tree', x, X) /\ X \subseteq Changes(x) /\ X \subseteq doubt'
  <2>1. CASE tree' = tree
    <3>1. Effect(tree, tree', x, none)
      BY <1>2, <2>1, NoEffect
    <3> QED
      BY <3>1
  <2>2. CASE tree' = u /\ Is(tree, i, x.path)
    <3> DEFINE q == Full(x.path)
    <3>1. q \in Seq(Labels) /\ q # <<>> /\ i = At(tree, q) /\ i # Nil
      BY <1>4, <2>2 DEF Is
    <3> HIDE DEF q
    <3>2. Effect(tree, u, x, {q})
      BY ONLY <1>2, <3>1, GoneEffect
    <3> QED
      BY <1>3, <1>5, <2>2, <3>2 DEF q
  <2>3. CASE tree' = u /\ Pending(tree, x)
    <3>1. /\ i \in Ids /\ tree[i].st = "pending" /\ tree[i].kind = "file" /\ tree \in [Ids -> Objects]
          /\ i # Top /\ tree[i] \in Objects /\ i = x.id
      BY <1>2, <2>3 DEF Pending, Call, Kept, i
    <3>2. /\ tree' \in [Ids -> Objects] /\ \A j \in Ids \ {i} : tree'[j] = tree[j]
          /\ tree'[i].st = "gone" /\ tree'[i].up = tree[i].up /\ tree'[i].kind = tree[i].kind
          /\ tree'[i].parts = tree[i].parts
      BY <2>3, <3>1 DEF Objects, States
    <3>3. /\ Made(tree, tree[i].up) /\ tree[tree[i].up].kind = "dir"
          /\ tree[i].up # i
      <4>1. Made(tree, i)
        BY <3>1 DEF Made
      <4>2. Made(tree, tree[i].up) /\ tree[tree[i].up].kind = "dir"
        BY <1>2, <3>1, <4>1 DEF Kept
      <4> QED
        BY <3>1, <4>2
    <3>4. /\ tree[i].st # "live" /\ tree'[i].st \in {"pending", "gone"} /\ i \in Ids \ {Top}
          /\ Made(tree, tree'[i].up) /\ tree[tree'[i].up].kind = "dir" /\ tree'[i].up # i
          /\ tree[i].st # "unused" => tree'[i].kind = tree[i].kind /\ tree[i].parts \subseteq tree'[i].parts
          /\ tree[i].st = "pending" => i = x.id /\ Pending(tree, x)
      BY <2>3, <3>1, <3>2, <3>3
    <3> HIDE DEF x
    <3>5. Effect(tree, tree', x, {})
      BY ONLY OneRoot, <1>2, <3>2, <3>4, Hidden
    <3> QED
      BY <3>5
  <2> QED
    BY <1>1, <1>2, <2>1, <2>2, <2>3
<1>7. PICK X : Effect(tree, tree', x, X) /\ X \subseteq Changes(x) /\ X \subseteq doubt'
  BY <1>6
<1>8. Kept(tree') /\ Asked(tree', x)
  BY <1>2, <1>3, <1>7 DEF Effect, Asked
<1>9. /\ Own(tree', y, doubt') /\ SameCall(x, y) /\ y.changed = x.changed
      /\ y.pc \notin {"rename", "idle"}
  BY <1>1, <1>2, <1>5, <1>8, FailedOwn
<1> HIDE DEF y
<1>10. Set(c, y)
  BY <1>1
<1>11. Settles(x, y, pathIds', doubt') /\ Learned(pathIds, pathIds', tree', x)
  BY <1>1, <1>9, SettlesOn DEF Learned
<1>12. /\ pathIds' \in [Keys -> Ids \cup {Nil}] /\ links' \subseteq Ids /\ begun' = begun
       /\ cur' = [cur EXCEPT ![c] = y]
  BY <1>1, <1>10 DEF DrivesInv, Set
<1>13. /\ \A q \in X : At(tree, q) = Nil \/ q \in doubt' \cup Stale(y)
       /\ \A d \in Calls \ {c} : cur[d].pc = "rename" => Full(Between(cur[d])) \notin X
  <2>1. X \subseteq Uses(x)
    BY <1>2, <1>3, <1>7, UsesAre
  <2> QED
    BY <1>3, <1>7, <2>1, OthersBetween
<1> QED
  BY <1>3, <1>5, <1>7, <1>9, <1>11, <1>12, <1>13, StepKeeps
-----------------------------------------------------------------------------
(***************************************************************************)
(* Moves and renames.                                                      *)
(***************************************************************************)
\* The object a path names is put under another one.
Moves(t, u, e, q, v) ==
    /\ Kept(t) /\ q \in Seq(Labels) \ {<<>>} /\ e = At(t, q) /\ e # Nil
    /\ v \in Seq(Labels) \ {<<>>} /\ u \in [Ids -> Objects] /\ \A j \in Ids \ {e} : u[j] = t[j]
    /\ u[e].st = t[e].st /\ u[e].up = At(t, Front(v)) /\ u[e].name = Last(v)
    /\ u[e].kind = t[e].kind /\ u[e].parts = t[e].parts /\ IsDir(t, At(t, Front(v)))
    /\ ~IsPrefix(q, Front(v)) /\ At(t, v) = Nil

LEMMA MovedEffect ==
  ASSUME NEW t, NEW u, NEW e, NEW q, NEW v, NEW x, NEW X, X = {q, v}, Moves(t, u, e, q, v)
  PROVE  /\ Effect(t, u, x, X) /\ At(u, q) = Nil /\ At(u, v) = e
         /\ \A p \in Seq(Labels) : At(t, p) # At(u, p) => IsPrefix(q, p) \/ IsPrefix(v, p)
<1>1. /\ Kept(t) /\ q \in Seq(Labels) /\ q # <<>> /\ e = At(t, q) /\ e # Nil
      /\ v \in Seq(Labels) /\ v # <<>> /\ u \in [Ids -> Objects] /\ \A j \in Ids \ {e} : u[j] = t[j]
      /\ ~IsPrefix(q, Front(v)) /\ At(t, v) = Nil
      /\ u[e].up = At(t, Front(v)) /\ u[e].name = Last(v) /\ u[e].kind = t[e].kind
      /\ u[e].parts = t[e].parts
  BY DEF Moves
<1>2. e \in Ids /\ t[e].st = "live" /\ u[e].st = "live"
  BY <1>1, AtLive DEF Moves
<1>3. At(t, Front(v)) # Nil /\ t[At(t, Front(v))].kind = "dir"
  BY DEF Moves, IsDir
<1>4. /\ Kept(u) /\ At(u, q) = Nil /\ At(u, v) = e
      /\ \A p \in Seq(Labels) : At(t, p) # At(u, p) => IsPrefix(q, p) \/ IsPrefix(v, p)
  BY ONLY <1>1, <1>2, <1>3, MovedAt
<1>5. Grown(t, u)
  BY <1>1, <1>2 DEF Grown
<1>6. \A i \in Ids : t[i].st = "pending" => u[i] = t[i]
  BY <1>1, <1>2
<1>7. Effect(t, u, x, X)
  BY <1>4, <1>5, <1>6 DEF Effect
<1> QED
  BY <1>4, <1>7

\* What a rename that is about to move its object knows.
LEMMA MoveIs ==
  ASSUME OneRoot, DrivesInv, NEW c \in Calls, cur[c].pc \in {"move", "rename"}
  PROVE  LET x == cur[c] IN
         /\ x \in Call /\ x.op = "rename" /\ Asked(tree, x) /\ Sure(x, doubt) /\ Kept(tree)
         /\ x.path # <<>> /\ x.to # <<>> /\ x.path \in Paths /\ x.to \in Paths /\ Changing(x)
         /\ Front(x.to) \in Paths
         /\ {Full(x.path), Full(x.to), Full(Between(x))} \subseteq Seq(Labels) \ {<<>>}
         /\ Changes(x) = {Full(x.path), Full(Between(x)), Full(x.to)}
         /\ Full(x.path) \in Uses(x) /\ Full(x.to) \in Uses(x)
         /\ ~IsPrefix(Full(x.path), Full(Front(x.to))) /\ ~IsPrefix(Full(x.to), Full(x.path))
         /\ Front(Full(x.to)) = Full(Front(x.to)) /\ Last(Full(x.to)) = Last(x.to)
         /\ Front(Full(Between(x))) = Full(Front(x.to)) /\ Last(Full(Between(x))) = Last(x.path)
         /\ Full(Between(x)) = Append(Full(Front(x.to)), Last(x.path))
         /\ ~IsPrefix(Full(Between(x)), Full(Front(x.to)))
<1> DEFINE x == cur[c]
           p == x.path
           to == x.to
           m == Between(x)
<1>1. x \in Call /\ Asked(tree, x) /\ Sure(x, doubt) /\ Kept(tree) /\ x.op = "rename"
  BY CallIs DEF Does, DrivesInv
<1>2. /\ p # <<>> /\ to # <<>> /\ Changing(x)
      /\ ~IsPrefix(p, to) /\ ~IsPrefix(to, p)
  BY <1>1 DEF Asked, Changing
<1>3. /\ p \in Paths /\ to \in Paths /\ Full(p) \in Uses(x) /\ Full(to) \in Uses(x)
  BY <1>1, UsesAre
<1>4. Changes(x) = {Full(p), Full(m), Full(to)}
  BY <1>1, ChangesAre
<1>5. /\ Front(to) \in Paths /\ p \in Seq(Labels) /\ to \in Seq(Labels) /\ Front(to) \in Seq(Labels)
      /\ Full(p) # <<>> /\ Full(to) # <<>> /\ Front(Full(to)) = Full(Front(to))
      /\ Last(Full(to)) = Last(to) /\ IsPrefix(Full(Front(to)), Full(to))
      /\ Last(p) \in Labels
  BY <1>2, <1>3, PathsAre
<1>6. Full(p) \in Seq(Labels) /\ Full(to) \in Seq(Labels) /\ Full(Front(to)) \in Seq(Labels)
  BY <1>5, FullIs
<1>7. ~IsPrefix(Full(p), Full(Front(to)))
  <2> SUFFICES ASSUME IsPrefix(Full(p), Full(Front(to))) PROVE FALSE
    OBVIOUS
  <2>1. IsPrefix(Full(p), Full(to))
    BY <1>5, <1>6, PrefixTrans
  <2> QED
    BY <1>2, <1>5, <2>1, FullIs
<1>8. ~IsPrefix(Full(to), Full(p))
  BY <1>2, <1>5, FullIs
<1>9. Full(m) \in Seq(Labels) /\ Full(m) = Append(Full(Front(to)), Last(p))
  BY <1>1, <1>2, BetweenIs
<1>10. Full(m) # <<>> /\ Front(Full(m)) = Full(Front(to)) /\ Last(Full(m)) = Last(p)
  <2> DEFINE d == Full(Front(to))
             n == Last(p)
             w == Full(m)
  <2>1. d \in Seq(Labels) /\ n \in Labels /\ w = Append(d, n)
    BY <1>5, <1>6, <1>9
  <2> HIDE DEF d, n, w
  <2>2. Append(d, n) \in Seq(Labels) \ {<<>>} /\ Front(Append(d, n)) = d /\ Last(Append(d, n)) = n
    BY ONLY <2>1, Appended
  <2>3. w # <<>> /\ Front(w) = d /\ Last(w) = n
    BY <2>1, <2>2
  <2> QED
    BY <2>3 DEF d, n, w
<1>11. ~IsPrefix(Full(m), Full(Front(to)))
  BY <1>9, <1>10, FrontBefore
<1> QED
  BY <1>1, <1>2, <1>3, <1>4, <1>5, <1>6, <1>7, <1>8, <1>9, <1>10, <1>11

\* The whole rename in one request.
LEMMA MoveKeeps ==
  ASSUME OneRoot, DrivesInv, NEW c \in Calls, cur[c].pc = "move",
         Moves(tree, tree', cur[c].id, Full(cur[c].path), Full(cur[c].to)),
         Set(c, [cur[c] EXCEPT !.pc = "evict", !.changed = TRUE]),
         UNCHANGED <<pathIds, doubt, begun, links>>, drive' = drive
  PROVE  StepOK
<1> DEFINE x == cur[c]
           y == [x EXCEPT !.pc = "evict", !.changed = TRUE]
           X == {Full(x.path), Full(x.to)}
<1>1. /\ x \in Call /\ x.op = "rename" /\ Asked(tree, x) /\ Sure(x, doubt) /\ Changing(x)
      /\ X \subseteq Changes(x) /\ X \subseteq Uses(x) /\ x.pc # "idle"
  BY MoveIs
<1>2. /\ Effect(tree, tree', x, X) /\ At(tree', Full(x.path)) = Nil
      /\ At(tree', Full(x.to)) = x.id /\ x.id # Nil
  <2>1. Moves(tree, tree', x.id, Full(x.path), Full(x.to))
    OBVIOUS
  <2>2. X = {Full(x.path), Full(x.to)} /\ x.id # Nil
    BY <2>1 DEF Moves
  <2> HIDE DEF X
  <2> QED
    BY ONLY <2>1, <2>2, MovedEffect
<1>3. /\ y \in Call /\ SameCall(x, y) /\ y.pc = "evict" /\ y.changed = TRUE /\ y.how = x.how
      /\ y.id = x.id
  BY <1>1 DEF Call, SameCall, Pcs
<1>4. Set(c, y)
  OBVIOUS
<1> HIDE DEF y
<1>5. y.op = x.op /\ y.path = x.path /\ y.to = x.to
  BY <1>3 DEF SameCall
<1>6. Does(tree', y) /\ Done(tree', y)
  BY <1>1, <1>2, <1>3, <1>5 DEF Does, Done, Puts, Sending, Is
<1>7. Own(tree', y, doubt)
  BY <1>1, <1>3, <1>5, <1>6, TurnOwn DEF Walks
<1>8. \A q \in X : q \in Stale(y)
  BY <1>3, <1>5 DEF Stale
<1> HIDE DEF X
<1> QED
  BY <1>1, <1>2, <1>3, <1>4, <1>7, <1>8, TreeMoves

LEMMA AliyunMoveKeeps ==
  ASSUME OneRoot, DrivesInv, NEW c \in Calls, Aliyun!Move(c), drive' = drive
  PROVE  StepOK
<1> DEFINE x == cur[c]
           i == x.id
<1>1. /\ x.pc = "move" /\ IsDir(tree, x.at) /\ Child(tree, x.at, Last(x.to)) = Nil
      /\ tree' = [tree EXCEPT ![i].up = x.at, ![i].name = Last(x.to)]
      /\ Set(c, [x EXCEPT !.pc = "evict", !.changed = TRUE])
      /\ UNCHANGED <<pathIds, doubt, begun, links>>
  BY AliyunSame DEF Aliyun!Move, Nil, Aliyun!Nil
<1>2. /\ Kept(tree) /\ x \in Call /\ x.to \in Paths /\ x.to # <<>>
      /\ Full(x.path) \in Seq(Labels) \ {<<>>} /\ Full(x.to) \in Seq(Labels) \ {<<>>}
      /\ Front(Full(x.to)) = Full(Front(x.to)) /\ Last(Full(x.to)) = Last(x.to)
      /\ ~IsPrefix(Full(x.path), Full(Front(x.to)))
  BY <1>1, MoveIs
<1>3. Is(tree, i, x.path) /\ Is(tree, x.at, Front(x.to))
  BY <1>1, CallIs DEF Does
<1>4. At(tree, Full(x.to)) = Nil
  BY <1>1, <1>2, <1>3, KidIs
<1>5. i = At(tree, Full(x.path)) /\ i # Nil /\ x.at = At(tree, Front(Full(x.to)))
  BY <1>2, <1>3 DEF Is
<1>6. /\ i \in Ids /\ tree \in [Ids -> Objects] /\ tree[i] \in Objects /\ x.at \in Ids \cup {Nil}
      /\ Last(x.to) \in Spoken
  BY <1>2, <1>5, AtLive, PathsAre, RootIs DEF Kept, Call
<1>7. /\ tree' \in [Ids -> Objects] /\ \A j \in Ids \ {i} : tree'[j] = tree[j]
      /\ tree'[i].st = tree[i].st /\ tree'[i].up = x.at /\ tree'[i].name = Last(x.to)
      /\ tree'[i].kind = tree[i].kind /\ tree'[i].parts = tree[i].parts
  BY <1>1, <1>6 DEF Objects
<1>8. Moves(tree, tree', i, Full(x.path), Full(x.to))
  BY <1>1, <1>2, <1>4, <1>5, <1>7 DEF Moves
<1> QED
  BY <1>1, <1>8, MoveKeeps

LEMMA QuarkMoveOverKeeps ==
  ASSUME OneRoot, DrivesInv, NEW c \in Calls, Quark!MoveOver(c), drive' = drive
  PROVE  StepOK
<1> DEFINE x == cur[c]
           i == x.id
           m == Between(x)
           v == Full(m)
           y == [x EXCEPT !.changed = TRUE, !.pc = "rename"]
           X == {Full(x.path), v}
<1>1. /\ x.pc = "move" /\ IsDir(tree, x.at) /\ Child(tree, x.at, Last(x.path)) = Nil
      /\ Front(x.path) # Front(x.to) /\ tree' = [tree EXCEPT ![i].up = x.at]
      /\ Set(c, [x EXCEPT !.changed = TRUE, !.pc = IF Last(x.to) = Last(x.path) THEN "evict" ELSE "rename"])
      /\ UNCHANGED <<pathIds, doubt, begun, links>>
  BY QuarkSame DEF Quark!MoveOver, Quark!Moved, Nil, Quark!Nil
<1>2. /\ Kept(tree) /\ x \in Call /\ x.to \in Paths /\ x.to # <<>> /\ x.path \in Paths /\ x.path # <<>>
      /\ Full(x.path) \in Seq(Labels) \ {<<>>} /\ v \in Seq(Labels) \ {<<>>}
      /\ Front(v) = Full(Front(x.to)) /\ Last(v) = Last(x.path)
      /\ v = Append(Full(Front(x.to)), Last(x.path)) /\ Front(x.to) \in Paths
      /\ ~IsPrefix(Full(x.path), Full(Front(x.to)))
  BY <1>1, MoveIs
<1>3. Is(tree, i, x.path) /\ Is(tree, x.at, Front(x.to))
  BY <1>1, CallIs DEF Does
<1>4. At(tree, v) = Nil
  <2>1. Full(Front(x.to)) \in Seq(Labels) /\ Last(x.path) \in Labels
    BY <1>2, PathsAre, FullIs
  <2>2. At(tree, Append(Full(Front(x.to)), Last(x.path))) = Child(tree, At(tree, Full(Front(x.to))), Last(x.path))
    BY <2>1, AtChild
  <2> QED
    BY <1>1, <1>2, <1>3, <2>2 DEF Is
<1>5. i = At(tree, Full(x.path)) /\ i # Nil /\ x.at = At(tree, Front(v))
  BY <1>2, <1>3 DEF Is
<1>6. /\ i \in Ids /\ tree \in [Ids -> Objects] /\ tree[i] \in Objects /\ x.at \in Ids \cup {Nil}
      /\ tree[i].name = Last(x.path)
  <2>1. i \in Ids
    BY <1>2, <1>5, AtLive
  <2>2. Last(Full(x.path)) = Last(x.path)
    BY <1>2, PathsAre
  <2>3. tree[i].name = Last(x.path)
    BY <1>2, <1>5, <2>2, AtIs
  <2> QED
    BY <1>2, <2>1, <2>3 DEF Kept, Call
<1>7. /\ tree' \in [Ids -> Objects] /\ \A j \in Ids \ {i} : tree'[j] = tree[j]
      /\ tree'[i].st = tree[i].st /\ tree'[i].up = x.at /\ tree'[i].name = Last(x.path)
      /\ tree'[i].kind = tree[i].kind /\ tree'[i].parts = tree[i].parts
  BY <1>1, <1>6 DEF Objects
<1> HIDE DEF v
<1>8. Moves(tree, tree', i, Full(x.path), v)
  BY <1>1, <1>2, <1>4, <1>5, <1>7 DEF Moves
<1>9. CASE Last(x.to) = Last(x.path)
  <2>1. v = Full(x.to)
    BY <1>2, <1>9, PathsAre
  <2>2. Set(c, [x EXCEPT !.changed = TRUE, !.pc = "evict"])
    BY <1>1, <1>9
  <2>3. Set(c, [x EXCEPT !.pc = "evict", !.changed = TRUE])
    BY <1>2, <2>2 DEF Call
  <2> QED
    BY <1>1, <1>8, <2>1, <2>3, MoveKeeps
<1>10. CASE Last(x.to) # Last(x.path)
  <2>1. /\ x.op = "rename" /\ Asked(tree, x) /\ Sure(x, doubt) /\ Changing(x) /\ x.pc # "idle"
        /\ X \subseteq Changes(x) /\ Full(x.path) \in Uses(x)
    BY <1>1, MoveIs DEF v
  <2>2. /\ Effect(tree, tree', x, X) /\ At(tree', Full(x.path)) = Nil /\ At(tree', v) = i
    <3>1. X = {Full(x.path), v}
      OBVIOUS
    <3> HIDE DEF X
    <3> QED
      BY ONLY <1>8, <3>1, MovedEffect
  <2>3. /\ y \in Call /\ SameCall(x, y) /\ y.pc = "rename" /\ y.changed = TRUE /\ y.how = x.how
        /\ y.id = i
    BY <1>2 DEF Call, SameCall, Pcs
  <2>4. Set(c, y)
    BY <1>1, <1>10
  <2> HIDE DEF y, m, X
  <2>5. y.op = x.op /\ y.path = x.path /\ y.to = x.to /\ Between(y) = m
    BY <2>3, SameCallIs DEF SameCall, m
  <2>6. Does(tree', y) /\ Done(tree', y)
    BY <1>1, <1>5, <2>1, <2>2, <2>3, <2>5 DEF Does, Done, Puts, Sending, Is, v
  <2>7. Own(tree', y, doubt')
    BY <1>1, <1>2, <2>1, <2>3, <2>5, <2>6, TurnOwn DEF Walks
  <2>8. \A q \in X : At(tree, q) = Nil \/ q \in doubt' \cup Stale(y)
    BY <1>4, <2>3, <2>5 DEF Stale, X
  <2>9. \A d \in Calls \ {c} : cur[d].pc = "rename" => Full(Between(cur[d])) \notin X
    <3> SUFFICES ASSUME NEW d \in Calls \ {c}, cur[d].pc = "rename", Full(Between(cur[d])) \in X
                 PROVE  FALSE
      OBVIOUS
    <3>1. Full(Between(cur[d])) # Full(x.path)
      BY <2>1, OthersBetween
    <3>2. At(tree, Full(Between(cur[d]))) # Nil
      BY CallIs DEF Does, Is
    <3> QED
      BY <1>4, <3>1, <3>2 DEF X
  <2>10. Settles(x, y, pathIds', doubt') /\ Learned(pathIds, pathIds', tree', x)
    BY <1>1, <2>3, SettlesOn DEF Learned
  <2>11. /\ pathIds' \in [Keys -> Ids \cup {Nil}] /\ links' \subseteq Ids /\ begun' = begun
         /\ doubt \subseteq doubt' /\ doubt' \subseteq doubt \cup Changes(x)
         /\ cur' = [cur EXCEPT ![c] = y] /\ pathIds' = pathIds /\ At(tree, Full(Between(x))) = Nil
    BY <1>1, <1>4, <2>4 DEF DrivesInv, Set, v, m
  <2> QED
    BY <2>1, <2>2, <2>3, <2>7, <2>8, <2>9, <2>10, <2>11, StepKeeps
<1> QED
  BY <1>9, <1>10

LEMMA QuarkRenameKeeps ==
  ASSUME OneRoot, DrivesInv, NEW c \in Calls, Quark!Rename(c), drive' = drive
  PROVE  StepOK
<1> DEFINE x == cur[c]
           i == x.id
           p == IF Front(x.path) # Front(x.to) THEN Between(x) ELSE x.path
           y == [x EXCEPT !.pc = "evict", !.changed = TRUE]
           X == {Full(p), Full(x.to)}
<1>1. /\ x.pc = (IF Front(x.path) # Front(x.to) THEN "rename" ELSE "move")
      /\ Child(tree, tree[i].up, Last(x.to)) = Nil
      /\ tree' = [tree EXCEPT ![i].name = Last(x.to)] /\ Set(c, y)
      /\ UNCHANGED <<pathIds, doubt, begun, links>>
  BY QuarkSame DEF Quark!Rename, Quark!Moved, Nil, Quark!Nil
<1>2. /\ Kept(tree) /\ x \in Call /\ x.to \in Paths /\ x.to # <<>> /\ x.path \in Paths /\ x.path # <<>>
      /\ Full(x.to) \in Seq(Labels) \ {<<>>} /\ Full(x.path) \in Seq(Labels) \ {<<>>}
      /\ Full(p) \in Seq(Labels) \ {<<>>} /\ Front(Full(p)) = Full(Front(x.to))
      /\ Front(Full(x.to)) = Full(Front(x.to)) /\ Last(Full(x.to)) = Last(x.to)
      /\ ~IsPrefix(Full(p), Full(Front(x.to))) /\ ~IsPrefix(Full(x.to), Full(x.path))
      /\ Front(x.to) \in Paths
  <2>1. x.pc \in {"move", "rename"}
    BY <1>1
  <2>2. Front(Full(x.path)) = Full(Front(x.path))
    BY <2>1, MoveIs, PathsAre
  <2> QED
    BY <2>1, <2>2, MoveIs
<1>3. Is(tree, i, p) /\ (x.pc = "rename" => At(tree, Full(x.path)) = Nil)
  BY <1>1, CallIs DEF Does
<1> HIDE DEF p
<1>4. /\ i = At(tree, Full(p)) /\ i # Nil /\ i \in Ids /\ tree[i].up = At(tree, Full(Front(x.to)))
      /\ tree[i].up # Nil
  <2>1. i = At(tree, Full(p)) /\ i # Nil
    BY <1>3 DEF Is
  <2> QED
    BY <1>2, <2>1, AtIs
<1>5. IsDir(tree, tree[i].up) /\ Is(tree, tree[i].up, Front(x.to))
  <2>1. i # Top /\ Made(tree, i)
    BY <1>2, <1>4, AtIs DEF Made
  <2> QED
    BY <1>2, <1>4, <2>1 DEF Kept, IsDir, Is
<1>6. At(tree, Full(x.to)) = Nil
  BY <1>1, <1>2, <1>5, KidIs
<1>7. /\ tree \in [Ids -> Objects] /\ tree[i] \in Objects /\ Last(x.to) \in Spoken
  BY <1>2, <1>4, PathsAre, RootIs DEF Kept
<1>8. /\ tree' \in [Ids -> Objects] /\ \A j \in Ids \ {i} : tree'[j] = tree[j]
      /\ tree'[i].st = tree[i].st /\ tree'[i].up = tree[i].up /\ tree'[i].name = Last(x.to)
      /\ tree'[i].kind = tree[i].kind /\ tree'[i].parts = tree[i].parts
  BY <1>1, <1>4, <1>7 DEF Objects
<1>9. Moves(tree, tree', i, Full(p), Full(x.to))
  BY <1>2, <1>4, <1>5, <1>6, <1>8 DEF Moves
<1>10. CASE Front(x.path) = Front(x.to)
  BY <1>1, <1>9, <1>10, MoveKeeps DEF p
<1>11. CASE Front(x.path) # Front(x.to)
  <2>1. /\ x.op = "rename" /\ Asked(tree, x) /\ Sure(x, doubt) /\ Changing(x) /\ x.pc = "rename"
        /\ X \subseteq Changes(x) /\ Full(x.to) \in Uses(x) /\ p = Between(x)
    BY <1>1, <1>11, MoveIs DEF p
  <2>2. /\ Effect(tree, tree', x, X) /\ At(tree', Full(p)) = Nil /\ At(tree', Full(x.to)) = i
        /\ \A q \in Seq(Labels) : At(tree, q) # At(tree', q) => IsPrefix(Full(p), q) \/ IsPrefix(Full(x.to), q)
    <3>1. X = {Full(p), Full(x.to)}
      OBVIOUS
    <3> HIDE DEF X
    <3>2. Effect(tree, tree', x, X) /\ At(tree', Full(p)) = Nil /\ At(tree', Full(x.to)) = i
      BY ONLY <1>9, <3>1, MovedEffect
    <3>3. \A q \in Seq(Labels) :
             At(tree, q) # At(tree', q) => IsPrefix(Full(p), q) \/ IsPrefix(Full(x.to), q)
      BY ONLY <1>9, <3>1, <3>2, MovedEffect
    <3> QED
      BY <3>2, <3>3
  <2>3. At(tree', Full(x.path)) = Nil
    <3> SUFFICES ASSUME At(tree', Full(x.path)) # Nil PROVE FALSE
      OBVIOUS
    <3>1. IsPrefix(Full(p), Full(x.path))
      BY <1>2, <1>3, <2>1, <2>2
    <3>2. Kept(tree')
      BY <2>2 DEF Effect
    <3> QED
      BY <1>2, <2>2, <3>1, <3>2, AtAbove
  <2>4. /\ y \in Call /\ SameCall(x, y) /\ y.pc = "evict" /\ y.changed = TRUE /\ y.how = x.how
        /\ y.id = i
    BY <1>2 DEF Call, SameCall, Pcs
  <2> HIDE DEF y, X
  <2>5. y.op = x.op /\ y.path = x.path /\ y.to = x.to
    BY <2>4 DEF SameCall
  <2>6. Does(tree', y) /\ Done(tree', y)
    BY <1>4, <2>1, <2>2, <2>3, <2>4, <2>5 DEF Does, Done, Puts, Sending, Is
  <2>7. Own(tree', y, doubt')
    BY <1>1, <1>2, <2>1, <2>4, <2>5, <2>6, TurnOwn DEF Walks
  <2>8. \A q \in X : At(tree, q) = Nil \/ q \in doubt' \cup Stale(y)
                       \/ Clear(pathIds, Unsure(cur, doubt), q)
    <3>1. Clear(pathIds, Unsure(cur, doubt), Full(p))
      BY <2>1 DEF DrivesInv, Bridged, Clear
    <3> QED
      BY <1>6, <3>1 DEF X
  <2>9. \A d \in Calls \ {c} : cur[d].pc = "rename" => Full(Between(cur[d])) \notin X
    <3> SUFFICES ASSUME NEW d \in Calls \ {c}, cur[d].pc = "rename", Full(Between(cur[d])) \in X
                 PROVE  FALSE
      OBVIOUS
    <3>1. Full(Between(cur[d])) # Full(x.to)
      BY <2>1, OthersBetween
    <3>2. Between(cur[c]) # Between(cur[d])
      BY <2>1 DEF DrivesInv, AllApart, Running
    <3>3. Between(cur[c]) \in Seq(Labels) /\ Between(cur[d]) \in Seq(Labels)
      <4>1. /\ cur[c] \in Call /\ cur[c].path # <<>> /\ cur[c].to # <<>>
            /\ cur[d] \in Call /\ cur[d].path # <<>> /\ cur[d].to # <<>>
        BY <1>2, MoveIs
      <4> QED
        BY <4>1, BetweenIs
    <3> QED
      BY <2>1, <3>1, <3>2, <3>3, FullIs DEF X
  <2>10. Settles(x, y, pathIds', doubt') /\ Learned(pathIds, pathIds', tree', x)
    BY <1>1, <2>4, SettlesOn DEF Learned
  <2>11. /\ pathIds' \in [Keys -> Ids \cup {Nil}] /\ links' \subseteq Ids /\ begun' = begun
         /\ doubt \subseteq doubt' /\ doubt' \subseteq doubt \cup Changes(x)
         /\ cur' = [cur EXCEPT ![c] = y] /\ y.pc # "rename" /\ x.pc # "idle"
    BY <1>1, <2>1, <2>4 DEF DrivesInv, Set, y
  <2> QED
    BY <2>1, <2>2, <2>4, <2>7, <2>8, <2>9, <2>10, <2>11, StepKeeps
<1> QED
  BY <1>10, <1>11
-----------------------------------------------------------------------------
(***************************************************************************)
(* The upload of Quark.                                                    *)
(***************************************************************************)
LEMMA UpPreKeeps ==
  ASSUME OneRoot, DrivesInv, NEW c \in Calls, Quark!UpPre(c), drive' = drive
  PROVE  StepOK
<1> DEFINE x == cur[c]
           gone == {x.path}
           made(i) == [x EXCEPT !.id = i, !.pc = "hash", !.changed = FALSE]
<1>1. /\ x.pc = "new" /\ IsDir(tree, x.at) /\ UNCHANGED <<begun, links>>
      /\ \E i \in Fresh(tree) :
           /\ tree' = With(tree, i, Record("pending", x.at, Last(x.path)))
           /\ \/ Set(c, made(i)) /\ pathIds' = Without(pathIds, gone) /\ UNCHANGED doubt
              \/ /\ Set(c, Failed(x)) /\ UNCHANGED pathIds
                 /\ doubt' = IF x.changed THEN doubt \cup Changes(x) ELSE doubt
  BY QuarkSame DEF Quark!UpPre, With, Record
<1>2. /\ x \in Call /\ Is(tree, x.at, Front(x.path)) /\ Writes(x) /\ Asked(tree, x)
      /\ Sure(x, doubt) /\ x.path \in Paths /\ Kept(tree) /\ At(tree, Full(x.path)) = Nil
  BY <1>1, CallIs, UsesAre DEF Does, Puts, DrivesInv
<1>3. /\ x.path # <<>> /\ Changing(x) /\ x.pc # "idle" /\ x.to = x.path /\ x.op # "mkdir"
  BY <1>1, <1>2 DEF Asked, Writes, Changing
<1>4. PICK i \in Fresh(tree) :
           /\ tree' = With(tree, i, Record("pending", x.at, Last(x.path)))
           /\ \/ Set(c, made(i)) /\ pathIds' = Without(pathIds, gone) /\ UNCHANGED doubt
              \/ /\ Set(c, Failed(x)) /\ UNCHANGED pathIds
                 /\ doubt' = IF x.changed THEN doubt \cup Changes(x) ELSE doubt
  BY <1>1
<1> DEFINE X == {}
<1>5. /\ Effect(tree, tree', x, X) /\ i \in Ids /\ i # Nil
      /\ \A w : SameCall(x, w) /\ w.id = i => Pending(tree', w)
  <2>1. IsDir(tree, x.at) /\ "pending" \in {"live", "pending"}
        /\ tree' = With(tree, i, Record("pending", x.at, Last(x.path)))
    BY <1>1, <1>4
  <2> HIDE DEF x
  <2>2. /\ Effect(tree, tree', x, IF "pending" = "live" THEN {Full(x.path)} ELSE {})
        /\ i \in Ids /\ i # Nil
        /\ "pending" = "pending" => \A w : SameCall(x, w) /\ w.id = i => Pending(tree', w)
    BY ONLY OneRoot, <1>2, <1>3, <2>1, i \in Fresh(tree), RecordEnters
  <2> QED
    BY <2>2
<1>6. X \subseteq Changes(x) /\ \A q : q \notin X
  OBVIOUS
<1> HIDE DEF X
<1>7. CASE Set(c, made(i)) /\ pathIds' = Without(pathIds, gone) /\ UNCHANGED doubt
  <2> DEFINE y == made(i)
  <2>1. /\ y \in Call /\ SameCall(x, y) /\ y.pc = "hash" /\ y.id = i
        /\ y.changed = FALSE /\ y.how = x.how
    BY <1>2, <1>5, ZenonT(40) DEF Call, SameCall, Pcs, Puts
  <2>2. cur' = [cur EXCEPT ![c] = y]
    BY <1>7 DEF Set
  <2>3. x.path \in gone /\ x.to \in gone
    BY <1>3
  <2> HIDE DEF y, gone
  <2>4. y.op = x.op /\ y.path = x.path /\ y.to = x.to /\ Pending(tree', y)
    BY <1>5, <2>1 DEF SameCall
  <2>5. Does(tree', y) /\ Done(tree', y)
    BY <1>2, <2>1, <2>4 DEF Does, Done, Puts, Sending, Writes
  <2>6. Own(tree', y, doubt')
    BY <1>1, <1>2, <1>3, <1>7, <2>1, <2>4, <2>5, TurnOwn DEF Walks
  <2>7. /\ Settles(x, y, pathIds', doubt') /\ Learned(pathIds, pathIds', tree', x)
        /\ pathIds' \in [Keys -> Ids \cup {Nil}]
    BY <1>2, <1>3, <1>7, <2>3, ForgetSettles DEF DrivesInv
  <2>8. /\ links' \subseteq Ids /\ begun' = begun
        /\ doubt \subseteq doubt' /\ doubt' \subseteq doubt \cup Changes(x)
    BY <1>1, <1>7 DEF DrivesInv
  <2> QED
    BY <1>3, <1>5, <1>6, <2>1, <2>2, <2>6, <2>7, <2>8, StepKeeps
<1>8. CASE /\ Set(c, Failed(x)) /\ UNCHANGED pathIds
           /\ doubt' = IF x.changed THEN doubt \cup Changes(x) ELSE doubt
  <2> DEFINE y == Failed(x)
  <2>1. /\ doubt \subseteq doubt' /\ doubt' \subseteq doubt \cup Changes(x)
        /\ x.changed => Changes(x) \subseteq doubt'
    BY <1>8
  <2>2. Kept(tree') /\ Asked(tree', x)
    BY <1>2, <1>3, <1>5 DEF Effect, Asked
  <2>3. /\ Own(tree', y, doubt') /\ SameCall(x, y) /\ y.changed = x.changed
        /\ y.pc \notin {"rename", "idle"}
    BY <1>1, <1>2, <2>1, <2>2, FailedOwn
  <2> HIDE DEF y
  <2>4. Settles(x, y, pathIds', doubt') /\ Learned(pathIds, pathIds', tree', x)
    BY <1>8, <2>3, SettlesOn DEF Learned
  <2>5. /\ pathIds' \in [Keys -> Ids \cup {Nil}] /\ links' \subseteq Ids /\ begun' = begun
        /\ cur' = [cur EXCEPT ![c] = y]
    BY <1>1, <1>8 DEF DrivesInv, Set, y
  <2> QED
    BY <1>3, <1>5, <1>6, <2>1, <2>3, <2>4, <2>5, StepKeeps
<1> QED
  BY <1>4, <1>7, <1>8

LEMMA AttachKeeps ==
  ASSUME OneRoot, DrivesInv, NEW c \in Calls, cur[c].pc \in {"hash", "finish"},
         Quark!Attach(c, AllParts), drive' = drive
  PROVE  StepOK
<1>1. /\ tree' = [tree EXCEPT ![cur[c].id].st = "live", ![cur[c].id].parts = AllParts]
      /\ Set(c, [cur[c] EXCEPT !.pc = "ok"]) \/ Set(c, Failed(cur[c]))
      /\ UNCHANGED <<pathIds, doubt, begun, links>>
  BY QuarkSame DEF Quark!Attach
<1> QED
  BY <1>1, EnteredKeeps

LEMMA UpHashKeeps ==
  ASSUME OneRoot, DrivesInv, NEW c \in Calls, Quark!UpHash(c), drive = "quark", drive' = drive
  PROVE  StepOK
<1> DEFINE x == cur[c]
           parts == [x EXCEPT !.pc = "parts", !.part = 1, !.try = 1]
<1>1. /\ x.pc = "hash"
      /\ \/ Quark!Attach(c, AllParts)
         \/ OnlyCall(c, Failed(x))
         \/ OnlyCall(c, parts)
  BY QuarkSame DEF Quark!UpHash, Quark!AllParts, AllParts
<1>2. /\ x \in Call /\ Writes(x) /\ Asked(tree, x) /\ Sure(x, doubt) /\ Kept(tree)
      /\ Pending(tree, x) /\ x.pc # "idle" /\ x.op # "mkdir"
  BY <1>1, CallIs DEF Does, Puts, Sending, DrivesInv, Writes
<1>3. CASE Quark!Attach(c, AllParts)
  BY <1>1, <1>3, AttachKeeps
<1>4. CASE OnlyCall(c, Failed(x))
  <2>1. x.changed => Changes(x) \subseteq doubt
    BY <1>1, <1>2 DEF Sure
  <2>2. doubt \subseteq doubt \cup Changes(x) /\ x.pc \notin {"idle", "failed"}
    BY <1>1
  <2> HIDE DEF x
  <2>3. LET y == Failed(x) IN
        /\ Own(tree, y, doubt) /\ SameCall(x, y) /\ y.changed = x.changed
        /\ y.pc \notin {"rename", "idle"}
    BY ONLY OneRoot, <1>2, <2>1, <2>2, FailedOwn
  <2> QED
    BY <1>2, <1>4, <2>3, CallGoesOn DEF x
<1>5. CASE OnlyCall(c, parts)
  <2>1. Parts # 0 /\ 1 \in 1 .. Parts + 1 /\ 1 \in 1..MaxTries /\ 1 \in AllParts /\ 1 .. 1 - 1 = {}
    <3>1. Parts # 0
      BY DrivesAssumption DEF DrivesInv
    <3> QED
      BY <3>1, PartsAssumption DEF MaxTries, AllParts
  <2>2. /\ parts \in Call /\ SameCall(x, parts) /\ parts.pc = "parts" /\ parts.id = x.id
        /\ parts.changed = x.changed /\ parts.how = x.how /\ parts.part = 1
    BY <1>2, <2>1 DEF Call, SameCall, Pcs, Puts
  <2> HIDE DEF parts
  <2>3. /\ parts.op = x.op /\ parts.path = x.path /\ parts.to = x.to /\ Pending(tree, parts)
    BY <1>2, <2>2 DEF SameCall, Pending, Writes
  <2>4. Does(tree, parts) /\ Done(tree, parts)
    BY <1>2, <2>1, <2>2, <2>3 DEF Does, Done, Puts, Sending, Writes
  <2>5. Own(tree, parts, doubt)
    BY <1>1, <1>2, <2>2, <2>3, <2>4, PlainOwn DEF Walks
  <2> QED
    BY <1>2, <1>5, <2>2, <2>5, CallGoesOn
<1> QED
  BY <1>1, <1>3, <1>4, <1>5

LEMMA UpPartKeeps ==
  ASSUME OneRoot, DrivesInv, NEW c \in Calls, Quark!UpPart(c), drive' = drive
  PROVE  StepOK
<1>1. /\ cur[c].pc = "parts" /\ UNCHANGED <<pathIds, doubt, begun, links>>
      /\ \E stored, answered \in BOOLEAN :
           /\ answered => stored
           /\ tree' = IF stored THEN [tree EXCEPT ![cur[c].id].parts = @ \cup {cur[c].part}] ELSE tree
           /\ Set(c, IF answered THEN PartSent(cur[c], "commit") ELSE PartFailed(cur[c]))
  BY QuarkSame DEF Quark!UpPart
<1> QED
  BY <1>1, PartKeeps

LEMMA UpCommitKeeps ==
  ASSUME OneRoot, DrivesInv, NEW c \in Calls, Quark!UpCommit(c), drive' = drive
  PROVE  StepOK
<1> DEFINE x == cur[c]
           y == [x EXCEPT !.pc = "finish"]
<1>1. x.pc = "commit" /\ OnlyCall(c, y)
  BY QuarkSame DEF Quark!UpCommit
<1>2. /\ x \in Call /\ Writes(x) /\ Asked(tree, x) /\ Sure(x, doubt) /\ Kept(tree)
      /\ Pending(tree, x) /\ x.pc # "idle" /\ x.op # "mkdir" /\ tree[x.id].parts = AllParts
  BY <1>1, CallIs DEF Does, Puts, Sending, DrivesInv, Writes
<1>3. /\ y \in Call /\ SameCall(x, y) /\ y.pc = "finish" /\ y.id = x.id
      /\ y.changed = x.changed /\ y.how = x.how
  BY <1>2 DEF Call, SameCall, Pcs, Puts
<1> HIDE DEF y
<1>4. y.op = x.op /\ y.path = x.path /\ y.to = x.to /\ Pending(tree, y)
  BY <1>2, <1>3 DEF SameCall, Pending, Writes
<1>5. Does(tree, y) /\ Done(tree, y)
  BY <1>2, <1>3, <1>4 DEF Does, Done, Puts, Sending, Writes
<1>6. Own(tree, y, doubt)
  BY <1>1, <1>2, <1>3, <1>4, <1>5, PlainOwn DEF Walks
<1> QED
  BY <1>1, <1>2, <1>3, <1>6, CallGoesOn

LEMMA UpFinishKeeps ==
  ASSUME OneRoot, DrivesInv, NEW c \in Calls, Quark!UpFinish(c), drive' = drive
  PROVE  StepOK
<1>1. cur[c].pc = "finish" /\ Quark!Attach(c, tree[cur[c].id].parts)
  BY DEF Quark!UpFinish
<1>2. tree[cur[c].id].parts = AllParts
  BY <1>1, CallIs DEF Does
<1> QED
  BY <1>1, <1>2, AttachKeeps
-----------------------------------------------------------------------------
(***************************************************************************)
(* Every step keeps the invariant.                                         *)
(***************************************************************************)
LEMMA AliyunStartKeeps ==
  ASSUME OneRoot, DrivesInv, NEW c \in Calls, NEW op \in Ops, NEW s \in Sources,
         NEW path \in Paths, NEW to \in Paths, Aliyun!Start(c, Request(op, s, path, to)),
         drive' = drive
  PROVE  StepOK
<1> DEFINE x == Request(op, s, path, to)
           z == [x EXCEPT !.how = "precheck"]
<1>1. x \in Call /\ ~x.changed /\ x.how = "put" /\ x.op = op /\ SameCall(x, x)
  BY RequestIs DEF SameCall
<1> HIDE DEF x
<1>2. Begin(c, x, IF x.op = "copy" THEN WalkTo(z, "precheck", Front(x.path), TRUE) ELSE FirstWalk(x))
  BY AliyunSame DEF Aliyun!Start, x
<1>3. CASE x.op = "copy"
  <2>1. /\ z \in Call /\ SameCall(x, z) /\ ~z.changed /\ z.op = "copy" /\ z.path = x.path
    BY <1>1, <1>3 DEF Call, SameCall
  <2>2. x.path \in Paths /\ x.path # <<>>
    BY <1>1, <1>2, <1>3, UsesAre DEF Begin, Sensible
  <2>3. "precheck" \in GoalsOf(z.op) /\ TRUE \in BOOLEAN /\ Front(x.path) \in Paths
    BY <2>1, <2>2, PathsAre DEF GoalsOf
  <2>4. Begin(c, x, WalkTo(z, "precheck", Front(x.path), TRUE))
    BY <1>2, <1>3
  <2> HIDE DEF z
  <2> QED
    BY <1>1, <2>1, <2>3, <2>4, BeginKeeps
<1>4. CASE x.op # "copy"
  BY <1>1, <1>2, <1>4, FirstWalkKeeps
<1> QED
  BY <1>3, <1>4

LEMMA QuarkStartKeeps ==
  ASSUME OneRoot, DrivesInv, NEW c \in Calls, NEW op \in Ops, NEW s \in Sources,
         NEW path \in Paths, NEW to \in Paths, Quark!Start(c, Request(op, s, path, to)),
         drive' = drive
  PROVE  StepOK
<1> DEFINE x == Request(op, s, path, to)
           z == IF x.op = "copy" THEN [x EXCEPT !.how = "rapid"] ELSE x
<1>1. x \in Call /\ ~x.changed /\ x.how = "put" /\ x.op = op
  BY RequestIs
<1> HIDE DEF x
<1>2. Begin(c, x, FirstWalk(z))
  BY QuarkSame DEF Quark!Start, x
<1>3. z \in Call /\ SameCall(x, z) /\ ~z.changed /\ (z.op = "copy" \/ z.how = "put")
  BY <1>1 DEF Call, SameCall
<1> HIDE DEF z
<1> QED
  BY <1>1, <1>2, <1>3, FirstWalkKeeps

LEMMA AliyunKeeps ==
  ASSUME OneRoot, DrivesInv, Aliyun!Next, drive' = drive
  PROVE  StepOK
<1>1. CASE \E c \in Calls, op \in Ops, s \in Sources, path \in Paths, to \in Paths :
              Aliyun!Start(c, Aliyun!Request(op, s, path, to))
  <2>1. PICK c \in Calls, op \in Ops, s \in Sources, path \in Paths, to \in Paths :
              Aliyun!Start(c, Aliyun!Request(op, s, path, to))
    BY <1>1
  <2>2. Aliyun!Request(op, s, path, to) = Request(op, s, path, to)
    BY AliyunSame
  <2> QED
    BY <2>1, <2>2, AliyunStartKeeps
<1>2. CASE \E p \in doubt : Aliyun!DoubtEnds(p)
  <2>1. PICK p \in doubt : DoubtEnds(p)
    BY <1>2, AliyunSame
  <2> QED
    BY <2>1, DoubtEndsKeeps
<1>3. ASSUME NEW c \in Calls, Aliyun!Work(c) PROVE StepOK
  <2>1. \/ WalkHit(c) \/ WalkLook(c) \/ WalkFound(c) \/ Aliyun!WalkCreate(c)
        \/ List(c) \/ Stat(c) \/ Link(c) \/ Fetch(c) \/ Trash(c) \/ Aliyun!Move(c) \/ Evict(c)
        \/ PutLook(c) \/ RemoveOld(c) \/ Aliyun!PutCreate(c) \/ Aliyun!PutMade(c)
        \/ Aliyun!SendPart(c) \/ Aliyun!Complete(c) \/ Aliyun!Precheck(c) \/ Aliyun!Unmake(c)
        \/ RequestFails(c) \/ Reply(c)
    BY <1>3, AliyunSame DEF Aliyun!Work, Aliyun!Walk, Aliyun!Put
  <2>2. CASE WalkHit(c) \/ WalkLook(c) \/ WalkFound(c) \/ Aliyun!WalkCreate(c)
    BY <2>2, WalkHitKeeps, WalkLookKeeps, WalkFoundKeeps, AliyunWalkCreateKeeps
  <2>3. CASE List(c) \/ Stat(c) \/ Link(c) \/ Fetch(c)
    BY <2>3, ListKeeps, StatKeeps, LinkKeeps, FetchKeeps
  <2>4. CASE Trash(c) \/ Aliyun!Move(c) \/ Evict(c) \/ RequestFails(c) \/ Reply(c)
    BY <2>4, TrashKeeps, AliyunMoveKeeps, EvictKeeps, RequestFailsKeeps, ReplyKeeps
  <2>5. CASE PutLook(c) \/ RemoveOld(c) \/ Aliyun!PutCreate(c) \/ Aliyun!PutMade(c)
    BY <2>5, PutLookKeeps, RemoveOldKeeps, PutCreateKeeps, PutMadeKeeps
  <2>6. CASE Aliyun!SendPart(c) \/ Aliyun!Complete(c) \/ Aliyun!Precheck(c) \/ Aliyun!Unmake(c)
    BY <2>6, SendPartKeeps, CompleteKeeps, PrecheckKeeps, UnmakeKeeps
  <2> QED
    BY <2>1, <2>2, <2>3, <2>4, <2>5, <2>6
<1> QED
  BY <1>1, <1>2, <1>3 DEF Aliyun!Next

LEMMA QuarkKeeps ==
  ASSUME OneRoot, DrivesInv, Quark!Next, drive = "quark", drive' = drive
  PROVE  StepOK
<1>1. CASE \E c \in Calls, op \in Ops, s \in Sources, path \in Paths, to \in Paths :
              Quark!Start(c, Quark!Request(op, s, path, to))
  <2>1. PICK c \in Calls, op \in Ops, s \in Sources, path \in Paths, to \in Paths :
              Quark!Start(c, Quark!Request(op, s, path, to))
    BY <1>1
  <2>2. Quark!Request(op, s, path, to) = Request(op, s, path, to)
    BY QuarkSame
  <2> QED
    BY <2>1, <2>2, QuarkStartKeeps
<1>2. CASE \E p \in doubt : Quark!DoubtEnds(p)
  <2>1. PICK p \in doubt : DoubtEnds(p)
    BY <1>2, QuarkSame
  <2> QED
    BY <2>1, DoubtEndsKeeps
<1>3. ASSUME NEW c \in Calls, Quark!Work(c) PROVE StepOK
  <2>1. \/ WalkHit(c) \/ WalkLook(c) \/ WalkFound(c) \/ Quark!WalkCreate(c) \/ Quark!LookAgain(c)
        \/ List(c) \/ Stat(c) \/ Link(c) \/ Fetch(c) \/ Trash(c) \/ Quark!MoveOver(c)
        \/ Quark!Rename(c) \/ Evict(c) \/ PutLook(c) \/ RemoveOld(c) \/ Quark!UpPre(c)
        \/ Quark!UpHash(c) \/ Quark!UpPart(c) \/ Quark!UpCommit(c) \/ Quark!UpFinish(c)
        \/ RequestFails(c) \/ Reply(c)
    BY <1>3, QuarkSame DEF Quark!Work, Quark!Walk, Quark!Put
  <2>2. CASE WalkHit(c) \/ WalkLook(c) \/ WalkFound(c) \/ Quark!WalkCreate(c) \/ Quark!LookAgain(c)
    BY <2>2, WalkHitKeeps, WalkLookKeeps, WalkFoundKeeps, QuarkWalkCreateKeeps, LookAgainKeeps
  <2>3. CASE List(c) \/ Stat(c) \/ Link(c) \/ Fetch(c)
    BY <2>3, ListKeeps, StatKeeps, LinkKeeps, FetchKeeps
  <2>4. CASE Trash(c) \/ Quark!MoveOver(c) \/ Quark!Rename(c) \/ Evict(c) \/ RequestFails(c) \/ Reply(c)
    BY <2>4, TrashKeeps, QuarkMoveOverKeeps, QuarkRenameKeeps, EvictKeeps, RequestFailsKeeps,
       ReplyKeeps
  <2>5. CASE PutLook(c) \/ RemoveOld(c) \/ Quark!UpPre(c) \/ Quark!UpHash(c)
    BY <2>5, PutLookKeeps, RemoveOldKeeps, UpPreKeeps, UpHashKeeps
  <2>6. CASE Quark!UpPart(c) \/ Quark!UpCommit(c) \/ Quark!UpFinish(c)
    BY <2>6, UpPartKeeps, UpCommitKeeps, UpFinishKeeps
  <2> QED
    BY <2>1, <2>2, <2>3, <2>4, <2>5, <2>6
<1> QED
  BY <1>1, <1>2, <1>3 DEF Quark!Next

\* The drive at the start.
LEMMA StartIs ==
  ASSUME OneRoot, MCInit
  PROVE  DrivesInv
<1>1. /\ tree = Planted /\ cur = [c \in Calls |-> Idle] /\ links = {} /\ doubt = {} /\ begun = 0
      /\ drive \in Drives
      /\ pathIds \in {[k \in Keys |-> Nil], [k \in Keys |-> Meant(CHOOSE s \in Sources : TRUE, k)]}
  BY DEF MCInit, Init
<1>2. tree \in [Ids -> Objects]
  <2>1. Planted \in [Ids -> Range(Planted)] /\ DOMAIN Planted = Ids
    BY PlantedAssumption
  <2>2. ASSUME NEW i \in Ids PROVE Planted[i] \in Objects
    <3>1. Planted[i] \in [st : States, up : Ids \cup {Nil}, name : {Planted[i].name}, kind : Kinds,
                          parts : SUBSET AllParts]
      BY <2>1, PlantedAssumption DEF WellKept
    <3>2. Planted[i].name \in Spoken
      BY DEF Spoken
    <3> QED
      BY <3>1, <3>2 DEF Objects
  <2> QED
    BY <1>1, <2>1, <2>2
<1>3. Kept(tree)
  <2>1. DOMAIN tree = Ids /\ WellKept(tree, AllParts)
    BY <1>1, <1>2, PlantedAssumption
  <2> QED
    BY <1>2, <2>1, IdsAre DEF WellKept, Kept, Made, IsDir, Objects
<1>4. NoEcho(tree)
  BY <1>1 DEF OneRoot, NoEcho
<1>5. \A k \in Keys : Meant(CHOOSE s \in Sources : TRUE, k) = At(tree, NameOf(k))
  BY DEF Meant, Root, At, NameOf, Full
<1>6. \A k \in Keys : At(tree, NameOf(k)) \in Ids \cup {Nil}
  BY <1>3, KeysAre, AtLive
<1>7. pathIds \in [Keys -> Ids \cup {Nil}] /\ \A k \in Keys : pathIds[k] \in {Nil, At(tree, NameOf(k))}
  BY <1>1, <1>5, <1>6
<1>8. Cached(tree, pathIds, Unsure(cur, doubt))
  BY <1>7 DEF Cached
<1>9. \A c \in Calls : Own(tree, cur[c], doubt) /\ cur[c].pc = "idle"
  BY <1>1, IdleIs
<1>10. AllApart(cur) /\ \A c \in Calls : Bridged(pathIds, Unsure(cur, doubt), cur[c])
  BY <1>9 DEF AllApart, Running, Bridged
<1>11. begun \in 0..MaxCalls /\ links \subseteq Ids /\ doubt \subseteq Changed
  BY <1>1, RequestsAssumption
<1>12. cur = [c \in Calls |-> cur[c]]
  BY <1>1
<1> QED
  BY <1>1, <1>3, <1>4, <1>7, <1>8, <1>9, <1>10, <1>11, <1>12 DEF DrivesInv

LEMMA StepIs ==
  ASSUME OneRoot, DrivesInv, [MCNext]_<<vars, drive>>
  PROVE  StepOK
<1>1. CASE MCNext
  BY <1>1, AliyunKeeps, QuarkKeeps DEF MCNext
<1>2. CASE UNCHANGED <<vars, drive>>
  <2>1. /\ tree' = tree /\ pathIds' = pathIds /\ links' = links /\ cur' = cur /\ doubt' = doubt
        /\ begun' = begun /\ drive' = drive
    BY <1>2 DEF vars
  <2>2. DrivesInv'
    BY <2>1 DEF DrivesInv
  <2>3. Touched
    BY <2>1 DEF Touched
  <2> QED
    BY <2>2, <2>3 DEF StepOK
<1> QED
  BY <1>1, <1>2

\* Everything at once: the invariant, in every reachable state.
THEOREM DrivesKeepTheirWord == OneRoot => (MCSpec => []DrivesInv)
<1> SUFFICES ASSUME OneRoot PROVE MCSpec => []DrivesInv
  OBVIOUS
<1>1. MCInit => DrivesInv
  BY StartIs
<1>2. DrivesInv /\ [MCNext]_<<vars, drive>> => DrivesInv'
  BY StepIs DEF StepOK
<1> QED
  BY <1>1, <1>2, PTL DEF MCSpec

LEMMA InvIsTrue ==
  ASSUME OneRoot, DrivesInv
  PROVE  CacheTrue
<1>1. TypeOK
  <2>1. tree \in [Ids -> Objects] /\ \A c \in Calls : cur[c] \in Call
    BY CallIs DEF DrivesInv, Kept
  <2>2. \A i \in Ids : /\ tree[i].st \in States /\ tree[i].kind \in Kinds
                       /\ tree[i].up \in Ids \cup {Nil} /\ tree[i].parts \subseteq AllParts
    BY <2>1 DEF Objects
  <2>3. \A c \in Calls : /\ cur[c].op \in Ops \cup {"list"} /\ cur[c].path \in Paths
                         /\ cur[c].part \in 1..(Parts + 1) /\ cur[c].try \in 1..MaxTries
    BY <2>1 DEF Call, Operations
  <2> QED
    BY <2>2, <2>3 DEF TypeOK, DrivesInv
<1>2. ASSUME NEW s \in Sources, NEW k \in Keys, pathIds[k] # Nil, pathIds[k] # Meant(s, k)
      PROVE  \E p \in doubt \cup UNION {Changes(cur[c]) : c \in {d \in Calls : cur[d].changed}} :
                Under(RootOf(s) \o k, p)
  <2>1. RootOf(s) = Root
    BY DEF OneRoot
  <2>2. Meant(s, k) = At(tree, NameOf(k))
    BY <2>1 DEF Meant, At, NameOf, Full
  <2>3. PICK p \in Unsure(cur, doubt) : IsPrefix(p, NameOf(k))
    BY <1>2, <2>2 DEF DrivesInv, Cached, Exempt
  <2>4. /\ p \in Changed
        /\ p \in doubt \cup UNION {Changes(cur[c]) : c \in {d \in Calls : cur[d].changed}}
    <3>1. CASE p \in doubt
      BY <3>1 DEF DrivesInv
    <3>2. CASE p \notin doubt
      <4>1. PICK c \in Calls : p \in Stale(cur[c])
        BY <2>3, <3>2 DEF Unsure
      <4>2. cur[c].changed
        BY <4>1 DEF Stale
      <4>3. cur[c].pc # "idle"
        BY <4>2, CallIs DEF Sure
      <4>4. p \in Changes(cur[c]) /\ p \in Changed
        BY <4>1, <4>3, CallIs
      <4> QED
        BY <4>2, <4>4
    <3> QED
      BY <3>1, <3>2
  <2>5. NameOf(k) = Full(k)
    BY <2>3, <2>4, KeysAre, ChangedIs
  <2> QED
    BY <2>1, <2>3, <2>4, <2>5 DEF Under, Full
<1> QED
  BY <1>1, <1>2 DEF CacheTrue

LEMMA InvIsDone ==
  ASSUME OneRoot, DrivesInv
  PROVE  OkIsDone /\ ActsOnNamed
<1>1. ASSUME NEW c \in Calls
      PROVE  /\ cur[c] \in Call /\ Done(tree, cur[c]) /\ Does(tree, cur[c])
             /\ \A p : Named(cur[c], p) = At(tree, Full(p))
  BY CallIs, WholeIs DEF Named, At
<1>2. ActsOnNamed
  BY <1>1 DEF ActsOnNamed, Does, Is
<1>3. ASSUME NEW c \in Calls, cur[c].pc = "ok"
      PROVE  LET call == cur[c] IN
             CASE call.op = "mkdir"  -> IsDir(tree, Named(call, call.path))
               [] call.op = "delete" -> Named(call, call.path) = Nil
               [] call.op = "rename" -> /\ Named(call, call.path) = Nil
                                        /\ Named(call, call.to) = call.id
               [] call.op = "get" -> Named(call, call.path) = call.id
               [] call.op \in {"put", "copy"} -> /\ Named(call, call.path) = call.id
                                                 /\ tree[call.id].parts = AllParts
               [] OTHER -> TRUE
  BY <1>1, <1>3 DEF Done, Writes, Is
<1> QED
  BY <1>2, <1>3 DEF OkIsDone

LEMMA StepTouches ==
  ASSUME OneRoot, DrivesInv, Touched
  PROVE  \A p \in FullPaths :
            LET old == ObjectAt(tree, Top, p)
                new == ObjectAt(tree', Top, p)
            IN  old # new =>
                  \E c \in Calls :
                     \/ \E q \in Changes(cur[c]) : Under(p, q)
                     \/ /\ old = Nil /\ new # Nil /\ tree'[new].kind = "dir"
                        /\ \E q \in Uses(cur[c]) : Under(q, p)
<1> SUFFICES ASSUME NEW p \in FullPaths, At(tree, p) # At(tree', p)
             PROVE  \E c \in Calls :
                       \/ \E q \in Changes(cur[c]) : Under(p, q)
                       \/ /\ At(tree, p) = Nil /\ At(tree', p) # Nil
                          /\ tree'[At(tree', p)].kind = "dir"
                          /\ \E q \in Uses(cur[c]) : Under(q, p)
  BY DEF At
<1>1. p \in Seq(Labels)
  <2>1. CASE p \in Keys
    BY <2>1, KeysAre
  <2>2. CASE p \notin Keys
    <3>1. PICK s \in Sources, w \in Paths : p = RootOf(s) \o w
      <4>1. p \in UNION {{RootOf(s) \o w : w \in Paths} : s \in Sources}
        BY <2>2 DEF FullPaths
      <4>2. PICK s \in Sources : p \in {RootOf(s) \o w : w \in Paths}
        BY ONLY <4>1, ZenonT(30)
      <4> QED
        BY <4>2
    <3>2. p = Full(w)
      BY <3>1 DEF OneRoot, Full
    <3> QED
      BY <3>2, PathsAre, FullIs
  <2> QED
    BY <2>1, <2>2
<1>2. PICK c \in Calls :
         \/ \E q \in Changes(cur[c]) : IsPrefix(q, p)
         \/ At(tree, p) = Nil /\ IsDir(tree', At(tree', p)) /\ p \in Sees(cur[c])
  BY <1>1 DEF Touched
<1> QED
  BY <1>2 DEF Under, Sees, IsDir

\* Every id remembered in PATH_IDS is the object its path names now, except at
\* and below a path somebody is changing or whose change was never confirmed.
THEOREM RememberedIsTrue == OneRoot => (MCSpec => []CacheTrue)
<1> SUFFICES ASSUME OneRoot PROVE MCSpec => []CacheTrue
  OBVIOUS
<1>1. DrivesInv => CacheTrue
  BY InvIsTrue
<1> QED
  BY <1>1, DrivesKeepTheirWord, PTL

\* A call that answers Ok has done what it was asked, on the object its path names.
THEOREM OkMeansDone == OneRoot => (MCSpec => []OkIsDone)
<1> SUFFICES ASSUME OneRoot PROVE MCSpec => []OkIsDone
  OBVIOUS
<1>1. DrivesInv => OkIsDone
  BY InvIsDone
<1> QED
  BY <1>1, DrivesKeepTheirWord, PTL

\* What trash and move are about to act on is the object the path names in its source.
THEOREM NamedIsActedOn == OneRoot => (MCSpec => []ActsOnNamed)
<1> SUFFICES ASSUME OneRoot PROVE MCSpec => []ActsOnNamed
  OBVIOUS
<1>1. DrivesInv => ActsOnNamed
  BY InvIsDone
<1> QED
  BY <1>1, DrivesKeepTheirWord, PTL

\* A file that can be listed has all its parts.
THEOREM ListedHasAllParts == OneRoot => (MCSpec => []ListedIsWhole)
<1> SUFFICES ASSUME OneRoot PROVE MCSpec => []ListedIsWhole
  OBVIOUS
<1>1. DrivesInv => ListedIsWhole
  BY DEF DrivesInv, Kept, ListedIsWhole
<1> QED
  BY <1>1, DrivesKeepTheirWord, PTL

\* No step changes what a path names unless a running call was asked to change
\* that path or one above it, or creates a folder on its own way.
THEOREM OnlyItsPaths == OneRoot => (MCSpec => TouchesOnlyItsPaths)
<1> SUFFICES ASSUME OneRoot PROVE MCSpec => TouchesOnlyItsPaths
  OBVIOUS
<1>1. DrivesInv /\ [MCNext]_<<vars, drive>> =>
        [\A p \in FullPaths :
            LET old == ObjectAt(tree, Top, p)
                new == ObjectAt(tree', Top, p)
            IN  old # new =>
                  \E c \in Calls :
                     \/ \E q \in Changes(cur[c]) : Under(p, q)
                     \/ /\ old = Nil /\ new # Nil /\ tree'[new].kind = "dir"
                        /\ \E q \in Uses(cur[c]) : Under(q, p)]_vars
  BY StepIs, StepTouches DEF StepOK
<1> QED
  BY <1>1, DrivesKeepTheirWord, PTL DEF MCSpec, TouchesOnlyItsPaths
=============================================================================
