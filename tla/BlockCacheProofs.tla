-------------------------- MODULE BlockCacheProofs --------------------------
(***************************************************************************)
(* That hits are real, that what was cached is on disk when the last       *)
(* stream has left, that no bitmap is rolled back and that blocks are      *)
(* counted right, for any number of streams, sizes of the file and size    *)
(* of a block.                                                             *)
(***************************************************************************)
EXTENDS BlockCache, FiniteSetTheorems, TLAPS

Opens == {"create", "load"}
Away == {"idle"} \cup Opens
Renaming == {"rename", "lastrename"}
Places == Away \cup Renaming \cup {"ready", "fetch", "mark", "set", "flush", "last", "drop"}

EntryFields == {"size", "inode", "bits", "part", "gen", "pgen", "bytes"}
EntryOK(x) == DOMAIN x = EntryFields /\ x.gen \in Nat /\ x.pgen \in Nat
SnapOK(x) == DOMAIN x = {"bits", "gen"} /\ x.gen \in Nat

\* What the parts of the state are made of.
Shape ==
  /\ DOMAIN dir = {"state", "size", "bits", "inode"} /\ dir.state \in {"absent", "half", "ready"}
  /\ dir.size \in Nat
  /\ DOMAIN data = Inodes
  /\ current \in EntryIds \cup {0}
  /\ DOMAIN entry = EntryIds /\ \A e \in EntryIds : EntryOK(entry[e])
  /\ hold \in [Streams -> EntryIds \cup {0}] /\ spc \in [Streams -> Places]
  /\ DOMAIN job = Streams /\ DOMAIN completed = Streams
  /\ DOMAIN snap = Streams /\ \A s \in Streams : SnapOK(snap[s])
  /\ overtaken \in BOOLEAN

\* A stream away from the cache holds no entry, and one at a time opens it.
Turns ==
  /\ \A s \in Streams : hold[s] = 0 <=> spc[s] \in Away
  /\ \A s, t \in Streams : spc[s] \in Opens /\ spc[t] \in Opens => s = t

\* The entry that is registered is the one everybody holds, and stands for the directory.
Registered ==
  /\ \A s \in Streams : hold[s] \in {0, current} /\ (spc[s] \in Opens => current = 0)
  /\ current # 0 => /\ dir.state = "ready"
                    /\ entry[current].inode = dir.inode /\ entry[current].size = dir.size

\* A directory that is being made has no bits, a whole one only those of real blocks.
WholeOnDisk ==
  /\ \A s \in Streams : spc[s] = "create" => dir.state = "half"
  /\ dir.state = "half" => dir.bits = {}
  /\ dir.state = "ready" => dir.inode \in Inodes /\ dir.bits \subseteq BlocksOf(dir.size)
  /\ DiskIsReal

\* So are the bits and the pieces in memory; and the bitmap on disk is one it once had.
WholeInMemory ==
  current # 0 =>
    /\ Real(entry[current].bits, dir.size, dir.inode)
    /\ entry[current].bits \subseteq BlocksOf(dir.size)
    /\ entry[current].part \subseteq data[dir.inode]
    /\ dir.bits \subseteq entry[current].bits
    /\ entry[current].pgen <= entry[current].gen
    /\ Clean(current) => dir.bits = entry[current].bits

\* What a stream has in hand: units it wrote, blocks it completed, a snapshot no older
\* than the bitmap on disk.
InHand ==
  \A s \in Streams :
    /\ spc[s] = "mark" => job[s] \subseteq data[dir.inode] \cap 1..dir.size
    /\ spc[s] = "set" => /\ Real(completed[s], dir.size, dir.inode)
                         /\ completed[s] \subseteq BlocksOf(dir.size)
    /\ spc[s] \in Renaming =>
         /\ dir.bits \subseteq snap[s].bits /\ snap[s].bits \subseteq entry[current].bits
         /\ snap[s].gen <= entry[current].gen
         /\ snap[s].gen = entry[current].gen => snap[s].bits = entry[current].bits

OneFlush == \A s, t \in Streams : spc[s] \in Renaming /\ spc[t] \in Renaming => s = t

\* As long as the bitmap on disk lags there is somebody who will bring it.
Brings(s) ==
  /\ hold[s] # 0 /\ spc[s] # "drop"
  /\ spc[s] = "lastrename" => snap[s].gen = entry[current].gen
Pending == current # 0 /\ dir.bits # entry[current].bits => \E s \in Streams : Brings(s)

Quiet == Registered /\ WholeOnDisk /\ WholeInMemory /\ InHand /\ OneFlush /\ Pending

CacheInv == Shape /\ Turns /\ (~overtaken => Quiet)

-----------------------------------------------------------------------------
LEMMA Numbers == EntryIds \subseteq Nat \ {0} /\ Inodes \subseteq Nat \ {0}
<1>1. Cardinality(Streams) \in Nat
      BY StreamAssumption, FS_CardinalityType
<1> QED BY <1>1 DEF EntryIds, Inodes

LEMMA CacheInitially == Init => CacheInv
<1> SUFFICES ASSUME Init PROVE CacheInv
    OBVIOUS
<1>1. Shape
      BY DEF Init, Shape, Absent, NoEntry, NoSnap, EntryOK, EntryFields, SnapOK, Places, Away
<1>2. Turns
      BY DEF Init, Turns, Away, Opens
<1>3. Quiet
      BY DEF Init, Quiet, Registered, WholeOnDisk, DiskIsReal, Absent, WholeInMemory, InHand,
             OneFlush, Pending, Renaming, Opens
<1> QED BY <1>1, <1>2, <1>3 DEF CacheInv

\* A stream that is not away holds an entry.
LEMMA Holding ==
  ASSUME Shape, Turns, NEW s \in Streams, spc[s] \notin Away
  PROVE  hold[s] \in EntryIds /\ hold[s] # 0
BY Numbers DEF Shape, Turns

\* What the second critical section of write_range does to the entry.
LEMMA SetEntry ==
  ASSUME Shape, NEW s \in Streams, SetBits(s), hold[s] \in EntryIds
  PROVE  /\ DOMAIN entry' = EntryIds /\ \A e \in EntryIds : EntryOK(entry'[e])
         /\ \A e \in EntryIds \ {hold[s]} : entry'[e] = entry[e]
         /\ \A f \in {"size", "inode", "pgen"} : entry'[hold[s]][f] = entry[hold[s]][f]
         /\ entry'[hold[s]].bits = entry[hold[s]].bits \cup Newly(s)
         /\ entry'[hold[s]].part \subseteq entry[hold[s]].part
         /\ entry'[hold[s]].gen = IF Newly(s) = {} THEN entry[hold[s]].gen ELSE entry[hold[s]].gen + 1
<1> DEFINE e == hold[s]
           new == Newly(s)
           b == Bytes(new, entry[e].size)
           g == IF new = {} THEN entry[e].gen ELSE entry[e].gen + 1
           p == {u \in entry[e].part : Block(u) \notin new}
           r == [entry[e] EXCEPT !.bits = @ \cup new, !.part = p, !.bytes = @ + b, !.gen = g]
<1>1. entry' = [entry EXCEPT ![e] = r]
      BY DEF SetBits
<1>2. EntryOK(entry[e]) /\ p \subseteq entry[e].part
      BY DEF Shape
<1>3. g \in Nat
      BY <1>2 DEF EntryOK
<1> HIDE DEF new, b, g, p
<1>4. /\ EntryOK(r) /\ \A f \in {"size", "inode", "pgen"} : r[f] = entry[e][f]
      /\ r.bits = entry[e].bits \cup new /\ r.part = p /\ r.gen = g
      BY <1>2, <1>3 DEF EntryOK, EntryFields
<1> HIDE DEF r
<1> QED BY <1>1, <1>2, <1>4 DEF Shape, new, g

\* Every step leaves the parts of the state what they are, and turns are kept.
LEMMA ShapeStep == Shape /\ Turns /\ [Next]_vars => Shape' /\ Turns'
<1> SUFFICES ASSUME Shape, Turns, [Next]_vars PROVE Shape' /\ Turns'
    OBVIOUS
<1> USE Numbers
<1>1. ASSUME NEW s \in Streams, OpenHit(s) PROVE Shape' /\ Turns'
      BY <1>1 DEF OpenHit, disk, Shape, Turns, Places, Away, Opens
<1>2. ASSUME NEW s \in Streams, OpenMiss(s) PROVE Shape' /\ Turns'
  <2>1. ~Opening /\ spc[s] = "idle" /\ current' = 0 /\ UNCHANGED <<data, hold, cached, job, completed, snap>>
        BY <1>2 DEF OpenMiss
  <2>2. \/ spc' = [spc EXCEPT ![s] = "create"]
        \/ spc' = [spc EXCEPT ![s] = "load"]
        BY <1>2 DEF OpenMiss
  <2>3. DOMAIN dir' = {"state", "size", "bits", "inode"} /\ dir'.state \in {"absent", "half", "ready"} /\ dir'.size \in Nat
        BY <1>2, SizeAssumption DEF OpenMiss, Shape, AfterDrop, WithBitmap
  <2>4. DOMAIN entry' = EntryIds /\ \A e \in EntryIds : EntryOK(entry'[e])
        BY <1>2 DEF OpenMiss, Shape, EntryOK, EntryFields, NoEntry
  <2>5. overtaken' \in BOOLEAN
        BY <1>2 DEF OpenMiss, Shape
  <2> QED BY <2>1, <2>2, <2>3, <2>4, <2>5 DEF Shape, Turns, Opening, Places, Away, Opens
<1>3. ASSUME NEW s \in Streams, OpenCreate(s) PROVE Shape' /\ Turns'
  <2>1. \/ spc' = [spc EXCEPT ![s] = "idle"]
        \/ spc' = [spc EXCEPT ![s] = "load"]
        BY <1>3 DEF OpenCreate
  <2>2. DOMAIN dir' = {"state", "size", "bits", "inode"} /\ dir'.state \in {"absent", "half", "ready"} /\ dir'.size \in Nat
        BY <1>3 DEF OpenCreate, Shape, disk
  <2>3. DOMAIN data' = Inodes
        BY <1>3 DEF OpenCreate, Shape, disk
  <2> QED BY <1>3, <2>1, <2>2, <2>3 DEF OpenCreate, Shape, Turns, Places, Away, Opens
<1>4. ASSUME NEW s \in Streams, OpenLoad(s) PROVE Shape' /\ Turns'
  <2>1. CASE dir.state # "ready"
        BY <1>4, <2>1 DEF OpenLoad, disk, Shape, Turns, Places, Away, Opens
  <2>2. CASE dir.state = "ready"
    <3>1. PICK e \in EntryIds : 
             /\ \E b : entry' = [entry EXCEPT ![e] =
                   [size |-> dir.size, inode |-> dir.inode, bits |-> dir.bits \cap BlocksOf(dir.size),
                    part |-> {}, gen |-> 0, pgen |-> 0, bytes |-> b]]
             /\ current' = e /\ hold' = [hold EXCEPT ![s] = e] /\ spc' = [spc EXCEPT ![s] = "ready"]
          BY <1>4, <2>2 DEF OpenLoad
    <3>2. DOMAIN entry' = EntryIds /\ \A f \in EntryIds : EntryOK(entry'[f])
          BY <3>1 DEF Shape, EntryOK, EntryFields
    <3> QED BY <1>4, <3>1, <3>2 DEF OpenLoad, disk, Shape, Turns, Places, Away, Opens
  <2> QED BY <2>1, <2>2
<1>5. ASSUME NEW s \in Streams, BeginFetch(s) \/ SkipFlush(s) \/ Leave(s) PROVE Shape' /\ Turns'
  <2>1. /\ UNCHANGED <<dir, data, current, entry, hold, job, completed, snap, overtaken>>
        /\ \E p \in {"fetch", "ready", "drop", "last"} : spc' = [spc EXCEPT ![s] = p]
        /\ spc[s] \notin Away
        BY <1>5 DEF BeginFetch, SkipFlush, Leave, disk, Away, Opens
  <2> QED BY <2>1 DEF Shape, Turns, Places, Away, Opens
<1>6. ASSUME NEW s \in Streams, WriteData(s) PROVE Shape' /\ Turns'
      BY <1>6 DEF WriteData, Shape, Turns, Places, Away, Opens
<1>7. ASSUME NEW s \in Streams, Mark(s) PROVE Shape' /\ Turns'
  <2>1. spc[s] = "mark" /\ hold[s] \in EntryIds
        BY <1>7, Holding DEF Mark, Away, Opens
  <2>2. /\ DOMAIN entry' = EntryIds /\ \A e \in EntryIds : EntryOK(entry'[e])
        BY <1>7, <2>1 DEF Mark, Shape, EntryOK, EntryFields
  <2>3. \E p \in {"flush", "set"} : spc' = [spc EXCEPT ![s] = p]
        BY <1>7 DEF Mark
  <2>4. DOMAIN job' = Streams /\ DOMAIN completed' = Streams
        BY <1>7 DEF Mark, Shape
  <2>5. UNCHANGED <<dir, data, current, hold, snap, overtaken>>
        BY <1>7 DEF Mark, disk
  <2> QED BY <2>1, <2>2, <2>3, <2>4, <2>5 DEF Shape, Turns, Places, Away, Opens
<1>8. ASSUME NEW s \in Streams, SetBits(s) PROVE Shape' /\ Turns'
  <2>1. spc[s] = "set" /\ hold[s] \in EntryIds
        BY <1>8, Holding DEF SetBits, Away, Opens
  <2>2. /\ DOMAIN entry' = EntryIds /\ \A e \in EntryIds : EntryOK(entry'[e])
        BY <1>8, <2>1, SetEntry
  <2>3. spc' = [spc EXCEPT ![s] = "flush"] /\ DOMAIN completed' = Streams
        BY <1>8 DEF SetBits, Shape
  <2>4. UNCHANGED <<dir, data, current, hold, job, snap, overtaken>>
        BY <1>8 DEF SetBits, disk
  <2> QED BY <2>1, <2>2, <2>3, <2>4 DEF Shape, Turns, Places, Away, Opens
<1>9. ASSUME NEW s \in Streams, Snapshot(s) PROVE Shape' /\ Turns'
  <2>1. spc[s] \in {"last", "flush"} /\ hold[s] \in EntryIds
        BY <1>9, Holding DEF Snapshot, Away, Opens
  <2>2. DOMAIN snap' = Streams /\ \A t \in Streams : SnapOK(snap'[t])
        BY <1>9, <2>1 DEF Snapshot, Shape, SnapOK, EntryOK
  <2>3. \E p \in Renaming : spc' = [spc EXCEPT ![s] = p]
        BY <1>9 DEF Snapshot, Renaming
  <2> QED BY <1>9, <2>1, <2>2, <2>3 DEF Snapshot, disk, Shape, Turns, Places, Away, Opens, Renaming
<1>10. ASSUME NEW s \in Streams, Rename(s) PROVE Shape' /\ Turns'
  <2>1. spc[s] \in Renaming /\ hold[s] \in EntryIds
        BY <1>10, Holding DEF Rename, Away, Opens, Renaming
  <2>2. /\ DOMAIN entry' = EntryIds /\ \A e \in EntryIds : EntryOK(entry'[e])
        BY <1>10, <2>1 DEF Rename, Shape, EntryOK, EntryFields, Stored, SnapOK
  <2>3. DOMAIN snap' = Streams /\ \A t \in Streams : SnapOK(snap'[t])
        BY <1>10 DEF Rename, Shape, SnapOK, NoSnap
  <2>4. \E p \in {"fetch", "drop"} : spc' = [spc EXCEPT ![s] = p]
        BY <1>10 DEF Rename
  <2>5. DOMAIN dir' = {"state", "size", "bits", "inode"} /\ dir'.state \in {"absent", "half", "ready"} /\ dir'.size \in Nat
        BY <1>10 DEF Rename, Shape, WithBitmap
  <2> QED
    BY <1>10, <2>1, <2>2, <2>3, <2>4, <2>5
    DEF Rename, Shape, Turns, Places, Away, Opens, Renaming
<1>11. ASSUME NEW s \in Streams, Drop(s) PROVE Shape' /\ Turns'
  <2>1. spc[s] = "drop" /\ hold[s] \in EntryIds
        BY <1>11, Holding DEF Drop, Away, Opens
  <2>2. /\ DOMAIN entry' = EntryIds /\ \A e \in EntryIds : EntryOK(entry'[e])
        BY <1>11, <2>1 DEF Drop, Shape, EntryOK, EntryFields, NoEntry
  <2>3. DOMAIN dir' = {"state", "size", "bits", "inode"} /\ dir'.state \in {"absent", "half", "ready"} /\ dir'.size \in Nat
        BY <1>11 DEF Drop, Shape, WithBitmap, AfterDrop
  <2> QED BY <1>11, <2>1, <2>2, <2>3 DEF Drop, Shape, Turns, Places, Away, Opens
<1>12. CASE ClearEntry
  <2>1. /\ DOMAIN entry' = EntryIds /\ \A e \in EntryIds : EntryOK(entry'[e])
        BY <1>12 DEF ClearEntry, Shape, EntryOK, EntryFields, NoEntry
  <2>2. DOMAIN dir' = {"state", "size", "bits", "inode"} /\ dir'.state \in {"absent", "half", "ready"} /\ dir'.size \in Nat
        BY <1>12 DEF ClearEntry, Shape, WithBitmap, AfterDrop
  <2>3. overtaken' \in BOOLEAN
        BY <1>12 DEF ClearEntry, Shape
  <2> QED BY <1>12, <2>1, <2>2, <2>3 DEF ClearEntry, stream, Shape, Turns
<1>13. CASE ClearDirectory
      BY <1>13 DEF ClearDirectory, stream, Absent, Shape, Turns
<1>14. CASE Crash
  <2>1. DOMAIN entry' = EntryIds /\ \A e \in EntryIds : EntryOK(entry'[e])
        BY <1>14 DEF Crash, EntryOK, EntryFields, NoEntry
  <2>2. DOMAIN snap' = Streams /\ \A t \in Streams : SnapOK(snap'[t])
        BY <1>14 DEF Crash, SnapOK, NoSnap
  <2> QED BY <1>14, <2>1, <2>2 DEF Crash, disk, Shape, Turns, Places, Away, Opens
<1>15. CASE UNCHANGED vars
      BY <1>15 DEF vars, disk, stream, Shape, Turns
<1> QED BY <1>1, <1>2, <1>3, <1>4, <1>5, <1>6, <1>7, <1>8, <1>9, <1>10, <1>11, <1>12, <1>13,
           <1>14, <1>15 DEF Next, Stream

\* A stream at work holds the registered entry, which stands for the directory.
LEMMA AtWork ==
  ASSUME Shape, Turns, Quiet, NEW s \in Streams, spc[s] \notin Away
  PROVE  /\ hold[s] = current /\ current \in EntryIds /\ current # 0 /\ EntryOK(entry[current])
         /\ dir.state = "ready" /\ dir.inode \in Inodes /\ dir.bits \subseteq BlocksOf(dir.size)
         /\ entry[current].inode = dir.inode /\ entry[current].size = dir.size
         /\ Real(entry[current].bits, dir.size, dir.inode)
         /\ entry[current].bits \subseteq BlocksOf(dir.size)
         /\ entry[current].part \subseteq data[dir.inode]
         /\ dir.bits \subseteq entry[current].bits
         /\ entry[current].pgen <= entry[current].gen
         /\ Clean(current) => dir.bits = entry[current].bits
         /\ \A t \in Streams : spc[t] \notin Opens
<1>1. hold[s] \in EntryIds /\ hold[s] # 0
      BY Holding
<1>2. hold[s] = current
      BY <1>1 DEF Quiet, Registered
<1> QED BY <1>1, <1>2 DEF Quiet, Registered, WholeOnDisk, WholeInMemory, Shape, Turns

\* When nobody holds an entry the registered one has no more bits than the directory.
LEMMA AtRest ==
  ASSUME Quiet, \A s \in Streams : hold[s] = 0, current # 0
  PROVE  dir.bits = entry[current].bits
BY DEF Quiet, Pending, Brings

\* The directory, the data and the registered entry stay.
Still == UNCHANGED <<dir, data, current>> /\ (current # 0 => entry'[current] = entry[current])

LEMMA StillWhole ==
  ASSUME Quiet, Still
  PROVE  /\ WholeInMemory'
         /\ (\A s \in Streams : spc'[s] = "create" => spc[s] = "create") => WholeOnDisk'
BY DEF Quiet, Still, WholeInMemory, WholeOnDisk, DiskIsReal, Real, Clean

\* A step by which one stream that is at work, or takes the entry, moves on.
LEMMA Moves ==
  ASSUME Shape, Turns, Quiet, NEW s \in Streams, NEW p \in Places \ Opens, Still,
         spc' = [spc EXCEPT ![s] = p],
         UNCHANGED <<job, completed>>,
         hold'[s] \in {0, current}, \A t \in Streams \ {s} : hold'[t] = hold[t],
         p \in {"mark", "set"} => p = spc[s],
         p \in Renaming =>
           /\ current # 0
           /\ dir.bits \subseteq snap'[s].bits /\ snap'[s].bits \subseteq entry[current].bits
           /\ snap'[s].gen <= entry[current].gen
           /\ snap'[s].gen = entry[current].gen => snap'[s].bits = entry[current].bits
           /\ \A t \in Streams \ {s} : spc[t] \notin Renaming,
         \A t \in Streams \ {s} : snap'[t] = snap[t],
         current # 0 /\ dir.bits # entry[current].bits /\ Brings(s) => Brings(s)'
  PROVE  Quiet'
<1>1. /\ spc'[s] = p /\ \A t \in Streams \ {s} : spc'[t] = spc[t]
      /\ spc'[s] \notin Opens /\ spc'[s] # "create"
      BY DEF Shape, Opens
<1>2. Registered'
      BY <1>1 DEF Quiet, Registered, Still
<1>3. WholeInMemory' /\ WholeOnDisk'
      BY <1>1, StillWhole
<1>4. InHand'
  <2> DEFINE Hand(t) ==
        /\ spc'[t] = "mark" => job'[t] \subseteq data'[dir'.inode] \cap 1..dir'.size
        /\ spc'[t] = "set" => /\ Real(completed[t], dir.size, dir.inode)'
                              /\ completed'[t] \subseteq BlocksOf(dir'.size)
        /\ spc'[t] \in Renaming =>
             /\ dir'.bits \subseteq snap'[t].bits /\ snap'[t].bits \subseteq entry'[current'].bits
             /\ snap'[t].gen <= entry'[current'].gen
             /\ snap'[t].gen = entry'[current'].gen => snap'[t].bits = entry'[current'].bits
  <2>1. ASSUME NEW t \in Streams, spc[t] \notin Away PROVE current # 0 /\ entry'[current'] = entry[current]
        BY <2>1, AtWork DEF Still
  <2>2. ASSUME NEW t \in Streams \ {s} PROVE Hand(t)
    <3>1. CASE spc[t] \in Renaming
          BY <1>1, <2>1, <2>2, <3>1 DEF Quiet, InHand, Still, Renaming, Away, Opens
    <3>2. CASE spc[t] \notin Renaming
          BY <1>1, <2>2, <3>2 DEF Quiet, InHand, Still, Real
    <3> QED BY <3>1, <3>2
  <2>3. Hand(s)
    <3>1. CASE p \in Renaming
          BY <1>1, <3>1 DEF Still, Renaming
    <3>2. CASE p \notin Renaming
          BY <1>1, <3>2 DEF Quiet, InHand, Still, Real
    <3> QED BY <3>1, <3>2
  <2> QED BY <2>2, <2>3 DEF InHand
<1>5. OneFlush'
      BY <1>1 DEF Quiet, OneFlush
<1>6. Pending'
      BY <1>1 DEF Quiet, Pending, Brings, Still
<1> QED BY <1>2, <1>3, <1>4, <1>5, <1>6 DEF Quiet

LEMMA OpenQuiet ==
  ASSUME Shape, Turns, Quiet, NEW s \in Streams, ~overtaken',
         OpenHit(s) \/ OpenMiss(s) \/ OpenCreate(s) \/ OpenLoad(s)
  PROVE  Quiet'
<1> USE Numbers
<1>1. CASE OpenHit(s)
  <2>1. Still /\ spc[s] = "idle"
        BY <1>1 DEF OpenHit, Still, disk
  <2> QED BY <1>1, <2>1, Moves DEF OpenHit, Places, Opens, Renaming, Shape, Brings, Turns, Away
<1>2. CASE OpenMiss(s)
  <2>1. PICK size \in Sizes :
          /\ current # 0 => entry[current].size # size
          /\ IF Mismatched(size)
             THEN /\ dir' = [state |-> "half", size |-> size, bits |-> {}, inode |-> 0]
                  /\ spc' = [spc EXCEPT ![s] = "create"]
                  /\ overtaken' = (overtaken \/ \E t \in Streams : hold[t] # 0)
             ELSE /\ dir' = IF current = 0 \/ Held(current) THEN dir ELSE AfterDrop(current)
                  /\ spc' = [spc EXCEPT ![s] = "load"]
        BY <1>2 DEF OpenMiss
  <2>2. UNCHANGED <<data, hold, job, completed, snap>> /\ ~Opening /\ current' = 0
        BY <1>2 DEF OpenMiss
  <2>3. \A t \in Streams : hold[t] = 0
    <3>1. CASE Mismatched(size)
          BY <2>1, <3>1
    <3>2. CASE ~Mismatched(size)
          BY <2>1, <3>2 DEF Mismatched, Quiet, Registered
    <3> QED BY <3>1, <3>2
  <2>4. \A t \in Streams : spc[t] = "idle"
        BY <2>2, <2>3 DEF Turns, Away, Opens, Opening
  <2>5. \A t \in Streams : spc'[t] \in {"idle", "create", "load"}
        BY <2>1, <2>4 DEF Shape
  <2>6. Registered' /\ WholeInMemory' /\ InHand' /\ OneFlush' /\ Pending'
        BY <2>2, <2>3, <2>5 DEF Registered, WholeInMemory, InHand, OneFlush, Pending, Renaming
  <2>7. WholeOnDisk'
    <3>1. CASE Mismatched(size)
          BY <2>1, <2>5, <3>1 DEF WholeOnDisk, DiskIsReal
    <3>2. CASE ~Mismatched(size)
      <4>1. current = 0 /\ dir' = dir
            BY <2>1, <3>2 DEF Mismatched, Quiet, Registered
      <4>2. \A t \in Streams : spc'[t] # "create"
            BY <2>1, <2>4, <3>2 DEF Shape
      <4> QED BY <2>2, <4>1, <4>2 DEF Quiet, WholeOnDisk, DiskIsReal, Real
    <3> QED BY <3>1, <3>2
  <2> QED BY <2>6, <2>7 DEF Quiet
<1>3. CASE OpenCreate(s)
  <2>1. dir.state = "half" /\ dir.bits = {} /\ current = 0
        BY <1>3 DEF OpenCreate, Quiet, WholeOnDisk, Registered, Opens
  <2>2. PICK i \in Inodes : /\ dir' = [dir EXCEPT !.state = "ready", !.inode = i]
                            /\ data' = [data EXCEPT ![i] = {}]
        BY <1>3, <2>1 DEF OpenCreate
  <2>3. /\ spc' = [spc EXCEPT ![s] = "load"] /\ spc[s] = "create"
        /\ UNCHANGED <<current, hold, job, completed, snap>>
        BY <1>3, <2>1 DEF OpenCreate
  <2>4. dir'.state = "ready" /\ dir'.inode = i /\ dir'.bits = {}
        BY <2>1, <2>2 DEF Shape
  <2>5. \A t \in Streams : hold[t] = 0 /\ spc[t] \in Away /\ spc'[t] \in Away \ {"create"}
        BY <2>1, <2>3 DEF Quiet, Registered, Turns, Shape, Away, Opens
  <2>6. Registered' /\ WholeInMemory' /\ InHand' /\ OneFlush' /\ Pending'
        BY <2>1, <2>3, <2>5
        DEF Registered, WholeInMemory, InHand, OneFlush, Pending, Renaming, Away, Opens
  <2>7. WholeOnDisk'
        BY <2>4, <2>5 DEF WholeOnDisk, DiskIsReal, Real
  <2> QED BY <2>6, <2>7 DEF Quiet
<1>4. CASE OpenLoad(s)
  <2>1. CASE dir.state # "ready"
    <3>1. Still /\ spc[s] = "load" /\ hold[s] = 0
          BY <1>4, <2>1 DEF OpenLoad, Still, disk, Turns, Away, Opens
    <3> QED
      BY <1>4, <2>1, <3>1, Moves
      DEF OpenLoad, Places, Opens, Renaming, Shape, Brings, Turns, Away
  <2>2. CASE dir.state = "ready"
    <3>1. PICK e \in EntryIds :
             /\ \E b : entry' = [entry EXCEPT ![e] =
                   [size |-> dir.size, inode |-> dir.inode, bits |-> dir.bits \cap BlocksOf(dir.size),
                    part |-> {}, gen |-> 0, pgen |-> 0, bytes |-> b]]
             /\ current' = e /\ hold' = [hold EXCEPT ![s] = e] /\ spc' = [spc EXCEPT ![s] = "ready"]
          BY <1>4, <2>2 DEF OpenLoad
    <3>2. UNCHANGED <<dir, data, job, completed, snap>> /\ spc[s] = "load"
          BY <1>4 DEF OpenLoad, disk
    <3>3. dir.bits \cap BlocksOf(dir.size) = dir.bits
          BY <2>2 DEF Quiet, WholeOnDisk
    <3>4. /\ entry'[e].size = dir.size /\ entry'[e].inode = dir.inode /\ entry'[e].bits = dir.bits
          /\ entry'[e].part = {} /\ entry'[e].gen = 0 /\ entry'[e].pgen = 0
          BY <3>1, <3>3 DEF Shape
    <3>5. current = 0
          BY <3>2 DEF Quiet, Registered, Opens
    <3>6. \A t \in Streams : hold[t] = 0 /\ spc[t] \in Away
          BY <3>5 DEF Quiet, Registered, Turns
    <3>7. \A t \in Streams : hold'[t] \in {0, e} /\ spc'[t] \in {"idle", "ready"}
          BY <3>1, <3>2, <3>6 DEF Turns, Shape, Away, Opens
    <3>8. Registered' /\ InHand' /\ OneFlush' /\ Pending'
          BY <2>2, <3>1, <3>2, <3>4, <3>7 DEF Registered, InHand, OneFlush, Pending, Renaming, Opens
    <3>9. WholeOnDisk' /\ WholeInMemory'
          BY <2>2, <3>1, <3>2, <3>4, <3>7 DEF Quiet, WholeOnDisk, WholeInMemory, DiskIsReal, Real
    <3> QED BY <3>8, <3>9 DEF Quiet
  <2> QED BY <2>1, <2>2
<1> QED BY <1>1, <1>2, <1>3, <1>4

LEMMA WriteQuiet ==
  ASSUME Shape, Turns, Quiet, NEW s \in Streams, WriteData(s) \/ Mark(s) \/ SetBits(s)
  PROVE  Quiet'
<1> USE Numbers
<1>0. spc[s] \notin Away
      BY DEF WriteData, Mark, SetBits, Away, Opens
<1>1. /\ hold[s] = current /\ current \in EntryIds /\ current # 0 /\ EntryOK(entry[current])
      /\ dir.state = "ready" /\ dir.inode \in Inodes
      /\ entry[current].inode = dir.inode /\ entry[current].size = dir.size
      BY <1>0, AtWork
<1>2. CASE WriteData(s)
  <2>1. PICK lo \in 1..dir.size, hi \in 1..dir.size :
               /\ data' = [data EXCEPT ![dir.inode] = @ \cup lo..hi]
               /\ job' = [job EXCEPT ![s] = lo..hi]
        BY <1>1, <1>2 DEF WriteData
  <2>2. UNCHANGED <<dir, current, entry, hold, completed, snap>> /\ spc' = [spc EXCEPT ![s] = "mark"]
        BY <1>2 DEF WriteData
  <2>3. /\ lo..hi \subseteq data'[dir.inode] /\ data[dir.inode] \subseteq data'[dir.inode]
        /\ lo..hi \subseteq 1..dir.size
    <3>1. dir.size \in Nat
          BY DEF Shape
    <3>2. lo..hi \subseteq 1..dir.size
          BY <3>1
    <3> QED BY <1>1, <2>1, <3>2 DEF Shape
  <2>4. /\ spc'[s] = "mark" /\ job'[s] = lo..hi
        /\ \A t \in Streams \ {s} : spc'[t] = spc[t] /\ job'[t] = job[t]
        BY <2>1, <2>2 DEF Shape
  <2>5. Registered' /\ OneFlush' /\ WholeInMemory' /\ WholeOnDisk'
        BY <1>1, <2>2, <2>3, <2>4 DEF Quiet, Registered, OneFlush, WholeInMemory, WholeOnDisk,
           DiskIsReal, Real, Clean, Renaming, Opens
  <2>6. InHand'
        BY <1>1, <2>2, <2>3, <2>4 DEF Quiet, InHand, Real, Renaming
  <2>7. Pending'
        BY <1>1, <2>2, <2>4 DEF Pending, Brings
  <2> QED BY <2>5, <2>6, <2>7 DEF Quiet
<1>3. CASE Mark(s)
  <2> DEFINE part == entry[current].part \cup {u \in job[s] : Block(u) \notin entry[current].bits}
             found == Complete(current, job[s], part)
             p == IF found = {} THEN "flush" ELSE "set"
  <2>1. /\ spc[s] = "mark" /\ entry' = [entry EXCEPT ![current].part = part]
        /\ completed' = [completed EXCEPT ![s] = found] /\ job' = [job EXCEPT ![s] = {}]
        /\ spc' = [spc EXCEPT ![s] = p]
        /\ UNCHANGED <<dir, data, current, hold, snap>>
        BY <1>1, <1>3 DEF Mark, disk
  <2>2. job[s] \subseteq data[dir.inode] \cap 1..dir.size
        BY <2>1 DEF Quiet, InHand
  <2>3. part \subseteq data[dir.inode]
        BY <1>0, <2>2, AtWork
  <2>4. Real(found, dir.size, dir.inode) /\ found \subseteq BlocksOf(dir.size)
        BY <1>1, <2>2, <2>3 DEF Complete, Full, Real, BlocksOf
  <2>5. p \in {"flush", "set"}
        OBVIOUS
  <2> HIDE DEF part, found, p
  <2>6. /\ entry'[current].part = part
        /\ \A f \in {"size", "inode", "bits", "gen", "pgen"} : entry'[current][f] = entry[current][f]
        BY <1>1, <2>1 DEF Shape, EntryOK, EntryFields
  <2>7. /\ spc'[s] = p /\ completed'[s] = found
        /\ \A t \in Streams \ {s} : spc'[t] = spc[t] /\ job'[t] = job[t] /\ completed'[t] = completed[t]
        BY <2>1 DEF Shape
  <2>8. Registered' /\ OneFlush' /\ WholeInMemory' /\ WholeOnDisk'
        BY <1>1, <2>1, <2>3, <2>5, <2>6, <2>7 DEF Quiet, Registered, OneFlush, WholeInMemory,
           WholeOnDisk, DiskIsReal, Real, Clean, Renaming, Opens
  <2>9. InHand'
        BY <1>1, <2>1, <2>4, <2>5, <2>6, <2>7 DEF Quiet, InHand, Real, Renaming
  <2>10. Pending'
        BY <1>1, <2>1, <2>5, <2>7 DEF Pending, Brings
  <2> QED BY <2>8, <2>9, <2>10 DEF Quiet
<1>4. CASE SetBits(s)
  <2> DEFINE new == Newly(s)
  <2>1. /\ spc[s] = "set" /\ completed' = [completed EXCEPT ![s] = {}]
        /\ spc' = [spc EXCEPT ![s] = "flush"]
        /\ UNCHANGED <<dir, data, current, hold, job, snap>>
        BY <1>4 DEF SetBits, disk
  <2>2. Real(new, dir.size, dir.inode) /\ new \subseteq BlocksOf(dir.size)
        BY <1>1, <2>1 DEF Quiet, InHand, Newly, Real
  <2>3. /\ entry'[current].size = entry[current].size /\ entry'[current].inode = entry[current].inode
        /\ entry'[current].pgen = entry[current].pgen
        /\ entry'[current].bits = entry[current].bits \cup new
        /\ entry'[current].part \subseteq entry[current].part
        /\ entry'[current].gen = IF new = {} THEN entry[current].gen ELSE entry[current].gen + 1
        BY <1>1, <1>4, SetEntry
  <2> HIDE DEF new
  <2>4. /\ spc'[s] = "flush"
        /\ \A t \in Streams \ {s} : spc'[t] = spc[t] /\ completed'[t] = completed[t]
        BY <2>1 DEF Shape
  <2>5. Registered' /\ OneFlush'
        BY <1>1, <2>1, <2>3, <2>4 DEF Quiet, Registered, OneFlush, Renaming, Opens
  <2>6. WholeOnDisk'
        BY <2>1, <2>4 DEF Quiet, WholeOnDisk, DiskIsReal, Real
  <2>7. entry[current].gen \in Nat /\ entry[current].pgen \in Nat /\ \A t \in Streams : snap[t].gen \in Nat
        BY <1>1 DEF EntryOK, Shape, SnapOK
  <2>8. WholeInMemory'
        BY <1>1, <2>1, <2>2, <2>3, <2>7 DEF Quiet, WholeInMemory, Real, Clean
  <2>9. InHand'
    <3>1. ASSUME NEW t \in Streams \ {s}, spc[t] \in Renaming
          PROVE  /\ dir'.bits \subseteq snap'[t].bits /\ snap'[t].bits \subseteq entry'[current'].bits
                 /\ snap'[t].gen <= entry'[current'].gen
                 /\ snap'[t].gen = entry'[current'].gen => snap'[t].bits = entry'[current'].bits
      <4>1. /\ dir.bits \subseteq snap[t].bits /\ snap[t].bits \subseteq entry[current].bits
            /\ snap[t].gen <= entry[current].gen
            /\ snap[t].gen = entry[current].gen => snap[t].bits = entry[current].bits
            BY <3>1 DEF Quiet, InHand
      <4>2. CASE new = {}
            BY <2>1, <2>3, <4>1, <4>2
      <4>3. CASE new # {}
        <5>1. snap[t].gen < entry[current].gen + 1 /\ entry'[current].gen = entry[current].gen + 1
              BY <2>3, <2>7, <4>1, <4>3
        <5> QED BY <2>1, <2>3, <2>7, <4>1, <5>1
      <4> QED BY <4>2, <4>3
    <3> QED BY <2>1, <2>4, <3>1 DEF Quiet, InHand, Real, Renaming
  <2>10. Pending'
        BY <1>1, <2>1, <2>4 DEF Pending, Brings
  <2> QED BY <2>5, <2>6, <2>8, <2>9, <2>10 DEF Quiet
<1> QED BY <1>2, <1>3, <1>4

LEMMA FlushQuiet ==
  ASSUME Shape, Turns, Quiet, NEW s \in Streams,
         BeginFetch(s) \/ SkipFlush(s) \/ Leave(s) \/ Snapshot(s) \/ Rename(s) \/ Drop(s)
  PROVE  Quiet'
<1> USE Numbers
<1>0. spc[s] \notin Away /\ spc[s] \in Places
      BY DEF BeginFetch, SkipFlush, Leave, Snapshot, Rename, Drop, Away, Opens, Places, Renaming
<1>1. /\ hold[s] = current /\ current \in EntryIds /\ current # 0 /\ EntryOK(entry[current])
      /\ dir.state = "ready" /\ dir.inode \in Inodes
      /\ entry[current].inode = dir.inode /\ entry[current].size = dir.size
      /\ Clean(current) => dir.bits = entry[current].bits
      BY <1>0, AtWork
<1>2. CASE BeginFetch(s) \/ SkipFlush(s) \/ Leave(s)
  <2>1. Still /\ UNCHANGED <<hold, job, completed, snap>>
        BY <1>2 DEF BeginFetch, SkipFlush, Leave, Still, disk
  <2>2. PICK p \in {"fetch", "ready", "drop", "last"} :
          /\ spc' = [spc EXCEPT ![s] = p]
          /\ p = "drop" => Clean(current)
        BY <1>1, <1>2 DEF BeginFetch, SkipFlush, Leave
  <2>3. spc'[s] = p /\ p \in Places \ Opens /\ p \notin Renaming
        BY <2>2 DEF Shape, Places, Opens, Away, Renaming
  <2>4. dir.bits # entry[current].bits => Brings(s)'
        BY <1>1, <2>1, <2>2, <2>3 DEF Brings
  <2> QED BY <1>1, <2>1, <2>2, <2>3, <2>4, Moves
<1>3. CASE Snapshot(s)
  <2>1. Still /\ UNCHANGED <<hold, job, completed>>
        BY <1>3 DEF Snapshot, Still, disk
  <2>2. PICK p \in Renaming : spc' = [spc EXCEPT ![s] = p]
        BY <1>3 DEF Snapshot, Renaming
  <2>3. snap'[s].bits = entry[current].bits /\ snap'[s].gen = entry[current].gen
        BY <1>1, <1>3 DEF Snapshot, Shape
  <2>4. \A t \in Streams \ {s} : snap'[t] = snap[t]
        BY <1>3 DEF Snapshot, Shape
  <2>5. \A t \in Streams \ {s} : spc[t] \notin Renaming
    <3> SUFFICES ASSUME NEW t \in Streams, spc[t] \in Renaming PROVE FALSE
        BY <1>0
    <3>1. hold[t] = current
          BY AtWork DEF Renaming, Away, Opens
    <3> QED BY <1>1, <1>3, <3>1 DEF Snapshot, FlushLockFree, Renaming
  <2>6. spc'[s] = p /\ p \in Places \ Opens
        BY <2>2 DEF Shape, Places, Opens, Away, Renaming
  <2>7. Brings(s)'
        BY <1>1, <2>1, <2>3, <2>6 DEF Brings, Renaming, Still
  <2>8. dir.bits \subseteq entry[current].bits /\ entry[current].gen \in Nat
        BY <1>0, <1>1, AtWork DEF EntryOK
  <2>9. p \notin {"mark", "set"}
        BY DEF Renaming
  <2>10. /\ dir.bits \subseteq snap'[s].bits /\ snap'[s].bits \subseteq entry[current].bits
         /\ snap'[s].gen <= entry[current].gen
        BY <2>3, <2>8
  <2>11. hold'[s] \in {0, current} /\ \A t \in Streams \ {s} : hold'[t] = hold[t]
        BY <1>1, <2>1
  <2> QED BY <1>1, <2>1, <2>2, <2>3, <2>4, <2>5, <2>6, <2>7, <2>9, <2>10, <2>11, Moves
<1>4. CASE Rename(s)
  <2>1. /\ dir.bits \subseteq snap[s].bits /\ snap[s].bits \subseteq entry[current].bits
        /\ snap[s].gen <= entry[current].gen /\ snap[s].gen \in Nat
        /\ snap[s].gen = entry[current].gen => snap[s].bits = entry[current].bits
        BY <1>4 DEF Rename, Quiet, InHand, Renaming, Shape, SnapOK
  <2>2. /\ dir'.bits = snap[s].bits
        /\ dir'.state = dir.state /\ dir'.size = dir.size /\ dir'.inode = dir.inode
        BY <1>1, <1>4 DEF Rename, WithBitmap, Shape
  <2>3. /\ entry' = [entry EXCEPT ![current].pgen = snap[s].gen]
        /\ UNCHANGED <<data, current, hold, job, completed>>
        /\ spc' = [spc EXCEPT ![s] = IF @ = "rename" THEN "fetch" ELSE "drop"]
        /\ snap' = [snap EXCEPT ![s] = NoSnap] /\ spc[s] \in Renaming
        BY <1>1, <1>4 DEF Rename, Stored, Renaming
  <2>4. /\ entry'[current].pgen = snap[s].gen
        /\ \A f \in {"size", "inode", "bits", "part", "gen"} : entry'[current][f] = entry[current][f]
        BY <1>1, <2>3 DEF Shape, EntryOK, EntryFields
  <2>5. /\ spc'[s] = IF spc[s] = "rename" THEN "fetch" ELSE "drop"
        /\ \A t \in Streams \ {s} : spc'[t] = spc[t] /\ snap'[t] = snap[t] /\ spc[t] \notin Renaming
        BY <2>3 DEF Shape, Quiet, OneFlush
  <2>6. Registered' /\ OneFlush'
        BY <1>1, <2>2, <2>3, <2>4, <2>5 DEF Quiet, Registered, OneFlush, Renaming, Opens
  <2>7. WholeOnDisk' /\ WholeInMemory'
    <3>1. /\ Real(entry[current].bits, dir.size, dir.inode)
          /\ entry[current].bits \subseteq BlocksOf(dir.size)
          /\ entry[current].part \subseteq data[dir.inode]
          BY <1>0, AtWork
    <3>2. Real(snap[s].bits, dir.size, dir.inode)
          BY <2>1, <3>1 DEF Real
    <3>3. WholeInMemory'
          BY <2>1, <2>2, <2>3, <2>4, <3>1 DEF WholeInMemory, Real, Clean
    <3>4. WholeOnDisk'
          BY <1>1, <2>1, <2>2, <2>3, <2>5, <3>1, <3>2 DEF Quiet, WholeOnDisk, DiskIsReal, Real
    <3> QED BY <3>3, <3>4
  <2>8. InHand'
        BY <2>2, <2>3, <2>4, <2>5 DEF Quiet, InHand, Real, Renaming
  <2>9. Pending'
    <3> SUFFICES ASSUME snap[s].bits # entry[current].bits PROVE \E t \in Streams : Brings(t)'
        BY <2>2, <2>3, <2>4 DEF Pending
    <3>1. PICK t \in Streams : Brings(t)
          BY <1>1, <2>1 DEF Quiet, Pending
    <3>2. CASE t = s
          BY <1>1, <2>1, <2>3, <2>5, <3>1, <3>2 DEF Brings, Renaming
    <3>3. CASE t # s
          BY <2>3, <2>4, <2>5, <3>1, <3>3 DEF Brings, Renaming
    <3> QED BY <3>2, <3>3
  <2> QED BY <2>6, <2>7, <2>8, <2>9 DEF Quiet
<1>5. CASE Drop(s)
  <2>1. Still /\ UNCHANGED <<job, completed, snap>> /\ spc[s] = "drop"
        BY <1>1, <1>5 DEF Drop, Still
  <2>2. /\ spc' = [spc EXCEPT ![s] = "idle"]
        /\ hold'[s] = 0 /\ \A t \in Streams \ {s} : hold'[t] = hold[t]
        BY <1>5 DEF Drop, Shape
  <2>3. "idle" \in Places \ Opens /\ "idle" \notin Renaming /\ ~Brings(s)
        BY <2>1 DEF Places, Opens, Away, Renaming, Brings
  <2> QED BY <2>1, <2>2, <2>3, Moves
<1> QED BY <1>2, <1>3, <1>4, <1>5

LEMMA ClearQuiet ==
  ASSUME Shape, Turns, Quiet, ~overtaken', ClearEntry \/ ClearDirectory \/ Crash
  PROVE  Quiet'
<1> USE Numbers
<1>1. CASE ClearEntry
  <2>1. (\A s \in Streams : hold[s] = 0) /\ current' = 0 /\ UNCHANGED <<data, hold, spc, job, completed, snap>>
        BY <1>1 DEF ClearEntry, stream
  <2>2. \A s \in Streams : spc[s] \in Away
        BY <2>1 DEF Turns
  <2>3. Registered' /\ WholeInMemory' /\ InHand' /\ OneFlush' /\ Pending'
        BY <2>1, <2>2
        DEF Registered, WholeInMemory, InHand, OneFlush, Pending, Renaming, Away, Opens
  <2>4. dir'.state = dir.state /\ dir'.size = dir.size /\ dir'.inode = dir.inode /\ dir'.bits = dir.bits
    <3>1. CASE current = 0
          BY <1>1, <3>1 DEF ClearEntry
    <3>2. CASE current # 0
      <4>1. dir.bits = entry[current].bits
            BY <2>1, <3>2, AtRest
      <4>2. dir' = dir \/ dir' = [dir EXCEPT !.bits = entry[current].bits]
            BY <1>1 DEF ClearEntry, AfterDrop, WithBitmap
      <4> QED BY <4>1, <4>2 DEF Shape
    <3> QED BY <3>1, <3>2
  <2>5. WholeOnDisk'
        BY <2>1, <2>4 DEF Quiet, WholeOnDisk, DiskIsReal, Real
  <2> QED BY <2>3, <2>5 DEF Quiet
<1>2. CASE ClearDirectory
  <2>1. /\ current = 0 /\ ~Opening /\ \A s \in Streams : hold[s] = 0
        /\ UNCHANGED <<data, current, entry, hold, spc, job, completed, snap>>
        /\ dir'.state = "absent"
        BY <1>2 DEF ClearDirectory, InUse, stream, Absent
  <2>2. \A s \in Streams : spc[s] = "idle"
        BY <2>1 DEF Turns, Away, Opens, Opening
  <2> QED BY <2>1, <2>2 DEF Quiet, Registered, WholeInMemory, WholeOnDisk, DiskIsReal, InHand,
             OneFlush, Pending, Renaming, Opens
<1>3. CASE Crash
  <2>1. /\ current' = 0 /\ UNCHANGED <<dir, data>>
        /\ \A s \in Streams : hold'[s] = 0 /\ spc'[s] = "idle"
        BY <1>3 DEF Crash, disk
  <2>2. Registered' /\ WholeInMemory' /\ InHand' /\ OneFlush' /\ Pending'
        BY <2>1 DEF Registered, WholeInMemory, InHand, OneFlush, Pending, Renaming, Opens
  <2>3. WholeOnDisk'
        BY <2>1 DEF Quiet, WholeOnDisk, DiskIsReal, Real
  <2> QED BY <2>2, <2>3 DEF Quiet
<1> QED BY <1>1, <1>2, <1>3

\* Once an entry in use has been overtaken it stays so.
LEMMA StaysOvertaken == overtaken /\ [Next]_vars => overtaken'
BY DEF Next, Stream, vars, disk, stream, OpenHit, OpenMiss, OpenCreate, OpenLoad, BeginFetch,
       WriteData, Mark, SetBits, SkipFlush, Leave, Snapshot, Rename, Drop, ClearEntry,
       ClearDirectory, Crash

LEMMA CacheStep == CacheInv /\ [Next]_vars => CacheInv'
<1> SUFFICES ASSUME CacheInv, [Next]_vars PROVE CacheInv'
    OBVIOUS
<1>1. Shape /\ Turns /\ Shape' /\ Turns'
      BY ShapeStep DEF CacheInv
<1>2. ASSUME ~overtaken' PROVE Quiet'
  <2>1. Quiet
        BY <1>2, StaysOvertaken DEF CacheInv
  <2>2. CASE \E s \in Streams : Stream(s)
        BY <1>1, <1>2, <2>1, <2>2, OpenQuiet, WriteQuiet, FlushQuiet DEF Stream
  <2>3. CASE ClearEntry \/ ClearDirectory \/ Crash
        BY <1>1, <1>2, <2>1, <2>3, ClearQuiet
  <2>4. CASE UNCHANGED vars
        BY <2>1, <2>4 DEF vars, disk, stream, Quiet, Registered, WholeInMemory, WholeOnDisk,
           DiskIsReal, Real, Clean, InHand, OneFlush, Pending, Brings
  <2> QED BY <2>2, <2>3, <2>4 DEF Next
<1> QED BY <1>1, <1>2 DEF CacheInv

LEMMA CacheInvariance == Spec => []CacheInv
BY CacheInitially, CacheStep, PTL DEF Spec

-----------------------------------------------------------------------------
\* A block is a hit, in memory or after a restart, only if all its bytes are in the file:
\* through every interleaving of open, write_range and persist_bitmap and over crashes,
\* until a directory is removed under an entry in use.
THEOREM HitsAlwaysReal == Spec => []HitsAreReal
<1>1. CacheInv => HitsAreReal
  <2> SUFFICES ASSUME CacheInv, ~overtaken, NEW e \in Live
               PROVE  DiskIsReal /\ Real(entry[e].bits, entry[e].size, entry[e].inode)
      BY DEF HitsAreReal, MemoryIsReal, CacheInv, Quiet, WholeOnDisk
  <2>1. e = current /\ current # 0
        BY Numbers DEF CacheInv, Quiet, Registered, Live, Held
  <2> QED BY <2>1 DEF CacheInv, Quiet, Registered, WholeOnDisk, WholeInMemory
<1> QED BY <1>1, CacheInvariance, PTL

\* The bitmap of an entry that nobody holds any more, or that believes itself clean, is
\* the one on disk (CacheEntry::persist_bitmap and the Drop of the last writer).
THEOREM LastOneStores == Spec => []Durable
<1>1. CacheInv => Durable
  <2> SUFFICES ASSUME CacheInv, ~overtaken, current # 0, Clean(current) \/ ~Held(current)
               PROVE  dir.bits = entry[current].bits
      BY DEF Durable
  <2>1. CASE Clean(current)
        BY <2>1 DEF CacheInv, Quiet, WholeInMemory
  <2>2. CASE ~Held(current)
    <3>1. \A s \in Streams : hold[s] = 0
          BY <2>2 DEF CacheInv, Quiet, Registered, Held
    <3> QED BY <3>1, AtRest DEF CacheInv
  <2> QED BY <2>1, <2>2
<1> QED BY <1>1, CacheInvariance, PTL

\* No flush takes a block off the bitmap of a directory (bitmap_flush, persisted_gen).
THEOREM NoRollback == Spec => NeverRolledBack
<1> DEFINE Grows == ~overtaken' /\ dir.state = "ready" /\ dir'.inode = dir.inode => dir.bits \subseteq dir'.bits
<1>1. CacheInv /\ [Next]_vars => Grows
  <2> SUFFICES ASSUME CacheInv, [Next]_vars, ~overtaken', dir.state = "ready", dir'.inode = dir.inode
               PROVE  dir.bits \subseteq dir'.bits
      OBVIOUS
  <2>1. Shape /\ Turns /\ Quiet /\ dir.inode # 0
        BY StaysOvertaken, Numbers DEF CacheInv, Quiet, WholeOnDisk
  <2>2. ASSUME NEW e, e = current, e # 0, dir' = AfterDrop(e) PROVE dir.bits \subseteq dir'.bits
        BY <2>1, <2>2 DEF AfterDrop, WithBitmap, Quiet, WholeInMemory, Shape
  <2>3. ASSUME NEW s \in Streams, OpenMiss(s) PROVE dir.bits \subseteq dir'.bits
    <3>1. \/ dir'.inode = 0 \/ dir' = dir
          \/ current # 0 /\ dir' = AfterDrop(current)
          BY <2>3 DEF OpenMiss
    <3> QED BY <2>1, <2>2, <3>1
  <2>4. ASSUME NEW s \in Streams, OpenCreate(s) PROVE dir.bits \subseteq dir'.bits
        BY <2>1, <2>4 DEF OpenCreate, Quiet, WholeOnDisk
  <2>5. ASSUME NEW s \in Streams, Rename(s) PROVE dir.bits \subseteq dir'.bits
        BY <2>1, <2>5 DEF Rename, WithBitmap, Quiet, InHand, Renaming, Shape
  <2>6. ASSUME NEW s \in Streams, Drop(s) PROVE dir.bits \subseteq dir'.bits
    <3>1. hold[s] = current
          BY <2>1, <2>6, AtWork DEF Drop, Away, Opens
    <3> QED BY <2>6, <3>1 DEF Drop
  <2>7. ASSUME NEW s \in Streams,
               \/ OpenHit(s) \/ OpenLoad(s) \/ BeginFetch(s) \/ WriteData(s) \/ Mark(s)
               \/ SetBits(s) \/ SkipFlush(s) \/ Leave(s) \/ Snapshot(s)
        PROVE  dir' = dir
        BY <2>7 DEF OpenHit, OpenLoad, BeginFetch, WriteData, Mark, SetBits, SkipFlush, Leave,
           Snapshot, disk
  <2>8. CASE ClearEntry
        BY <2>1, <2>2, <2>8 DEF ClearEntry
  <2>9. CASE ClearDirectory
        BY <2>1, <2>9 DEF ClearDirectory, Absent
  <2>10. CASE Crash \/ UNCHANGED vars
        BY <2>10 DEF Crash, vars, disk
  <2> QED BY <2>3, <2>4, <2>5, <2>6, <2>7, <2>8, <2>9, <2>10 DEF Next, Stream
<1>2. [][CacheInv /\ CacheInv' /\ [Next]_vars => Grows]_vars
      BY <1>1, PTL
<1> QED BY <1>1, CacheInvariance, PTL DEF Spec, NeverRolledBack
-----------------------------------------------------------------------------
(***************************************************************************)
(* The counters and the marks.  They are those of every entry, registered  *)
(* or not, and hold whether or not a clear overtakes a stream.             *)
(***************************************************************************)
AllUnits == UNION {1..size : size \in Sizes}
AllBits == SUBSET {Block(u) : u \in AllUnits}

Entries == [size : Sizes \cup {0}, inode : Inodes \cup {0}, bits : AllBits,
            part : SUBSET AllUnits, gen : Nat, pgen : Nat, bytes : Nat]

\* Every generation has brought a block, every marked block is counted once, and its
\* pieces are forgotten.
Counted(x) ==
  /\ x \in Entries
  /\ x.pgen <= x.gen /\ x.gen <= Cardinality(x.bits)
  /\ x.bytes = Bytes(x.bits, x.size)
  /\ \A u \in x.part : Block(u) \notin x.bits

Typed ==
  /\ dir \in [state : {"absent", "half", "ready"}, size : Sizes \cup {0}, bits : AllBits,
              inode : Inodes \cup {0}]
  /\ data \in [Inodes -> SUBSET AllUnits]
  /\ cached \in [Streams -> AllBits] /\ job \in [Streams -> SUBSET AllUnits]
  /\ completed \in [Streams -> AllBits] /\ snap \in [Streams -> [bits : AllBits, gen : Nat]]
  /\ clearing \in BOOLEAN

SnapsLag == \A s \in Streams : spc[s] \in Renaming => snap[s].gen <= entry[hold[s]].gen

\* Pieces that make a whole block belong to a write that is about to mark it.
Marked ==
  \A e \in EntryIds : \A b \in BlocksOf(entry[e].size) :
    UnitsOf(b, entry[e].size) \subseteq entry[e].part =>
      \E s \in Streams : hold[s] = e /\ spc[s] = "set" /\ b \in completed[s]

CountInv == Shape /\ Turns /\ Typed /\ (\A e \in EntryIds : Counted(entry[e])) /\ SnapsLag /\ Marked

LEMMA UnitsFinite ==
  /\ IsFiniteSet(AllUnits)
  /\ \A bits \in AllBits : IsFiniteSet(bits) /\ Cardinality(bits) \in Nat
  /\ \A size \in Sizes \cup {0} : size \in Nat /\ 1..size \subseteq AllUnits
<1>1. IsFiniteSet(Sizes) /\ \A size \in Sizes : size \in Nat \ {0}
      BY SizeAssumption
<1>2. IsFiniteSet(AllUnits)
  <2> DEFINE R == {1..size : size \in Sizes}
             f == [size \in Sizes |-> 1..size]
  <2>1. f \in Surjection(Sizes, R)
        BY DEF Surjection
  <2>2. IsFiniteSet(R)
    <3> HIDE DEF R, f
    <3> QED BY <1>1, <2>1, FS_Surjection
  <2>3. \A T \in R : IsFiniteSet(T)
    <3> TAKE T \in R
    <3>1. PICK size \in Sizes : T = 1..size
          OBVIOUS
    <3>2. 1 \in Int /\ size \in Int
          BY <1>1
    <3> QED BY <3>1, <3>2, FS_Interval
  <2> HIDE DEF R
  <2>4. IsFiniteSet(UNION R)
        BY <2>2, <2>3, FS_UNION
  <2> QED BY <2>4 DEF R, AllUnits
<1>3. IsFiniteSet({Block(u) : u \in AllUnits})
  <2> DEFINE R == {Block(u) : u \in AllUnits}
             f == [u \in AllUnits |-> Block(u)]
  <2>1. f \in Surjection(AllUnits, R)
        BY DEF Surjection
  <2> HIDE DEF R, f
  <2>2. IsFiniteSet(R)
        BY <1>2, <2>1, FS_Surjection
  <2> QED BY <2>2 DEF R
<1>4. ASSUME NEW bits \in AllBits PROVE IsFiniteSet(bits) /\ Cardinality(bits) \in Nat
  <2>1. IsFiniteSet(bits)
        BY <1>3, FS_Subset DEF AllBits
  <2> QED BY <2>1, FS_CardinalityType
<1>5. ASSUME NEW size \in Sizes \cup {0} PROVE size \in Nat /\ 1..size \subseteq AllUnits
      BY <1>1 DEF AllUnits
<1> QED BY <1>2, <1>4, <1>5

LEMMA BytesOf ==
  ASSUME NEW size \in Nat, NEW bits, NEW new
  PROVE  /\ Bytes(bits, size) \in Nat /\ Bytes({}, size) = 0
         /\ bits \cap new = {} => Bytes(bits \cup new, size) = Bytes(bits, size) + Bytes(new, size)
<1> DEFINE of(s) == {u \in 1..size : Block(u) \in s}
<1>1. IsFiniteSet(1..size)
      BY FS_Interval
<1>2. ASSUME NEW s PROVE IsFiniteSet(of(s)) /\ Cardinality(of(s)) \in Nat
  <2>1. of(s) \in SUBSET (1..size)
        OBVIOUS
  <2>2. IsFiniteSet(of(s))
    <3> HIDE DEF of
    <3> QED BY <1>1, <2>1, FS_Subset
  <2> HIDE DEF of
  <2> QED BY <2>2, FS_CardinalityType
<1>3. of({}) = {} /\ of(bits \cup new) = of(bits) \cup of(new)
      OBVIOUS
<1>4. bits \cap new = {} => of(bits) \cap of(new) = {}
      OBVIOUS
<1>5. \A s : Bytes(s, size) = Cardinality(of(s))
      BY DEF Bytes
<1> HIDE DEF of
<1>6. bits \cap new = {} => Cardinality(of(bits) \cup of(new)) = Cardinality(of(bits)) + Cardinality(of(new))
  <2> SUFFICES ASSUME bits \cap new = {}
               PROVE  Cardinality(of(bits) \cup of(new)) = Cardinality(of(bits)) + Cardinality(of(new))
      OBVIOUS
  <2>1. Cardinality(of(bits) \cup of(new))
          = Cardinality(of(bits)) + Cardinality(of(new)) - Cardinality(of(bits) \cap of(new))
        BY <1>2, FS_Union
  <2>2. Cardinality(of(bits) \cap of(new)) = 0
        BY <1>4, FS_EmptySet
  <2> QED BY <1>2, <2>1, <2>2
<1> QED BY <1>2, <1>3, <1>5, <1>6, FS_EmptySet

\* The entries a step makes.
LEMMA FreshCounted ==
  /\ Counted(NoEntry) /\ NoEntry.part = {}
  /\ Typed =>
       LET bits == dir.bits \cap BlocksOf(dir.size)
       IN  Counted([size |-> dir.size, inode |-> dir.inode, bits |-> bits, part |-> {},
                    gen |-> 0, pgen |-> 0, bytes |-> Bytes(bits, dir.size)])
<1>1. Counted(NoEntry) /\ NoEntry.part = {}
  <2>1. {} \in AllBits /\ Cardinality({}) = 0 /\ 0 <= 0 /\ Bytes({}, 0) = 0
        BY BytesOf, FS_EmptySet DEF AllBits
  <2> QED BY <2>1 DEF Counted, Entries, NoEntry
<1>2. ASSUME Typed
      PROVE  LET bits == dir.bits \cap BlocksOf(dir.size)
             IN  Counted([size |-> dir.size, inode |-> dir.inode, bits |-> bits, part |-> {},
                          gen |-> 0, pgen |-> 0, bytes |-> Bytes(bits, dir.size)])
  <2> DEFINE bits == dir.bits \cap BlocksOf(dir.size)
             x == [size |-> dir.size, inode |-> dir.inode, bits |-> bits, part |-> {},
                   gen |-> 0, pgen |-> 0, bytes |-> Bytes(bits, dir.size)]
  <2>1. dir.size \in Sizes \cup {0} /\ dir.inode \in Inodes \cup {0} /\ bits \in AllBits
        BY <1>2 DEF Typed, AllBits
  <2>2. dir.size \in Nat
        BY <2>1, UnitsFinite
  <2>3. Bytes(bits, dir.size) \in Nat
        BY <2>2, BytesOf
  <2>4. Cardinality(bits) \in Nat
        BY <2>1, UnitsFinite
  <2> HIDE DEF bits
  <2>5. x \in Entries /\ x.pgen <= x.gen /\ x.gen <= Cardinality(x.bits)
        BY <2>1, <2>3, <2>4 DEF Entries
  <2>6. x.bytes = Bytes(x.bits, x.size) /\ x.part = {}
        OBVIOUS
  <2> HIDE DEF x
  <2>7. Counted(x)
        BY <2>5, <2>6 DEF Counted
  <2> QED BY <2>7 DEF x, bits
<1> QED BY <1>1, <1>2

LEMMA CountInitially == Init => CountInv
<1> SUFFICES ASSUME Init PROVE CountInv
    OBVIOUS
<1>1. Shape /\ Turns
      BY CacheInitially DEF CacheInv
<1>2. {} \in AllBits
      BY DEF AllBits
<1>3. Typed
      BY <1>2 DEF Init, Typed, Absent, NoSnap
<1>4. \A e \in EntryIds : Counted(entry[e])
      BY FreshCounted DEF Init
<1>5. SnapsLag /\ Marked
      BY DEF Init, SnapsLag, Marked, Renaming, NoEntry, BlocksOf
<1> QED BY <1>1, <1>3, <1>4, <1>5 DEF CountInv
\* The first critical section of write_range.
LEMMA MarkEntry ==
  ASSUME CountInv, NEW s \in Streams, Mark(s)
  PROVE  LET e == hold[s]
             part == entry[e].part \cup {u \in job[s] : Block(u) \notin entry[e].bits}
         IN  /\ e \in EntryIds /\ Counted(entry'[e]) /\ DOMAIN entry' = EntryIds
             /\ entry'[e].part = part
             /\ \A f \in {"size", "bits", "gen"} : entry'[e][f] = entry[e][f]
             /\ \A d \in EntryIds \ {e} : entry'[d] = entry[d]
<1> DEFINE e == hold[s]
           part == entry[e].part \cup {u \in job[s] : Block(u) \notin entry[e].bits}
           x == entry[e]
           r == [x EXCEPT !.part = part]
<1>1. e \in EntryIds /\ DOMAIN entry = EntryIds
  <2>1. spc[s] \notin Away
        BY DEF Mark, Away, Opens
  <2> QED BY <2>1, Holding DEF CountInv, Shape
<1>2. entry' = [entry EXCEPT ![e] = r]
      BY DEF Mark
<1>3. Counted(x) /\ x \in Entries
      BY <1>1 DEF CountInv, Counted
<1>4. part \subseteq AllUnits /\ \A u \in part : Block(u) \notin x.bits
      BY <1>3 DEF Counted, Entries, CountInv, Typed
<1> HIDE DEF part, x
<1>5. r \in Entries /\ r.part = part /\ \A f \in {"size", "bits", "gen", "pgen", "bytes"} : r[f] = x[f]
      BY <1>3, <1>4 DEF Entries
<1> HIDE DEF r
<1>6. Counted(r)
      BY <1>3, <1>4, <1>5 DEF Counted
<1> QED BY <1>1, <1>2, <1>5, <1>6 DEF part, x

\* The second one.
LEMMA SetEntryCounted ==
  ASSUME CountInv, NEW s \in Streams, SetBits(s)
  PROVE  LET e == hold[s]
         IN  /\ e \in EntryIds /\ Counted(entry'[e]) /\ DOMAIN entry' = EntryIds
             /\ entry'[e].size = entry[e].size /\ entry'[e].gen >= entry[e].gen
             /\ entry'[e].bits = entry[e].bits \cup Newly(s)
             /\ entry'[e].part \subseteq entry[e].part
             /\ \A d \in EntryIds \ {e} : entry'[d] = entry[d]
<1> DEFINE e == hold[s]
           new == Newly(s)
           x == entry[e]
           b == Bytes(new, x.size)
           g == IF new = {} THEN x.gen ELSE x.gen + 1
           p == {u \in x.part : Block(u) \notin new}
           r == [x EXCEPT !.bits = @ \cup new, !.part = p, !.bytes = @ + b, !.gen = g]
<1>1. e \in EntryIds /\ DOMAIN entry = EntryIds
  <2>1. spc[s] \notin Away
        BY DEF SetBits, Away, Opens
  <2> QED BY <2>1, Holding DEF CountInv, Shape
<1>2. entry' = [entry EXCEPT ![e] = r]
      BY DEF SetBits
<1>3. /\ Counted(x) /\ x \in Entries /\ x.size \in Nat /\ x.bits \in AllBits /\ x.gen \in Nat
      /\ x.pgen \in Nat /\ x.bytes \in Nat /\ x.part \subseteq AllUnits
  <2>1. Counted(x) /\ x \in Entries
        BY <1>1 DEF CountInv, Counted
  <2>2. x.size \in Sizes \cup {0}
        BY <2>1 DEF Entries
  <2> QED BY <2>1, <2>2, UnitsFinite DEF Entries
<1>4. new \in AllBits /\ new \cap x.bits = {} /\ x.bits \cup new \in AllBits
      BY <1>3 DEF Newly, CountInv, Typed, AllBits
<1>5. g \in Nat /\ g >= x.gen /\ g <= Cardinality(x.bits \cup new) /\ x.pgen <= g
  <2>1. x.pgen <= x.gen /\ x.gen <= Cardinality(x.bits)
        BY <1>3 DEF Counted
  <2>2. /\ IsFiniteSet(x.bits) /\ Cardinality(x.bits) \in Nat
        /\ IsFiniteSet(new) /\ Cardinality(new) \in Nat
        BY <1>3, <1>4, UnitsFinite
  <2> HIDE DEF x, new
  <2>3. Cardinality(x.bits \cup new) = Cardinality(x.bits) + Cardinality(new)
    <3>1. Cardinality(x.bits \cup new)
            = Cardinality(x.bits) + Cardinality(new) - Cardinality(x.bits \cap new)
          BY <2>2, FS_Union
    <3>2. x.bits \cap new = {}
          BY <1>4
    <3>3. Cardinality(x.bits \cap new) = 0
          BY <3>2, FS_EmptySet
    <3> QED BY <2>2, <3>1, <3>3
  <2>4. new # {} => Cardinality(new) # 0
        BY <2>2, FS_EmptySet
  <2> QED BY <1>3, <2>1, <2>2, <2>3, <2>4
<1>6. b \in Nat /\ x.bytes + b = Bytes(x.bits \cup new, x.size)
  <2>1. x.bytes = Bytes(x.bits, x.size) /\ x.bits \cap new = {}
        BY <1>3, <1>4 DEF Counted
  <2> HIDE DEF x, new
  <2>2. b \in Nat /\ Bytes(x.bits \cup new, x.size) = Bytes(x.bits, x.size) + Bytes(new, x.size)
        BY <1>3, <2>1, BytesOf
  <2> QED BY <2>1, <2>2
<1>7. p \subseteq x.part /\ \A u \in p : Block(u) \notin x.bits \cup new
      BY <1>3 DEF Counted
<1> HIDE DEF new, b, g, p, x
<1>8. /\ r \in Entries /\ r.bits = x.bits \cup new /\ r.part = p /\ r.gen = g
      /\ r.bytes = x.bytes + b /\ r.size = x.size /\ r.pgen = x.pgen
  <2>1. p \in SUBSET AllUnits /\ x.bytes + b \in Nat
        BY <1>3, <1>6, <1>7
  <2>2. r = [x EXCEPT !.bits = x.bits \cup new, !.part = p, !.bytes = x.bytes + b, !.gen = g]
        BY <1>3 DEF Entries
  <2> QED BY <1>3, <1>4, <1>5, <2>1, <2>2 DEF Entries
<1> HIDE DEF r
<1>9. Counted(r)
      BY <1>5, <1>6, <1>7, <1>8 DEF Counted
<1> QED BY <1>1, <1>2, <1>5, <1>7, <1>8, <1>9 DEF new, x

\* persist_bitmap stores the generation of its snapshot.
LEMMA RenameEntry ==
  ASSUME CountInv, NEW s \in Streams, Rename(s)
  PROVE  \A e \in EntryIds :
           /\ Counted(entry'[e])
           /\ \A f \in {"size", "part", "gen"} : entry'[e][f] = entry[e][f]
<1> DEFINE e == hold[s]
           x == entry[e]
           n == snap[s].gen
           r == [x EXCEPT !.pgen = n]
<1>1. e \in EntryIds /\ DOMAIN entry = EntryIds /\ spc[s] \in Renaming
  <2>1. spc[s] \notin Away /\ spc[s] \in Renaming
        BY DEF Rename, Away, Opens, Renaming
  <2> QED BY <2>1, Holding DEF CountInv, Shape
<1>2. entry' = entry \/ entry' = [entry EXCEPT ![e] = r]
      BY DEF Rename, Stored
<1>3. Counted(x) /\ x \in Entries /\ n \in Nat /\ n <= x.gen
      BY <1>1 DEF CountInv, Counted, Typed, SnapsLag
<1> HIDE DEF x, n
<1>4. r \in Entries /\ r.pgen = n /\ \A f \in {"size", "bits", "gen", "part", "bytes"} : r[f] = x[f]
      BY <1>3 DEF Entries
<1> HIDE DEF r
<1>5. Counted(r)
      BY <1>3, <1>4 DEF Counted
<1> QED BY <1>1, <1>2, <1>4, <1>5 DEF x, CountInv

\* What a step makes of the entries: of some nothing is left, of the others all that
\* counts, but where a write marks its pieces or sets its blocks.
Left ==
  \A e \in EntryIds :
    \/ entry'[e] = entry[e]
    \/ /\ entry'[e].part = {} /\ Counted(entry'[e])
       /\ \A s \in Streams : hold[s] = e => hold'[s] # e

LEMMA EntriesLeft ==
  ASSUME CountInv, [Next]_vars
  PROVE  \/ Left
         \/ \E s \in Streams : Mark(s) \/ SetBits(s) \/ Rename(s)
<1> USE FreshCounted, Numbers DEF CountInv, Shape
<1>1. ASSUME NEW s \in Streams, OpenHit(s) PROVE Left
      BY <1>1 DEF OpenHit, Left
<1>2. ASSUME NEW s \in Streams, OpenMiss(s) PROVE Left
      BY <1>2 DEF OpenMiss, Left, Held
<1>3. ASSUME NEW s \in Streams, OpenCreate(s) PROVE Left
      BY <1>3 DEF OpenCreate, Left
<1>4. ASSUME NEW s \in Streams, OpenLoad(s) PROVE Left
  <2>1. CASE dir.state # "ready"
        BY <1>4, <2>1 DEF OpenLoad, Left
  <2>2. CASE dir.state = "ready"
    <3> DEFINE bits == dir.bits \cap BlocksOf(dir.size)
               x == [size |-> dir.size, inode |-> dir.inode, bits |-> bits, part |-> {},
                     gen |-> 0, pgen |-> 0, bytes |-> Bytes(bits, dir.size)]
    <3>1. PICK e \in EntryIds : entry' = [entry EXCEPT ![e] = x] /\ FreeEntry(e)
          BY <1>4, <2>2 DEF OpenLoad
    <3>2. Counted(x) /\ x.part = {}
          BY FreshCounted
    <3> HIDE DEF x
    <3> QED BY <3>1, <3>2 DEF Left, FreeEntry, Live, Held
  <2> QED BY <2>1, <2>2
<1>5. ASSUME NEW s \in Streams,
             BeginFetch(s) \/ WriteData(s) \/ SkipFlush(s) \/ Leave(s) \/ Snapshot(s)
      PROVE  Left
      BY <1>5 DEF BeginFetch, WriteData, SkipFlush, Leave, Snapshot, Left
<1>6. ASSUME NEW s \in Streams, Drop(s) PROVE Left
      BY <1>6 DEF Drop, Left
<1>7. CASE ClearEntry
      BY <1>7 DEF ClearEntry, Left, Held
<1>8. CASE ClearDirectory
      BY <1>8 DEF ClearDirectory, Left
<1>9. CASE Crash
      BY <1>9 DEF Crash, Left
<1>10. CASE UNCHANGED vars
      BY <1>10 DEF vars, Left
<1> QED BY <1>1, <1>2, <1>3, <1>4, <1>5, <1>6, <1>7, <1>8, <1>9, <1>10 DEF Next, Stream

LEMMA CountedStep == CountInv /\ [Next]_vars => \A e \in EntryIds : Counted(entry'[e])
<1> SUFFICES ASSUME CountInv, [Next]_vars PROVE \A e \in EntryIds : Counted(entry'[e])
    OBVIOUS
<1>1. ASSUME NEW s \in Streams, Mark(s) \/ SetBits(s) PROVE \A e \in EntryIds : Counted(entry'[e])
      BY <1>1, MarkEntry, SetEntryCounted DEF CountInv
<1> QED BY <1>1, EntriesLeft, RenameEntry DEF Left, CountInv
LEMMA TypedStep == CountInv /\ [Next]_vars => Typed'
<1> SUFFICES ASSUME CountInv, [Next]_vars PROVE Typed'
    OBVIOUS
<1> DEFINE Dirs == [state : {"absent", "half", "ready"}, size : Sizes \cup {0}, bits : AllBits,
                    inode : Inodes \cup {0}]
<1> USE DEF CountInv, Shape
<1>0. /\ dir \in Dirs /\ Absent \in Dirs /\ {} \in AllBits /\ NoSnap \in [bits : AllBits, gen : Nat]
      /\ \A bits \in AllBits : WithBitmap(dir, bits) \in Dirs
      /\ \A e \in EntryIds : AfterDrop(e) \in Dirs /\ entry[e] \in Entries
  <2>1. dir \in Dirs /\ {} \in AllBits
        BY DEF Typed, AllBits
  <2>2. \A bits \in AllBits : WithBitmap(dir, bits) \in Dirs
        BY <2>1 DEF WithBitmap
  <2>3. \A e \in EntryIds : entry[e] \in Entries /\ entry[e].bits \in AllBits
        BY DEF Counted, Entries
  <2>4. \A e \in EntryIds : AfterDrop(e) \in Dirs
        BY <2>1, <2>2, <2>3 DEF AfterDrop
  <2> QED BY <2>1, <2>2, <2>3, <2>4 DEF Absent, NoSnap
<1> HIDE DEF Dirs
<1>1. ASSUME NEW s \in Streams, OpenHit(s) \/ BeginFetch(s) \/ SkipFlush(s) \/ Leave(s) \/ Snapshot(s)
      PROVE  Typed'
  <2>1. /\ UNCHANGED <<dir, data, job, completed, clearing>>
        /\ cached' = cached \/ \E bits \in AllBits : cached' = [cached EXCEPT ![s] = bits]
        /\ snap' = snap \/ \E x \in [bits : AllBits, gen : Nat] : snap' = [snap EXCEPT ![s] = x]
    <3>1. CASE OpenHit(s) \/ SkipFlush(s)
          BY <3>1 DEF OpenHit, SkipFlush, disk
    <3>2. CASE BeginFetch(s)
      <4>1. hold[s] \in EntryIds
            BY <3>2, Holding DEF BeginFetch, Away, Opens
      <4>2. entry[hold[s]].bits \in AllBits
            BY <1>0, <4>1 DEF Entries
      <4> QED BY <3>2, <4>2 DEF BeginFetch, disk
    <3>3. CASE Leave(s)
          BY <1>0, <3>3 DEF Leave, disk
    <3>4. CASE Snapshot(s)
      <4>1. hold[s] \in EntryIds
            BY <3>4, Holding DEF Snapshot, Away, Opens
      <4>2. [bits |-> entry[hold[s]].bits, gen |-> entry[hold[s]].gen] \in [bits : AllBits, gen : Nat]
            BY <1>0, <4>1 DEF Entries
      <4> QED BY <3>4, <4>2 DEF Snapshot, disk
    <3> QED BY <1>1, <3>1, <3>2, <3>3, <3>4
  <2> QED BY <2>1 DEF Typed
<1>2. ASSUME NEW s \in Streams, OpenMiss(s) PROVE Typed'
  <2>1. dir' \in Dirs
    <3>1. PICK size \in Sizes :
            IF Mismatched(size)
            THEN dir' = [state |-> "half", size |-> size, bits |-> {}, inode |-> 0]
            ELSE dir' = IF current = 0 \/ Held(current) THEN dir ELSE AfterDrop(current)
          BY <1>2 DEF OpenMiss
    <3>2. [state |-> "half", size |-> size, bits |-> {}, inode |-> 0] \in Dirs
          BY <1>0 DEF Dirs
    <3>3. current # 0 => current \in EntryIds
          OBVIOUS
    <3> QED BY <1>0, <3>1, <3>2, <3>3
  <2> QED BY <1>2, <2>1 DEF OpenMiss, Typed, Dirs
<1>3. ASSUME NEW s \in Streams, OpenCreate(s) PROVE Typed'
  <2>1. CASE UNCHANGED disk
        BY <1>3, <2>1 DEF OpenCreate, Typed, disk
  <2>2. CASE \E i \in Inodes :
               dir' = [dir EXCEPT !.state = "ready", !.inode = i] /\ data' = [data EXCEPT ![i] = {}]
    <3>1. dir' \in Dirs
          BY <1>0, <2>2 DEF Dirs
    <3>2. data' \in [Inodes -> SUBSET AllUnits]
          BY <2>2 DEF Typed
    <3> QED BY <1>3, <3>1, <3>2 DEF OpenCreate, Typed, Dirs
  <2> QED BY <1>3, <2>1, <2>2 DEF OpenCreate
<1>4. ASSUME NEW s \in Streams, OpenLoad(s) PROVE Typed'
      BY <1>4 DEF OpenLoad, disk, Typed
<1>5. ASSUME NEW s \in Streams, WriteData(s) PROVE Typed'
  <2>1. hold[s] \in EntryIds
        BY <1>5, Holding DEF WriteData, Away, Opens
  <2>2. entry[hold[s]].size \in Sizes \cup {0}
        BY <1>0, <2>1 DEF Entries
  <2>3. PICK units : /\ units \subseteq 1..entry[hold[s]].size
                     /\ data' = [data EXCEPT ![entry[hold[s]].inode] = @ \cup units]
                     /\ job' = [job EXCEPT ![s] = units]
    <3> DEFINE n == entry[hold[s]].size
    <3>1. PICK lo \in 1..n, hi \in 1..n :
             /\ data' = [data EXCEPT ![entry[hold[s]].inode] = @ \cup lo..hi]
             /\ job' = [job EXCEPT ![s] = lo..hi]
          BY <1>5 DEF WriteData
    <3>2. n \in Nat
          BY <2>2, UnitsFinite
    <3> HIDE DEF n
    <3>3. lo..hi \subseteq 1..n
          BY <3>2
    <3> QED BY <3>1, <3>3 DEF n
  <2>4. units \in SUBSET AllUnits
        BY <2>2, <2>3, UnitsFinite
  <2>5. data' \in [Inodes -> SUBSET AllUnits] /\ job' \in [Streams -> SUBSET AllUnits]
        BY <2>3, <2>4 DEF Typed
  <2> QED BY <1>5, <2>5 DEF WriteData, Typed
<1>6. ASSUME NEW s \in Streams, Mark(s) PROVE Typed'
  <2>1. job' = [job EXCEPT ![s] = {}] /\ UNCHANGED <<dir, data, cached, snap, clearing>>
        BY <1>6 DEF Mark, disk
  <2>2. \E found \in SUBSET {Block(u) : u \in job[s]} : completed' = [completed EXCEPT ![s] = found]
        BY <1>6 DEF Mark, Complete
  <2>3. \E found \in AllBits : completed' = [completed EXCEPT ![s] = found]
    <3>1. job[s] \subseteq AllUnits
          BY DEF Typed
    <3>2. {Block(u) : u \in job[s]} \subseteq {Block(u) : u \in AllUnits}
          BY <3>1
    <3> QED BY <2>2, <3>2 DEF AllBits
  <2>4. completed' \in [Streams -> AllBits] /\ job' \in [Streams -> SUBSET AllUnits]
        BY <2>1, <2>3 DEF Typed
  <2> QED BY <2>1, <2>4 DEF Typed
<1>7. ASSUME NEW s \in Streams, SetBits(s) PROVE Typed'
      BY <1>0, <1>7 DEF SetBits, disk, Typed
<1>8. ASSUME NEW s \in Streams, Rename(s) PROVE Typed'
  <2>1. dir' \in Dirs
    <3>1. snap[s].bits \in AllBits
          BY DEF Typed
    <3> QED BY <1>0, <1>8, <3>1 DEF Rename
  <2>2. snap' = [snap EXCEPT ![s] = NoSnap] /\ UNCHANGED <<data, cached, job, completed, clearing>>
        BY <1>8 DEF Rename
  <2> QED BY <1>0, <2>1, <2>2 DEF Typed, Dirs
<1>9. ASSUME NEW s \in Streams, Drop(s) PROVE Typed'
  <2>1. hold[s] \in EntryIds
        BY <1>9, Holding DEF Drop, Away, Opens
  <2>2. dir' \in Dirs /\ UNCHANGED <<data, cached, job, completed, snap, clearing>>
        BY <1>0, <1>9, <2>1 DEF Drop
  <2> QED BY <2>2 DEF Typed, Dirs
<1>10. CASE ClearEntry
  <2>1. dir' \in Dirs
        BY <1>0, <1>10 DEF ClearEntry
  <2> QED BY <1>10, <2>1 DEF ClearEntry, stream, Typed, Dirs
<1>11. CASE ClearDirectory
      BY <1>0, <1>11 DEF ClearDirectory, stream, Typed, Dirs
<1>12. CASE Crash
      BY <1>0, <1>12 DEF Crash, disk, Typed
<1>13. CASE UNCHANGED vars
      BY <1>13 DEF vars, disk, stream, Typed
<1> QED BY <1>1, <1>2, <1>3, <1>4, <1>5, <1>6, <1>7, <1>8, <1>9, <1>10, <1>11, <1>12, <1>13
        DEF Next, Stream
\* Nobody takes a block, a snapshot or an entry out of the hands of a stream.
LEMMA HandsKept ==
  ASSUME CountInv, [Next]_vars, NEW t \in Streams
  PROVE  /\ spc'[t] \in Renaming =>
              \/ spc[t] \in Renaming /\ hold'[t] = hold[t] /\ snap'[t] = snap[t]
              \/ Snapshot(t)
         /\ spc[t] = "set" =>
              \/ spc'[t] = "set" /\ hold'[t] = hold[t] /\ completed'[t] = completed[t]
              \/ SetBits(t)
              \/ hold'[t] = 0 /\ entry' = [e \in EntryIds |-> NoEntry]
<1> USE DEF CountInv, Shape, Typed, Renaming
<1>1. ASSUME NEW s \in Streams, Stream(s), s # t
      PROVE  spc'[t] = spc[t] /\ hold'[t] = hold[t] /\ snap'[t] = snap[t] /\ completed'[t] = completed[t]
  <2>1. CASE OpenHit(s) \/ OpenMiss(s) \/ OpenCreate(s) \/ OpenLoad(s)
        BY <1>1, <2>1 DEF OpenHit, OpenMiss, OpenCreate, OpenLoad
  <2>2. CASE BeginFetch(s) \/ WriteData(s) \/ Mark(s) \/ SetBits(s)
        BY <1>1, <2>2 DEF BeginFetch, WriteData, Mark, SetBits
  <2>3. CASE SkipFlush(s) \/ Leave(s) \/ Snapshot(s) \/ Rename(s) \/ Drop(s)
        BY <1>1, <2>3 DEF SkipFlush, Leave, Snapshot, Rename, Drop
  <2> QED BY <1>1, <2>1, <2>2, <2>3 DEF Stream
<1>2. CASE Stream(t)
  <2>1. CASE OpenHit(t) \/ OpenMiss(t) \/ OpenCreate(t) \/ OpenLoad(t)
        BY <2>1 DEF OpenHit, OpenMiss, OpenCreate, OpenLoad
  <2>2. CASE BeginFetch(t) \/ WriteData(t) \/ Mark(t)
        BY <2>2 DEF BeginFetch, WriteData, Mark
  <2>3. CASE SetBits(t)
        BY <2>3 DEF SetBits
  <2>4. CASE SkipFlush(t) \/ Leave(t) \/ Rename(t) \/ Drop(t)
        BY <2>4 DEF SkipFlush, Leave, Rename, Drop
  <2>5. CASE Snapshot(t)
        BY <2>5 DEF Snapshot
  <2> QED BY <1>2, <2>1, <2>2, <2>3, <2>4, <2>5 DEF Stream
<1>3. CASE ClearEntry \/ ClearDirectory \/ UNCHANGED vars
      BY <1>3 DEF ClearEntry, ClearDirectory, vars, stream
<1>4. CASE Crash
      BY <1>4 DEF Crash
<1> QED BY <1>1, <1>2, <1>3, <1>4 DEF Next

LEMMA SnapsLagStep == CountInv /\ [Next]_vars => SnapsLag'
<1> SUFFICES ASSUME CountInv, [Next]_vars, NEW t \in Streams, spc'[t] \in Renaming
             PROVE  snap'[t].gen <= entry'[hold'[t]].gen
    BY DEF SnapsLag
<1>1. CASE Snapshot(t)
  <2>1. hold[t] \in EntryIds
        BY <1>1, Holding DEF Snapshot, Away, Opens, CountInv
  <2>2. entry[hold[t]].gen \in Nat
        BY <2>1 DEF CountInv, Counted, Entries
  <2>3. snap'[t].gen = entry[hold[t]].gen /\ entry' = entry /\ hold' = hold
        BY <1>1 DEF Snapshot, CountInv, Typed
  <2> QED BY <2>2, <2>3
<1>2. CASE spc[t] \in Renaming /\ hold'[t] = hold[t] /\ snap'[t] = snap[t]
  <2> DEFINE e == hold[t]
             n == snap[t].gen
  <2>1. e \in EntryIds /\ n \in Nat /\ n <= entry[e].gen /\ entry[e].gen \in Nat
    <3>1. e \in EntryIds
      <4>1. spc[t] \notin Away
            BY <1>2 DEF Renaming, Away, Opens
      <4> QED BY <4>1, Holding DEF CountInv
    <3> QED BY <1>2, <3>1 DEF CountInv, Typed, SnapsLag, Counted, Entries
  <2>2. entry'[e].gen >= entry[e].gen /\ entry'[e].gen \in Nat
    <3>1. entry'[e].gen \in Nat
          BY <2>1, CountedStep DEF Counted, Entries
    <3>2. ASSUME NEW s \in Streams, Mark(s) PROVE entry'[e].gen = entry[e].gen
          BY <2>1, <3>2, MarkEntry
    <3>3. ASSUME NEW s \in Streams, SetBits(s) PROVE entry'[e].gen >= entry[e].gen
          BY <2>1, <3>3, SetEntryCounted
    <3>4. ASSUME NEW s \in Streams, Rename(s) PROVE entry'[e].gen = entry[e].gen
          BY <2>1, <3>4, RenameEntry
    <3>5. Left => entry'[e] = entry[e]
          BY <1>2, <2>1 DEF Left
    <3> QED BY <2>1, <3>1, <3>2, <3>3, <3>4, <3>5, EntriesLeft
  <2> HIDE DEF e, n
  <2>3. n <= entry'[e].gen
        BY <2>1, <2>2
  <2> QED BY <1>2, <2>3 DEF e, n
<1> QED BY <1>1, <1>2, HandsKept

\* A block of a file has a first unit.
LEMMA SomeUnit ==
  ASSUME NEW n, NEW b \in BlocksOf(n)
  PROVE  \E u \in UnitsOf(b, n) : Block(u) = b
BY DEF BlocksOf, UnitsOf

LEMMA MarkedStep == CountInv /\ [Next]_vars => Marked'
<1> SUFFICES ASSUME CountInv, [Next]_vars, NEW e \in EntryIds, NEW b \in BlocksOf(entry'[e].size),
                    UnitsOf(b, entry'[e].size) \subseteq entry'[e].part
             PROVE  \E s \in Streams : hold'[s] = e /\ spc'[s] = "set" /\ b \in completed'[s]
    BY DEF Marked
<1>0. PICK u \in UnitsOf(b, entry'[e].size) : Block(u) = b
      BY SomeUnit
<1> USE DEF CountInv
\* A block that was whole before: its write still has it, or has just marked it.
<1>1. ASSUME entry'[e].size = entry[e].size, entry'[e].part \subseteq entry[e].part
      PROVE  \E s \in Streams : hold'[s] = e /\ spc'[s] = "set" /\ b \in completed'[s]
  <2>1. PICK s \in Streams : hold[s] = e /\ spc[s] = "set" /\ b \in completed[s]
        BY <1>1 DEF Marked
  <2>2. ~SetBits(s)
    <3> SUFFICES ASSUME SetBits(s) PROVE FALSE
        OBVIOUS
    <3>1. entry'[e].bits = entry[e].bits \cup Newly(s) /\ Counted(entry'[e])
          BY <2>1, SetEntryCounted
    <3>2. b \in entry'[e].bits
          BY <2>1, <3>1 DEF Newly
    <3> QED BY <1>0, <3>1, <3>2 DEF Counted
  <2>3. ~(entry' = [d \in EntryIds |-> NoEntry])
        BY <1>0, FreshCounted
  <2> QED BY <2>1, <2>2, <2>3, HandsKept
<1>2. ASSUME NEW s \in Streams, Mark(s), e = hold[s]
      PROVE  \E t \in Streams : hold'[t] = e /\ spc'[t] = "set" /\ b \in completed'[t]
  <2> DEFINE part == entry[e].part \cup {v \in job[s] : Block(v) \notin entry[e].bits}
  <2>1. entry'[e].part = part /\ entry'[e].size = entry[e].size
        BY <1>2, MarkEntry
  <2>2. CASE UnitsOf(b, entry[e].size) \subseteq entry[e].part
    <3>1. PICK t \in Streams : hold[t] = e /\ spc[t] = "set" /\ b \in completed[t]
          BY <2>1, <2>2 DEF Marked
    <3>2. t # s /\ hold' = hold /\ spc'[t] = spc[t] /\ completed'[t] = completed[t]
          BY <1>2, <3>1 DEF Mark, Shape, Typed
    <3> QED BY <3>1, <3>2
  <2>3. CASE ~(UnitsOf(b, entry[e].size) \subseteq entry[e].part)
    <3>1. PICK v \in UnitsOf(b, entry[e].size) : v \in job[s] /\ Block(v) \notin entry[e].bits
          BY <2>1, <2>3
    <3>2. Block(v) = b
          BY DEF UnitsOf
    <3>3. b \in Complete(e, job[s], part)
          BY <2>1, <3>1, <3>2 DEF Complete, Full
    <3>4. /\ completed' = [completed EXCEPT ![s] = Complete(e, job[s], part)] /\ hold' = hold
          /\ spc' = [spc EXCEPT ![s] = IF Complete(e, job[s], part) = {} THEN "flush" ELSE "set"]
          BY <1>2 DEF Mark
    <3> HIDE DEF part
    <3> QED BY <1>2, <3>3, <3>4 DEF Shape, Typed
  <2> QED BY <2>2, <2>3
<1>3. ASSUME NEW s \in Streams, Mark(s) \/ SetBits(s), e # hold[s]
      PROVE  entry'[e] = entry[e]
      BY <1>3, MarkEntry, SetEntryCounted
<1>4. ASSUME NEW s \in Streams, SetBits(s), e = hold[s]
      PROVE  entry'[e].size = entry[e].size /\ entry'[e].part \subseteq entry[e].part
      BY <1>4, SetEntryCounted
<1>5. ASSUME NEW s \in Streams, Rename(s)
      PROVE  entry'[e].size = entry[e].size /\ entry'[e].part \subseteq entry[e].part
      BY <1>5, RenameEntry
<1>6. Left => entry'[e] = entry[e]
      BY <1>0 DEF Left
<1> QED BY <1>1, <1>2, <1>3, <1>4, <1>5, <1>6, EntriesLeft

LEMMA CountStep == CountInv /\ [Next]_vars => CountInv'
<1>1. CountInv /\ [Next]_vars => Shape' /\ Turns'
      BY ShapeStep DEF CountInv
<1>2. EntryIds' = EntryIds
      BY DEF EntryIds
<1>3. CountInv /\ [Next]_vars => \A e \in EntryIds : Counted(entry[e])'
  <2>1. \A e \in EntryIds : Counted(entry[e])' <=> Counted(entry'[e])
        BY DEF Counted, Entries, Inodes
  <2> QED BY <2>1, CountedStep
<1> QED BY <1>1, <1>2, <1>3, TypedStep, SnapsLagStep, MarkedStep DEF CountInv

LEMMA CountIsRight == CountInv => BlocksCounted
<1> SUFFICES ASSUME CountInv PROVE BlocksCounted
    OBVIOUS
<1>1. ASSUME NEW e \in EntryIds
      PROVE  entry[e].bytes \in 0..Cardinality(AllUnits)
  <2> DEFINE x == entry[e]
             of == {u \in 1..x.size : Block(u) \in x.bits}
  <2>1. x.size \in Sizes \cup {0} /\ x.bytes \in Nat /\ x.bytes = Cardinality(of)
        BY DEF CountInv, Counted, Entries, Bytes
  <2>2. of \in SUBSET AllUnits
        BY <2>1, UnitsFinite
  <2> HIDE DEF x, of
  <2>3. Cardinality(of) <= Cardinality(AllUnits) /\ Cardinality(AllUnits) \in Nat
        BY <2>2, UnitsFinite, FS_Subset, FS_CardinalityType
  <2> QED BY <2>1, <2>3 DEF x
<1>2. TypeOK
  <2>1. \A e \in EntryIds :
          entry[e] \in [size : Sizes \cup {0}, inode : Inodes \cup {0}, bits : AllBits,
                        part : SUBSET AllUnits, gen : Nat, pgen : Nat,
                        bytes : 0..Cardinality(AllUnits)]
        BY <1>1 DEF CountInv, Counted, Entries
  <2>2. \A e \in EntryIds : entry[e].pgen <= entry[e].gen /\ entry[e].gen <= Cardinality(entry[e].bits)
        BY DEF CountInv, Counted
  <2> QED BY <2>1, <2>2
      DEF TypeOK, CountInv, Shape, Typed, AllUnits, AllBits, Places, Away, Opens, Renaming
<1>3. \A e \in Live : e \in EntryIds
      BY DEF Live
<1>4. BytesMatchBits
      BY <1>3 DEF BytesMatchBits, CountInv, Counted
<1>5. NoBlockForgotten
      BY <1>3 DEF NoBlockForgotten, CountInv, Marked, Full
<1> QED BY <1>2, <1>4, <1>5 DEF BlocksCounted

\* bytes_cached counts every marked block once, whoever completed it, and a block whose
\* pieces have all been written is marked or about to be, for any number of streams and
\* sizes, clears and crashes included (write_range, cache.rs; BlocksCounted).
THEOREM CountsAreRight == Spec => []BlocksCounted
BY CountInitially, CountStep, CountIsRight, PTL DEF Spec
=============================================================================
