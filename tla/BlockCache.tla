------------------------------ MODULE BlockCache ------------------------------
(***************************************************************************)
(* The persistent block cache of one file (cache.rs): a directory with     *)
(* meta.json, bitmap.bin and the sparse file.bin, the CacheEntry objects   *)
(* in memory that stand for it, and the streams that hold them and write   *)
(* through them.  A block is marked once its bytes have all been written;  *)
(* the bitmap reaches the disk at a bounded cadence and when a stream      *)
(* ends.  clear() and an open with another size replace the directory      *)
(* while streams may still hold the entry of the old one.  Offsets are in  *)
(* units, U to a block; the last block of a file may be shorter.           *)
(***************************************************************************)
EXTENDS Naturals, FiniteSets

CONSTANTS
  Streams,      \* downloads and warm-ups that may have the file open
  Sizes,        \* total sizes the storage may report for it, in units
  U             \* BLOCK_SIZE

\* Sizes are numbers of 64 bits.
ASSUME SizeAssumption ==
  Sizes \subseteq Nat \ {0} /\ IsFiniteSet(Sizes) /\ U \in Nat \ {0}
ASSUME StreamAssumption == IsFiniteSet(Streams)

VARIABLES
  dir,          \* the cache directory: meta.json, bitmap.bin and file.bin
  data,         \* units really present in each file.bin, unlinked or not
  current,      \* entries[key]: the registered entry, 0 if none
  entry,        \* the CacheEntry objects
  hold,         \* the entry each stream has an Arc to, 0 if none
  spc,          \* where each stream is
  cached,       \* blocks cached_ranges reported to a stream's fetch
  job,          \* units of the write in hand
  completed,    \* blocks the write in hand has found complete
  snap,         \* snapshot being persisted, with its generation
  clearing,     \* clear() is between the registry and the directory
  overtaken     \* an entry in use lost its registration or its directory

disk == <<dir, data>>
stream == <<hold, spc, cached, job, completed, snap>>
vars == <<disk, current, entry, stream, clearing, overtaken>>

EntryIds == 1..(Cardinality(Streams) + 1)
Inodes == 1..(Cardinality(Streams) + 2)

Block(u) == (u - 1) \div U + 1
BlocksOf(size) == {Block(u) : u \in 1..size}
UnitsOf(b, size) == {u \in 1..size : Block(u) = b}
Bytes(blocks, size) == Cardinality({u \in 1..size : Block(u) \in blocks})

Absent == [state |-> "absent", size |-> 0, bits |-> {}, inode |-> 0]
NoEntry == [size |-> 0, inode |-> 0, bits |-> {}, part |-> {},
            gen |-> 0, pgen |-> 0, bytes |-> 0]
NoSnap == [bits |-> {}, gen |-> 0]

Opening == \E s \in Streams : spc[s] \in {"create", "load"}  \* entries.write()
Held(e) == \E s \in Streams : hold[s] = e
Live == {e \in EntryIds : e = current \/ Held(e)}
FreeEntry(e) == e \in EntryIds \ Live
FreeInode(i) == /\ i \in Inodes \ {dir.inode}
                /\ \A e \in Live : entry[e].inode # i
InUse == current # 0 \/ Opening \/ \E s \in Streams : hold[s] # 0

\* rename(bitmap.bin.tmp, bitmap.bin) goes by path: whatever the directory
\* is by now, it takes the bitmap.  Without a directory the write fails.
WithBitmap(d, bits) ==
  IF d.state = "absent" THEN d ELSE [d EXCEPT !.bits = bits]

\* Drop of a CacheEntry persists a bitmap that is not yet on disk.
AfterDrop(e) ==
  IF entry[e].gen = entry[e].pgen THEN dir ELSE WithBitmap(dir, entry[e].bits)

(***************************************************************************)
(* CacheStore::open.                                                       *)
(***************************************************************************)
OpenHit(s) ==
  /\ spc[s] = "idle" /\ ~Opening
  /\ current # 0
  /\ hold' = [hold EXCEPT ![s] = current]
  /\ spc' = [spc EXCEPT ![s] = "ready"]
  /\ UNCHANGED <<disk, current, entry, cached, job, completed, snap, clearing,
                 overtaken>>

\* Under the write lock: an entry of another size leaves the registry, and a
\* directory whose meta.json is not the wanted one is replaced.
Mismatched(size) == dir.state = "absent" \/ dir.size # size
OpenMiss(s) == \E size \in Sizes :
  /\ spc[s] = "idle" /\ ~Opening
  /\ current # 0 => entry[current].size # size
  /\ current' = 0
  /\ IF Mismatched(size)
     THEN /\ dir' = [state |-> "half", size |-> size, bits |-> {}, inode |-> 0]
          /\ spc' = [spc EXCEPT ![s] = "create"]
          /\ overtaken' = (overtaken \/ \E t \in Streams : hold[t] # 0)
     ELSE /\ dir' = IF current = 0 \/ Held(current) THEN dir
                    ELSE AfterDrop(current)
          /\ spc' = [spc EXCEPT ![s] = "load"]
          /\ UNCHANGED overtaken
  /\ entry' = IF current = 0 \/ Held(current) THEN entry
              ELSE [entry EXCEPT ![current] = NoEntry]
  /\ UNCHANGED <<data, hold, cached, job, completed, snap, clearing>>

\* file.bin is the last file made: an empty one of the full length.
OpenCreate(s) ==
  /\ spc[s] = "create"
  /\ IF dir.state = "absent"
     THEN /\ spc' = [spc EXCEPT ![s] = "idle"]
          /\ UNCHANGED disk
     ELSE /\ \E i \in Inodes :
               /\ FreeInode(i) /\ \A j \in Inodes : FreeInode(j) => i <= j
               /\ dir' = [dir EXCEPT !.state = "ready", !.inode = i]
               /\ data' = [data EXCEPT ![i] = {}]
          /\ spc' = [spc EXCEPT ![s] = "load"]
  /\ UNCHANGED <<current, entry, hold, cached, job, completed, snap, clearing,
                 overtaken>>

\* The bitmap is read back from the directory.  A directory without file.bin
\* (a crash in between) is an error: the stream goes on without a cache.
OpenLoad(s) ==
  /\ spc[s] = "load"
  /\ IF dir.state # "ready"
     THEN /\ spc' = [spc EXCEPT ![s] = "idle"]
          /\ UNCHANGED <<current, entry, hold>>
     ELSE \E e \in EntryIds :
          /\ FreeEntry(e) /\ \A f \in EntryIds : FreeEntry(f) => e <= f
          /\ LET bits == dir.bits \cap BlocksOf(dir.size)
             IN  entry' = [entry EXCEPT ![e] =
                   [size |-> dir.size, inode |-> dir.inode, bits |-> bits,
                    part |-> {}, gen |-> 0, pgen |-> 0,
                    bytes |-> Bytes(bits, dir.size)]]
          /\ current' = e
          /\ hold' = [hold EXCEPT ![s] = e]
          /\ spc' = [spc EXCEPT ![s] = "ready"]
  /\ UNCHANGED <<disk, cached, job, completed, snap, clearing, overtaken>>

(***************************************************************************)
(* A stream: cached_ranges at the start of a fetch, then write_range for   *)
(* what the cache did not have, in steps between the locks it takes.       *)
(***************************************************************************)
BeginFetch(s) ==
  /\ spc[s] = "ready"
  /\ cached' = [cached EXCEPT ![s] = entry[hold[s]].bits]
  /\ spc' = [spc EXCEPT ![s] = "fetch"]
  /\ UNCHANGED <<disk, current, entry, hold, job, completed, snap, clearing,
                 overtaken>>

\* pwrite_all: the bytes go to the file the entry has open.
WriteData(s) ==
  /\ spc[s] = "fetch"
  /\ \E lo, hi \in 1..entry[hold[s]].size :
       /\ lo <= hi /\ \A u \in lo..hi : Block(u) \notin cached[s]
       /\ data' = [data EXCEPT ![entry[hold[s]].inode] = @ \cup lo..hi]
       /\ job' = [job EXCEPT ![s] = lo..hi]
  /\ spc' = [spc EXCEPT ![s] = "mark"]
  /\ UNCHANGED <<dir, current, entry, hold, cached, completed, snap, clearing,
                 overtaken>>

\* First critical section: intervals are merged, complete blocks collected.
Full(b, e, part) == UnitsOf(b, entry[e].size) \subseteq part
EveryTouched(e, units, part) ==
  {Block(u) : u \in units} \ entry[e].bits
CompletedAlone(e, units, part) ==
  {b \in {Block(u) : u \in units} \ entry[e].bits : Full(b, e, units)}
Complete(e, units, part) ==
  {b \in {Block(u) : u \in units} \ entry[e].bits : Full(b, e, part)}

Mark(s) ==
  LET e == hold[s]
      part == entry[e].part
                \cup {u \in job[s] : Block(u) \notin entry[e].bits}
      found == Complete(e, job[s], part)
  IN  /\ spc[s] = "mark"
      /\ entry' = [entry EXCEPT ![e].part = part]
      /\ completed' = [completed EXCEPT ![s] = found]
      /\ job' = [job EXCEPT ![s] = {}]
      /\ spc' = [spc EXCEPT ![s] = IF found = {} THEN "flush" ELSE "set"]
      /\ UNCHANGED <<disk, current, hold, cached, snap, clearing, overtaken>>

\* Second critical section: another write may have set the block meanwhile.
Newly(s) == completed[s] \ entry[hold[s]].bits
SetBits(s) ==
  LET e == hold[s]
      new == Newly(s)
  IN  /\ spc[s] = "set"
      /\ entry' = [entry EXCEPT
            ![e].bits = @ \cup new,
            ![e].part = {u \in @ : Block(u) \notin new},
            ![e].bytes = @ + Bytes(new, entry[e].size),
            ![e].gen = IF new = {} THEN @ ELSE @ + 1]
      /\ completed' = [completed EXCEPT ![s] = {}]
      /\ spc' = [spc EXCEPT ![s] = "flush"]
      /\ UNCHANGED <<disk, current, hold, cached, job, snap, clearing,
                     overtaken>>

(***************************************************************************)
(* persist_bitmap: a generation check without the lock, then, under        *)
(* bitmap_flush, a snapshot and its rename into place.                     *)
(***************************************************************************)
Clean(e) == entry[e].gen = entry[e].pgen
NoFlushLock(e) == TRUE
FlushLockFree(e) ==
  \A s \in Streams : hold[s] = e => spc[s] \notin {"rename", "lastrename"}

\* After a write: nothing new, less than BITMAP_FLUSH_INTERVAL since the last
\* one, or a flush.  Next comes another write, maybe of another fetch.
SkipFlush(s) ==
  /\ spc[s] = "flush"
  /\ Clean(hold[s]) \/ FlushLockFree(hold[s])
  /\ \/ spc' = [spc EXCEPT ![s] = "fetch"]
     \/ spc' = [spc EXCEPT ![s] = "ready"]
  /\ UNCHANGED <<disk, current, entry, hold, cached, job, completed, snap,
                 clearing, overtaken>>

\* The stream has ended and its writeback queue is drained: force.
Leave(s) ==
  /\ spc[s] \in {"ready", "fetch"}
  /\ spc' = [spc EXCEPT ![s] = IF Clean(hold[s]) THEN "drop" ELSE "last"]
  /\ cached' = [cached EXCEPT ![s] = {}]
  /\ UNCHANGED <<disk, current, entry, hold, job, completed, snap, clearing,
                 overtaken>>

Snapshot(s) ==
  LET e == hold[s]
  IN  /\ spc[s] = "last" \/ (spc[s] = "flush" /\ ~Clean(e))
      /\ FlushLockFree(e)
      /\ snap' = [snap EXCEPT ![s] = [bits |-> entry[e].bits,
                                      gen |-> entry[e].gen]]
      /\ spc' = [spc EXCEPT ![s] =
                   IF @ = "flush" THEN "rename" ELSE "lastrename"]
      /\ UNCHANGED <<disk, current, entry, hold, cached, job, completed,
                     clearing, overtaken>>

StoredLatest(s) == entry[hold[s]].gen
Stored(s) == snap[s].gen
Rename(s) ==
  /\ spc[s] \in {"rename", "lastrename"}
  /\ dir' = WithBitmap(dir, snap[s].bits)
  /\ entry' = IF dir.state = "absent" THEN entry
              ELSE [entry EXCEPT ![hold[s]].pgen = Stored(s)]
  /\ spc' = [spc EXCEPT ![s] = IF @ = "rename" THEN "fetch" ELSE "drop"]
  /\ snap' = [snap EXCEPT ![s] = NoSnap]
  /\ UNCHANGED <<data, current, hold, cached, job, completed, clearing,
                 overtaken>>

\* The Arc goes; with the last one the entry is dropped.
Drop(s) ==
  LET e == hold[s]
      last == e # current /\ \A t \in Streams \ {s} : hold[t] # e
  IN  /\ spc[s] = "drop"
      /\ hold' = [hold EXCEPT ![s] = 0]
      /\ spc' = [spc EXCEPT ![s] = "idle"]
      /\ dir' = IF last THEN AfterDrop(e) ELSE dir
      /\ entry' = IF last THEN [entry EXCEPT ![e] = NoEntry] ELSE entry
      /\ UNCHANGED <<data, current, cached, job, completed, snap, clearing,
                     overtaken>>

(***************************************************************************)
(* CacheStore::clear, clear_datasource and clear_all, and the process.     *)
(***************************************************************************)
ClearEntry ==
  /\ ~clearing /\ ~Opening
  /\ clearing' = TRUE
  /\ current' = 0
  /\ LET last == current # 0 /\ ~Held(current)
     IN  /\ dir' = IF last THEN AfterDrop(current) ELSE dir
         /\ entry' = IF last THEN [entry EXCEPT ![current] = NoEntry]
                     ELSE entry
  /\ overtaken' = (overtaken \/ \E s \in Streams : hold[s] # 0)
  /\ UNCHANGED <<data, stream>>

ClearDirectory ==
  /\ clearing
  /\ clearing' = FALSE
  /\ dir' = Absent
  /\ overtaken' = (overtaken \/ InUse)
  /\ UNCHANGED <<data, current, entry, stream>>

\* The process dies at any point; the files stay.
Crash ==
  /\ current' = 0
  /\ entry' = [e \in EntryIds |-> NoEntry]
  /\ hold' = [s \in Streams |-> 0]
  /\ spc' = [s \in Streams |-> "idle"]
  /\ cached' = [s \in Streams |-> {}]
  /\ job' = [s \in Streams |-> {}]
  /\ completed' = [s \in Streams |-> {}]
  /\ snap' = [s \in Streams |-> NoSnap]
  /\ clearing' = FALSE
  /\ UNCHANGED <<disk, overtaken>>

Init ==
  /\ dir = Absent /\ data = [i \in Inodes |-> {}]
  /\ current = 0 /\ entry = [e \in EntryIds |-> NoEntry]
  /\ hold = [s \in Streams |-> 0] /\ spc = [s \in Streams |-> "idle"]
  /\ cached = [s \in Streams |-> {}] /\ job = [s \in Streams |-> {}]
  /\ completed = [s \in Streams |-> {}] /\ snap = [s \in Streams |-> NoSnap]
  /\ clearing = FALSE /\ overtaken = FALSE

Stream(s) ==
  \/ OpenHit(s) \/ OpenMiss(s) \/ OpenCreate(s) \/ OpenLoad(s)
  \/ BeginFetch(s) \/ WriteData(s) \/ Mark(s) \/ SetBits(s)
  \/ SkipFlush(s) \/ Leave(s) \/ Snapshot(s) \/ Rename(s)
  \/ Drop(s)

Next == (\E s \in Streams : Stream(s)) \/ ClearEntry \/ ClearDirectory \/ Crash

Spec == Init /\ [][Next]_vars
-----------------------------------------------------------------------------
TypeOK ==
  LET Units == UNION {1..size : size \in Sizes}
      Bits == SUBSET {Block(u) : u \in Units}
  IN  /\ dir \in [state : {"absent", "half", "ready"}, size : Sizes \cup {0},
                  bits : Bits, inode : Inodes \cup {0}]
      /\ data \in [Inodes -> SUBSET Units]
      /\ current \in EntryIds \cup {0}
      /\ DOMAIN entry = EntryIds
      /\ \A e \in EntryIds :
           entry[e] \in [size : Sizes \cup {0}, inode : Inodes \cup {0},
                         bits : Bits, part : SUBSET Units, gen : Nat,
                         pgen : Nat, bytes : 0..Cardinality(Units)]
      /\ \A e \in EntryIds : /\ entry[e].pgen <= entry[e].gen
                             /\ entry[e].gen <= Cardinality(entry[e].bits)
      /\ hold \in [Streams -> EntryIds \cup {0}]
      /\ spc \in [Streams -> {"idle", "create", "load", "ready", "fetch",
                              "mark", "set", "flush", "rename", "last",
                              "lastrename", "drop"}]
      /\ cached \in [Streams -> Bits] /\ job \in [Streams -> SUBSET Units]
      /\ completed \in [Streams -> Bits]
      /\ snap \in [Streams -> [bits : Bits, gen : Nat]]
      /\ clearing \in BOOLEAN /\ overtaken \in BOOLEAN

\* A block is a hit, in memory or after a restart, only if all its bytes are
\* in the file behind it.
Real(blocks, size, inode) ==
  \A b \in blocks : UnitsOf(b, size) \subseteq data[inode]
DiskIsReal == dir.state = "ready" => Real(dir.bits, dir.size, dir.inode)
MemoryIsReal ==
  \A e \in Live : Real(entry[e].bits, entry[e].size, entry[e].inode)

\* It holds at any interleaving of writers and flushes and across crashes,
\* until a directory is removed under an entry still in use.
HitsAreReal == ~overtaken => DiskIsReal /\ MemoryIsReal

\* SettingsPage.tsx: "only a block that has really been covered whole is
\* marked as a hit".  Stated of the bitmap a restart would read.
OnlyCoveredBlocksHit == DiskIsReal

\* bytes_cached, which decides whether a file is completely cached, counts
\* every block once, however many writers completed it.
BytesMatchBits ==
  \A e \in Live : entry[e].bytes = Bytes(entry[e].bits, entry[e].size)

\* No block whose pieces have all been recorded stays unmarked: it is marked,
\* or some write is on its way to mark it.
NoBlockForgotten ==
  \A e \in Live : \A b \in BlocksOf(entry[e].size) :
    Full(b, e, entry[e].part) =>
      \E s \in Streams : hold[s] = e /\ spc[s] = "set" /\ b \in completed[s]

\* The counters and the marks of an entry are those of the blocks it holds.
BlocksCounted == TypeOK /\ BytesMatchBits /\ NoBlockForgotten

\* When the last stream has left, what it cached survives a restart; and an
\* entry that believes its bitmap to be on disk is right.
Durable ==
  ~overtaken /\ ~clearing /\ current # 0 /\ (Clean(current) \/ ~Held(current))
    => dir.bits = entry[current].bits

\* A bitmap on disk never loses a block to an older snapshot.
NeverRolledBack ==
  [][~overtaken' /\ dir.state = "ready" /\ dir'.inode = dir.inode
       => dir.bits \subseteq dir'.bits]_vars
=============================================================================
