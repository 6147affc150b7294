------------------------------ MODULE FetchChunk ------------------------------
(***************************************************************************)
(* fetch_chunk (engine.rs): one planned chunk of a range request.  Runs of *)
(* cached blocks are read from the cache, the gaps between them from the   *)
(* storage, each gap in at most four attempts that resume where the last   *)
(* one stopped; the bytes are decrypted with the keystream at their merged *)
(* offset, batched into output items, and gathered into cache writes.      *)
(* A byte is the object offset it was read from.                           *)
(***************************************************************************)
EXTENDS RangePlan

CONSTANTS
  Layouts,      \* data sizes of the volumes of a file
  Headers,      \* Range headers
  Splits,       \* max_split
  HeaderLens,   \* disguise.header_len()
  CacheBlock,   \* cache::BLOCK_SIZE
  OutputBatch, CacheReadBatch, CacheWriteBatch,
  Attempts      \* the 4 in segment_attempts < 4

\* Lengths and offsets are numbers, and no batch is empty; the settings keep max_split
\* above zero.
ASSUME FetchAssumption ==
  /\ Layouts \subseteq Seq(Nat)
  /\ \A h \in Headers :
       /\ h.form \in {"none", "closed", "from", "suffix"}
       /\ h.form \in {"closed", "from"} => h.a \in Nat
       /\ h.form \in {"closed", "suffix"} => h.b \in Nat
  /\ Splits \subseteq Nat \ {0} /\ HeaderLens \subseteq Nat
  /\ CacheBlock \in Nat \ {0} /\ OutputBatch \in Nat \ {0}
  /\ CacheReadBatch \in Nat \ {0} /\ CacheWriteBatch \in Nat \ {0} /\ Attempts \in Nat

VARIABLES
  req,          \* the request: layout, bounds, mode, header length, chunk
  cached,       \* merged offsets the cache reported for the chunk
  pc,
  pos,          \* merged offset of the next byte to produce
  seg,          \* segment in hand: its end and whether it is cached
  attempts,     \* segment_attempts
  obj,          \* object offset the open range stream yields next
  batch,        \* output_batch: bytes decrypted and not yet sent
  keystream,    \* position of the cipher
  out,          \* bytes sent into the chunk's channel
  gather,       \* cache_batch and its start
  writes,       \* bytes enqueued for the cache: merged offset and byte
  closed,       \* the channel's receiver is gone
  result        \* "open", then "ok" or "failed"

reading == <<pos, seg, attempts, obj>>
writing == <<batch, keystream, out>>
caching == <<gather, writes>>
vars == <<req, cached, pc, reading, writing, caching, closed, result>>

chunk == req.plan[req.index]
ChunkEndAt == chunk.merged_start + chunk.len - 1
Remaining == seg.end - pos + 1

\* The bytes n of the object from offset o on, and what they become.
Bytes(o, n) == [i \in 1..n |-> o + i - 1]
Decrypted(bytes) ==
  [i \in DOMAIN bytes |-> [byte |-> bytes[i], key |-> keystream + i - 1]]
ObjectOffset(m) ==
  req.header + chunk.vol_off + (m - chunk.merged_start)

\* flush_output_batch: whole batches, and the rest too when forced.
Whole(s, force) ==
  IF force THEN Len(s) ELSE (Len(s) \div OutputBatch) * OutputBatch

(***************************************************************************)
(* append_output: decrypt, batch, send.  A send on a closed channel ends   *)
(* the fetch.                                                              *)
(***************************************************************************)
Append1(bytes, then) ==
  LET full == batch \o Decrypted(bytes)
      n == Whole(full, FALSE)
  IN  /\ keystream' = keystream + Len(bytes)
      /\ IF n > 0 /\ closed
         THEN /\ result' = "failed" /\ pc' = "done"
              /\ UNCHANGED <<batch, out>>
         ELSE /\ out' = out \o SubSeq(full, 1, n)
              /\ batch' = SubSeq(full, n + 1, Len(full))
              /\ pc' = then /\ UNCHANGED result

\* split_cache_segments: the longest run from p of offsets that are all
\* cached or all not.
SegmentFrom(p) ==
  LET like == {e \in p..ChunkEndAt :
                 \A m \in p..e : (m \in cached) = (p \in cached)}
  IN  [end |-> CHOOSE e \in like : \A d \in like : d <= e,
       cached |-> p \in cached]

NextSegment ==
  /\ pc = "segment"
  /\ IF pos > ChunkEndAt
     THEN pc' = "finish" /\ UNCHANGED seg
     ELSE /\ seg' = SegmentFrom(pos)
          /\ pc' = IF pos \in cached THEN "cacheread" ELSE "request"
  /\ attempts' = 0
  /\ UNCHANGED <<req, cached, pos, obj, writing, caching, closed, result>>

(***************************************************************************)
(* A cached segment: read in batches; a failed read sends the rest of the  *)
(* segment to the storage.                                                 *)
(***************************************************************************)
CacheRead ==
  /\ pc = "cacheread"
  /\ LET n == Smaller(CacheReadBatch, Remaining)
     IN  /\ Append1(Bytes(ObjectOffset(pos), n),
                    IF n = Remaining THEN "segment" ELSE "cacheread")
         /\ pos' = pos + n
  /\ UNCHANGED <<req, cached, seg, attempts, obj, caching, closed>>

CacheReadFails ==
  /\ pc = "cacheread"
  /\ pc' = "request"
  /\ UNCHANGED <<req, cached, reading, writing, caching, closed, result>>

(***************************************************************************)
(* A gap: Range requests to the storage.                                   *)
(***************************************************************************)
MayTry == attempts < Attempts
CountAttempt == attempts' = attempts + 1

\* range_start of the next attempt: behind what has been delivered.
RestartAtSegment == req.header + chunk.vol_off
RangeStart == ObjectOffset(pos)

Request ==
  /\ pc = "request" /\ MayTry
  /\ CountAttempt
  /\ obj' = RangeStart
  /\ pc' = "body"
  /\ UNCHANGED <<req, cached, pos, seg, writing, caching, closed, result>>

\* An error or the first-byte timeout: nothing to flush.
RequestFails ==
  /\ pc = "request" /\ MayTry
  /\ CountAttempt
  /\ UNCHANGED <<req, cached, pc, pos, seg, obj, writing, caching, closed,
                 result>>

\* cache_batch: its start is taken when it is empty; full batches go out.
Gather(bytes) ==
  [start |-> IF gather.bytes = <<>> THEN pos ELSE gather.start,
   bytes |-> gather.bytes \o bytes]
Writes(g) == {[at |-> g.start + i - 1, byte |-> g.bytes[i]] :
                i \in DOMAIN g.bytes}
Empty(g) == [g EXCEPT !.bytes = <<>>]

\* The upstream may send more than was asked for.
Take(n) == Smaller(n, Remaining)

BodyItem(n) ==
  /\ pc = "body"
  /\ LET bytes == Bytes(obj, Take(n))
         g == Gather(bytes)
     IN  /\ IF Len(g.bytes) >= CacheWriteBatch
            THEN gather' = Empty(g) /\ writes' = writes \cup Writes(g)
            ELSE gather' = g /\ UNCHANGED writes
         /\ Append1(bytes, IF Take(n) = Remaining THEN "attempted" ELSE "body")
         /\ pos' = pos + Take(n)
         /\ obj' = obj + n
  /\ UNCHANGED <<req, cached, seg, attempts, closed>>

\* End of stream, an error in it, or the idle timeout.
BodyEnds ==
  /\ pc = "body"
  /\ pc' = "attempted"
  /\ UNCHANGED <<req, cached, reading, writing, caching, closed, result>>

\* What was gathered goes to the cache; if bytes are missing the output batch
\* is sent as it is before the next attempt.
AfterAttempt ==
  /\ pc = "attempted"
  /\ gather' = Empty(gather) /\ writes' = writes \cup Writes(gather)
  /\ IF Remaining = 0
     THEN pc' = "segment" /\ UNCHANGED <<writing, result>>
     ELSE /\ UNCHANGED keystream
          /\ IF batch # <<>> /\ closed
             THEN /\ result' = "failed" /\ pc' = "done"
                  /\ UNCHANGED <<batch, out>>
             ELSE /\ out' = out \o batch /\ batch' = <<>>
                  /\ pc' = "request" /\ UNCHANGED result
  /\ UNCHANGED <<req, cached, reading, closed>>

\* Bytes still missing after the last attempt: Err into the channel.
GiveUp ==
  /\ pc = "request" /\ ~MayTry
  /\ result' = "failed" /\ pc' = "done"
  /\ UNCHANGED <<req, cached, reading, writing, caching, closed>>

\* The last, partial batch.
Finish ==
  /\ pc = "finish"
  /\ IF batch # <<>> /\ closed
     THEN result' = "failed" /\ UNCHANGED <<batch, out>>
     ELSE result' = "ok" /\ out' = out \o batch /\ batch' = <<>>
  /\ pc' = "done"
  /\ UNCHANGED <<req, cached, reading, keystream, caching, closed>>

\* The serializer drops the receivers.
Close ==
  /\ ~closed /\ result = "open"
  /\ closed' = TRUE
  /\ UNCHANGED <<req, cached, pc, reading, writing, caching, result>>

Done == pc = "done" /\ UNCHANGED vars

Init ==
  /\ \E sizes \in Layouts, h \in Headers, split \in Splits,
        header \in HeaderLens, mode \in {"playback", "bulk"} :
       LET r == ParseRange(h, Total(sizes))
           b == Bounds(r, Total(sizes))
           plan == PlanChunks(sizes, b.start, b.end, split, mode, r.open)
       IN  /\ r.spec # "unsatisfiable"
           /\ \E i \in DOMAIN plan :
                req = [sizes |-> sizes, asked |-> h, header |-> header,
                       split |-> split, plan |-> plan, index |-> i]
  /\ \E blocks \in SUBSET (0..(Total(req.sizes) \div CacheBlock)) :
       cached = {m \in chunk.merged_start..ChunkEndAt :
                   m \div CacheBlock \in blocks}
  /\ pc = "segment" /\ pos = chunk.merged_start
  /\ seg = [end |-> 0, cached |-> FALSE] /\ attempts = 0 /\ obj = 0
  /\ batch = <<>> /\ keystream = chunk.merged_start /\ out = <<>>
  /\ gather = [start |-> 0, bytes |-> <<>>] /\ writes = {}
  /\ closed = FALSE /\ result = "open"

Fetch ==
  \/ NextSegment \/ CacheRead \/ CacheReadFails \/ Request \/ RequestFails
  \/ (\E n \in 1..(chunk.len + 1) : BodyItem(n))
  \/ BodyEnds \/ AfterAttempt \/ GiveUp \/ Finish

Next == Fetch \/ Close \/ Done

Spec == Init /\ [][Next]_vars
-----------------------------------------------------------------------------
TypeOK ==
  /\ req.index \in DOMAIN req.plan
  /\ cached \subseteq chunk.merged_start..ChunkEndAt
  /\ pc \in {"segment", "cacheread", "request", "body", "attempted", "finish",
             "done"}
  /\ pos \in chunk.merged_start..(ChunkEndAt + 1)
  /\ seg.end \in 0..ChunkEndAt /\ seg.cached \in BOOLEAN
  /\ attempts \in 0..Attempts
  /\ obj \in Nat
  /\ Len(batch) < OutputBatch
  /\ keystream \in Nat
  /\ Len(out) <= chunk.len
  /\ closed \in BOOLEAN
  /\ result \in {"open", "ok", "failed"}

\* The plan asks for exactly the bytes the Range header asks for, each chunk
\* inside one volume and not larger than the split.
PlanIsExact ==
  LET p == req.plan
      span(i) == p[i].merged_start..(p[i].merged_start + p[i].len - 1)
  IN  /\ UNION {span(i) : i \in DOMAIN p} = Requested(req.asked, Total(req.sizes))
      /\ \A i \in DOMAIN p :
           /\ p[i].len <= req.split
           /\ \A m \in span(i) :
                Home(req.sizes, m) = [vol |-> p[i].vol,
                       off |-> p[i].vol_off + m - p[i].merged_start]
      /\ \A i \in 1..(Len(p) - 1) :
           p[i + 1].merged_start = p[i].merged_start + p[i].len

\* The k-th byte delivered is the chunk's k-th byte, read from its place
\* behind the object's header and decrypted with its own keystream offset,
\* whatever mixture of cache hits, retries and short or long answers it took.
RightByte(m) ==
  [byte |-> req.header + Home(req.sizes, m).off, key |-> m]
DeliveredExactly ==
  /\ \A k \in DOMAIN out : out[k] = RightByte(chunk.merged_start + k - 1)
  /\ result = "ok" => Len(out) = chunk.len

\* Ciphertext goes into the cache at the offset it belongs to, and never the
\* disguise header or what lies past the requested segment.
CachedExactly ==
  \A w \in writes :
    /\ w.at \in chunk.merged_start..ChunkEndAt
    /\ w.byte = req.header + Home(req.sizes, w.at).off

\* Both, for every byte that has left the fetch: a retry resumes behind the last
\* byte decrypted, a write batch starts where its first byte belongs.
BytesExact == DeliveredExactly /\ CachedExactly
=============================================================================
