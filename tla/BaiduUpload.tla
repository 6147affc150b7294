---------------------------- MODULE BaiduUpload ----------------------------
(***************************************************************************)
(* put_sized of baidupan.rs: a volume that is written to a local file, cut *)
(* into blocks, announced (precreate), sent block by block under the       *)
(* account's slots (superfile2) and put together (create), with retries of *)
(* each block and of the whole volume.  Every upload has an adapter of its *)
(* own, a name nobody else uses, and may be dropped by its caller.         *)
(*                                                                         *)
(* Sizes count in slices of an ordinary account.  A permit is taken from   *)
(* the semaphore of the adapter that made it: 'sem' names that upload.     *)
(***************************************************************************)
EXTENDS Integers, FiniteSets, FiniteSetsExt

CONSTANTS Uploads,
          Nil,
          Size,        \* of each upload
          MaxSize,     \* bound: sizes
          Threads,     \* uploadThreads of the data source of each upload
          VipSlice,    \* the slice the account is entitled to
          MaxBlocks,   \* MAX_UPLOAD_BLOCKS
          MaxTries     \* attempts at a block, and at a volume

ASSUME UploadsAssumption ==
  /\ IsFiniteSet(Uploads) /\ Nil \notin Uploads /\ MaxSize \in Nat /\ VipSlice \in Nat \ {0}
  /\ MaxTries \in Nat \ {0}
  /\ \A u \in Uploads : Size[u] \in 0..MaxSize /\ Threads[u] \in Nat \ {0}

VARIABLES
  pc,        \* where each upload is
  vip,       \* VIP_TYPES: the slice of the account, when it is known
  slice,     \* the slice of each upload
  current,   \* UPLOAD_SLOTS: the upload that made the account's semaphore
  sem,       \* the upload that made the semaphore this one uses
  free,      \* free permits of the semaphore an upload made
  volume,    \* attempt at the volume
  block,     \* state of each block
  tries,     \* attempts at each block
  renewed,   \* the block has had its token refreshed
  confirmed, \* bytes of this attempt the provider confirmed
  reported,  \* bytes the caller was told of
  held,      \* at the provider: blocks it has for the current uploadid
  object     \* at the provider: the volume is there

upVars == <<pc, vip, slice, current, sem, free, volume, block, tries, renewed,
            confirmed, reported, held, object>>

Final == {"ok", "error", "dropped"}
Parts == 0..(MaxSize - 1)

Ceil(a, b) == (a + b - 1) \div b
BlocksOf(u) == 0..(Ceil(Size[u], slice[u]) - 1)
BlockLen(u, p) == Min({Size[u] - p * slice[u], slice[u]})
BlockBytes(u, p) == (p * slice[u]) .. (p * slice[u] + BlockLen(u, p) - 1)
Bytes(u, ps) == Cardinality(UNION {BlockBytes(u, p) : p \in ps})
Busy(u) == {p \in Parts : block[u][p] \in {"want", "sent"}}
Sent(u) == {p \in Parts : block[u][p] = "sent"}

\* The high-water mark of upload_sized: what was reported once is not reported again.
Report(u, bytes) == reported' = [reported EXCEPT ![u] = Max({@, bytes})]

(***************************************************************************)
(* The adapter, the slice size and the spool file.                         *)
(***************************************************************************)
\* upload_slots_for: another number of threads is another semaphore.
Open(u) ==
  /\ pc[u] = "new"
  /\ pc' = [pc EXCEPT ![u] = "vip"]
  /\ IF current # Nil /\ Threads[current] = Threads[u]
     THEN sem' = [sem EXCEPT ![u] = current] /\ UNCHANGED <<current, free>>
     ELSE /\ sem' = [sem EXCEPT ![u] = u] /\ current' = u
          /\ free' = [free EXCEPT ![u] = Threads[u]]
  /\ UNCHANGED <<vip, slice, volume, block, tries, renewed, confirmed, reported, held, object>>

\* vip_type: an account whose query fails has the ordinary slice, for this time.
LearnVip(u) ==
  /\ pc[u] = "vip"
  /\ pc' = [pc EXCEPT ![u] = "spool"]
  /\ \/ vip # Nil /\ slice' = [slice EXCEPT ![u] = vip] /\ UNCHANGED vip
     \/ vip = Nil /\ slice' = [slice EXCEPT ![u] = VipSlice] /\ vip' = VipSlice
     \/ vip = Nil /\ slice' = [slice EXCEPT ![u] = 1] /\ UNCHANGED vip
  /\ UNCHANGED <<current, sem, free, volume, block, tries, renewed, confirmed, reported, held, object>>

\* spool_upload: the body may end early, go on too long or fail.
Spool(u) ==
  /\ pc[u] = "spool"
  /\ \/ /\ Size[u] > 0 /\ Cardinality(BlocksOf(u)) <= MaxBlocks
        /\ pc' = [pc EXCEPT ![u] = "precreate"]
     \/ pc' = [pc EXCEPT ![u] = "error"]
  /\ UNCHANGED <<vip, slice, current, sem, free, volume, block, tries, renewed, confirmed, reported, held, object>>

(***************************************************************************)
(* One attempt at the volume.                                              *)
(***************************************************************************)
NoBlocks == [p \in Parts |-> "none"]
GiveBack(u, permits) == free' = [free EXCEPT ![sem[u]] = @ + permits]

\* What upload_spooled leaves behind when it ends: try_collect drops every block
\* that is still under way, its request and its permit with it.
Drop(u) == /\ block' = [block EXCEPT ![u] = NoBlocks]
           /\ tries' = [tries EXCEPT ![u] = [p \in Parts |-> 0]]
           /\ renewed' = [renewed EXCEPT ![u] = {}]
           /\ confirmed' = [confirmed EXCEPT ![u] = 0]

\* An error of the provider is worth another attempt, any other error is not.
Fail(u) == /\ Drop(u)
           /\ \/ volume[u] < MaxTries /\ pc' = [pc EXCEPT ![u] = "again"]
              \/ pc' = [pc EXCEPT ![u] = "error"]

Precreate(u) ==
  /\ pc[u] = "precreate"
  /\ \/ \* The provider has the content already.
        /\ object' = [object EXCEPT ![u] = TRUE]
        /\ Report(u, Size[u])
        /\ pc' = [pc EXCEPT ![u] = "ok"]
        /\ UNCHANGED <<block, tries, renewed, confirmed, held>>
     \/ \E missing \in SUBSET BlocksOf(u) :
          /\ held' = [held EXCEPT ![u] = BlocksOf(u) \ missing]
          /\ block' = [block EXCEPT ![u] = [p \in Parts |-> IF p \in missing THEN "todo" ELSE "none"]]
          /\ LET had == Size[u] - Bytes(u, missing)
             IN  confirmed' = [confirmed EXCEPT ![u] = had] /\ Report(u, had)
          /\ pc' = [pc EXCEPT ![u] = "locate"]
          /\ UNCHANGED <<tries, renewed, object>>
     \/ Fail(u) /\ UNCHANGED <<reported, held, object>>
  /\ UNCHANGED <<vip, slice, current, sem, free, volume>>

\* upload_url: the host the provider names, or else the configured one.
Locate(u) ==
  /\ pc[u] = "locate"
  /\ pc' = [pc EXCEPT ![u] = "send"]
  /\ UNCHANGED <<vip, slice, current, sem, free, volume, block, tries, renewed, confirmed, reported, held, object>>

\* buffer_unordered: the next block of the list, while fewer than Threads are under way.
Start(u) ==
  LET todo == {p \in Parts : block[u][p] = "todo"}
  IN  /\ pc[u] = "send" /\ todo # {} /\ Cardinality(Busy(u)) < Threads[u]
      /\ block' = [block EXCEPT ![u][Min(todo)] = "want"]
      /\ UNCHANGED <<pc, vip, slice, current, sem, free, volume, tries, renewed, confirmed, reported, held, object>>

Acquire(u, p) ==
  /\ block[u][p] = "want" /\ free[sem[u]] > 0
  /\ free' = [free EXCEPT ![sem[u]] = @ - 1]
  /\ block' = [block EXCEPT ![u][p] = "sent"]
  /\ tries' = [tries EXCEPT ![u][p] = @ + 1]
  /\ UNCHANGED <<pc, vip, slice, current, sem, volume, renewed, confirmed, reported, held, object>>

\* Mutant: one attempt too many.
TryOnceMore(u, p) == /\ tries[u][p] <= MaxTries
                     /\ block' = [block EXCEPT ![u][p] = "want"]
                     /\ GiveBack(u, 1)
                     /\ UNCHANGED <<pc, tries, confirmed>>
\* Attempts are used up by failures and by a refused token alike.
TryAgain(u, p) == /\ tries[u][p] < MaxTries
                  /\ block' = [block EXCEPT ![u][p] = "want"]
                  /\ GiveBack(u, 1)
                  /\ UNCHANGED <<pc, tries, confirmed>>
\* Mutant: only the block that failed returns its permit.
GiveUpBut(u) == Fail(u) /\ GiveBack(u, 1)
GiveUp(u) == Fail(u) /\ GiveBack(u, Cardinality(Sent(u)))

Stored(u, p) ==
  /\ block[u][p] = "sent"
  /\ held' = [held EXCEPT ![u] = @ \cup {p}]
  /\ block' = [block EXCEPT ![u][p] = "ok"]
  /\ GiveBack(u, 1)
  /\ LET sum == confirmed[u] + BlockLen(u, p)
     IN  confirmed' = [confirmed EXCEPT ![u] = sum] /\ Report(u, sum)
  /\ UNCHANGED <<pc, vip, slice, current, sem, volume, tries, renewed, object>>

\* Mutant: a block that used up its attempts counts as sent.
BlockPassed(u, p) ==
  /\ block[u][p] = "sent"
  /\ \/ TryAgain(u, p)
     \/ /\ tries[u][p] = MaxTries /\ block' = [block EXCEPT ![u][p] = "ok"] /\ GiveBack(u, 1)
        /\ UNCHANGED <<pc, tries, confirmed>>
  /\ UNCHANGED <<vip, slice, current, sem, volume, renewed, reported, held, object>>

\* No answer, or one of a server in trouble: the block may be there all the same.
BlockFails(u, p) ==
  /\ block[u][p] = "sent"
  /\ held' \in {held, [held EXCEPT ![u] = @ \cup {p}]}
  /\ \/ TryAgain(u, p) /\ UNCHANGED renewed
     \/ tries[u][p] = MaxTries /\ GiveUp(u)
  /\ UNCHANGED <<vip, slice, current, sem, volume, reported, object>>

\* The token is refused: once the block renews it; refused twice it is a refusal.
BlockRefused(u, p) ==
  /\ block[u][p] = "sent"
  /\ \/ p \notin renewed[u] /\ TryAgain(u, p) /\ renewed' = [renewed EXCEPT ![u] = @ \cup {p}]
     \/ GiveUp(u)
  /\ UNCHANGED <<vip, slice, current, sem, volume, reported, held, object>>

\* No token, or a block that cannot be read or was never announced: the block fails
\* before it asks for its first permit.
BlockUnasked(u, p) ==
  /\ block[u][p] = "want" /\ tries[u][p] = 0
  /\ GiveUp(u)
  /\ UNCHANGED <<vip, slice, current, sem, volume, reported, held, object>>

BlocksDone(u) ==
  /\ pc[u] = "send" /\ Busy(u) = {} /\ \A p \in Parts : block[u][p] # "todo"
  /\ pc' = [pc EXCEPT ![u] = "create"]
  /\ UNCHANGED <<vip, slice, current, sem, free, volume, block, tries, renewed, confirmed, reported, held, object>>

\* The provider makes the object of the blocks it has; its answer may be lost.
Create(u) ==
  /\ pc[u] = "create"
  /\ \/ /\ held[u] = BlocksOf(u) /\ object' = [object EXCEPT ![u] = TRUE]
        /\ pc' = [pc EXCEPT ![u] = "ok"]
        /\ UNCHANGED <<block, tries, renewed, confirmed>>
     \/ /\ Fail(u)
        /\ object' \in {object, [object EXCEPT ![u] = @ \/ held[u] = BlocksOf(u)]}
  /\ UNCHANGED <<vip, slice, current, sem, free, volume, reported, held>>

\* The pause of upload_sized, then everything anew from the spool file.
Again(u) ==
  /\ pc[u] = "again"
  /\ pc' = [pc EXCEPT ![u] = "precreate"]
  /\ volume' = [volume EXCEPT ![u] = @ + 1]
  /\ held' = [held EXCEPT ![u] = {}]
  /\ UNCHANGED <<vip, slice, current, sem, free, block, tries, renewed, confirmed, reported, object>>

\* The caller drops the future: the temporary file goes, and permits with the requests.
Leave(u) ==
  /\ pc[u] \notin Final \cup {"new"}
  /\ pc' = [pc EXCEPT ![u] = "dropped"]
  /\ Drop(u) /\ GiveBack(u, Cardinality(Sent(u)))
  /\ UNCHANGED <<vip, slice, current, sem, volume, reported, held, object>>

UploadInit ==
  /\ pc = [u \in Uploads |-> "new"] /\ vip = Nil /\ slice = [u \in Uploads |-> 1]
  /\ current = Nil /\ sem = [u \in Uploads |-> u] /\ free = [u \in Uploads |-> 0]
  /\ volume = [u \in Uploads |-> 1]
  /\ block = [u \in Uploads |-> NoBlocks] /\ tries = [u \in Uploads |-> [p \in Parts |-> 0]]
  /\ renewed = [u \in Uploads |-> {}] /\ confirmed = [u \in Uploads |-> 0]
  /\ reported = [u \in Uploads |-> 0] /\ held = [u \in Uploads |-> {}]
  /\ object = [u \in Uploads |-> FALSE]

UploadStep(u) ==
  \/ Open(u) \/ LearnVip(u) \/ Spool(u) \/ Precreate(u) \/ Locate(u) \/ Start(u)
  \/ BlocksDone(u) \/ Create(u) \/ Again(u) \/ Leave(u)
  \/ \E p \in Parts : \/ Acquire(u, p) \/ Stored(u, p)
                      \/ BlockFails(u, p) \/ BlockRefused(u, p) \/ BlockUnasked(u, p)

UploadNext == \E u \in Uploads : UploadStep(u)
UploadSpec == UploadInit /\ [][UploadNext]_upVars
AllEnded == \A u \in Uploads : pc[u] \in Final

UploadTypeOK ==
  /\ pc \in [Uploads -> {"new", "vip", "spool", "precreate", "locate", "send", "create", "again"} \cup Final]
  /\ vip \in {Nil, VipSlice} /\ slice \in [Uploads -> {1, VipSlice}]
  /\ current \in Uploads \cup {Nil} /\ sem \in [Uploads -> Uploads]
  /\ \A u \in Uploads : free[u] \in 0..Threads[u]
  /\ volume \in [Uploads -> 1..MaxTries]
  /\ block \in [Uploads -> [Parts -> {"none", "todo", "want", "sent", "ok"}]]
  /\ tries \in [Uploads -> [Parts -> 0..MaxTries]] /\ renewed \in [Uploads -> SUBSET Parts]
  /\ confirmed \in [Uploads -> 0..MaxSize] /\ reported \in [Uploads -> 0..MaxSize]
  /\ held \in [Uploads -> SUBSET Parts] /\ object \in [Uploads -> BOOLEAN]

\* put_sized answers Ok only for an object that is whole at the provider, and only
\* asks for one (create) when the provider has every block of this very attempt,
\* whatever was retried, lost or refused before (upload_spooled).  The progress shown
\* never counts a byte twice, however often blocks and volumes are sent again, and is
\* complete with the Ok (upload_sized, the high-water mark).
OkIsStored ==
  \A u \in Uploads :
    /\ pc[u] = "ok" => object[u] /\ reported[u] = Size[u]
    /\ pc[u] = "create" => held[u] = BlocksOf(u)
    /\ reported[u] <= Size[u]

\* The requests behind the permits of a semaphore.
InUse(s) == {x \in Uploads \X Parts : sem[x[1]] = s /\ block[x[1]][x[2]] = "sent"}

\* Every permit of the account is free again or behind a request under way: no
\* failure, retry or dropped upload keeps one (upload_block, UPLOAD_SLOTS).
PermitsComeBack ==
  \A s \in Uploads :
    LET made == sem[s] = s /\ pc[s] # "new"
    IN  free[s] + Cardinality(InUse(s)) = IF made THEN Threads[s] ELSE 0

\* Adapters of one account share one quota (the comment at UPLOAD_SLOTS): never more
\* requests than the larger of the settings.
AccountQuota ==
  FoldSet(LAMBDA u, sum : sum + Cardinality(Sent(u)), 0, Uploads)
    <= Max({Threads[u] : u \in Uploads})
=============================================================================
