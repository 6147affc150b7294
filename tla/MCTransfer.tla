----------------------------- MODULE MCTransfer -----------------------------
(***************************************************************************)
(* The three ways bytes are carried: a chunk of a download is fetched, a   *)
(* file is uploaded, files are copied.  A behaviour is about one of them;  *)
(* of a fetch the others only see one that has not begun.                  *)
(***************************************************************************)
EXTENDS FetchChunk

CONSTANTS Files, MaxItem, MaxPending, Configs, MaxFiles, MaxVolumes, Idle

\* MAX_PENDING_UPLOADS is not zero.
ASSUME TransferAssumption ==
  /\ Files \subseteq [total : Nat, split : BOOLEAN, max : Nat, random : BOOLEAN, header : Nat]
  /\ MaxItem \in Nat /\ MaxPending \in Nat \ {0}
  /\ MaxFiles \in Nat /\ MaxVolumes \in Nat

VARIABLES
  kind,
  file, folder, objects, stored, vol, sent, received, item, current,
  chan, eof, put, pending, upPc, upResult,
  task, dest, entries, gone, nth, volume, copyPc, copyResult, fault

U == INSTANCE UploadPipeline WITH pc <- upPc, result <- upResult
C == INSTANCE CopyMove
       WITH cached <- entries, i <- nth, k <- volume, pc <- copyPc, result <- copyResult

upVars == <<file, folder, objects, stored, vol, sent, received, item, current,
            chan, eof, put, pending, upPc, upResult>>
copyVars == <<task, dest, entries, gone, nth, volume, copyPc, copyResult, fault>>
all == <<kind, vars, upVars, copyVars>>

UploadIdle ==
  /\ file = Idle /\ folder = Idle /\ objects = Idle /\ stored = Idle /\ vol = Idle
  /\ sent = Idle /\ received = Idle /\ item = Idle /\ current = Idle /\ chan = Idle
  /\ eof = Idle /\ put = Idle /\ pending = Idle /\ upPc = Idle /\ upResult = Idle
CopyIdle ==
  /\ task = Idle /\ dest = Idle /\ entries = Idle /\ gone = Idle /\ nth = Idle
  /\ volume = Idle /\ copyPc = Idle /\ copyResult = Idle /\ fault = Idle
FetchIdle == /\ req.sizes = <<4>> /\ req.asked.form = "none" /\ req.header = 0
             /\ req.split = 3 /\ req.index = 1 /\ Len(req.plan) = 2 /\ cached = {}

MCInit ==
  /\ kind \in {"fetch", "upload", "copy"}
  /\ Init /\ (kind # "fetch" => FetchIdle)
  /\ IF kind = "upload" THEN U!Init ELSE UploadIdle
  /\ IF kind = "copy" THEN C!Init ELSE CopyIdle

Fetches == kind = "fetch" /\ Next /\ UNCHANGED <<kind, upVars, copyVars>>
Uploads == kind = "upload" /\ U!Next /\ UNCHANGED <<kind, vars, copyVars>>
Copies == kind = "copy" /\ C!Next /\ UNCHANGED <<kind, vars, upVars>>
MCNext == Fetches \/ Uploads \/ Copies

\* A fetch awaits nothing but what is under a timeout, or channels that are drained or
\* closed.  An upload is driven by its request, whose body goes on or breaks; a storage
\* answers a put whose stream has ended.
MCSpec ==
  /\ MCInit /\ [][MCNext]_all
  /\ WF_all(kind = "fetch" /\ Fetch /\ UNCHANGED <<kind, upVars, copyVars>>)
  /\ WF_all(kind = "upload" /\ U!Upload /\ UNCHANGED <<kind, vars, copyVars>>)
  /\ WF_all(kind = "upload" /\ U!SomePutCommits /\ UNCHANGED <<kind, vars, copyVars>>)

\* The plan of a download covers the range asked for, that of an upload the file.
PlansExact == IF kind = "upload" THEN U!TypeOK /\ U!PlanFits ELSE TypeOK /\ PlanIsExact
\* An envelope that passes the reader's check holds the whole file.
WholeOrNothing == kind = "upload" => U!WholeOrNothing
\* A reply is given only when no put is left running.
PutsAwaited == kind = "upload" => U!PutsAwaited
\* A copy that reports success, and a move that deletes, have every file whole but those
\* for whose volumes the destination has too few names.
NothingLost == kind = "copy" => C!TypeOK /\ C!NothingLost
\* Without overwrite what is at a destination stays.
KeepsExisting == [][kind = "copy" => C!Keeps]_all
\* Every fetch and every upload ends.
TransfersEnd ==
  <>(/\ kind = "fetch" => result # "open"
     /\ kind = "upload" => U!Over)

\* copy.rs of plan_source: better an error than half a file copied.
NeverHalfAFile == kind = "copy" => C!NeverHalfAFile

\* One volume; two with an empty one between; volumes smaller than a split.
SmallLayouts == {<<4>>, <<2, 0, 3>>}

SmallHeaders ==
  {[form |-> "none"], [form |-> "closed", a |-> 1, b |-> 3],
   [form |-> "closed", a |-> 2, b |-> 9], [form |-> "from", a |-> 1],
   [form |-> "suffix", b |-> 3], [form |-> "closed", a |-> 3, b |-> 2],
   [form |-> "suffix", b |-> 9]}

\* Files that are empty, whole, cut evenly, cut at random, and cut under a header.
MCFiles ==
  {[total |-> t, split |-> TRUE, max |-> 2, random |-> r, header |-> h] :
     t \in {0, 3, 4}, r \in BOOLEAN, h \in {0, 1}}
  \cup {[total |-> 3, split |-> FALSE, max |-> 2, random |-> FALSE, header |-> 1],
        [total |-> 4, split |-> TRUE, max |-> 3, random |-> TRUE, header |-> 0],
        [total |-> 3, split |-> TRUE, max |-> 1, random |-> FALSE, header |-> 2]}

\* Data sources: plain, volumes only, encrypted in volumes, encrypted, disguised in
\* volumes, disguised.  Disguise beside encryption would add no pair that goes another way.
Switches(e, s, d) == [enc |-> e, split |-> s, disguise |-> d]
MCConfigs ==
  {Switches(FALSE, FALSE, FALSE), Switches(FALSE, TRUE, FALSE),
   Switches(TRUE, TRUE, FALSE), Switches(TRUE, FALSE, FALSE),
   Switches(FALSE, TRUE, TRUE), Switches(FALSE, FALSE, TRUE)}
=============================================================================
