------------------------------ MODULE CopyMove ------------------------------
(***************************************************************************)
(* Copying a file or a directory to another data source, and the WebDAV    *)
(* MOVE built on it (routes/copy.rs, move_copy in routes/webdav.rs).       *)
(* Files go one after the other.  Where both sides agree on encryption and *)
(* disguise the volumes are carried over as they are; otherwise the file   *)
(* is streamed and uploaded anew (FetchChunk, UploadPipeline: one step     *)
(* here); foreign objects go by their literal names.  A storage call may   *)
(* fail; the body of an object ends whole or breaks with an error.         *)
(***************************************************************************)
EXTENDS Integers, Sequences

CONSTANTS
  Configs,      \* switches of a data source: encryption, volumes, disguise
  MaxFiles,     \* files in a directory
  MaxVolumes    \* volumes of a file

VARIABLES
  task,         \* from, to: configurations; dir, overwrite, move; files
  dest,         \* what is at each file's destination
  cached,       \* destinations with an entry in the path cache
  gone,         \* the source has been deleted, in part at least
  i,            \* file in hand
  k,            \* volume in hand
  pc,
  result,       \* "open", then "ok", "error" or "abandoned"
  fault         \* a call failed, or source or destination forbid the copy

vars == <<task, dest, cached, gone, i, k, pc, result, fault>>

Managed(c) == c.enc \/ c.split \/ c.disguise
\* The leaf template tells volumes apart: it has {e} just where there is encryption, {i}
\* in volumes without encryption, and neither for disguise alone (validate_format).
Indexed(c) == c.enc \/ c.split
File == task.files[i]
Raw == task.from.enc = task.to.enc /\ task.from.disguise = task.to.disguise

\* The volumes a listing finds: all of them, or those before the missing one.
Present(f) == IF f.missing THEN f.volumes - 1 ELSE f.volumes

Nothing == [kind |-> "none", vols |-> <<>>]
\* Under names that are all alike every object takes the place of the last.
Put(x) == [kind |-> "new",
           vols |-> IF Indexed(task.to) THEN Append(dest[i].vols, x) ELSE <<x>>]
\* An uploaded file is as whole as its source, however it is cut.
Complete == [kind |-> "new", vols |-> [v \in 1..File.volumes |-> "whole"]]
Whole(n) == /\ dest[n].kind = "new"
            /\ dest[n].vols = [v \in 1..task.files[n].volumes |-> "whole"]

Stop == pc' = "done" /\ result' = "error" /\ UNCHANGED <<i, k>>
Refuse == Stop /\ fault' = TRUE /\ UNCHANGED <<dest, cached, gone>>
To(p) == pc' = p /\ UNCHANGED <<i, k, result, fault>>
NextFile == pc' = "file" /\ i' = i + 1 /\ UNCHANGED <<k, result, fault>>

\* copy_node: a directory is made first and its children listed.
Begin ==
  /\ pc = "start"
  /\ \/ To("file") /\ UNCHANGED <<dest, cached, gone>>
     \/ task.dir /\ Refuse
  /\ UNCHANGED task

\* copy_node and copy_file: which way a file goes.
Choose ==
  /\ pc = "file" /\ i <= Len(task.files)
  /\ To(IF File.foreign THEN "fcheck" ELSE IF Raw THEN "plan" ELSE "open")
  /\ UNCHANGED <<task, dest, cached, gone>>

(***************************************************************************)
(* Volumes carried over as they are.                                       *)
(***************************************************************************)
\* plan_source: a file with a volume missing is refused.
PlanSource ==
  /\ pc = "plan"
  /\ \/ ~File.missing /\ To("remove") /\ UNCHANGED <<dest, cached, gone>>
     \/ Refuse
  /\ UNCHANGED task

\* remove_existing, and the like of it in upload_file.
Removes(p, forbidden) ==
  /\ \/ Refuse
     \/ dest[i].kind = "none" /\ To(p) /\ UNCHANGED <<dest, cached, gone>>
     \/ /\ dest[i].kind # "none" /\ ~forbidden
        /\ \/ /\ dest' = [dest EXCEPT ![i] = Nothing]
              /\ cached' = cached \ {i}
              /\ To(p) /\ UNCHANGED gone
           \/ /\ dest' = [dest EXCEPT ![i] = Nothing]
              /\ Stop /\ fault' = TRUE /\ UNCHANGED <<cached, gone>>
  /\ UNCHANGED task

RemoveAnything == pc = "remove" /\ Removes("dest", ~task.overwrite)
RemoveExisting ==
  pc = "remove" /\ Removes("dest", ~task.overwrite \/ dest[i].kind = "dir")

\* plan_dest: a managed destination needs the file's secret.
Container == [dest EXCEPT ![i] = [kind |-> "new", vols |-> <<>>]]
PlanDest ==
  /\ pc = "dest"
  /\ IF Managed(task.to) /\ ~Managed(task.from)
     THEN Stop /\ UNCHANGED <<dest, fault>>
     ELSE \/ /\ dest' = IF Managed(task.to) THEN Container ELSE dest
             /\ pc' = "volumes" /\ k' = 1 /\ UNCHANGED <<i, result, fault>>
          \/ /\ dest' \in IF Managed(task.to) THEN {dest, Container} ELSE {dest}
             /\ Stop /\ fault' = TRUE
  /\ UNCHANGED <<task, cached, gone>>

\* Source volumes are zipped with destination names: a plain one has one, a managed one
\* a name for each, which need not differ (leaf_names).
Zipped ==
  LET names == IF Managed(task.to) THEN Present(File) ELSE 1
  IN  IF names < Present(File) THEN names ELSE Present(File)

\* copy_object: by reference where the destination knows the content, else
\* by its bytes; a failed put may leave a part, or even all.
CopyVolume ==
  /\ pc = "volumes" /\ k <= Zipped
  /\ \/ /\ dest' = [dest EXCEPT ![i] = Put("whole")]
        /\ k' = k + 1 /\ UNCHANGED <<i, pc, result, fault>>
     \/ /\ dest' \in {dest} \cup {[dest EXCEPT ![i] = Put(x)] :
                                    x \in {"part", "whole"}}
        /\ pc' = "clean" /\ fault' = TRUE /\ UNCHANGED <<i, k, result>>
  /\ UNCHANGED <<task, cached, gone>>

VolumesCopied ==
  /\ pc = "volumes" /\ k > Zipped
  /\ cached' = IF Managed(task.to) THEN cached \cup {i} ELSE cached
  /\ NextFile /\ UNCHANGED <<task, dest, gone>>

CleanAndGoOn ==
  /\ pc = "clean"
  /\ dest' \in {dest, [dest EXCEPT ![i] = Nothing]}
  /\ cached' = cached \ {i}
  /\ NextFile /\ UNCHANGED <<task, gone>>

Clean ==
  /\ pc = "clean"
  /\ dest' \in {dest, [dest EXCEPT ![i] = Nothing]}
  /\ cached' = cached \ {i}
  /\ Stop /\ UNCHANGED <<task, gone, fault>>

(***************************************************************************)
(* Streamed and uploaded anew: stream_file refuses an incomplete file, and *)
(* upload_file takes the length it declares or fails and cleans up.        *)
(***************************************************************************)
OpenStream ==
  /\ pc = "open"
  /\ \/ ~File.missing /\ To("replace") /\ UNCHANGED <<dest, cached, gone>>
     \/ Refuse
  /\ UNCHANGED task

Replace == pc = "replace" /\ Removes("upload", ~task.overwrite \/ dest[i].kind = "dir")

Upload ==
  /\ pc = "upload"
  /\ \/ /\ dest' = [dest EXCEPT ![i] = Complete]
        /\ cached' = IF Managed(task.to) THEN cached \cup {i} ELSE cached
        /\ NextFile
     \/ /\ dest' \in {dest, [dest EXCEPT ![i] = Put("part")]}
        /\ Stop /\ fault' = TRUE /\ UNCHANGED cached
  /\ UNCHANGED <<task, gone>>

(***************************************************************************)
(* A foreign object: copy_foreign_node, which cleans nothing up.           *)
(***************************************************************************)
ForeignCheck == pc = "fcheck" /\ Removes("fcopy", ~task.overwrite)

ForeignCopy ==
  /\ pc = "fcopy"
  /\ \/ dest' = [dest EXCEPT ![i] = Put("whole")] /\ NextFile
     \/ /\ dest' \in {dest, [dest EXCEPT ![i] = Put("part")]}
        /\ Stop /\ fault' = TRUE
  /\ UNCHANGED <<task, cached, gone>>

(***************************************************************************)
(* The end: MOVE deletes the source once everything has been copied.       *)
(***************************************************************************)
Finish ==
  /\ pc = "file" /\ i > Len(task.files) /\ ~task.move
  /\ pc' = "done" /\ result' = "ok"
  /\ UNCHANGED <<task, dest, cached, gone, i, k, fault>>

DeleteSource ==
  /\ pc = "file" /\ i > Len(task.files) /\ task.move
  /\ pc' = "done"
  /\ \/ gone' = TRUE /\ result' = "ok" /\ UNCHANGED fault
     \/ gone' \in BOOLEAN /\ result' = "error" /\ fault' = TRUE
  /\ UNCHANGED <<task, dest, cached, i, k>>

\* The request is dropped, or the process ends.
Abandon ==
  /\ pc # "done"
  /\ pc' = "done" /\ result' = "abandoned" /\ fault' = TRUE
  /\ UNCHANGED <<task, dest, cached, gone, i, k>>

Done == pc = "done" /\ UNCHANGED vars

\* Files the source may hold: a plain one is one object, a file without
\* volumes has at most one, and only a managed source knows foreign objects.
FilesOf(c) ==
  {f \in [volumes : 0..MaxVolumes, missing : BOOLEAN, foreign : BOOLEAN] :
     /\ f.missing => f.volumes > 0 /\ Managed(c)
     /\ f.foreign => Managed(c) /\ ~f.missing
     /\ f.foreign \/ ~Managed(c) => f.volumes = 1
     /\ ~c.split => f.volumes <= 1}

Init ==
  /\ \E from, to \in Configs, dir, overwrite, move \in BOOLEAN :
       \E n \in IF dir THEN 0..MaxFiles ELSE {1} :
       \E files \in [1..n -> FilesOf(from)] :
         task = [from |-> from, to |-> to, dir |-> dir, move |-> move,
                 overwrite |-> overwrite, files |-> files]
  /\ \E there \in [1..Len(task.files) -> {"none", "old", "dir"}] :
       dest = [n \in 1..Len(task.files) |-> [kind |-> there[n], vols |-> <<>>]]
  /\ cached \in SUBSET {n \in 1..Len(task.files) :
                          /\ dest[n].kind # "none" /\ Managed(task.to)
                          /\ ~task.files[n].foreign}
  /\ gone = FALSE /\ i = 1 /\ k = 1
  /\ pc = "start" /\ result = "open" /\ fault = FALSE

Next ==
  \/ Begin \/ Choose
  \/ PlanSource \/ RemoveExisting \/ PlanDest \/ CopyVolume \/ VolumesCopied
  \/ Clean
  \/ OpenStream \/ Replace \/ Upload
  \/ ForeignCheck \/ ForeignCopy
  \/ Finish \/ DeleteSource \/ Abandon
  \/ Done

Spec == Init /\ [][Next]_vars
-----------------------------------------------------------------------------
(***************************************************************************)
(* What each destination may hold while the copy is under way.             *)
(***************************************************************************)
TypeOK ==
  /\ \A n \in DOMAIN dest :
       /\ dest[n].kind \in {"none", "old", "dir", "new"}
       /\ dest[n].vols \in Seq({"part", "whole"})
       /\ dest[n].kind # "new" => dest[n].vols = <<>>
       /\ Len(dest[n].vols) <= task.files[n].volumes \/ ~Raw
  /\ cached \subseteq DOMAIN dest
  /\ gone \in BOOLEAN /\ fault \in BOOLEAN
  /\ i \in 1 .. Len(task.files) + 1 /\ k \in 1 .. MaxVolumes + 1
  /\ (result = "open") <=> (pc # "done")

\* Volumes carried as they are to a data source with one name for all of them: only a
\* file of one volume fits, and of a managed destination an empty one.
Unfit(n) ==
  /\ Raw /\ ~task.files[n].foreign /\ ~Indexed(task.to)
  /\ task.files[n].volumes # 1 /\ ~(Managed(task.to) /\ task.files[n].volumes = 0)

(***************************************************************************)
(* When a copy reports success, and when a MOVE (webdav.rs) has begun to   *)
(* delete its source, every file is whole at its destination, by whichever *)
(* way it went, whatever failed and wherever the copy was broken off:      *)
(* every file but those that find fewer names there than they have         *)
(* volumes, which plan_dest does not refuse.                               *)
(***************************************************************************)
NothingLost ==
  result = "ok" \/ gone => \A n \in DOMAIN dest : Unfit(n) \/ Whole(n)

(***************************************************************************)
(* Without overwrite what is at a destination stays; and a directory there *)
(* is never replaced by a managed file.                                    *)
(***************************************************************************)
Protected(n) ==
  \/ dest[n].kind \in {"old", "dir"} /\ ~task.overwrite
  \/ dest[n].kind = "dir" /\ ~task.files[n].foreign
Keeps == \A n \in DOMAIN dest : Protected(n) => dest'[n] = dest[n]
KeepsExisting == [][Keeps]_vars

(***************************************************************************)
(* copy.rs says of plan_source "better an error than half a file copied":  *)
(* what a successful copy has created is whole, unfit files included.      *)
(***************************************************************************)
NeverHalfAFile ==
  result = "ok" => \A n \in DOMAIN dest : dest[n].kind = "new" => Whole(n)
=============================================================================
