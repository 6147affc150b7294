------------------------------ MODULE MCCloud ------------------------------
(***************************************************************************)
(* What data sources of one provider have in common: uploads that share    *)
(* the slots of an account at Baidu, reads that share the links of a file  *)
(* there, and a share that is imported twice.  A behaviour is about one of *)
(* them.                                                                   *)
(***************************************************************************)
EXTENDS BaiduUpload, BaiduLinks, TLC

CONSTANTS Kinds, u1, u2, u3, h1, h2,
          Items, Keys, Literal, Home, Imports, Configs, Sharers, Forces, Idle

\* No entry that is shared was made in the directory it is imported into.
ASSUME SharesAssumption ==
  /\ Kinds \subseteq {"upload", "read", "share"} /\ Forces \subseteq BOOLEAN
  /\ IsFiniteSet(Items) /\ IsFiniteSet(Imports) /\ Nil \notin Imports
  /\ Literal \notin Keys /\ Home \notin Keys \cup {Literal}
  /\ Configs \subseteq [encryption : BOOLEAN, volume : BOOLEAN, disguise : BOOLEAN, format : STRING]

VARIABLES kind, from, to, key, share, link, dest, imp

S == INSTANCE Shares

shareVars == <<from, to, key, share, link, dest, imp>>
all == <<kind, upVars, linkVars, shareVars>>

MCSize == u1 :> 3 @@ u2 :> 1 @@ u3 :> 2
MCThreads == u1 :> 2 @@ u2 :> 2 @@ u3 :> 2
MCTwoSettings == u1 :> 1 @@ u2 :> 2 @@ u3 :> 1
MCHosts == <<h1, h2>>

Source(e, v, d, f) == [encryption |-> e, volume |-> v, disguise |-> d, format |-> f]
\* A template may be the user's: {e} alone goes with encryption, disguised or not.
MCConfigs == {Source(FALSE, FALSE, FALSE, "{s}"), Source(TRUE, FALSE, FALSE, "{e}"),
              Source(TRUE, FALSE, TRUE, "{e}")}
\* Of two data sources that differ in the disguise alone one shares.
MCSharers == {Source(FALSE, FALSE, FALSE, "{s}"), Source(TRUE, FALSE, FALSE, "{e}")}
MCManaged == {Source(FALSE, TRUE, FALSE, "{s}.{i}"), Source(TRUE, FALSE, FALSE, "{e}")}
MCDisguised == {Source(FALSE, TRUE, TRUE, "{s}.{i}.bmp"), Source(FALSE, FALSE, TRUE, "{s}.bmp")}
MCForced == {TRUE}
MCUnforced == {FALSE}

\* At first the directory holds at most one entry, of one of the items.
ShareInit == /\ S!Init /\ from \in Sharers
             /\ Cardinality(dest) < 2 /\ \A o \in dest : o.item = CHOOSE i \in Items : TRUE
ShareIdle == /\ from = Idle /\ to = Idle /\ key = Idle /\ share = Idle /\ link = Idle
             /\ dest = Idle /\ imp = Idle

MCInit == /\ kind \in Kinds /\ UploadInit /\ LinksInit
          /\ IF kind = "share" THEN ShareInit ELSE ShareIdle
MCUploads == kind = "upload" /\ UploadNext /\ UNCHANGED <<linkVars, shareVars, kind>>
MCReads == kind = "read" /\ LinksNext /\ UNCHANGED <<upVars, shareVars, kind>>
MCShares == kind = "share" /\ S!Next /\ UNCHANGED <<upVars, linkVars, kind>>
\* Every upload has ended; every range has been read MaxAttempts times; the link could
\* not be made, or every import has ended.
MCDone == /\ kind = "upload" => AllEnded
          /\ kind = "read" => \A t \in Reads : attempts[t] = MaxAttempts /\ read[t].pc \in Answers
          /\ kind = "share" => \/ share # {} /\ link = Nil
                               \/ \A c \in Imports : imp[c].pc \in {"ok", "error"}
          /\ UNCHANGED all
MCNext == MCUploads \/ MCReads \/ MCShares \/ MCDone
MCSpec == MCInit /\ [][MCNext]_all

\* The entries are kept apart: SetToSeq puts them in an order.
Symmetry == Permutations(Reads) \cup Permutations(Imports) \cup Permutations(Keys)

TypeOK == CASE kind = "upload" -> UploadTypeOK
            [] kind = "read" -> LinksTypeOK
            [] kind = "share" -> S!TypeOK
\* A link that was given out opens, and what an import shows as managed can be decoded.
LinksWork == kind = "share" => S!LinksWork
\* What an import presents as managed can be found, too.
ShownIsReadable == kind = "share" => S!ShownIsReadable
\* An import that answers Ok brought what the share listed, and what the link says where
\* it has names to rebuild.
ImportIsWhole == kind = "share" => S!ImportIsWhole
\* Imports rename nothing but what they brought themselves, unless one took a wrong name
\* for an entry of its own.
OthersUntouched == [][kind = "share" => S!Untouched]_all
=============================================================================
