-------------------------- MODULE MCStreamScheduler --------------------------
(***************************************************************************)
(* Small chunk plans for StreamScheduler.  Laid(vols, lens) is the plan    *)
(* whose chunks have these volumes and lengths and whose merged starts are *)
(* the running sums, from merged offset 3 on (a Range request).            *)
(***************************************************************************)
EXTENDS StreamScheduler

Laid(vols, lens) ==
  LET at[c \in DOMAIN vols] == IF c = 1 THEN 3 ELSE at[c - 1] + lens[c - 1]
  IN  [c \in DOMAIN vols |->
         [vol |-> vols[c], merged_start |-> at[c], len |-> lens[c]]]

\* The second volume holds enough chunks to fill the window on its own.
LongTail == {Laid(<<1, 1, 2, 2, 2>>, <<1, 1, 1, 1, 1>>)}

\* A chunk list inside one volume, and one that crosses into a second.
SmallPlans == {Laid(<<1, 1, 1>>, <<2, 1, 1>>)} \cup LongTail

\* The first chunk of the second volume is larger than its channel.
LargeChunk == {Laid(<<1, 1, 2, 2>>, <<1, 1, 2, 1>>)}
=============================================================================
