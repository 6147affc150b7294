---------------------------- MODULE MCBlockCache ----------------------------
(***************************************************************************)
(* BlockCache for TLC: streams are model values and interchangeable.       *)
(***************************************************************************)
EXTENDS BlockCache, TLC

StreamSymmetry == Permutations(Streams)

\* Exploration stops where a directory has been removed under an entry in
\* use: the properties guarded by ~overtaken say nothing from there on.
NotOvertaken == ~overtaken
=============================================================================
