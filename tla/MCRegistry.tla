----------------------------- MODULE MCRegistry -----------------------------
(***************************************************************************)
(* Two settings pages, three passwords, two envelopes, two logins.         *)
(***************************************************************************)
EXTENDS Registry, TLC

MCSymmetry == Permutations(Handlers) \cup Permutations(Passwords)
                \cup Permutations(Envelopes)
\* Behind the exceptions the properties say nothing.
Regular == ~mixed /\ ~stale
=============================================================================
