---------------------------- MODULE MCNamespace ----------------------------
(***************************************************************************)
(* Two directories a and b, c in each, and d in that.                      *)
(***************************************************************************)
EXTENDS Namespace

MCPaths == {<<"a">>, <<"b">>, <<"a", "c">>, <<"b", "c">>,
            <<"a", "c", "d">>, <<"b", "c", "d">>}

Ask(op, paths) ==
  {[op |-> op, path |-> p, to |-> Root, overwrite |-> FALSE] : p \in paths}
Replace(p) == [op |-> "upload", path |-> p, to |-> Root, overwrite |-> TRUE]
Move(p, q) == [op |-> "rename", path |-> p, to |-> q, overwrite |-> FALSE]
MCRequests ==
  Ask("read", {<<"b", "c", "d">>})
  \cup Ask("list", {Root, <<"b">>})
  \cup Ask("delete", {<<"b">>, <<"a", "c">>})
  \cup Ask("mkdir", {<<"b">>, <<"b", "c">>})
  \cup Ask("upload", {<<"b", "c", "d">>})
  \cup {Replace(<<"b", "c">>)}
  \cup {Move(<<"a">>, <<"b">>), Move(<<"b">>, <<"a">>),
        Move(<<"a", "c">>, <<"b">>), Move(<<"b">>, <<"a", "c">>)}

A == Encoded(Root, "a", TRUE, 1)
AC == Encoded(A, "c", TRUE, 2)
MCTrees == {{}, {A, AC, Encoded(AC, "d", FALSE, 3)}}
B == Encoded(Root, "b", TRUE, 1)
StaleTrees == {{B, Encoded(B, "c", FALSE, 2)}}
StaleRequests == Ask("read", {<<"b", "c">>})
MCSymmetry == Permutations(Clients)
=============================================================================
