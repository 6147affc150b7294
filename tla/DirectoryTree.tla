--------------------------- MODULE DirectoryTree ---------------------------
(***************************************************************************)
(* What the file operations promise: a tree of plain names, each operation *)
(* one step.  A node is its path and whether it is a directory; the root   *)
(* is there without a node.                                                *)
(***************************************************************************)
EXTENDS Naturals, Sequences, SequencesExt

Has(t, p) == \E n \in t : n.path = p
HasDir(t, p) == p = <<>> \/ [path |-> p, dir |-> TRUE] \in t
HasFile(t, p) == [path |-> p, dir |-> FALSE] \in t
Parent(p) == Front(p)

Below(p, q) == IsPrefix(p, q)
Subtree(t, p) == {n \in t : Below(p, n.path)}
\* The directory p with all its ancestors.
DirChain(p) == {[path |-> SubSeq(p, 1, n), dir |-> TRUE] : n \in 1..Len(p)}
NoFileOn(t, p) == \A n \in 1..Len(p) : ~HasFile(t, SubSeq(p, 1, n))
Moved(n, p, q) == [n EXCEPT !.path = q \o SubSeq(@, Len(p) + 1, Len(@))]

\* When an operation succeeds.
Succeeds(o, t) ==
  CASE o.op = "read" -> Has(t, o.path)
    [] o.op = "list" -> HasDir(t, o.path)
    [] o.op = "delete" -> Has(t, o.path)
    [] o.op = "mkdir" -> NoFileOn(t, o.path)
    [] o.op = "upload" -> /\ NoFileOn(t, Parent(o.path)) /\ ~HasDir(t, o.path)
                          /\ Has(t, o.path) => o.overwrite
    [] o.op = "rename" -> /\ Has(t, o.path) /\ HasDir(t, Parent(o.to))
                          /\ ~Has(t, o.to) /\ ~Below(o.path, o.to)

\* What it leaves behind when it does.
After(o, t) ==
  CASE o.op \in {"read", "list"} -> t
    [] o.op = "delete" -> t \ Subtree(t, o.path)
    [] o.op = "mkdir" -> t \cup DirChain(o.path)
    [] o.op = "upload" -> t \cup DirChain(Parent(o.path))
                            \cup {[path |-> o.path, dir |-> FALSE]}
    [] o.op = "rename" -> (t \ Subtree(t, o.path))
                            \cup {Moved(n, o.path, o.to) : n \in Subtree(t, o.path)}
=============================================================================
