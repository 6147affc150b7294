----------------------------- MODULE RemoteTree -----------------------------
(***************************************************************************)
(* The folder tree a cloud drive keeps, as its adapters see it: objects    *)
(* have ids, an id never names another object again, and a path means      *)
(* whatever the folders between the top and it contain now.                *)
(*                                                                         *)
(* This is not code of the repository.  It is what aliyundrive.rs and      *)
(* quark.rs rely on when they list a folder id, create in it, move an id   *)
(* and throw an id away.                                                   *)
(***************************************************************************)
EXTENDS Naturals, Sequences, SequencesExt, FiniteSets

Nil == 0          \* no object
Top == 1          \* the folder every path starts from

\* An object: never created, live, an upload not yet completed, or thrown away.
States == {"unused", "live", "pending", "gone"}
Kinds == {"dir", "file"}

Unused == [st |-> "unused", up |-> Nil, name |-> Nil, kind |-> "file", parts |-> {}]

\* The live objects a folder lists.
Children(tree, folder) == {i \in DOMAIN tree : tree[i].st = "live" /\ tree[i].up = folder}

\* The object of that name in a folder, Nil when there is none.
Child(tree, folder, name) ==
    LET named == {i \in Children(tree, folder) : tree[i].name = name}
    IN  IF folder = Nil \/ named = {} THEN Nil ELSE CHOOSE i \in named : TRUE

\* The object a path names now, counted from a folder.
ObjectAt(tree, folder, path) ==
    FoldLeft(LAMBDA at, name : Child(tree, at, name), folder, path)

IsDir(tree, i) == i # Nil /\ tree[i].kind = "dir"

\* Ids are handed out in order and never again.
Fresh(tree) == {i \in DOMAIN tree : /\ tree[i].st = "unused"
                                    /\ \A j \in DOMAIN tree : j < i => tree[j].st # "unused"}

\* The trees a drive can hold: no folder lists two objects of one name, what lies
\* in a folder lies in one that was made, and a listed file has all its parts.
WellKept(tree, whole) ==
    /\ \A i \in DOMAIN tree :
          /\ tree[i] \in [st : States, up : DOMAIN tree \cup {Nil}, name : {tree[i].name},
                         kind : Kinds, parts : SUBSET whole]
          /\ IF i = Top THEN tree[i].st = "live" /\ tree[i].kind = "dir" /\ tree[i].up = Nil
             ELSE tree[i].st # "unused" => /\ IsDir(tree, tree[i].up)
                                           /\ tree[tree[i].up].st # "unused"
          /\ tree[i].st = "live" /\ tree[i].kind = "file" => tree[i].parts = whole
    /\ \A i, j \in DOMAIN tree :
          tree[i].st = "live" /\ tree[j].st = "live" /\ tree[i].up = tree[j].up
             /\ tree[i].name = tree[j].name => i = j

\* Every live object under one path, with the path that leads to it.
Under(path, root) == IsPrefix(root, path)

\* Two paths are apart when neither lies at or under the other.
Related(p, q) == IsPrefix(p, q) \/ IsPrefix(q, p)
=============================================================================
