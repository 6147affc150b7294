------------------------------ MODULE MCDrives ------------------------------
(***************************************************************************)
(* Two requests on a drive that starts with a folder and a file in it.     *)
(* One behaviour has one kind of drive.                                    *)
(***************************************************************************)
EXTENDS PathWalk

CONSTANTS a, b, r, Drives

VARIABLE drive

Aliyun == INSTANCE AliyunDrive
Quark == INSTANCE QuarkDrive

MCRoot(s) == CASE s = "inner" -> <<a>> [] s = "top" -> <<>> [] OTHER -> <<r>>
MCPaths == {<<>>, <<a>>, <<b>>, <<a, b>>, <<b, a>>}
MCIds == 1..6

\* An upload to Quark has at least one part.
ASSUME DrivesAssumption == "quark" \in Drives => Parts # 0

Object(up, name, kind) ==
    [st |-> "live", up |-> up, name |-> name, kind |-> kind,
     parts |-> IF kind = "file" THEN AllParts ELSE {}]

MCPlanted == LET root == IF Sources = {"rooted"} THEN 2 ELSE Top IN
             [i \in MCIds |-> CASE i = Top -> Object(Nil, Nil, "dir")
                               [] i = 2 -> Object(Top, r, "dir")
                               [] i = 3 -> Object(root, a, "dir")
                               [] i = 4 -> Object(3, b, "file")
                               [] OTHER -> Unused]

MCInit == Init /\ drive \in Drives
MCNext == /\ \/ drive = "aliyun" /\ Aliyun!Next
             \/ drive = "quark" /\ Quark!Next
          /\ UNCHANGED drive
MCSpec == MCInit /\ [][MCNext]_<<vars, drive>>

CallSymmetry == Permutations(Calls)
=============================================================================
