---------------------------- MODULE MCFileMoverTool ----------------------------
(***************************************************************************)
(* Instances of FileMoverTool.  The listed names are a directory d, which  *)
(* holds what the run is about (a file, a link, a device), and a link c;   *)
(* or a link c to its own directory.                                      *)
(***************************************************************************)
EXTENDS FileMoverTool, TLC

D == <<"d">>
A == <<"d", "a">>
L == <<"d", "l">>
S == <<"d", "s">>
C == <<"c">>

Files == <<D, C>>
KindOf == (D :> "dir") @@ (A :> "regular") @@ (L :> "link") @@ (S :> "special") @@ (C :> "link")
Only(kinds, nodes) == [n \in nodes |-> kinds[n]]

\* a directory with a file and a device, on its own
SmallTree == {D, A, S}
SmallKind == Only(KindOf, SmallTree)
SmallLinkTo == [n \in SmallTree |-> "absent"]
SmallFiles == <<D>>

\* a directory holding a file and a link to a file, and beside it a dangling link
LinkTree == {D, A, L, C}
LinkKind == Only(KindOf, LinkTree)
LinkLinkTo == (C :> "absent") @@ [n \in LinkTree |-> "regular"]

\* a link c to ".", beside a link k to a directory elsewhere that holds a file f.
\* Through c both are seen again, and next to them what a Duplicate of c makes.
Made == {<<"c", "CopyOf_c">>, <<"c", "CopyOf_c", "CopyOf_c">>}
FollowTree == {C, <<"c", "c">>, <<"c", "k">>, <<"c", "k", "f">>} \union Made
FollowKind == [n \in FollowTree |->
  CASE n \in Made -> "dir" [] n[Len(n)] = "f" -> "regular" [] OTHER -> "link"]
FollowLinkTo == [n \in FollowTree |-> IF n[Len(n)] = "c" THEN "dot" ELSE "dir"]
FollowFiles == <<C>>
Deepest == {<<"c", "CopyOf_c", "CopyOf_c">>}
===============================================================================
