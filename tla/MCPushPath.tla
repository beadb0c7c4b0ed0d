----------------------------- MODULE MCPushPath -----------------------------
(***************************************************************************)
(* PushPath for TLC: a vehicle of fleet a and one of fleet b; a browser    *)
(* may see fleet a or everything.                                          *)
(***************************************************************************)
EXTENDS PushPath

CONSTANTS All, fa, fb, va, vb, ea, eb, p1

AllTags == {All, fa, fb, va, vb}
TagsOfEvent == [e \in Events |-> IF e = ea THEN {All, fa, va} ELSE {All, fb, vb}]
VinOfEvent == [e \in Events |-> IF e = ea THEN va ELSE vb]
OnePartition == [t \in AllTags |-> p1]

Granted == {{fa}, {All}}
Asked == {{}, {All}}
=============================================================================
