---------------------------- MODULE MCE131Bridge ----------------------------
(***************************************************************************)
(* E131Bridge for TLC: two ports and three sources.  x and y send to the   *)
(* first universe, x with Force_Synchronization; z sends to the second one *)
(* with a higher priority and asks for synchronisation.  Port 2 can be     *)
(* switched to the first universe, where it meets x and y, or disabled.    *)
(***************************************************************************)
EXTENDS E131Bridge

CONSTANTS x, y, z, u1, u2, s1

FramesDef   == {<<x, u1, 1, NoAddress, TRUE>>, <<y, u1, 1, NoAddress, FALSE>>,
                <<z, u2, 2, s1, FALSE>>}
PatchDef    == <<u1, u2>>
SwitchesDef == {<<2, u1>>}
DisablesDef == {2}

\* One port, with a third source of a higher priority that asks for synchronisation.
ThirdDef    == {<<x, u1, 1, NoAddress, TRUE>>, <<y, u1, 1, NoAddress, TRUE>>,
                <<z, u1, 2, s1, FALSE>>}
OnePortDef  == <<u1>>
=============================================================================
