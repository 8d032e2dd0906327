---------------------------- MODULE MCArtNetDmx ----------------------------
(***************************************************************************)
(* ArtNetDmx for TLC: two controllers, one of which sends two streams, and *)
(* two ports, of which ArtAddress moves the second to the universe of the  *)
(* first.                                                                  *)
(***************************************************************************)
EXTENDS ArtNetDmx

CONSTANTS ipX, ipY, u1, u2

StreamsDef  == {<<ipX, 1, u1>>, <<ipX, 2, u1>>, <<ipY, 1, u1>>, <<ipY, 1, u2>>}
PatchDef    == <<u1, u2>>
SwitchesDef == {<<2, u1>>}
=============================================================================
