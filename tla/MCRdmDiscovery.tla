--------------------------- MODULE MCRdmDiscovery ---------------------------
(***************************************************************************)
(* The lines of RdmDiscovery for TLC.  On the first one up to three        *)
(* devices collide and a message is lost; on the second one an answer      *)
(* comes late and a device leaves, in any state of the search.             *)
(***************************************************************************)
EXTENDS RdmDiscovery

MCLines ==
  {[sets |-> {{0, 1, 6}, {5, 6}}, noise |-> 1, late |-> 0, unplugged |-> 0],
   [sets |-> {{5, 6}}, noise |-> 0, late |-> 1, unplugged |-> 1]}
=============================================================================
