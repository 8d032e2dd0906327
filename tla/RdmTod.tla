------------------------------- MODULE RdmTod -------------------------------
(***************************************************************************)
(* The RDM table of devices, rdm::Tod (lib-rdm/include/rdm_tod.h), as      *)
(* operators on a table: an array of UIDs of which the first "entries"     *)
(* count.  The cursor and the mute bits, which only the responder of an    *)
(* input gateway uses, are left out.                                       *)
(*                                                                         *)
(* The array has one more cell here than in the source: Delete on a full   *)
(* table reads one past the end, and cell kTableSize is whatever lies      *)
(* there.                                                                  *)
(***************************************************************************)
EXTENDS Integers

CONSTANTS
  kTableSize, \* RDM_DISCOVERY_TOD_TABLE_SIZE
  Uids,       \* the UIDs devices can have
  kUidAll     \* the broadcast UID, which marks a free entry

Cells   == 0 .. kTableSize
TodType == [tod : [Cells -> Uids \cup {kUidAll}], entries : 0 .. kTableSize]

Listed(t) == {t.tod[i] : i \in 0 .. t.entries - 1}
IndexOf(t, uid) == CHOOSE i \in 0 .. t.entries - 1 :
                     /\ t.tod[i] = uid
                     /\ \A j \in 0 .. i - 1 : t.tod[j] # uid

EmptyTod(beyond) ==
  [tod     |-> [i \in Cells |-> IF i = kTableSize THEN beyond ELSE kUidAll],
   entries |-> 0]

TodReset(t) ==
  [tod     |-> [i \in Cells |-> IF i < t.entries THEN kUidAll ELSE t.tod[i]],
   entries |-> 0]

TodAddUid(t, uid) ==
  IF t.entries = kTableSize \/ uid \in Listed(t)
    THEN t
    ELSE [t EXCEPT !.tod[t.entries] = uid, !.entries = @ + 1]

\* The entries above the deleted one move down.
TodDelete(t, uid) ==
  IF uid \notin Listed(t)
    THEN t
    ELSE LET entry == IndexOf(t, uid)
         IN  [entries |-> t.entries - 1,
              tod     |-> IF entry = kTableSize - 1
                            THEN [t.tod EXCEPT ![entry] = kUidAll]
                            ELSE [i \in Cells |->
                                    IF i \in entry .. t.entries - 1
                                      THEN t.tod[i + 1] ELSE t.tod[i]]]

\* index = entries is let through: it reads the cell after the last entry.
TodCopyUidEntry(t, index) == IF index > t.entries THEN kUidAll ELSE t.tod[index]

\* The table is a set: no UID is listed twice, and none is the broadcast UID.
TodIsSet(t) ==
  /\ \A i, j \in 0 .. t.entries - 1 : t.tod[i] = t.tod[j] => i = j
  /\ Listed(t) \subseteq Uids
=============================================================================
