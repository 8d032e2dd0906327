-------------------------- MODULE DiscoveryMachine --------------------------
(***************************************************************************)
(* What the discovery state machine promises to the code that schedules    *)
(* it: a discovery that is started adds only devices that are on the line, *)
(* drops entries only when it is incremental, and either finishes, once,   *)
(* with a table that lists exactly the devices on the line, or is stopped. *)
(* While the line is disturbed only the phases are promised.               *)
(***************************************************************************)

VARIABLES
  phase,          \* "idle", "running", or "stopping": stopped, not idle yet
  do_incremental, \* the kind of discovery that was started last
  is_finished,    \* the discovery ran to its end and nobody has asked yet
  table,          \* the UIDs in the table of devices
  devices,        \* the UIDs of the responders on the line
  disturbed       \* more is lost or late than the running discovery copes with,
                  \* a device left, or there are too many

vars == <<phase, do_incremental, is_finished, table, devices, disturbed>>

Init ==
  /\ phase = "idle"
  /\ ~ do_incremental
  /\ ~ is_finished
  /\ table = {}
  /\ disturbed \in BOOLEAN

Start(incremental) ==
  /\ phase = "idle"
  /\ phase' = "running"
  /\ do_incremental' = incremental
  /\ ~ is_finished'
  /\ table' = IF incremental THEN table ELSE {}
  /\ UNCHANGED devices

Found(u) ==
  /\ phase = "running"
  /\ u \in devices
  /\ table' = table \cup {u}
  /\ UNCHANGED <<phase, do_incremental, is_finished, devices>>

Gone(u) ==
  /\ phase = "running" /\ do_incremental
  /\ u \notin devices
  /\ table' = table \ {u}
  /\ UNCHANGED <<phase, do_incremental, is_finished, devices>>

Finish ==
  /\ phase = "running"
  /\ table = devices
  /\ phase' = "idle"
  /\ is_finished'
  /\ UNCHANGED <<do_incremental, table, devices>>

Stop ==
  /\ phase \in {"running", "stopping"}
  /\ phase' \in {"stopping", "idle"}
  /\ ~ is_finished'
  /\ UNCHANGED <<do_incremental, table, devices>>

StopEnds ==
  /\ phase = "stopping"
  /\ phase' = "idle"
  /\ UNCHANGED <<do_incremental, is_finished, table, devices>>

\* IsFinished reports the end of a discovery and forgets it.
Consume ==
  /\ phase = "idle"
  /\ ~ is_finished'
  /\ UNCHANGED <<phase, do_incremental, table, devices>>

\* The responders on the line change between two discoveries.
Replug ==
  /\ phase = "idle"
  /\ UNCHANGED <<phase, do_incremental, is_finished, table>>

Disturbance ==
  /\ disturbed'
  /\ <<phase, phase'>> \notin {<<"idle", "stopping">>, <<"stopping", "running">>}
  /\ is_finished' /\ ~ is_finished => phase = "running" /\ phase' = "idle"

Next ==
  \/ \E incremental \in BOOLEAN : Start(incremental)
  \/ \E u \in devices : Found(u)
  \/ \E u \in table : Gone(u)
  \/ Finish \/ Stop \/ StopEnds \/ Consume \/ Replug \/ Disturbance

Spec == Init /\ [][Next]_vars
=============================================================================
