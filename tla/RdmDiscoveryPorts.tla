-------------------------- MODULE RdmDiscoveryPorts --------------------------
(***************************************************************************)
(* The scheduling of RDM discovery over the ports of a gateway,            *)
(* rdm::Discovery (lib-rdm/include/rdm_discovery.h), with the callers that *)
(* drive it: ArtTodControl, the RDM switch of a port and the background    *)
(* timer.                                                                  *)
(*                                                                         *)
(* One discovery state machine serves all ports, one at a time; it is seen *)
(* here as DiscoveryMachine promises it; Run asks for is_finished in the   *)
(* call that ends the discovery, so that it is never left set.             *)
(***************************************************************************)
EXTENDS Integers

CONSTANTS
  kPorts,              \* number of output ports
  MaxStops,            \* bound: discoveries stopped
  MaxIncremental       \* bound: expiries of the background timer

ASSUME PortsAssumption ==
  /\ kPorts \in Nat \ {0}
  /\ MaxStops \in Nat /\ MaxIncremental \in Nat

Ports == 0 .. kPorts - 1

VARIABLES
  enabled_, waiting_, type_, \* bit sets of ports; type_: full is asked for
  s_bg_discovery,            \* ports with background discovery
  timer,                     \* the background timer is in the pool of timers
  port_index_, running_,
  phase, port, do_incremental, \* the state machine
  flush,                     \* ghost: ports with an accepted AtcFlush not yet begun
  stops, expiries            \* ghosts: for the bounds

machine == <<phase, port, do_incremental>>
bits    == <<enabled_, waiting_, type_, s_bg_discovery, timer, running_>>
ghosts  == <<flush, stops, expiries>>
vars    == <<bits, port_index_, machine, ghosts>>

NextPortNoWrap(p) == p + 1 \* mutant
NextPort(p) == IF p + 1 = kPorts THEN 0 ELSE p + 1

-----------------------------------------------------------------------------
(* Requests. *)

\* SetRdm on: the port takes part in discovery.
Enable(p) ==
  /\ p \notin enabled_
  /\ enabled_' = enabled_ \cup {p}
  /\ UNCHANGED <<waiting_, type_, s_bg_discovery, timer, running_, port_index_,
                 machine, flush, stops, expiries>>

\* SetRdm off: what is waiting or running stays as it is.
Disable(p) ==
  /\ p \in enabled_
  /\ enabled_' = enabled_ \ {p}
  /\ UNCHANGED <<waiting_, type_, s_bg_discovery, timer, running_, port_index_,
                 machine, flush, stops, expiries>>

FullNotRunning(p) == \* mutant: Run is not told that there is work
  /\ p \in enabled_
  /\ waiting_' = waiting_ \cup {p}
  /\ type_' = type_ \cup {p}
  /\ flush' = flush \cup {p}
  /\ UNCHANGED <<enabled_, s_bg_discovery, timer, running_, port_index_, machine, stops, expiries>>

\* Power on, or AtcFlush for an output port whose RDM is enabled.
Full(p) ==
  /\ p \in enabled_
  /\ waiting_' = waiting_ \cup {p}
  /\ type_' = type_ \cup {p}
  /\ running_' = TRUE
  /\ flush' = flush \cup {p}
  /\ UNCHANGED <<enabled_, s_bg_discovery, timer, port_index_, machine, stops, expiries>>

\* StateMachine::Stop, when the machine works on this port.
StopMachine(p) ==
  IF phase # "idle" /\ port = p
    THEN /\ phase' \in IF phase = "running" THEN {"stopping", "idle"} ELSE {"idle"}
         /\ waiting_' = waiting_ \ {p}
         /\ flush' = flush \ {p}
         /\ UNCHANGED <<port, do_incremental>>
    ELSE UNCHANGED <<machine, waiting_, flush>>

\* AtcEnd: a port that is waiting while another is served goes on waiting.
Stop(p) ==
  /\ p \in enabled_
  /\ stops < MaxStops
  /\ StopMachine(p)
  /\ stops' = stops + 1
  /\ UNCHANGED <<enabled_, type_, s_bg_discovery, timer, running_, port_index_, expiries>>

\* AtcIncon; HandleTodControl asks only for ports that are enabled.
EnableBackground(p) ==
  /\ p \in enabled_
  /\ s_bg_discovery' = s_bg_discovery \cup {p}
  /\ timer' = TRUE
  /\ UNCHANGED <<enabled_, waiting_, type_, running_, port_index_, machine,
                 flush, stops, expiries>>

\* AtcIncoff: stops the discovery of the port, whatever its kind.
DisableBackground(p) ==
  /\ p \in enabled_
  /\ stops < MaxStops
  /\ s_bg_discovery' = s_bg_discovery \ {p}
  /\ StopMachine(p)
  /\ timer' = IF s_bg_discovery' = {} THEN FALSE ELSE timer
  /\ stops' = stops + 1
  /\ UNCHANGED <<enabled_, type_, running_, port_index_, expiries>>

TimerBackGroundAssigns == \* mutant: = where |= is meant
  LET asked == s_bg_discovery \cap enabled_
  IN  /\ timer
      /\ expiries < MaxIncremental
      /\ waiting_' = asked
      /\ type_' = type_ \ asked
      /\ running_' = (running_ \/ asked # {})
      /\ expiries' = expiries + 1
      /\ UNCHANGED <<enabled_, s_bg_discovery, timer, port_index_, machine,
                     flush, stops>>

\* The timer asks for an incremental discovery of every background port, over
\* a full one that may be waiting.
TimerBackGround ==
  LET asked == s_bg_discovery \cap enabled_
  IN  /\ timer
      /\ expiries < MaxIncremental
      /\ waiting_' = waiting_ \cup asked
      /\ type_' = type_ \ asked
      /\ running_' = (running_ \/ asked # {})
      /\ expiries' = expiries + 1
      /\ UNCHANGED <<enabled_, s_bg_discovery, timer, port_index_, machine,
                     flush, stops>>

-----------------------------------------------------------------------------
(* Run, called on every pass of the super loop. *)

ServeOldPort(at) == \* mutant: Start does not take over the port
  /\ port_index_' = at
  /\ port' = port
  /\ waiting_' = waiting_ \ {at}
  /\ flush' = flush \ {at}
  /\ phase' = IF at \in waiting_ THEN "running" ELSE "idle"
  /\ do_incremental' = (at \notin type_)

\* The port whose turn it is starts, or the turn passes on.
Serve(at) ==
  CASE waiting_ = {} ->
         /\ port_index_' = at
         /\ phase' = "idle"
         /\ UNCHANGED <<waiting_, port, do_incremental, flush>>
    [] waiting_ # {} /\ at \in waiting_ ->
         /\ port_index_' = at
         /\ phase' = "running"
         /\ port' = at
         /\ do_incremental' = (at \notin type_)
         /\ waiting_' = waiting_ \ {at}
         /\ flush' = flush \ {at}
    [] waiting_ # {} /\ at \notin waiting_ ->
         /\ port_index_' = NextPort(at)
         /\ phase' = "idle"
         /\ UNCHANGED <<waiting_, port, do_incremental, flush>>

\* The machine is idle, or ends being stopped in this very call.
RunIdle ==
  /\ running_
  /\ phase \in {"idle", "stopping"}
  /\ Serve(port_index_)
  /\ UNCHANGED <<enabled_, type_, s_bg_discovery, timer, running_, stops,
                 expiries>>

RunFinishedStays == \* mutant: the turn does not pass on
  /\ running_
  /\ phase = "running"
  /\ running_' = (waiting_ # {})
  /\ Serve(IF waiting_ = {} THEN 0 ELSE port_index_)
  /\ UNCHANGED <<enabled_, type_, s_bg_discovery, timer, stops, expiries>>

\* The machine ends its discovery in this call.  The table is sent to
\* the controllers that have asked for it, and the next port has its turn.
RunFinished ==
  /\ running_
  /\ phase = "running"
  /\ running_' = (waiting_ # {})
  /\ Serve(IF waiting_ = {} THEN 0 ELSE NextPort(port_index_))
  /\ UNCHANGED <<enabled_, type_, s_bg_discovery, timer, stops, expiries>>

Run == RunIdle \/ RunFinished

Init ==
  /\ enabled_ \in {{}, Ports}
  /\ waiting_ = {} /\ type_ = {} /\ s_bg_discovery = {}
  /\ timer = FALSE
  /\ port_index_ = 0
  /\ running_ = FALSE
  /\ phase = "idle" /\ port = 0 /\ do_incremental = FALSE
  /\ flush = {}
  /\ stops = 0 /\ expiries = 0

Next ==
  \/ \E p \in Ports : \/ Enable(p) \/ Disable(p)
                      \/ Full(p) \/ Stop(p)
                      \/ EnableBackground(p) \/ DisableBackground(p)
  \/ TimerBackGround
  \/ Run

Spec == Init /\ [][Next]_vars

\* The super loop calls Run for ever, and a discovery that runs ends.
FairSpec == Spec /\ WF_vars(Run)

-----------------------------------------------------------------------------
(* Properties. *)

TypeOK ==
  /\ {enabled_, waiting_, type_, s_bg_discovery, flush} \subseteq SUBSET Ports
  /\ {timer, running_, do_incremental} \subseteq BOOLEAN
  /\ {port_index_, port} \subseteq Ports
  /\ phase \in {"idle", "running", "stopping"}
  /\ stops \in 0 .. MaxStops /\ expiries \in 0 .. MaxIncremental

\* Run skips everything when running_ is clear: then no port waits, and the
\* machine is not left half stopped.
NoLostWakeup == ~ running_ => waiting_ = {} /\ phase = "idle"

\* The assertion in Run: a discovery that ends is that of the port whose turn
\* it is, though requests and stops of all ports came in meanwhile.
TurnOfPort == phase # "idle" => port = port_index_

\* A flush that was accepted and has not begun is still waiting, whatever
\* other requests, stops and background expiries did to the bits.
FlushWaits == flush \subseteq waiting_

\* Every port that waits is served: none is passed over for ever.
EveryPortServed == \A p \in Ports : (p \in waiting_) ~> (p \notin waiting_)
=============================================================================
