----------------------- MODULE RdmDiscoveryPortsProofs -----------------------
(***************************************************************************)
(* The safety of the discovery scheduler, for any number of ports and any  *)
(* number of stops and background expiries.                                *)
(*                                                                         *)
(* The four invariants are proved together as IInv: the proof that the     *)
(* turn stays within the ports and that running_ tells the truth need each *)
(* other at the step that ends a discovery.                                *)
(***************************************************************************)
EXTENDS RdmDiscoveryPorts, TLAPS

IInv == TypeOK /\ NoLostWakeup /\ TurnOfPort /\ FlushWaits

\* The turn passes from a port to a port.
LEMMA NextPortIsPort ==
  ASSUME NEW p \in Ports
  PROVE  NextPort(p) \in Ports
  BY PortsAssumption DEF NextPort, Ports

LEMMA FirstPort == 0 \in Ports
  BY PortsAssumption DEF Ports

\* Whatever port has its turn, Serve keeps the bits in range, starts only the
\* port whose turn it is and takes it off the waiting and the flushed ports.
LEMMA ServeSafe ==
  ASSUME IInv, NEW at \in Ports, Serve(at)
  PROVE  /\ {waiting_', flush'} \subseteq SUBSET Ports
         /\ {port_index_', port'} \subseteq Ports
         /\ do_incremental' \in BOOLEAN
         /\ phase' \in {"idle", "running", "stopping"}
         /\ flush' \subseteq waiting_'
         /\ phase' # "idle" => port' = port_index_' /\ waiting_ # {}
         /\ waiting_ = {} => waiting_' = {} /\ phase' = "idle"
<1> USE DEF IInv, TypeOK, FlushWaits
<1>1. CASE waiting_ = {}
  BY <1>1 DEF Serve
<1>2. CASE waiting_ # {} /\ at \in waiting_
  BY <1>2 DEF Serve
<1>3. CASE waiting_ # {} /\ at \notin waiting_
  BY <1>3, NextPortIsPort DEF Serve
<1>4. QED
  BY <1>1, <1>2, <1>3

\* Stopping the machine leaves it idle or stopping, and forgets the request
\* and the flush of the port that was served, and of no other.
LEMMA StopMachineSafe ==
  ASSUME IInv, NEW p \in Ports, StopMachine(p)
  PROVE  /\ {waiting_', flush'} \subseteq SUBSET Ports
         /\ port' = port /\ do_incremental' = do_incremental
         /\ phase' \in {"idle", "running", "stopping"}
         /\ flush' \subseteq waiting_'
         /\ waiting_' \subseteq waiting_
         /\ phase = "idle" => phase' = "idle"
  BY DEF IInv, TypeOK, FlushWaits, StopMachine, machine

LEMMA InitSafe == Init => IInv
<1> SUFFICES ASSUME Init PROVE IInv
  OBVIOUS
<1>1. TypeOK
  <2>1. stops \in 0 .. MaxStops /\ expiries \in 0 .. MaxIncremental
    BY PortsAssumption DEF Init
  <2>2. {enabled_, waiting_, type_, s_bg_discovery, flush} \subseteq SUBSET Ports
    BY DEF Init
  <2>3. {port_index_, port} \subseteq Ports
    BY FirstPort DEF Init
  <2>4. QED
    BY <2>1, <2>2, <2>3 DEF Init, TypeOK
<1>2. NoLostWakeup /\ TurnOfPort /\ FlushWaits
  BY DEF Init, NoLostWakeup, TurnOfPort, FlushWaits
<1>3. QED
  BY <1>1, <1>2 DEF IInv

LEMMA NextSafe == IInv /\ [Next]_vars => IInv'
<1> SUFFICES ASSUME IInv, [Next]_vars PROVE IInv'
  OBVIOUS
<1> USE DEF IInv, TypeOK, NoLostWakeup, TurnOfPort, FlushWaits
<1>1. CASE \E p \in Ports : Enable(p) \/ Disable(p)
  BY <1>1 DEF Enable, Disable, machine
<1>2. CASE \E p \in Ports : Full(p)
  BY <1>2 DEF Full, machine
<1>3. CASE \E p \in Ports : Stop(p)
  <2>1. PICK p \in Ports : Stop(p)
    BY <1>3
  <2>2. StopMachine(p)
    BY <2>1 DEF Stop
  <2>3. stops' \in 0 .. MaxStops
    BY <2>1, PortsAssumption DEF Stop
  <2>4. QED
    BY <2>1, <2>2, <2>3, StopMachineSafe DEF Stop
<1>4. CASE \E p \in Ports : EnableBackground(p)
  BY <1>4 DEF EnableBackground, machine
<1>5. CASE \E p \in Ports : DisableBackground(p)
  <2>1. PICK p \in Ports : DisableBackground(p)
    BY <1>5
  <2>2. StopMachine(p)
    BY <2>1 DEF DisableBackground
  <2>3. stops' \in 0 .. MaxStops
    BY <2>1, PortsAssumption DEF DisableBackground
  <2>4. QED
    BY <2>1, <2>2, <2>3, StopMachineSafe DEF DisableBackground
<1>6. CASE TimerBackGround
  <2>1. expiries' \in 0 .. MaxIncremental
    BY <1>6, PortsAssumption DEF TimerBackGround
  <2>2. QED
    BY <1>6, <2>1 DEF TimerBackGround, machine
<1>7. CASE RunIdle
  <2>1. Serve(port_index_) /\ port_index_ \in Ports
    BY <1>7 DEF RunIdle
  <2>2. QED
    BY <1>7, <2>1, ServeSafe DEF RunIdle
<1>8. CASE RunFinished
  <2> DEFINE turn == IF waiting_ = {} THEN 0 ELSE NextPort(port_index_)
  <2>1. turn \in Ports
    BY NextPortIsPort, FirstPort
  <2>2. Serve(turn)
    BY <1>8 DEF RunFinished
  <2> HIDE DEF turn
  <2>3. QED
    BY <1>8, <2>1, <2>2, ServeSafe DEF RunFinished
<1>9. CASE UNCHANGED vars
  BY <1>9 DEF vars, bits, machine, ghosts
<1>10. QED
  BY <1>1, <1>2, <1>3, <1>4, <1>5, <1>6, <1>7, <1>8, <1>9 DEF Next, Run

\* All four invariants hold of every behaviour.
THEOREM SchedulerSafe == Spec => []IInv
<1>1. QED
  BY InitSafe, NextSafe, PTL DEF Spec

\* Every bit set names existing ports, and the turn and the port served exist,
\* so that s_tod[port_index_] is never read out of bounds.
THEOREM TypeCorrect == Spec => []TypeOK
<1>1. IInv => TypeOK
  BY DEF IInv
<1>2. QED
  BY <1>1, SchedulerSafe, PTL

\* Run returns early when running_ is clear; no request waits then and no
\* discovery is under way, whatever came in between two calls of Run.
THEOREM NoWakeupIsLost == Spec => []NoLostWakeup
<1>1. IInv => NoLostWakeup
  BY DEF IInv
<1>2. QED
  BY <1>1, SchedulerSafe, PTL

\* assert(port_index_ == port_index) in Run never fails.
THEOREM AssertionHolds == Spec => []TurnOfPort
<1>1. IInv => TurnOfPort
  BY DEF IInv
<1>2. QED
  BY <1>1, SchedulerSafe, PTL

\* A flush that was accepted and has not begun is still waiting.
THEOREM FlushStillWaits == Spec => []FlushWaits
<1>1. IInv => FlushWaits
  BY DEF IInv
<1>2. QED
  BY <1>1, SchedulerSafe, PTL
=============================================================================
