------------------------------ MODULE DmxLine ------------------------------
(***************************************************************************)
(* The line driver of the GD32 (lib-dmx/src/gd32/dmx.cpp) under the calls  *)
(* the Art-Net gateway makes of it: one UART, one timer channel and one    *)
(* DMA channel per port, whose interrupts run DMX frames (Break, MAB, DMA, *)
(* inter-frame time) and RDM messages (Break, MAB, DMA, turn-around), and  *)
(* a main loop that starts and stops them and that waits, spinning, for an *)
(* interrupt to change the state it reads.                                 *)
(*                                                                         *)
(* `todo` is what the main loop still has to do in the handler it runs.    *)
(* An interrupt is taken while the main loop is idle or spins; what it     *)
(* does between two waits takes a microsecond and is not interrupted here. *)
(* The contents of the frames, reception and ArtSync are left out.  The    *)
(* firmware is built with NDEBUG: no assertion stops it.                   *)
(***************************************************************************)
EXTENDS Naturals, Sequences

CONSTANT kPorts  \* dmx::config::max::kPorts

ASSUME PortsAssumption == kPorts \in Nat

Ports == 1 .. kPorts

VARIABLES
  port_direction_,  \* Dmx::port_direction_, and the direction pin with it
  sv_port_state,    \* "Idle", "Tx" or "Rx"
  output_style,     \* "Delta" or "Constant"
  tx,               \* s_DmxTxBuffer[].state: the DMX frame in progress
  rdm,              \* s_RdmTxBuffer[].state: the RDM message in progress
  dma,              \* what the DMA channel of the port is sending
  has_continuous_output_,
  started_,         \* DmxSend::started_
  is_transmitting,  \* ArtNetNode: output_port_[].is_transmitting
  todo              \* the operations the main loop still has to do, in order

interrupts == <<tx, rdm, dma>>
gateway == <<started_, is_transmitting>>
vars == <<port_direction_, sv_port_state, output_style, tx, rdm, dma,
          has_continuous_output_, started_, is_transmitting, todo>>

Operation == {"Disable", "Stop", "Wait", "WaitTC", "Enable", "Style", "Restart",
              "Direct", "Output", "Rdm", "Dark"} \X Ports

TypeOK ==
  /\ port_direction_ \in [Ports -> {"Input", "Output"}]
  /\ sv_port_state \in [Ports -> {"Idle", "Tx", "Rx"}]
  /\ output_style \in [Ports -> {"Delta", "Constant"}]
  /\ tx \in [Ports -> {"Idle", "Inter", "Break", "Mab"}]
  /\ rdm \in [Ports -> {"Idle", "Break", "Mab", "Direction"}]
  /\ dma \in [Ports -> {"none", "dmx", "rdm"}]
  /\ has_continuous_output_ \in BOOLEAN
  /\ started_ \in [Ports -> BOOLEAN] /\ is_transmitting \in [Ports -> BOOLEAN]
  /\ todo \in Seq(Operation)

Init ==
  /\ port_direction_ = [p \in Ports |-> "Input"]
  /\ sv_port_state = [p \in Ports |-> "Idle"]
  /\ output_style = [p \in Ports |-> "Delta"]
  /\ tx = [p \in Ports |-> "Idle"]
  /\ rdm = [p \in Ports |-> "Idle"]
  /\ dma = [p \in Ports |-> "none"]
  /\ has_continuous_output_ = FALSE
  /\ started_ = [p \in Ports |-> FALSE]
  /\ is_transmitting = [p \in Ports |-> FALSE]
  /\ todo = <<>>

-----------------------------------------------------------------------------
(* The interrupts *)

\* USART_FLAG_TC is set once the DMA and the shift register are empty.
TransmissionCompleteIgnored(p) == p \in Ports \* mutant: no wait for TC
TransmissionComplete(p) == dma[p] = "none"

\* The main loop has nothing to do, or spins.
Spins ==
  \/ \E p \in Ports : Head(todo) = <<"Wait", p>> /\ tx[p] \notin {"Idle", "Inter"}
  \/ \E p \in Ports : Head(todo) = <<"WaitTC", p>> /\ tx[p] # "Idle"
  \/ \E p \in Ports : Head(todo) \in {"Restart", "Direct", "Output", "Rdm"} \X {p} /\ ~ TransmissionComplete(p)

Interruptible == todo # <<>> => Spins

\* The timer's compare channel matches.  The counter is never stopped, so that
\* a match whose deadline another one replaced comes with the next wrap of the
\* counter, later than the longest frame.
Matches(p) == Interruptible /\ dma[p] = "none"

DmxTimer(p) ==
  /\ Matches(p)
  /\ \/ tx[p] = "Inter" /\ tx' = [tx EXCEPT ![p] = "Break"] /\ UNCHANGED dma
     \/ tx[p] = "Break" /\ tx' = [tx EXCEPT ![p] = "Mab"] /\ UNCHANGED dma
     \/ tx[p] = "Mab" /\ dma' = [dma EXCEPT ![p] = "dmx"] /\ UNCHANGED tx
  /\ UNCHANGED <<port_direction_, sv_port_state, output_style, rdm, has_continuous_output_, gateway, todo>>

\* A DMX frame in progress goes before the RDM message.
RdmMayGoFirst(p) == TRUE \* mutant: the message goes first
RdmMayGo(p) == tx[p] = "Idle"

RdmTimer(p) ==
  /\ Matches(p) /\ RdmMayGo(p)
  /\ \/ rdm[p] = "Break" /\ rdm' = [rdm EXCEPT ![p] = "Mab"] /\ UNCHANGED dma
     \/ rdm[p] = "Mab" /\ dma' = [dma EXCEPT ![p] = "rdm"] /\ UNCHANGED rdm
  /\ UNCHANGED <<port_direction_, sv_port_state, output_style, tx, has_continuous_output_, gateway, todo>>

\* The message is out: SetPortDirection<kInput, true>.  TC is set 88 us after
\* the DMA's end, 6 us before kDirectionTime: a main loop that spins until the
\* message is complete goes on first.
RdmTurnAround(p) ==
  /\ Matches(p) /\ RdmMayGo(p) /\ rdm[p] = "Direction"
  /\ rdm' = [rdm EXCEPT ![p] = "Idle"]
  /\ port_direction_' = [port_direction_ EXCEPT ![p] = "Input"]
  /\ sv_port_state' = [sv_port_state EXCEPT ![p] = "Rx"]
  /\ UNCHANGED <<output_style, tx, dma, has_continuous_output_, gateway, todo>>

\* A frame on demand is followed by nothing, a constant one by the next.
AfterFrameData(p) == IF output_style[p] = "Delta" THEN "Idle" ELSE "Data" \* mutant: wrong state
AfterFrameBreak(p) == \* mutant: no interval
  IF output_style[p] = "Delta" THEN "Idle" ELSE "Break"
AfterFrameAgain(p) == "Inter" \* mutant: a frame on demand is repeated
AfterFrame(p) == IF output_style[p] = "Delta" THEN "Idle" ELSE "Inter"

\* The DMA channel's transfer is complete.
DmaComplete(p) ==
  /\ Interruptible /\ dma[p] # "none"
  /\ dma' = [dma EXCEPT ![p] = "none"]
  /\ IF tx[p] # "Idle"
     THEN /\ tx' = [tx EXCEPT ![p] = AfterFrame(p)]
          /\ UNCHANGED rdm
     ELSE /\ rdm' = [rdm EXCEPT ![p] = IF @ = "Idle" THEN @ ELSE "Direction"]
          /\ UNCHANGED tx
  /\ UNCHANGED <<port_direction_, sv_port_state, output_style, has_continuous_output_, gateway, todo>>

Interrupt(p) == DmxTimer(p) \/ RdmTimer(p) \/ RdmTurnAround(p) \/ DmaComplete(p)

-----------------------------------------------------------------------------
(* The operations of the driver, one at a time *)

Doing(op, p) == todo # <<>> /\ Head(todo) = <<op, p>>

ConstantOutputs == {q \in Ports : output_style[q] = "Constant" /\ port_direction_[q] = "Output"}

\* DataDisable, when `wanted` holds: nothing when the port is idle; an input is
\* just switched off.
DataDisable(op, p, wanted) ==
  /\ Doing(op, p)
  /\ sv_port_state' = IF wanted THEN [sv_port_state EXCEPT ![p] = "Idle"] ELSE sv_port_state
  /\ todo' = IF wanted /\ sv_port_state[p] # "Idle" /\ port_direction_[p] = "Output"
             THEN <<<<"Wait", p>>>> \o Tail(todo)
             ELSE Tail(todo)
  /\ UNCHANGED <<port_direction_, output_style, interrupts, has_continuous_output_, gateway>>

Disable(p) == DataDisable("Disable", p, TRUE)
Stop(p)    == DataDisable("Stop", p, p \in ConstantOutputs)

\* ... an output has its frame finished: the loop ends with the frame, or with
\* the interval after it, once the last slot has left the UART.
StopsAt(p) == tx[p] \in {"Idle", "Inter"}

Wait(p) ==
  /\ Doing("Wait", p) /\ StopsAt(p)
  /\ todo' = IF tx[p] = "Inter" THEN <<<<"WaitTC", p>>>> \o Tail(todo) ELSE Tail(todo)
  /\ UNCHANGED <<port_direction_, sv_port_state, output_style, interrupts, has_continuous_output_, gateway>>

\* When it had left before the flag was cleared, the next frame sets it again.
WaitTC(p) ==
  /\ Doing("WaitTC", p) /\ StopsAt(p) /\ TransmissionComplete(p)
  /\ tx' = [tx EXCEPT ![p] = "Idle"]
  /\ todo' = Tail(todo)
  /\ UNCHANGED <<port_direction_, sv_port_state, output_style, rdm, dma, has_continuous_output_, gateway>>

\* DataEnable, of the direction the port has by now.
Enable(p) ==
  /\ Doing("Enable", p)
  /\ IF port_direction_[p] = "Output"
     THEN /\ sv_port_state' = [sv_port_state EXCEPT ![p] = "Tx"]
          /\ tx' = [tx EXCEPT ![p] = "Idle"]
          /\ todo' = <<<<"Style", p>>>> \o Tail(todo)
     ELSE /\ sv_port_state' = [sv_port_state EXCEPT ![p] = "Rx"]
          /\ todo' = Tail(todo)
          /\ UNCHANGED tx
  /\ UNCHANGED <<port_direction_, output_style, rdm, dma, has_continuous_output_, gateway>>

\* A loop over the ports; each turn looks at its port when it comes to it.
ForEach(op) == [p \in Ports |-> <<op, p>>]

\* SetOutputStyle, after the assignment of the style: the first constant output
\* just starts; with the next one, they are all stopped and started together.
Style(p) ==
  /\ Doing("Style", p)
  /\ has_continuous_output_' = \E q \in Ports : output_style[q] = "Constant"
  /\ todo' = (IF output_style[p] = "Delta" THEN <<>>
              ELSE IF has_continuous_output_ THEN ForEach("Stop") \o ForEach("Restart")
              ELSE IF p \in ConstantOutputs THEN <<<<"Output", p>>>> ELSE <<>>)
             \o Tail(todo)
  /\ UNCHANGED <<port_direction_, sv_port_state, output_style, interrupts, gateway>>

\* StartDmxOutput, when `wanted` holds: the line is pulled low for the Break,
\* after the transmission in progress.
StartDmxOutput(op, p, wanted) ==
  /\ Doing(op, p)
  /\ ~ wanted \/ TransmissionComplete(p)
  /\ tx' = IF wanted THEN [tx EXCEPT ![p] = "Break"] ELSE tx
  /\ todo' = Tail(todo)
  /\ UNCHANGED <<port_direction_, sv_port_state, output_style, rdm, dma, has_continuous_output_, gateway>>

Output(p) == StartDmxOutput("Output", p, TRUE)
Restart(p) == StartDmxOutput("Restart", p, p \in ConstantOutputs)

\* StartSendStyleDirect, at the end of SetSendDataInternal: a new frame starts
\* only when the port transmits on demand and no frame is in progress.
Direct(p) ==
  StartDmxOutput("Direct", p, sv_port_state[p] = "Tx" /\ output_style[p] = "Delta" /\ tx[p] = "Idle")

\* StartRdmOutput: it does not look at the state of the DMX frame.
Rdm(p) ==
  /\ Doing("Rdm", p) /\ TransmissionComplete(p)
  /\ rdm' = [rdm EXCEPT ![p] = "Break"]
  /\ todo' = Tail(todo)
  /\ UNCHANGED <<port_direction_, sv_port_state, output_style, tx, dma, has_continuous_output_, gateway>>

\* A turn of Blackout and FullOn.
Dark(p) ==
  /\ Doing("Dark", p)
  /\ todo' = (IF port_direction_[p] = "Output"
              THEN <<<<"Disable", p>>, <<"Enable", p>>>> ELSE <<>>) \o Tail(todo)
  /\ UNCHANGED <<port_direction_, sv_port_state, output_style, interrupts, has_continuous_output_, gateway>>

Driver(p) ==
  \/ Disable(p) \/ Stop(p) \/ Wait(p) \/ WaitTC(p) \/ Enable(p) \/ Style(p)
  \/ Output(p) \/ Restart(p) \/ Direct(p) \/ Rdm(p) \/ Dark(p)

-----------------------------------------------------------------------------
(* What the gateway asks of the driver *)

\* SetPortDirection(p, kOutput, enable_data), after the assignment of the
\* direction: the port is disabled when it was an input or data is not wanted.
ToOutput(p, enable_data) ==
  (IF port_direction_[p] # "Output" \/ ~ enable_data THEN <<<<"Disable", p>>>> ELSE <<>>)
  \o (IF enable_data THEN <<<<"Enable", p>>>> ELSE <<>>)

Handler(p) == todo = <<>> /\ UNCHANGED <<sv_port_state, interrupts, has_continuous_output_>>

\* HandleDmx: the data is set, and the output started unless it has been
\* (is_transmitting for the node, started_ for DmxSend).
ArtDmx(p) ==
  LET starts == ~ is_transmitting[p] /\ ~ started_[p] IN
  /\ Handler(p)
  /\ is_transmitting' = [is_transmitting EXCEPT ![p] = TRUE]
  /\ started_' = [started_ EXCEPT ![p] = TRUE]
  /\ port_direction_' = IF starts THEN [port_direction_ EXCEPT ![p] = "Output"] ELSE port_direction_
  /\ todo' = <<<<"Direct", p>>>> \o (IF starts THEN ToOutput(p, TRUE) ELSE <<>>)
  /\ UNCHANGED output_style

\* HandleRdm and, for the first message of a discovery, Starting: StopOutputPort,
\* then RdmTransmit.  A further message finds the output stopped already.
ArtRdm(p) ==
  /\ Handler(p)
  /\ is_transmitting' = [is_transmitting EXCEPT ![p] = FALSE]
  /\ started_' = [started_ EXCEPT ![p] = @ /\ ~ is_transmitting[p]]
  /\ port_direction_' = [port_direction_ EXCEPT ![p] = "Output"]
  /\ todo' = <<<<"Disable", p>>, <<"Rdm", p>>>>
  /\ UNCHANGED output_style

\* ArtAddress, AcStyleDelta and AcStyleConst.
SetOutputStyle(p, style) ==
  /\ Handler(p) /\ output_style[p] # style
  /\ output_style' = [output_style EXCEPT ![p] = style]
  /\ todo' = <<<<"Style", p>>>>
  /\ UNCHANGED <<port_direction_, gateway>>

\* Blackout and FullOn, of the network data loss condition.
Blackout ==
  /\ todo = <<>>
  /\ todo' = ForEach("Dark")
  /\ UNCHANGED <<port_direction_, sv_port_state, output_style, interrupts, has_continuous_output_, gateway>>

Request(p) ==
  \/ ArtDmx(p) \/ ArtRdm(p)
  \/ \E style \in {"Delta", "Constant"} : SetOutputStyle(p, style)

Next == Blackout \/ \E p \in Ports : Request(p) \/ Driver(p) \/ Interrupt(p)

Spec == Init /\ [][Next]_vars

\* The interrupts come, and the main loop polls much faster than they change
\* what it waits for.
FairSpec ==
  /\ Spec
  /\ \A p \in Ports : WF_vars(Interrupt(p)) /\ SF_vars(Driver(p))

-----------------------------------------------------------------------------
(* Properties *)

\* The transceiver drives the line as long as a DMX frame, or the Break and the
\* slots of an RDM message, are being sent.
Driven ==
  \A p \in Ports :
    tx[p] # "Idle" \/ rdm[p] \in {"Break", "Mab"} \/ dma[p] # "none" => port_direction_[p] = "Output"

\* Nothing is put on the line over the slots the DMA is sending: it is neither
\* pulled low for the Break of another packet nor given another buffer.
NoBreakInFrame ==
  [][\A p \in Ports : dma[p] # "none" =>
       /\ dma'[p] \in {dma[p], "none"}
       /\ tx'[p] = "Break" => tx[p] = "Break"
       /\ rdm'[p] = "Break" => rdm[p] = "Break"]_vars

\* The driver always returns to the main loop: the interrupts do what its
\* loops wait for.
DriverReturns == []<>(todo = <<>>)

\* Once the gateway asks nothing more, an RDM message that has begun comes to its
\* end and leaves the port free, whatever DMX frame was in progress: only an
\* output in constant style can keep the line from it.
RdmEnds ==
  \A p \in Ports :
    <>[](todo = <<>> /\ output_style[p] = "Delta") => []<>(rdm[p] = "Idle")
=============================================================================
