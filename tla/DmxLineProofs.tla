--------------------------- MODULE DmxLineProofs ---------------------------
(***************************************************************************)
(* For every number of ports: the line is driven while something is sent   *)
(* on it, and nothing is put over the slots the DMA is sending.            *)
(*                                                                         *)
(* The turn-around of an RDM message makes its port an input in an         *)
(* interrupt.  The invariant says why no operation of the main loop that   *)
(* starts a transmission has the port change under it: `Planned` is about  *)
(* the operations that are still to come, TxIsOutput about the state that  *)
(* the others look at.                                                     *)
(***************************************************************************)
EXTENDS DmxLine, TLAPS

\* A port in the state "Tx" is an output.
TxIsOutput == \A p \in Ports : sv_port_state[p] = "Tx" => port_direction_[p] = "Output"

\* An operation that starts a transmission whatever the direction: the port is an
\* output, and before it only this port is being stopped.
Starts == {"Rdm", "Output"} \X Ports
Stopping(p) == {"Disable", "Wait", "WaitTC"} \X {p}

Plan(s) ==
  \A i \in 1 .. Len(s) : s[i] \in Starts =>
    /\ port_direction_[s[i][2]] = "Output"
    /\ \A j \in 1 .. i - 1 : s[j] \in Stopping(s[i][2])

Planned == Plan(todo)

IInv == TypeOK /\ Driven /\ TxIsOutput /\ Planned

-----------------------------------------------------------------------------
(* Sequences of operations. *)

\* What comes after the head.
LEMMA TailFacts ==
  ASSUME TypeOK, todo # <<>>
  PROVE  /\ Tail(todo) \in Seq(Operation)
         /\ Len(Tail(todo)) = Len(todo) - 1
         /\ \A i \in 1 .. Len(Tail(todo)) : i + 1 \in 1 .. Len(todo) /\ Tail(todo)[i] = todo[i + 1]
         /\ Len(todo) > 0 /\ Head(todo) = todo[1] /\ Head(todo) \in Operation
BY DEF TypeOK

\* A loop over the ports is a sequence of operations.
LEMMA ForEachSeq ==
  ASSUME NEW op \in {"Stop", "Restart", "Dark"}
  PROVE  /\ ForEach(op) \in Seq(Operation) /\ Len(ForEach(op)) = kPorts
         /\ \A i \in 1 .. Len(ForEach(op)) : ForEach(op)[i] \notin Starts
BY PortsAssumption DEF ForEach, Operation, Ports, Starts

\* Operations that start nothing by themselves may be put in front of the rest
\* when the rest starts nothing by itself either.
Quiet(s) == \A i \in 1 .. Len(s) : s[i] \notin Starts

LEMMA QuietConcat ==
  ASSUME NEW s \in Seq(Operation), NEW t \in Seq(Operation), Quiet(s), Quiet(t)
  PROVE  s \o t \in Seq(Operation) /\ Quiet(s \o t)
<1>1. s \o t \in Seq(Operation) /\ Len(s \o t) = Len(s) + Len(t)
  OBVIOUS
<1>2. ASSUME NEW i \in 1 .. Len(s \o t) PROVE (s \o t)[i] \notin Starts
  <2>1. CASE i <= Len(s)
    BY <2>1, <1>1 DEF Quiet
  <2>2. CASE i > Len(s)
    <3>1. i - Len(s) \in 1 .. Len(t) /\ (s \o t)[i] = t[i - Len(s)]
      BY <2>2, <1>1
    <3>2. QED  BY <3>1 DEF Quiet
  <2>3. QED  BY <2>1, <2>2
<1>3. QED  BY <1>1, <1>2 DEF Quiet

\* When the main loop does something else than stop a port, nothing that is to
\* come after it starts a transmission by itself.
LEMMA RestQuiet ==
  ASSUME TypeOK, Planned, todo # <<>>, NEW p \in Ports,
         Head(todo) \notin Stopping(p), Head(todo)[2] = p
  PROVE  Quiet(Tail(todo))
<1>1. SUFFICES ASSUME NEW i \in 1 .. Len(Tail(todo)), Tail(todo)[i] \in Starts
               PROVE  FALSE
  BY DEF Quiet
<1>2. i + 1 \in 1 .. Len(todo) /\ todo[i + 1] \in Starts
  BY <1>1, TailFacts
<1>3. todo[1] \in Stopping(todo[i + 1][2])
  BY <1>2 DEF Planned, Plan
<1>4. QED  BY <1>3, TailFacts DEF Stopping

\* The rest of a plan is a plan, also behind another wait for the same port.
LEMMA RestPlanned ==
  ASSUME TypeOK, Planned, todo # <<>>
  PROVE  Plan(Tail(todo))
<1>1. SUFFICES ASSUME NEW i \in 1 .. Len(Tail(todo)), Tail(todo)[i] \in Starts
               PROVE  /\ port_direction_[Tail(todo)[i][2]] = "Output"
                      /\ \A j \in 1 .. i - 1 : Tail(todo)[j] \in Stopping(Tail(todo)[i][2])
  BY DEF Plan
<1>2. i + 1 \in 1 .. Len(todo) /\ Tail(todo)[i] = todo[i + 1]
  BY <1>1, TailFacts
<1>3. port_direction_[Tail(todo)[i][2]] = "Output"
  BY <1>1, <1>2 DEF Planned, Plan
<1>4. ASSUME NEW j \in 1 .. i - 1 PROVE Tail(todo)[j] \in Stopping(Tail(todo)[i][2])
  <2>1. j \in 1 .. Len(Tail(todo)) /\ j + 1 \in 1 .. (i + 1) - 1
    BY TailFacts
  <2>2. Tail(todo)[j] = todo[j + 1]
    BY <2>1, TailFacts
  <2>3. QED  BY <1>1, <1>2, <2>1, <2>2 DEF Planned, Plan
<1>5. QED  BY <1>3, <1>4

LEMMA WaitPlanned ==
  ASSUME TypeOK, Planned, todo # <<>>, NEW p \in Ports, Head(todo) \in Stopping(p),
         NEW op \in {"Wait", "WaitTC"}
  PROVE  /\ <<<<op, p>>>> \o Tail(todo) \in Seq(Operation)
         /\ Plan(<<<<op, p>>>> \o Tail(todo))
<1> DEFINE s == <<<<op, p>>>> \o Tail(todo)
<1>1. /\ s \in Seq(Operation) /\ Len(s) = Len(todo) /\ s[1] = <<op, p>>
      /\ \A i \in 2 .. Len(s) : s[i] = todo[i]
  <2>1. <<<<op, p>>>> \in Seq(Operation)
    BY DEF Operation
  <2>2. s \in Seq(Operation) /\ Len(s) = Len(todo) /\ s[1] = <<op, p>>
    BY <2>1, TailFacts
  <2>3. ASSUME NEW i \in 2 .. Len(s) PROVE s[i] = todo[i]
    <3>1. i - 1 \in 1 .. Len(Tail(todo)) /\ s[i] = Tail(todo)[i - 1]
      BY <2>1, <2>2, TailFacts
    <3>2. QED  BY <3>1, TailFacts
  <2>4. QED  BY <2>2, <2>3
<1> HIDE DEF s
<1>2. ASSUME NEW i \in 1 .. Len(s), s[i] \in Starts
      PROVE  port_direction_[s[i][2]] = "Output" /\ \A j \in 1 .. i - 1 : s[j] \in Stopping(s[i][2])
  <2>1. i \in 2 .. Len(s) /\ s[i] = todo[i] /\ i \in 1 .. Len(todo)
    BY <1>1, <1>2 DEF Starts
  <2>2. /\ port_direction_[s[i][2]] = "Output"
        /\ \A j \in 1 .. i - 1 : todo[j] \in Stopping(s[i][2])
    BY <1>2, <2>1 DEF Planned, Plan
  <2>3. todo[1] \in Stopping(s[i][2])
    BY <2>1, <2>2
  <2>4. s[i][2] = p
    BY <2>3, TailFacts DEF Stopping
  <2>5. s[1] \in Stopping(p)
    BY <1>1 DEF Stopping
  <2>6. QED  BY <1>1, <2>1, <2>2, <2>4, <2>5
<1>3. Plan(s)
  BY <1>2 DEF Plan
<1>4. QED  BY <1>1, <1>3 DEF s

\* In a plan that starts nothing everything goes on as planned.
LEMMA QuietPlan ==
  ASSUME NEW s, Quiet(s) PROVE Plan(s)
BY DEF Quiet, Plan

\* The main loop starts on a port what it has planned, and waits for that port
\* until it can: no interrupt turns the port around.
LEMMA NoTurnAround ==
  ASSUME TypeOK, Planned, NEW p \in Ports, RdmTurnAround(p),
         NEW i \in 1 .. Len(todo), todo[i] \in Starts
  PROVE  todo[i][2] # p
<1>1. todo # <<>> /\ Spins /\ dma[p] = "none" /\ tx[p] = "Idle"
  BY DEF RdmTurnAround, Matches, Interruptible, RdmMayGo, TypeOK
<1>2. CASE i = 1
  BY <1>1, <1>2, TailFacts DEF Spins, Starts, TransmissionComplete
<1>3. CASE i > 1
  <2>1. Head(todo) \in Stopping(todo[i][2])
    BY <1>1, <1>3, TailFacts DEF Planned, Plan
  <2>2. QED  BY <1>1, <2>1 DEF Spins, Stopping
<1>4. QED  BY <1>2, <1>3

-----------------------------------------------------------------------------
(* The steps. *)

\* What is still to be done, after an operation of the driver.
LEMMA DriverTodo ==
  ASSUME TypeOK, Planned, NEW p \in Ports, Driver(p)
  PROVE  todo' \in Seq(Operation) /\ Plan(todo')
<1>1. todo # <<>> /\ Head(todo)[2] = p
  <2>1. \E op \in {"Disable", "Stop", "Wait", "WaitTC", "Enable", "Style", "Restart",
                  "Direct", "Output", "Rdm", "Dark"} : Doing(op, p)
    BY DEF Driver, Disable, Stop, DataDisable, Wait, WaitTC, Enable, Style, Output, Restart,
           Direct, StartDmxOutput, Rdm, Dark
  <2>2. QED  BY <2>1 DEF Doing
<1>2. Tail(todo) \in Seq(Operation) /\ Plan(Tail(todo))
  BY <1>1, TailFacts, RestPlanned
<1>3. ASSUME Disable(p) \/ Wait(p) \/ WaitTC(p) PROVE todo' \in Seq(Operation) /\ Plan(todo')
  <2>1. Head(todo) \in Stopping(p)
    BY <1>3 DEF Disable, DataDisable, Wait, WaitTC, Doing, Stopping
  <2>2. \/ todo' = Tail(todo)
        \/ \E op \in {"Wait", "WaitTC"} : todo' = <<<<op, p>>>> \o Tail(todo)
    BY <1>3 DEF Disable, DataDisable, Wait, WaitTC
  <2>3. QED  BY <1>1, <1>2, <2>1, <2>2, WaitPlanned
<1>4. ASSUME Head(todo) \notin Stopping(p)
      PROVE  Quiet(Tail(todo))
  BY <1>1, <1>4, RestQuiet
<1>5. CASE Stop(p)
  <2>1. Quiet(Tail(todo))
    BY <1>4, <1>5 DEF Stop, DataDisable, Doing, Stopping
  <2>2. <<<<"Wait", p>>>> \in Seq(Operation) /\ Quiet(<<<<"Wait", p>>>>)
    BY DEF Operation, Quiet, Starts
  <2>3. todo' \in {Tail(todo), <<<<"Wait", p>>>> \o Tail(todo)}
    BY <1>5 DEF Stop, DataDisable
  <2>4. QED  BY <1>2, <2>1, <2>2, <2>3, QuietConcat, QuietPlan
<1>6. CASE Enable(p)
  <2>1. Quiet(Tail(todo))
    BY <1>4, <1>6 DEF Enable, Doing, Stopping
  <2>2. <<<<"Style", p>>>> \in Seq(Operation) /\ Quiet(<<<<"Style", p>>>>)
    BY DEF Operation, Quiet, Starts
  <2>3. todo' \in {Tail(todo), <<<<"Style", p>>>> \o Tail(todo)}
    BY <1>6 DEF Enable
  <2>4. QED  BY <1>2, <2>1, <2>2, <2>3, QuietConcat, QuietPlan
<1>7. CASE Dark(p)
  <2>1. Quiet(Tail(todo))
    BY <1>4, <1>7 DEF Dark, Doing, Stopping
  <2>2. /\ <<<<"Disable", p>>, <<"Enable", p>>>> \in Seq(Operation)
        /\ Quiet(<<<<"Disable", p>>, <<"Enable", p>>>>)
    BY DEF Operation, Quiet, Starts
  <2>3. <<>> \in Seq(Operation) /\ Quiet(<<>>)
    BY DEF Quiet
  <2>4. \/ todo' = <<<<"Disable", p>>, <<"Enable", p>>>> \o Tail(todo)
        \/ todo' = <<>> \o Tail(todo)
    BY <1>7 DEF Dark
  <2>5. QED  BY <1>2, <2>1, <2>2, <2>3, <2>4, QuietConcat, QuietPlan
<1>8. CASE Style(p)
  <2>1. Quiet(Tail(todo))
    BY <1>4, <1>8 DEF Style, Doing, Stopping
  <2>2. CASE todo' = <<>> \o Tail(todo)
    <3>1. <<>> \in Seq(Operation) /\ Quiet(<<>>)
      BY DEF Quiet
    <3>2. QED  BY <1>2, <2>1, <2>2, <3>1, QuietConcat, QuietPlan
  <2>3. CASE todo' = (ForEach("Stop") \o ForEach("Restart")) \o Tail(todo)
    <3>1. /\ ForEach("Stop") \in Seq(Operation) /\ Quiet(ForEach("Stop"))
          /\ ForEach("Restart") \in Seq(Operation) /\ Quiet(ForEach("Restart"))
      BY ForEachSeq DEF Quiet
    <3>2. /\ ForEach("Stop") \o ForEach("Restart") \in Seq(Operation)
          /\ Quiet(ForEach("Stop") \o ForEach("Restart"))
      BY <3>1, QuietConcat
    <3>3. QED  BY <1>2, <2>1, <2>3, <3>2, QuietConcat, QuietPlan
  <2>4. CASE p \in ConstantOutputs /\ todo' = <<<<"Output", p>>>> \o Tail(todo)
    <3>1. <<<<"Output", p>>>> \in Seq(Operation)
      BY DEF Operation
    <3>2. /\ todo' \in Seq(Operation) /\ Len(todo') = 1 + Len(Tail(todo)) /\ todo'[1] = <<"Output", p>>
      BY <1>2, <2>4, <3>1
    <3>3. ASSUME NEW i \in 2 .. Len(todo') PROVE todo'[i] \notin Starts
      <4>1. i - 1 \in 1 .. Len(Tail(todo)) /\ todo'[i] = Tail(todo)[i - 1]
        BY <1>2, <2>4, <3>1, <3>2
      <4>2. QED  BY <2>1, <4>1 DEF Quiet
    <3>4. port_direction_[p] = "Output"
      BY <2>4 DEF ConstantOutputs
    <3>5. \A i \in 1 .. Len(todo') : i = 1 \/ i \in 2 .. Len(todo')
      BY <3>2
    <3>6. QED  BY <3>2, <3>3, <3>4, <3>5 DEF Plan
  <2>5. QED  BY <1>8, <2>2, <2>3, <2>4 DEF Style
<1>9. CASE Output(p) \/ Restart(p) \/ Direct(p) \/ Rdm(p)
  BY <1>2, <1>9 DEF Output, Restart, Direct, StartDmxOutput, Rdm
<1>10. QED  BY <1>3, <1>5, <1>6, <1>7, <1>8, <1>9 DEF Driver

\* ... and after a request of the gateway.
LEMMA RequestTodo ==
  ASSUME TypeOK, NEW p \in Ports, Request(p)
  PROVE  todo' \in Seq(Operation) /\ Planned'
<1>1. todo = <<>>
  BY DEF Request, ArtDmx, ArtRdm, SetOutputStyle, Handler
<1>2. CASE ArtRdm(p)
  <2>1. todo' = <<<<"Disable", p>>, <<"Rdm", p>>>> /\ port_direction_'[p] = "Output"
    BY <1>2 DEF ArtRdm, TypeOK
  <2>2. todo' \in Seq(Operation) /\ Len(todo') = 2 /\ todo'[1] = <<"Disable", p>> /\ todo'[2] = <<"Rdm", p>>
    BY <2>1 DEF Operation
  <2>3. \A i \in 1 .. Len(todo') : todo'[i] \in Starts => i = 2
    BY <2>2 DEF Starts
  <2>4. \A j \in 1 .. 2 - 1 : todo'[j] \in Stopping(p)
    BY <2>2 DEF Stopping
  <2>5. QED  BY <2>1, <2>2, <2>3, <2>4 DEF Planned, Plan
<1>3. CASE ArtDmx(p)
  <2>1. ASSUME NEW op \in {"Direct", "Disable", "Enable"}
        PROVE  <<<<op, p>>>> \in Seq(Operation) /\ Quiet(<<<<op, p>>>>)
    BY DEF Operation, Quiet, Starts
  <2>2. <<>> \in Seq(Operation) /\ Quiet(<<>>)
    BY DEF Quiet
  <2>3. ToOutput(p, TRUE) \in Seq(Operation) /\ Quiet(ToOutput(p, TRUE))
    <3>1. \/ ToOutput(p, TRUE) = <<<<"Disable", p>>>> \o <<<<"Enable", p>>>>
          \/ ToOutput(p, TRUE) = <<>> \o <<<<"Enable", p>>>>
      BY DEF ToOutput
    <3>2. QED  BY <2>1, <2>2, <3>1, QuietConcat
  <2>4. \/ todo' = <<<<"Direct", p>>>> \o ToOutput(p, TRUE)
        \/ todo' = <<<<"Direct", p>>>> \o <<>>
    BY <1>3 DEF ArtDmx
  <2>5. todo' \in Seq(Operation) /\ Quiet(todo')
    BY <2>1, <2>2, <2>3, <2>4, QuietConcat
  <2>6. QED  BY <2>5 DEF Quiet, Planned, Plan
<1>4. CASE \E style \in {"Delta", "Constant"} : SetOutputStyle(p, style)
  <2>1. todo' = <<<<"Style", p>>>>
    BY <1>4 DEF SetOutputStyle
  <2>2. todo' \in Seq(Operation) /\ Quiet(todo')
    BY <2>1 DEF Operation, Quiet, Starts
  <2>3. QED  BY <2>2 DEF Quiet, Planned, Plan
<1>5. QED  BY <1>2, <1>3, <1>4 DEF Request

\* The interrupts leave the plan alone, and a blackout starts nothing.
LEMMA PlanSteps == ASSUME TypeOK, Planned, [Next]_vars PROVE todo' \in Seq(Operation) /\ Planned'
<1>1. ASSUME NEW p \in Ports, Request(p) PROVE todo' \in Seq(Operation) /\ Planned'
  BY <1>1, RequestTodo
<1>2. ASSUME NEW p \in Ports, Driver(p) PROVE todo' \in Seq(Operation) /\ Planned'
  <2>1. UNCHANGED port_direction_
    BY <1>2 DEF Driver, Disable, Stop, DataDisable, Wait, WaitTC, Enable, Style, Output, Restart,
                Direct, StartDmxOutput, Rdm, Dark
  <2>2. QED  BY <1>2, <2>1, DriverTodo DEF Planned, Plan
<1>3. ASSUME NEW p \in Ports, DmxTimer(p) \/ RdmTimer(p) \/ DmaComplete(p)
      PROVE  todo' \in Seq(Operation) /\ Planned'
  BY <1>3 DEF DmxTimer, RdmTimer, DmaComplete, TypeOK, Planned, Plan
<1>4. ASSUME NEW p \in Ports, RdmTurnAround(p) PROVE todo' \in Seq(Operation) /\ Planned'
  <2>1. UNCHANGED todo /\ port_direction_' = [port_direction_ EXCEPT ![p] = "Input"]
    BY <1>4 DEF RdmTurnAround
  <2>2. ASSUME NEW i \in 1 .. Len(todo), todo[i] \in Starts
        PROVE  port_direction_'[todo[i][2]] = port_direction_[todo[i][2]]
    <3>1. todo[i][2] \in Ports /\ todo[i][2] # p
      BY <1>4, <2>2, NoTurnAround DEF Starts
    <3>2. QED  BY <2>1, <3>1 DEF TypeOK
  <2>3. QED  BY <2>1, <2>2 DEF TypeOK, Planned, Plan
<1>5. CASE Blackout
  <2>1. todo' = ForEach("Dark")
    BY <1>5 DEF Blackout
  <2>2. todo' \in Seq(Operation) /\ Quiet(todo')
    BY <2>1, ForEachSeq DEF Quiet
  <2>3. QED  BY <2>2 DEF Quiet, Planned, Plan
<1>6. CASE UNCHANGED vars
  BY <1>6 DEF vars, TypeOK, Planned, Plan
<1>7. QED  BY <1>1, <1>2, <1>3, <1>4, <1>5, <1>6 DEF Next, Interrupt

\* The types, of everything but the operations to come.
LEMMA TypeSteps == ASSUME TypeOK, Planned, [Next]_vars PROVE TypeOK'
<1>1. todo' \in Seq(Operation)
  BY PlanSteps
<1>2. ASSUME NEW p \in Ports, Request(p) PROVE TypeOK'
  <2>1. CASE ArtDmx(p)
    BY <1>1, <2>1 DEF ArtDmx, Handler, TypeOK, interrupts
  <2>2. CASE ArtRdm(p)
    <3>1. /\ is_transmitting' \in [Ports -> BOOLEAN] /\ started_' \in [Ports -> BOOLEAN]
          /\ port_direction_' \in [Ports -> {"Input", "Output"}]
      BY <2>2, Zenon DEF ArtRdm, TypeOK
    <3>2. QED  BY <1>1, <2>2, <3>1 DEF ArtRdm, Handler, TypeOK, interrupts
  <2>3. ASSUME NEW style \in {"Delta", "Constant"}, SetOutputStyle(p, style) PROVE TypeOK'
    BY <1>1, <2>3 DEF SetOutputStyle, Handler, TypeOK, interrupts, gateway
  <2>4. QED  BY <1>2, <2>1, <2>2, <2>3 DEF Request
<1>3. ASSUME NEW p \in Ports, Driver(p) PROVE TypeOK'
  <2>1. CASE Disable(p) \/ Stop(p)
    BY <1>1, <2>1 DEF Disable, Stop, DataDisable, TypeOK, interrupts, gateway
  <2>2. CASE Wait(p) \/ WaitTC(p)
    BY <1>1, <2>2 DEF Wait, WaitTC, TypeOK, interrupts, gateway
  <2>3. CASE Enable(p)
    BY <1>1, <2>3 DEF Enable, TypeOK, interrupts, gateway
  <2>4. CASE Style(p)
    BY <1>1, <2>4 DEF Style, TypeOK, interrupts, gateway
  <2>5. CASE Output(p) \/ Restart(p) \/ Direct(p)
    BY <1>1, <2>5 DEF Output, Restart, Direct, StartDmxOutput, TypeOK, interrupts, gateway
  <2>6. CASE Rdm(p) \/ Dark(p)
    BY <1>1, <2>6 DEF Rdm, Dark, TypeOK, interrupts, gateway
  <2>7. QED  BY <1>3, <2>1, <2>2, <2>3, <2>4, <2>5, <2>6 DEF Driver
<1>4. ASSUME NEW p \in Ports, Interrupt(p) PROVE TypeOK'
  <2>1. CASE DmxTimer(p)
    BY <2>1 DEF DmxTimer, TypeOK, gateway
  <2>2. CASE RdmTimer(p)
    BY <2>2 DEF RdmTimer, TypeOK, gateway
  <2>3. CASE RdmTurnAround(p)
    BY <2>3 DEF RdmTurnAround, TypeOK, gateway
  <2>4. CASE DmaComplete(p)
    BY <2>4 DEF DmaComplete, AfterFrame, TypeOK, gateway
  <2>5. QED  BY <1>4, <2>1, <2>2, <2>3, <2>4 DEF Interrupt
<1>5. CASE Blackout
  BY <1>1, <1>5 DEF Blackout, TypeOK, interrupts, gateway
<1>6. CASE UNCHANGED vars
  BY <1>6 DEF vars, TypeOK
<1>7. QED  BY <1>2, <1>3, <1>4, <1>5, <1>6 DEF Next

\* Only the turn-around makes an output an input, and it takes the state "Tx" away.
LEMMA TxSteps == ASSUME TypeOK, TxIsOutput, [Next]_vars PROVE TxIsOutput'
<1>1. ASSUME NEW p \in Ports, Request(p) PROVE TxIsOutput'
  BY <1>1 DEF Request, ArtDmx, ArtRdm, SetOutputStyle, Handler, TypeOK, TxIsOutput
<1>2. ASSUME NEW p \in Ports, Driver(p) PROVE TxIsOutput'
  BY <1>2 DEF Driver, Disable, Stop, DataDisable, Wait, WaitTC, Enable, Style, Output, Restart,
              Direct, StartDmxOutput, Rdm, Dark, TypeOK, TxIsOutput
<1>3. ASSUME NEW p \in Ports, Interrupt(p) PROVE TxIsOutput'
  BY <1>3 DEF Interrupt, DmxTimer, RdmTimer, RdmTurnAround, DmaComplete, TypeOK, TxIsOutput
<1>4. CASE Blackout
  BY <1>4 DEF Blackout, TxIsOutput
<1>5. CASE UNCHANGED vars
  BY <1>5 DEF vars, TxIsOutput
<1>6. QED  BY <1>1, <1>2, <1>3, <1>4, <1>5 DEF Next

\* What the operations at the head of a plan start, they start on an output.
LEMMA DrivenSteps == ASSUME IInv, [Next]_vars PROVE Driven'
<1> USE DEF IInv
<1>1. ASSUME NEW p \in Ports, Request(p) PROVE Driven'
  BY <1>1 DEF Request, ArtDmx, ArtRdm, SetOutputStyle, Handler, interrupts, TypeOK, Driven
<1>2. ASSUME NEW p \in Ports, Driver(p) PROVE Driven'
  <2>1. ASSUME todo # <<>>, Head(todo) \in {"Rdm", "Output"} \X {p} PROVE port_direction_[p] = "Output"
    <3>1. 1 \in 1 .. Len(todo) /\ todo[1] = Head(todo)
      BY <2>1, TailFacts DEF TypeOK
    <3>2. todo[1] \in Starts /\ todo[1][2] = p
      BY <2>1, <3>1 DEF Starts
    <3>3. QED  BY <3>1, <3>2 DEF Planned, Plan
  <2>2. CASE Rdm(p)
    BY <2>1, <2>2 DEF Rdm, Doing, TypeOK, Driven
  <2>3. CASE Output(p)
    BY <2>1, <2>3 DEF Output, StartDmxOutput, Doing, TypeOK, Driven
  <2>4. CASE Restart(p)
    BY <2>4 DEF Restart, StartDmxOutput, ConstantOutputs, TypeOK, Driven
  <2>5. CASE Direct(p)
    BY <2>5 DEF Direct, StartDmxOutput, TxIsOutput, TypeOK, Driven
  <2>6. CASE Disable(p) \/ Stop(p) \/ Wait(p) \/ WaitTC(p) \/ Enable(p) \/ Style(p) \/ Dark(p)
    BY <2>6 DEF Disable, Stop, DataDisable, Wait, WaitTC, Enable, Style, Dark, interrupts, TypeOK, Driven
  <2>7. QED  BY <1>2, <2>2, <2>3, <2>4, <2>5, <2>6 DEF Driver
<1>3. ASSUME NEW p \in Ports, Interrupt(p) PROVE Driven'
  <2>1. CASE DmxTimer(p)
    BY <2>1 DEF DmxTimer, TypeOK, Driven
  <2>2. CASE RdmTimer(p)
    BY <2>2 DEF RdmTimer, TypeOK, Driven
  <2>3. CASE RdmTurnAround(p)
    BY <2>3 DEF RdmTurnAround, Matches, RdmMayGo, TypeOK, Driven
  <2>4. CASE DmaComplete(p)
    BY <2>4 DEF DmaComplete, AfterFrame, TypeOK, Driven
  <2>5. QED  BY <1>3, <2>1, <2>2, <2>3, <2>4 DEF Interrupt
<1>4. CASE Blackout
  BY <1>4 DEF Blackout, interrupts, Driven
<1>5. CASE UNCHANGED vars
  BY <1>5 DEF vars, Driven
<1>6. QED  BY <1>1, <1>2, <1>3, <1>4, <1>5 DEF Next

\* The invariant holds at first: the ports are idle inputs and nothing is planned.
LEMMA InitSound == Init => IInv
<1> HAVE Init
<1>1. todo = <<>> /\ todo \in Seq(Operation) /\ Planned
  BY DEF Init, Planned, Plan
<1>2. TypeOK
  BY <1>1 DEF Init, TypeOK
<1>3. Driven /\ TxIsOutput
  BY DEF Init, Driven, TxIsOutput
<1>4. QED  BY <1>1, <1>2, <1>3 DEF IInv

\* The invariant holds for ever.
THEOREM Always == Spec => []IInv
<1>1. Init => IInv
  BY InitSound
<1>2. IInv /\ [Next]_vars => IInv'
  BY PlanSteps, TypeSteps, TxSteps, DrivenSteps DEF IInv
<1>3. QED  BY <1>1, <1>2, PTL DEF Spec

\* The types: in particular no operation is ever planned for a port that the board
\* does not have, and every state of a transmission is one of the driver's.
THEOREM TypeCorrect == Spec => []TypeOK
<1>1. IInv => TypeOK
  BY DEF IInv
<1>2. QED  BY <1>1, Always, PTL

\* The line is driven as long as something is sent on it: the turn-around of an RDM
\* message (TIMER1_IRQHandler) never takes the port from a frame or another message.
THEOREM LineIsDriven == Spec => []Driven
<1>1. IInv => Driven
  BY DEF IInv
<1>2. QED  BY <1>1, Always, PTL

-----------------------------------------------------------------------------
\* What is not to happen to a port that is sending.
Undisturbed(p) ==
  dma[p] # "none" => /\ dma'[p] \in {dma[p], "none"}
                     /\ tx'[p] = "Break" => tx[p] = "Break"
                     /\ rdm'[p] = "Break" => rdm[p] = "Break"

\* The timer passes over a port that is sending, the DMA's end starts no Break by
\* itself, and the main loop waits for the end.
LEMMA UndisturbedStep ==
  ASSUME TypeOK, [Next]_vars, NEW q \in Ports PROVE Undisturbed(q)
<1>1. ASSUME NEW p \in Ports, Request(p) PROVE Undisturbed(q)
  BY <1>1 DEF Request, ArtDmx, ArtRdm, SetOutputStyle, Handler, interrupts, Undisturbed
<1>2. ASSUME NEW p \in Ports, Driver(p) PROVE Undisturbed(q)
  <2>1. CASE Disable(p) \/ Stop(p) \/ Wait(p) \/ Style(p) \/ Dark(p)
    BY <2>1 DEF Disable, Stop, DataDisable, Wait, Style, Dark, interrupts, Undisturbed
  <2>2. CASE Enable(p) \/ WaitTC(p)
    BY <2>2 DEF Enable, WaitTC, TypeOK, Undisturbed
  <2>3. CASE Output(p) \/ Restart(p) \/ Direct(p)
    BY <2>3 DEF Output, Restart, Direct, StartDmxOutput, TransmissionComplete, TypeOK, Undisturbed
  <2>4. CASE Rdm(p)
    BY <2>4 DEF Rdm, TransmissionComplete, TypeOK, Undisturbed
  <2>5. QED  BY <1>2, <2>1, <2>2, <2>3, <2>4 DEF Driver
<1>3. ASSUME NEW p \in Ports, Interrupt(p) PROVE Undisturbed(q)
  BY <1>3 DEF Interrupt, DmxTimer, RdmTimer, RdmTurnAround, DmaComplete, Matches, AfterFrame,
              TypeOK, Undisturbed
<1>4. CASE Blackout
  BY <1>4 DEF Blackout, interrupts, Undisturbed
<1>5. CASE UNCHANGED vars
  BY <1>5 DEF vars, Undisturbed
<1>6. QED  BY <1>1, <1>2, <1>3, <1>4, <1>5 DEF Next

\* Nothing is put over the slots that the DMA sends, however the timer, the DMA and
\* the operations of StartDmxOutput and StartRdmOutput follow each other.
THEOREM NothingOverSlots == Spec => NoBreakInFrame
<1>1. IInv /\ [Next]_vars => [\A p \in Ports : Undisturbed(p)]_vars
  BY UndisturbedStep DEF IInv
<1>2. QED
  <2>1. [\A p \in Ports : Undisturbed(p)]_vars =>
          [\A p \in Ports : dma[p] # "none" =>
             /\ dma'[p] \in {dma[p], "none"}
             /\ tx'[p] = "Break" => tx[p] = "Break"
             /\ rdm'[p] = "Break" => rdm[p] = "Break"]_vars
    BY DEF Undisturbed
  <2>2. QED  BY <1>1, <2>1, Always, PTL DEF Spec, NoBreakInFrame
=============================================================================
