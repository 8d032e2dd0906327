-------------------------- MODULE E131BridgeProofs --------------------------
(***************************************************************************)
(* For every number of ports, set of packets and time-out: the bridge      *)
(* keeps its types, no port merges a stream with itself, network data loss *)
(* leaves nothing of the old streams in force, and a third source finds    *)
(* the slots of silent ones free the next time.                            *)
(*                                                                         *)
(* What the node and the loop of HandleDmx keep (NodeSound) and what the   *)
(* ports keep (PortsSound) are shown apart.  That no stream stands in both *)
(* slots is inductive by itself: every operation other than accepting data *)
(* only takes streams out of slots (Keeps), and AcceptedSound is the case  *)
(* analysis of the cleared addresses with which the code goes on.          *)
(***************************************************************************)
EXTENDS E131Bridge, TLAPS, WellFoundedInduction

PacketType == [stream : Streams, universe : Universes, priority : Priorities,
               address : Addresses, force : BOOLEAN, kind : Kinds, port : Ports]

\* The node, and the ghost, have their types; while data loss is reported no
\* packet is being handled and what governed the streams is reset.
NodeSound ==
  /\ priority \in Priorities
  /\ is_merge_mode \in BOOLEAN /\ is_network_data_loss \in BOOLEAN
  /\ is_synchronized \in BOOLEAN /\ is_forced_synchronized \in BOOLEAN
  /\ synchronization_address \in [Slots -> Addresses]
  /\ packet_age \in 0 .. kNetworkDataLossTimeout
  /\ sync_age \in 0 .. kNetworkDataLossTimeout
  /\ data = Idle \/ data \in PacketType
  /\ discarded \in BOOLEAN
  /\ is_network_data_loss =>
       /\ data = Idle
       /\ priority = kLowest
       /\ ~ is_merge_mode /\ ~ is_synchronized /\ ~ is_forced_synchronized

Distinct(q) == InUse(q) = Slots => q.source["a"].stream # q.source["b"].stream

PortsSound ==
  /\ port \in [Ports -> PortType]
  /\ \A p \in Ports : Distinct(port[p])
  /\ is_network_data_loss => \A p \in Ports : ~ port[p].transmitting

IInv == NodeSound /\ PortsSound

-----------------------------------------------------------------------------
(* Constants, packets and the loop over the ports. *)

LEMMA Zeroes == 0 \in Ages /\ 0 \in 0 .. kNetworkDataLossTimeout
BY E131Assumption DEF Ages

LEMMA OtherSlot ==
  ASSUME NEW s \in Slots
  PROVE  Other(s) \in Slots /\ Other(s) # s /\ Slots = {s, Other(s)}
BY DEF Other, Slots

LEMMA FrameParts ==
  ASSUME NEW f \in Frames
  PROVE  /\ f[1] \in Streams /\ f[2] \in Universes /\ f[3] \in Priorities
         /\ f[4] \in Addresses /\ f[5] \in BOOLEAN
<1>1. f[1] \in Streams /\ f[2] \in Universes /\ f[3] \in Priorities /\ f[4] \in Addresses
  BY DEF Streams, Universes, Priorities, Addresses
<1>2. f[5] \in BOOLEAN
  BY E131Assumption, Zenon
<1> QED
  BY <1>1, <1>2

\* A set of ports that is not empty has a first one.
LEMMA FirstPort ==
  ASSUME NEW rest \in SUBSET Ports, rest # {}
  PROVE  \E p \in rest : \A i \in rest : p <= i
<1>1. rest \subseteq Nat
  BY E131Assumption DEF Ports
<1>2. \E p \in rest : \A i \in rest : ~ (<<i, p>> \in OpToRel(<, Nat))
  BY <1>1, NatLessThanWellFounded, WFMin
<1>3. PICK p \in rest : \A i \in rest : ~ (<<i, p>> \in OpToRel(<, Nat))
  BY <1>2
<1>4. ASSUME NEW i \in rest PROVE p <= i
  <2>1. i \in Nat /\ p \in Nat
    BY <1>1
  <2>2. ~ (i < p)
    BY <1>3, <2>1 DEF OpToRel
  <2> QED
    BY <2>1, <2>2
<1> QED
  BY <1>3, <1>4

\* The loop goes on with a port that exists and handles the universe, or ends.
LEMMA LoopFromSound ==
  ASSUME NEW packet \in [stream : Streams, universe : Universes, priority : Priorities,
                         address : Addresses, force : BOOLEAN, kind : Kinds,
                         port : Ports \cup {0}],
         NEW n
  PROVE  LoopFrom(packet, n) = Idle \/ LoopFrom(packet, n) \in PacketType
<1> DEFINE rest == {p \in Ports : p > n /\ Handles(p, packet.universe)}
           first == CHOOSE p \in rest : \A i \in rest : p <= i
<1>1. CASE rest = {}
  BY <1>1 DEF LoopFrom
<1>2. CASE rest # {}
  <2>1. first \in rest
    BY <1>2, FirstPort
  <2>2. LoopFrom(packet, n) = [packet EXCEPT !.port = first]
    BY <1>2 DEF LoopFrom
  <2>3. first \in Ports
    BY <2>1
  <2> HIDE DEF first
  <2> QED
    BY <2>2, <2>3 DEF PacketType
<1> QED
  BY <1>1, <1>2

LEMMA HandledPort ==
  ASSUME NodeSound, data # Idle
  PROVE  data \in PacketType /\ Handled \in Ports /\ ~ is_network_data_loss
BY DEF NodeSound, PacketType, Handled

LEMMA NextPortSound ==
  ASSUME NodeSound, data # Idle, NextPort
  PROVE  data' = Idle \/ data' \in PacketType
<1>1. data \in [stream : Streams, universe : Universes, priority : Priorities,
                address : Addresses, force : BOOLEAN, kind : Kinds, port : Ports \cup {0}]
  BY HandledPort DEF PacketType
<1> QED
  BY <1>1, LoopFromSound DEF NextPort

-----------------------------------------------------------------------------
(* The node. *)

\* What every packet does first keeps the node, whatever else the packet changes.
LEMMA InputNode ==
  ASSUME NodeSound, InputUdp, sync_age' \in {0, sync_age},
         data' = data \/ data' = Idle \/ data' \in PacketType,
         UNCHANGED <<priority, is_merge_mode, is_forced_synchronized, synchronization_address>>
  PROVE  NodeSound'
<1>1. is_synchronized' \in BOOLEAN /\ discarded' \in BOOLEAN /\ is_merge_mode' \in BOOLEAN
      /\ is_forced_synchronized' \in BOOLEAN
  BY Zenon DEF InputUdp, NodeSound
<1>2. is_network_data_loss' = FALSE /\ data = Idle
  BY DEF InputUdp
<1>3. /\ priority' \in Priorities /\ synchronization_address' \in [Slots -> Addresses]
      /\ data' = Idle \/ data' \in PacketType
      /\ packet_age' \in 0 .. kNetworkDataLossTimeout
      /\ sync_age' \in 0 .. kNetworkDataLossTimeout
  BY <1>2, Zeroes DEF InputUdp, NodeSound
<1> QED
  BY <1>1, <1>2, <1>3, Zenon DEF NodeSound

\* SetSynchronizationAddress and the flags keep their types.
LEMMA SynchronizeNode ==
  ASSUME NodeSound, data # Idle, NEW q, Synchronize(q)
  PROVE  /\ is_synchronized' \in BOOLEAN /\ is_forced_synchronized' \in BOOLEAN
         /\ synchronization_address' \in [Slots -> Addresses]
<1>1. CASE data.force
  BY <1>1 DEF Synchronize, NodeSound
<1>2. CASE ~ data.force /\ (data.address = NoAddress \/ is_forced_synchronized)
  BY <1>2 DEF Synchronize, NodeSound, sync
<1>3. CASE ~ data.force /\ ~ (data.address = NoAddress \/ is_forced_synchronized)
  <2>1. data.address \in Addresses
    BY HandledPort DEF PacketType
  <2> QED
    BY <1>3, <2>1 DEF Synchronize, NodeSound
<1> QED
  BY <1>1, <1>2, <1>3

\* A turn of the loop of HandleDmx.
LEMMA HandleDmxNode == ASSUME NodeSound, HandleDmx PROVE NodeSound'
<1>1. data # Idle /\ ~ is_network_data_loss /\ data.priority \in Priorities
  BY HandledPort DEF HandleDmx, PacketType
<1>2. StillMerging \in BOOLEAN
  BY Zenon DEF StillMerging, NodeSound
<1>3. CASE DataOutOfSequence \/ StreamTerminated \/ DataOfLowerPriority
  <2>1. NextPort /\ discarded' = FALSE
        /\ UNCHANGED <<priority, is_network_data_loss, sync, packet_age, sync_age>>
    BY <1>3, Zenon DEF DataOutOfSequence, StreamTerminated, DataOfLowerPriority
  <2>2. is_merge_mode' \in BOOLEAN
    BY <1>2, <1>3, Zenon DEF DataOutOfSequence, StreamTerminated, DataOfLowerPriority, NodeSound
  <2> QED
    BY <1>1, <2>1, <2>2, NextPortSound DEF NodeSound, sync
<1>4. CASE DataOutput
  <2>1. Synchronize(Accepted) /\ NextPort /\ priority' = data.priority
        /\ UNCHANGED <<is_network_data_loss, packet_age, sync_age>>
    BY <1>4, Zenon DEF DataOutput
  <2>2. is_merge_mode' \in BOOLEAN /\ discarded' \in BOOLEAN
    BY <1>4, Zenon DEF DataOutput
  <2> QED
    BY <1>1, <2>1, <2>2, NextPortSound, SynchronizeNode DEF NodeSound
<1> QED
  BY <1>3, <1>4 DEF HandleDmx

LEMMA NodeSteps == ASSUME NodeSound, [Next]_vars PROVE NodeSound'
<1>1. ASSUME NEW f \in Frames, NEW k \in Kinds, InputData(f, k) PROVE NodeSound'
  <2> DEFINE packet == [stream |-> f[1], universe |-> f[2], priority |-> f[3],
                        address |-> f[4], force |-> f[5], kind |-> k, port |-> 0]
  <2>1. packet \in [stream : Streams, universe : Universes, priority : Priorities,
                    address : Addresses, force : BOOLEAN, kind : Kinds, port : Ports \cup {0}]
    BY FrameParts
  <2>2. data' = Idle \/ data' \in PacketType
    BY <1>1, <2>1, LoopFromSound DEF InputData
  <2> QED
    BY <1>1, <2>2, InputNode DEF InputData
<1>2. CASE InputOther
  BY <1>2, InputNode DEF InputOther
<1>3. ASSUME NEW address \in Addresses, SyncIgnored(address) \/ HandleSynchronization(address)
      PROVE  NodeSound'
  BY <1>3, InputNode DEF SyncIgnored, HandleSynchronization
<1>4. CASE HandleDmx
  BY <1>4, HandleDmxNode
<1>5. CASE SetNetworkDataLossCondition
  <2>1. kLowest \in Priorities
    BY DEF Priorities
  <2> QED
    BY <1>5, <2>1 DEF SetNetworkDataLossCondition, NodeSound
<1>6. ASSUME NEW p \in Ports, ClearPort(p) PROVE NodeSound'
  BY <1>6 DEF ClearPort, NodeSound, sync
<1>7. ASSUME NEW p \in Ports, NEW output \in BOOLEAN, SetDirection(p, output) PROVE NodeSound'
  BY <1>7 DEF SetDirection, NodeSound, sync
<1>8. ASSUME NEW s \in Switches, SetUniverse(s[1], s[2]) PROVE NodeSound'
  BY <1>8 DEF SetUniverse, NodeSound, sync
<1>9. CASE Tick
  <2>1. ASSUME NEW n \in 0 .. kNetworkDataLossTimeout
        PROVE  Older(n, kNetworkDataLossTimeout) \in 0 .. kNetworkDataLossTimeout
    BY E131Assumption DEF Older
  <2>2. /\ packet_age' \in 0 .. kNetworkDataLossTimeout
        /\ sync_age' \in 0 .. kNetworkDataLossTimeout
    BY <1>9, <2>1 DEF Tick, NodeSound
  <2> QED
    BY <1>9, <2>2 DEF Tick, NodeSound, sync
<1>10. CASE UNCHANGED vars
  BY <1>10 DEF vars, NodeSound, sync
<1>11. Disables \subseteq Ports
  BY E131Assumption DEF Ports
<1> QED
  BY <1>1, <1>2, <1>3, <1>4, <1>5, <1>6, <1>7, <1>8, <1>9, <1>10, <1>11 DEF Next

-----------------------------------------------------------------------------
(* The ports. *)

\* A slot taken out: the others keep their stream.
LEMMA ClearSound ==
  ASSUME NEW q \in PortType, NEW slots
  PROVE  /\ Clear(q, slots) \in PortType
         /\ \A s \in Slots : Clear(q, slots).source[s] =
              IF s \in slots THEN [q.source[s] EXCEPT !.stream = NoStream] ELSE q.source[s]
         /\ \A s \in InUse(Clear(q, slots)) :
              s \notin slots /\ Clear(q, slots).source[s] = q.source[s]
         /\ Clear(q, slots).transmitting = q.transmitting
<1> DEFINE src == [s \in Slots |-> IF s \in slots THEN [q.source[s] EXCEPT !.stream = NoStream]
                                                  ELSE q.source[s]]
<1>1. \A s \in Slots : q.source[s] \in Source
  BY DEF PortType
<1>2. src \in [Slots -> Source]
  BY <1>1 DEF Source
<1>3. Clear(q, slots) = [q EXCEPT !.source = src]
  BY DEF Clear
<1>4. \A s \in Slots : Clear(q, slots).source[s] = src[s]
  BY <1>3 DEF PortType
<1>5. ASSUME NEW s \in InUse(Clear(q, slots))
      PROVE  s \notin slots /\ Clear(q, slots).source[s] = q.source[s]
  <2>1. s \in Slots /\ src[s].stream # NoStream
    BY <1>4 DEF InUse
  <2>2. s \notin slots
    BY <1>1, <2>1 DEF Source
  <2> QED
    BY <1>4, <2>1, <2>2
<1>6. Clear(q, slots) \in PortType
  BY <1>2, <1>3 DEF PortType
<1>7. Clear(q, slots).transmitting = q.transmitting
  BY <1>3 DEF PortType
<1> QED
  BY <1>4, <1>5, <1>6, <1>7

\* A port that holds no stream it did not hold in the same slot before.
LEMMA Keeps ==
  ASSUME NEW q, NEW r, Distinct(q),
         \A s \in InUse(r) : r.source[s].stream = q.source[s].stream
  PROVE  Distinct(r)
<1> SUFFICES ASSUME InUse(r) = Slots
             PROVE  r.source["a"].stream # r.source["b"].stream
  BY DEF Distinct
<1>1. \A s \in Slots : r.source[s].stream = q.source[s].stream /\ s \in InUse(q)
  BY DEF InUse
<1>2. InUse(q) = Slots
  BY <1>1 DEF InUse
<1> QED
  BY <1>1, <1>2 DEF Distinct, Slots

LEMMA DropSound ==
  ASSUME NEW q \in PortType
  PROVE  /\ DropSilent(q) \in PortType
         /\ \A s \in InUse(DropSilent(q)) :
              s \in Slots \ TimedOut(q) /\ DropSilent(q).source[s] = q.source[s]
<1> DEFINE c == Clear(q, TimedOut(q))
<1>1. c \in PortType /\ \A s \in InUse(c) : s \notin TimedOut(q) /\ c.source[s] = q.source[s]
  BY ClearSound
<1> HIDE DEF c
<1>2. DropSilent(q) = [c EXCEPT !.merging = @ /\ TimedOut(q) = {}]
  BY DEF DropSilent, c
<1>3. DropSilent(q) \in PortType /\ DropSilent(q).source = c.source
  BY <1>1, <1>2 DEF PortType
<1> QED
  BY <1>1, <1>3 DEF InUse

\* The port of the turn, without silent sources, and without any under a higher
\* priority.
LEMMA CheckedSound ==
  ASSUME port \in [Ports -> PortType], Handled \in Ports
  PROVE  /\ Checked \in PortType
         /\ \A s \in InUse(Checked) : Checked.source[s] = port[Handled].source[s]
         /\ ChecksTimeouts => \A s \in InUse(Checked) : s \notin TimedOut(port[Handled])
<1>1. port[Handled] \in PortType
  OBVIOUS
<1>2. CASE ChecksTimeouts
  BY <1>1, <1>2, DropSound DEF Checked
<1>3. CASE ~ ChecksTimeouts
  BY <1>1, <1>3 DEF Checked
<1> QED
  BY <1>2, <1>3

LEMMA PreparedSound ==
  ASSUME port \in [Ports -> PortType], Handled \in Ports
  PROVE  /\ Prepared \in PortType
         /\ \A s \in InUse(Prepared) :
              s \in InUse(Checked) /\ Prepared.source[s] = port[Handled].source[s]
<1>1. Checked \in PortType
      /\ \A s \in InUse(Checked) : Checked.source[s] = port[Handled].source[s]
  BY CheckedSound
<1>2. CASE Superseded
  <2>1. Prepared = Clear(Checked, Slots)
    BY <1>2 DEF Prepared
  <2>2. Prepared \in PortType /\ InUse(Prepared) = {}
    BY <1>1, <2>1, ClearSound DEF InUse
  <2> QED
    BY <2>2
<1>3. CASE ~ Superseded
  BY <1>1, <1>3 DEF Prepared
<1> QED
  BY <1>2, <1>3

LEMMA SlotCases ==
  Slot \in Slots \cup {"none"}
  /\ (Matching(port[Handled], data.stream) = {} /\ Slot # "none" =>
        Slot \notin InUse(port[Handled]))
<1> DEFINE q == port[Handled]
           known == Matching(q, data.stream)
<1>1. CASE known # {}
  BY <1>1 DEF Slot, SlotFor, Slots
<1>2. CASE known = {} /\ "a" \notin InUse(q)
  BY <1>2 DEF Slot, SlotFor, Slots
<1>3. CASE known = {} /\ "a" \in InUse(q)
  BY <1>3 DEF Slot, SlotFor, Slots
<1> QED
  BY <1>1, <1>2, <1>3

\* Accepting a packet: a stream enters a slot only when it was in neither as the
\* turn found the port; what has been cleared since does not bring it in twice.
LEMMA AcceptedSound ==
  ASSUME NodeSound, PortsSound, data # Idle
  PROVE  Accepted \in PortType /\ Distinct(Accepted)
<1> DEFINE q == port[Handled]
           new == Matching(q, data.stream) = {}
           o == Other(Slot)
           src == [stream |-> IF new THEN data.stream ELSE Prepared.source[Slot].stream, age |-> 0]
<1>1. Handled \in Ports /\ data.stream \in Streams
  BY HandledPort DEF PacketType
<1>2. q \in PortType /\ Distinct(q)
  BY <1>1 DEF PortsSound
<1>3. Prepared \in PortType /\ \A s \in InUse(Prepared) : Prepared.source[s] = q.source[s]
  BY <1>1, PreparedSound DEF PortsSound
<1>4. CASE Slot = "none"
  BY <1>2, <1>3, <1>4, Keeps DEF Accepted
<1>5. CASE Slot # "none"
  <2>1. Slot \in Slots /\ (new => Slot \notin InUse(q))
    BY <1>5, SlotCases
  <2>2. o \in Slots /\ o # Slot /\ Slots = {Slot, o}
    BY <2>1, OtherSlot
  <2>3. src \in Source
    <3>1. Prepared.source[Slot] \in Source
      BY <1>3, <2>1 DEF PortType
    <3>2. Prepared.source[Slot].stream \in Streams \cup {NoStream}
      BY <3>1 DEF Source
    <3> QED
      BY <1>1, <3>2, Zeroes DEF Source
  <2>4. Accepted = [Prepared EXCEPT !.source[Slot] = src,
                                    !.merging = @ \/ Other(Slot) \in InUse(port[Handled])]
    BY <1>5 DEF Accepted
  <2> HIDE DEF src
  <2>5. Accepted \in PortType
    BY <1>3, <2>1, <2>3, <2>4 DEF PortType
  <2>6. Accepted.source[Slot] = src /\ Accepted.source[o] = Prepared.source[o]
    BY <1>3, <2>1, <2>2, <2>4 DEF PortType
  <2>7. CASE new
    <3>1. \A s \in Slots : q.source[s].stream # data.stream
      BY <2>7 DEF Matching
    <3>2. o \in InUse(Accepted) => Accepted.source[o].stream # data.stream
      BY <1>3, <2>2, <2>6, <3>1 DEF InUse
    <3>3. Accepted.source[Slot].stream = data.stream
      BY <2>6, <2>7 DEF src
    <3>4. InUse(Accepted) = Slots => Accepted.source[Slot].stream # Accepted.source[o].stream
      BY <2>2, <3>2, <3>3
    <3>5. (Slot = "a" /\ o = "b") \/ (Slot = "b" /\ o = "a")
      BY <2>1 DEF Slots, Other
    <3> QED
      BY <2>5, <3>4, <3>5 DEF Distinct
  <2>8. CASE ~ new
    <3>1. Accepted.source[Slot].stream = Prepared.source[Slot].stream
      BY <2>6, <2>8 DEF src
    <3>2. \A s \in InUse(Accepted) :
            s \in Slots /\ Accepted.source[s].stream = Prepared.source[s].stream
            /\ Accepted.source[s].stream # NoStream
      BY <2>2, <2>6, <3>1 DEF InUse
    <3>3. \A s \in InUse(Accepted) : Accepted.source[s].stream = q.source[s].stream
      BY <1>3, <3>2 DEF InUse
    <3> QED
      BY <1>2, <2>5, <3>3, Keeps
  <2> QED
    BY <2>7, <2>8
<1> QED
  BY <1>4, <1>5

\* A source that is lost leaves its slot, on a port that transmits.
LEMMA SlotLostSound ==
  ASSUME NEW q \in PortType, NEW s \in Slots, is_merge_mode \in BOOLEAN
  PROVE  /\ SlotLost(q, s) \in PortType
         /\ \A t \in InUse(SlotLost(q, s)) : SlotLost(q, s).source[t] = q.source[t]
<1> DEFINE c == Clear(q, {s})
<1>1. c \in PortType /\ \A t \in InUse(c) : c.source[t] = q.source[t]
  BY ClearSound
<1> HIDE DEF c
<1>2. CASE q.transmitting
  <2>1. SlotLost(q, s) = [c EXCEPT !.merging = @ /\ s \notin InUse(q),
                                   !.transmitting = is_merge_mode]
    BY <1>2 DEF SlotLost, c
  <2>2. SlotLost(q, s) \in PortType /\ SlotLost(q, s).source = c.source
    BY <1>1, <2>1 DEF PortType
  <2> QED
    BY <1>1, <2>2 DEF InUse
<1>3. CASE ~ q.transmitting
  BY <1>3 DEF SlotLost
<1> QED
  BY <1>2, <1>3

LEMMA DataLostSound ==
  ASSUME NEW q \in PortType
  PROVE  /\ DataLost(q) \in PortType /\ ~ DataLost(q).transmitting
         /\ \A t \in InUse(DataLost(q)) : DataLost(q).source[t] = q.source[t]
<1> DEFINE c == Clear(q, Slots)
<1>1. c \in PortType /\ \A t \in InUse(c) : c.source[t] = q.source[t]
  BY ClearSound
<1> HIDE DEF c
<1>2. CASE q.transmitting
  <2>1. DataLost(q) = [c EXCEPT !.merging = FALSE, !.transmitting = FALSE]
    BY <1>2 DEF DataLost, c
  <2>2. DataLost(q) \in PortType /\ DataLost(q).source = c.source /\ ~ DataLost(q).transmitting
    BY <1>1, <2>1 DEF PortType
  <2> QED
    BY <1>1, <2>2 DEF InUse
<1>3. CASE ~ q.transmitting
  BY <1>3 DEF DataLost
<1> QED
  BY <1>2, <1>3

\* Time, and what is put out, leave the streams as they are.
LEMMA AgedSound ==
  ASSUME NEW q \in PortType
  PROVE  /\ Aged(q) \in PortType /\ Aged(q).transmitting = q.transmitting
         /\ \A s \in Slots : Aged(q).source[s].stream = q.source[s].stream
<1> DEFINE old(s) == [q.source[s] EXCEPT !.age = Older(@, kMergeTimeout + 1)]
           src == [s \in Slots |-> old(s)]
<1>1. \A n \in Ages : Older(n, kMergeTimeout + 1) \in Ages
  BY E131Assumption DEF Older, Ages
<1>2. \A s \in Slots : q.source[s] \in Source
  BY DEF PortType
<1>3. ASSUME NEW s \in Slots
      PROVE  old(s) \in Source /\ old(s).stream = q.source[s].stream
  <2>1. q.source[s] \in Source /\ Older(q.source[s].age, kMergeTimeout + 1) \in Ages
    BY <1>1, <1>2 DEF Source
  <2> QED
    BY <2>1 DEF Source
<1> HIDE DEF old
<1>4. src \in [Slots -> Source]
  BY <1>3
<1>5. Aged(q) = [q EXCEPT !.source = src]
  BY DEF Aged, old
<1>6. \A s \in Slots : Aged(q).source[s] = old(s)
  BY <1>5 DEF PortType
<1>7. Aged(q) \in PortType /\ Aged(q).transmitting = q.transmitting
  BY <1>4, <1>5 DEF PortType
<1> QED
  BY <1>3, <1>6, <1>7

LEMMA PutOutSound ==
  ASSUME NEW q \in PortType
  PROVE  PutOut(q) \in PortType /\ PutOut(q).source = q.source
BY DEF PutOut, PortType

\* A step after which every port holds only streams it held in the same slot.
LEMMA OnlyTakes ==
  ASSUME PortsSound, port' \in [Ports -> PortType],
         \A p \in Ports : \A s \in InUse(port'[p]) :
           port'[p].source[s].stream = port[p].source[s].stream,
         is_network_data_loss' => \A p \in Ports : ~ port'[p].transmitting
  PROVE  PortsSound'
<1>1. \A p \in Ports : Distinct(port'[p])
  BY Keeps DEF PortsSound
<1> QED
  BY <1>1 DEF PortsSound

LEMMA HandleDmxPorts == ASSUME IInv, HandleDmx PROVE PortsSound'
<1>1. data # Idle /\ ~ is_network_data_loss /\ Handled \in Ports
  BY HandledPort DEF HandleDmx, IInv
<1>2. port \in [Ports -> PortType] /\ is_merge_mode \in BOOLEAN
  BY Zenon DEF IInv, PortsSound, NodeSound
<1>3. CASE DataOutOfSequence
  BY <1>3 DEF DataOutOfSequence, IInv, PortsSound
<1>4. CASE StreamTerminated
  <2>1. UNCHANGED is_network_data_loss
    BY <1>4 DEF StreamTerminated
  <2>2. CASE UNCHANGED port
    BY <1>1, <2>1, <2>2 DEF IInv, PortsSound
  <2>3. CASE \E s \in Slots : port' = [p \in Ports |-> SlotLost(port[p], s)]
    <3>1. PICK s \in Slots : port' = [p \in Ports |-> SlotLost(port[p], s)]
      BY <2>3
    <3>2. \A p \in Ports :
            /\ SlotLost(port[p], s) \in PortType
            /\ \A t \in InUse(SlotLost(port[p], s)) :
                 SlotLost(port[p], s).source[t] = port[p].source[t]
      BY <1>2, SlotLostSound
    <3> QED
      BY <1>1, <2>1, <3>1, <3>2, OnlyTakes DEF IInv
  <2> QED
    BY <1>4, <2>2, <2>3 DEF StreamTerminated, Matching
<1>5. CASE DataOfLowerPriority
  <2>1. port' = [port EXCEPT ![Handled] = Checked] /\ UNCHANGED is_network_data_loss
    BY <1>5 DEF DataOfLowerPriority
  <2>2. Checked \in PortType
        /\ \A s \in InUse(Checked) : Checked.source[s] = port[Handled].source[s]
    BY <1>1, <1>2, CheckedSound
  <2> QED
    BY <1>1, <1>2, <2>1, <2>2, OnlyTakes DEF IInv
<1>6. CASE DataOutput
  <2>1. Accepted \in PortType /\ Distinct(Accepted)
    BY <1>1, AcceptedSound DEF IInv
  <2> DEFINE sent == [Accepted EXCEPT !.transmitting = TRUE]
             held == [Accepted EXCEPT !.pending = TRUE]
  <2>2. sent \in PortType /\ held \in PortType
        /\ sent.source = Accepted.source /\ held.source = Accepted.source
    BY <2>1 DEF PortType
  <2>3. Distinct(sent) /\ Distinct(held)
    BY <2>1, <2>2 DEF Distinct, InUse
  <2>4. UNCHANGED is_network_data_loss
        /\ \/ port' = [port EXCEPT ![Handled] = sent]
           \/ port' = [port EXCEPT ![Handled] = held]
    BY <1>6 DEF DataOutput
  <2> HIDE DEF sent, held
  <2> QED
    BY <1>1, <1>2, <2>2, <2>3, <2>4 DEF IInv, PortsSound
<1> QED
  BY <1>3, <1>4, <1>5, <1>6 DEF HandleDmx

LEMMA PortsSteps == ASSUME IInv, [Next]_vars PROVE PortsSound'
<1>1. port \in [Ports -> PortType]
  BY DEF IInv, PortsSound
<1>2. ASSUME UNCHANGED port, is_network_data_loss' => is_network_data_loss
      PROVE  PortsSound'
  BY <1>2 DEF IInv, PortsSound, Distinct, InUse
<1>3. ASSUME NEW address \in Addresses, HandleSynchronization(address) PROVE PortsSound'
  <2>1. port' = [p \in Ports |-> PutOut(port[p])] /\ is_network_data_loss' = FALSE
    BY <1>3 DEF HandleSynchronization, InputUdp
  <2>2. \A p \in Ports : PutOut(port[p]) \in PortType /\ PutOut(port[p]).source = port[p].source
    BY <1>1, PutOutSound
  <2> QED
    BY <2>1, <2>2, OnlyTakes DEF IInv
<1>4. CASE HandleDmx
  BY <1>4, HandleDmxPorts
<1>5. CASE SetNetworkDataLossCondition
  <2>1. port' = [p \in Ports |-> DataLost(port[p])]
    BY <1>5 DEF SetNetworkDataLossCondition
  <2>2. \A p \in Ports :
          /\ DataLost(port[p]) \in PortType /\ ~ DataLost(port[p]).transmitting
          /\ \A t \in InUse(DataLost(port[p])) : DataLost(port[p]).source[t] = port[p].source[t]
    BY <1>1, DataLostSound
  <2> QED
    BY <2>1, <2>2, OnlyTakes DEF IInv
<1>6. ASSUME NEW p \in Ports, ClearPort(p) PROVE PortsSound'
  <2>1. port' = [port EXCEPT ![p].transmitting = @ \/ port[p].output]
        /\ is_network_data_loss' = FALSE
    BY <1>6 DEF ClearPort
  <2>2. port' \in [Ports -> PortType] /\ \A i \in Ports : port'[i].source = port[i].source
    BY <1>1, <2>1 DEF PortType
  <2> QED
    BY <2>1, <2>2, OnlyTakes DEF IInv
<1>7. ASSUME NEW p \in Ports, NEW output \in BOOLEAN, SetDirection(p, output) PROVE PortsSound'
  <2>1. port' = [port EXCEPT ![p].output = output] /\ UNCHANGED is_network_data_loss
    BY <1>7 DEF SetDirection
  <2>2. port' \in [Ports -> PortType]
        /\ \A i \in Ports : port'[i].source = port[i].source
                            /\ port'[i].transmitting = port[i].transmitting
    BY <1>1, <2>1 DEF PortType
  <2> QED
    BY <2>1, <2>2, OnlyTakes DEF IInv, PortsSound
<1>8. ASSUME NEW p \in Ports, NEW universe \in Universes, SetUniverse(p, universe)
      PROVE  PortsSound'
  <2>1. port' = [port EXCEPT ![p].universe = universe] /\ UNCHANGED is_network_data_loss
    BY <1>8 DEF SetUniverse
  <2>2. port' \in [Ports -> PortType]
        /\ \A i \in Ports : port'[i].source = port[i].source
                            /\ port'[i].transmitting = port[i].transmitting
    BY <1>1, <2>1 DEF PortType
  <2> QED
    BY <2>1, <2>2, OnlyTakes DEF IInv, PortsSound
<1>9. CASE Tick
  <2>1. port' = [p \in Ports |-> Aged(port[p])] /\ UNCHANGED is_network_data_loss
    BY <1>9 DEF Tick
  <2>2. \A p \in Ports : /\ Aged(port[p]) \in PortType
                         /\ Aged(port[p]).transmitting = port[p].transmitting
                         /\ \A s \in Slots : Aged(port[p]).source[s].stream = port[p].source[s].stream
    BY <1>1, AgedSound
  <2> QED
    BY <2>1, <2>2, OnlyTakes DEF IInv, PortsSound, InUse
<1>10. ASSUME \/ \E f \in Frames, k \in Kinds : InputData(f, k)
              \/ InputOther
              \/ \E address \in Addresses : SyncIgnored(address)
              \/ UNCHANGED vars
       PROVE  PortsSound'
  <2>1. UNCHANGED port
    BY <1>10 DEF InputData, InputOther, SyncIgnored, vars
  <2>2. is_network_data_loss' => is_network_data_loss
    BY <1>10, Zenon DEF InputData, InputOther, SyncIgnored, InputUdp, vars
  <2> QED
    BY <1>2, <2>1, <2>2
<1>11. Disables \subseteq Ports
  BY E131Assumption DEF Ports
<1>12. \A s \in Switches : s[1] \in Ports /\ s[2] \in Universes
  BY E131Assumption DEF Ports
<1> QED
  BY <1>3, <1>4, <1>5, <1>6, <1>7, <1>8, <1>9, <1>10, <1>11, <1>12 DEF Next

-----------------------------------------------------------------------------
(* Theorems. *)

LEMMA InitSound == Init => IInv
<1> SUFFICES ASSUME Init PROVE IInv
  OBVIOUS
<1>1. NodeSound
  <2>1. kLowest \in Priorities /\ NoAddress \in Addresses
    BY DEF Priorities, Addresses
  <2> QED
    BY <2>1, Zeroes DEF Init, NodeSound
<1>2. PortsSound
  <2>1. port \in [Ports -> PortType]
    BY Zeroes, E131Assumption DEF Init, PortType, Source, Ports
  <2>2. \A p \in Ports : InUse(port[p]) # Slots
    BY DEF Init, InUse, Slots
  <2>3. ~ is_network_data_loss
    BY DEF Init
  <2> QED
    BY <2>1, <2>2, <2>3 DEF PortsSound, Distinct
<1> QED
  BY <1>1, <1>2 DEF IInv

THEOREM Always == Spec => []IInv
<1>1. IInv /\ [Next]_vars => IInv'
  BY NodeSteps, PortsSteps DEF IInv
<1> QED
  BY InitSound, <1>1, PTL DEF Spec

\* The ports, the node and the loop of HandleDmx keep their types: the loop never
\* runs past the last port.
THEOREM TypeCorrect == Spec => []TypeOK
<1>1. IInv => TypeOK
  BY Zenon DEF IInv, NodeSound, PortsSound, TypeOK, PacketType
<1> QED
  BY Always, <1>1, PTL

\* No port merges a stream with itself, although HandleDmx goes on with addresses
\* that have been cleared since they were read.
THEOREM NeverMergesWithItself == Spec => []TwoStreams
<1>1. IInv => TwoStreams
  BY DEF IInv, PortsSound, Distinct, TwoStreams
<1> QED
  BY Always, <1>1, PTL

\* While network data loss is reported no port transmits and nothing of the old
\* streams is in force (SetNetworkDataLossCondition).
THEOREM LossIsQuiet == Spec => []LossMeansQuiet
<1>1. IInv => LossMeansQuiet
  BY Zenon DEF IInv, NodeSound, PortsSound, LossMeansQuiet
<1> QED
  BY Always, <1>1, PTL

\* A step that drops the data of a third source in merge mode leaves only sources
\* in the port that have been heard within the merge time-out.
LEMMA DiscardStep ==
  ASSUME IInv, [Next]_vars, ~ UNCHANGED vars, discarded', is_merge_mode,
         ~ disable_merge_timeout, NEW s \in InUse(port'[Handled])
  PROVE  port'[Handled].source[s].age <= kMergeTimeout
<1>1. DataOutput /\ data # Idle
  BY DEF Next, HandleDmx, InputData, InputOther, SyncIgnored, HandleSynchronization, InputUdp,
     DataOutOfSequence, StreamTerminated, DataOfLowerPriority, SetNetworkDataLossCondition,
     ClearPort, SetDirection, SetUniverse, Tick
<1>2. Handled \in Ports /\ port \in [Ports -> PortType]
  BY <1>1, HandledPort DEF IInv, PortsSound
<1>3. Slot = "none"
  BY <1>1 DEF DataOutput
<1>4. Accepted = Prepared
  BY <1>3 DEF Accepted
<1>5. Prepared \in PortType
      /\ \A t \in InUse(Prepared) : t \in InUse(Checked)
                                    /\ Prepared.source[t] = port[Handled].source[t]
  BY <1>2, PreparedSound
<1>6. port'[Handled].source = Prepared.source
  BY <1>1, <1>2, <1>4, <1>5 DEF DataOutput, PortType
<1>7. s \in InUse(Checked) /\ port'[Handled].source[s] = port[Handled].source[s]
  BY <1>5, <1>6 DEF InUse
<1>8. s \in Slots /\ s \notin TimedOut(port[Handled])
  BY <1>2, <1>7, CheckedSound DEF ChecksTimeouts, InUse
<1>9. port[Handled].source[s].age \in Int /\ kMergeTimeout \in Int
  BY <1>2, <1>8, E131Assumption DEF PortType, Source, Ages
<1> QED
  BY <1>7, <1>8, <1>9 DEF TimedOut

\* When the data of a third source is dropped in merge mode, the silent sources
\* have left the port: the next packet of the third finds their slot free.
THEOREM DiscardMakesRoom == Spec => DiscardFreesSilent
<1>1. IInv /\ [Next]_vars =>
        [ discarded' /\ is_merge_mode /\ ~ disable_merge_timeout =>
            \A s \in InUse(port'[Handled]) : port'[Handled].source[s].age <= kMergeTimeout ]_vars
  BY DiscardStep
<1> QED
  BY Always, <1>1, PTL DEF Spec, DiscardFreesSilent
=============================================================================
