----------------------------- MODULE E131Bridge -----------------------------
(***************************************************************************)
(* The sACN E1.31 bridge of lib-e131: which streams an output port merges, *)
(* the priority of the node, stream termination, universe synchronisation  *)
(* and network data loss.                                                  *)
(*                                                                         *)
(* A stream is the IP address and the CID of a source.  As in ArtNetDmx    *)
(* time is counted in ticks, and each turn of the loop of HandleDmx over   *)
(* the ports is a step that nothing comes between.  Within a turn the code *)
(* reads the addresses of both sources before the time-outs and a higher   *)
(* priority may clear them, and goes on with what it has read.             *)
(***************************************************************************)
EXTENDS Integers

CONSTANTS
  MaxPorts,              \* dmxnode::kMaxPorts
  NoStream,              \* ip = 0
  Frames,                \* <<stream, universe, priority, synchronization_address,
                         \* force>> of the data packets there are
  Patch,                 \* the universe of each port at start-up
  Switches,              \* bound: the <<port, universe>> that are configured later
  Disables,              \* bound: the ports that are disabled and enabled again
  kLowest,               \* e131::priority::kLowest
  NoAddress,             \* synchronization_address = 0
  kMergeTimeout,         \* kMergeTimeoutSeconds, in ticks
  kPriorityTimeout,      \* kPriorityTimeoutSeconds, in ticks
  kNetworkDataLossTimeout, \* kNetworkDataLossTimeoutSeconds, in ticks
  disable_merge_timeout, \* state_.disable_merge_timeout
  disable_synchronize    \* state_.disable_synchronize

Streams    == {f[1] : f \in Frames}
Universes  == {f[2] : f \in Frames}
Priorities == {f[3] : f \in Frames} \cup {kLowest}
Addresses  == {f[4] : f \in Frames} \cup {NoAddress}

ASSUME E131Assumption ==
  /\ MaxPorts \in Nat \ {0}
  /\ NoStream \notin Streams
  /\ \A f \in Frames : f = <<f[1], f[2], f[3], f[4], f[5]>> /\ f[3] \in Nat /\ f[5] \in BOOLEAN
  /\ kLowest \in Nat /\ \A r \in Priorities : r >= kLowest
  /\ Patch \in [1 .. MaxPorts -> Universes]
  /\ Switches \subseteq (1 .. MaxPorts) \X Universes
  /\ Disables \subseteq 1 .. MaxPorts
  /\ kMergeTimeout \in Nat /\ kPriorityTimeout \in 0 .. kMergeTimeout
  /\ kNetworkDataLossTimeout \in Nat \ {0}
  /\ disable_merge_timeout \in BOOLEAN /\ disable_synchronize \in BOOLEAN

VARIABLES
  port,                   \* bridge_.port[] and output_port_[]
  priority,               \* state_.priority
  is_merge_mode,          \* state_.is_merge_mode
  is_network_data_loss,   \* state_.is_network_data_loss
  is_synchronized,        \* state_.is_synchronized
  is_forced_synchronized, \* state_.is_forced_synchronized
  synchronization_address, \* of source a and of source b
  packet_age,             \* ticks since packet_millis_
  sync_age,               \* ticks since state_.synchronization_time
  data,                   \* the packet in HandleDmx and the port of its loop
  discarded               \* ghost: the last step dropped the data of a third source

sync == <<is_synchronized, is_forced_synchronized, synchronization_address>>
vars == <<port, priority, is_merge_mode, is_network_data_loss, sync, packet_age,
          sync_age, data, discarded>>

Ports    == 1 .. MaxPorts
Slots    == {"a", "b"}
Kinds    == {"data", "terminated"} \* kStreamTerminated
Ages     == 0 .. kMergeTimeout + 1 \* bound: ages saturate where they have timed out
Source   == [stream : Streams \cup {NoStream}, age : Ages]
PortType == [universe : Universes, output : BOOLEAN, source : [Slots -> Source],
             merging : BOOLEAN, transmitting : BOOLEAN, pending : BOOLEAN]

Other(s)        == IF s = "a" THEN "b" ELSE "a"
InUse(q)        == {s \in Slots : q.source[s].stream # NoStream}
MatchingA(q, x) == {s \in {"a"} : q.source[s].stream = x} \* mutant: not slot b
Matching(q, x) == {s \in Slots : q.source[s].stream = x} \* IsIpCidMatch
Clear(q, slots) == [q EXCEPT !.source = [s \in Slots |->
                      IF s \in slots THEN [q.source[s] EXCEPT !.stream = NoStream]
                                     ELSE q.source[s]]]
Older(n, limit) == IF n < limit THEN n + 1 ELSE n

Idle    == [port |-> 0]
Handled == data.port

-----------------------------------------------------------------------------
Init ==
  /\ port = [p \in Ports |->
               [universe |-> Patch[p], output |-> TRUE,
                source |-> [s \in Slots |-> [stream |-> NoStream, age |-> 0]],
                merging |-> FALSE, transmitting |-> FALSE, pending |-> FALSE]]
  /\ priority = kLowest
  /\ is_merge_mode = FALSE
  /\ is_network_data_loss = FALSE
  /\ is_synchronized = FALSE
  /\ is_forced_synchronized = FALSE
  /\ synchronization_address = [s \in Slots |-> NoAddress]
  /\ packet_age = 0
  /\ sync_age = 0
  /\ data = Idle
  /\ discarded = FALSE

\* What InputUdp does for every E1.31 packet, before it looks at the vectors.
SyncTimedOut == ~ is_forced_synchronized /\ sync_age >= kNetworkDataLossTimeout

InputUdp ==
  /\ data = Idle
  /\ packet_age' = 0
  /\ is_network_data_loss' = FALSE
  /\ is_synchronized' = (is_synchronized /\ ~ SyncTimedOut)
  /\ discarded' = FALSE

\* The loop goes on with the first output port of the universe behind port n: at
\* the others it changes nothing.
Handles(p, universe) == port[p].output /\ port[p].universe = universe

LoopFromTooFar(packet, n) == \* mutant: the loop runs one port too far
  LET rest == {p \in Ports : p > n /\ Handles(p, packet.universe)} \cup {MaxPorts + 1}
  IN IF n > MaxPorts THEN Idle
     ELSE [packet EXCEPT !.port = CHOOSE p \in rest : \A i \in rest : p <= i]

LoopFrom(packet, n) ==
  LET rest == {p \in Ports : p > n /\ Handles(p, packet.universe)}
  IN IF rest = {} THEN Idle
     ELSE [packet EXCEPT !.port = CHOOSE p \in rest : \A i \in rest : p <= i]

\* A data packet: the loop of HandleDmx starts.
InputData(frame, kind) ==
  /\ InputUdp
  /\ data' = LoopFrom([stream |-> frame[1], universe |-> frame[2],
                       priority |-> frame[3], address |-> frame[4],
                       force |-> frame[5], kind |-> kind, port |-> 0], 0)
  /\ UNCHANGED <<port, priority, is_merge_mode, is_forced_synchronized,
                 synchronization_address, sync_age>>

\* The other packets: universe discovery, vectors that are not supported, and
\* data for a preview, which every port passes over.
InputOther ==
  /\ InputUdp
  /\ UNCHANGED <<port, priority, is_merge_mode, is_forced_synchronized,
                 synchronization_address, sync_age, data>>

(* A synchronisation packet puts out what is pending, on all ports together. *)
SyncIgnored(address) ==
  /\ InputUdp
  /\ \A s \in Slots : synchronization_address[s] # address
  /\ UNCHANGED <<port, priority, is_merge_mode, is_forced_synchronized,
                 synchronization_address, sync_age, data>>

PutOut(q) == IF q.pending THEN [q EXCEPT !.pending = FALSE, !.transmitting = TRUE] ELSE q

HandleSynchronization(address) ==
  /\ InputUdp
  /\ \E s \in Slots : synchronization_address[s] = address
  /\ sync_age' = 0
  /\ port' = [p \in Ports |-> PutOut(port[p])]
  /\ UNCHANGED <<priority, is_merge_mode, is_forced_synchronized,
                 synchronization_address, data>>

-----------------------------------------------------------------------------
(* The loop of HandleDmx. *)

NextPort == data' = LoopFrom(data, Handled)

\* The packet of a known source is out of sequence: it was duplicated or came
\* late.  What the sequence numbers are is left open.
DataOutOfSequence ==
  /\ Matching(port[Handled], data.stream) # {}
  /\ NextPort
  /\ discarded' = FALSE
  /\ UNCHANGED <<port, priority, is_merge_mode, is_network_data_loss, sync, packet_age, sync_age>>

\* SetNetworkDataLossCondition for one slot: the slot is cleared on every port
\* that transmits, and outside merge mode those ports stop.
SlotLost(q, s) ==
  IF ~ q.transmitting THEN q
  ELSE [Clear(q, {s}) EXCEPT !.merging      = @ /\ s \notin InUse(q),
                             !.transmitting = is_merge_mode]

StreamTerminated ==
  /\ data.kind = "terminated"
  /\ \/ \E s \in Matching(port[Handled], data.stream) :
          port' = [p \in Ports |-> SlotLost(port[p], s)]
     \/ Matching(port[Handled], data.stream) = {} /\ UNCHANGED port
  /\ NextPort
  /\ discarded' = FALSE
  /\ UNCHANGED <<priority, is_merge_mode, is_network_data_loss, sync, packet_age, sync_age>>

\* CheckMergeTimeouts: the port without the sources that have been silent, and
\* whether some port still merges.
TimedOutA(q) == {s \in {"a"} : q.source[s].age > kMergeTimeout} \* mutant: not slot b

TimedOut(q) == {s \in Slots : q.source[s].age > kMergeTimeout}

DropSilent(q) == [Clear(q, TimedOut(q)) EXCEPT !.merging = @ /\ TimedOut(q) = {}]

ChecksTimeouts == is_merge_mode /\ ~ disable_merge_timeout

Checked == IF ChecksTimeouts THEN DropSilent(port[Handled]) ELSE port[Handled]

StillMerging ==
  IF ChecksTimeouts THEN \E i \in Ports : [port EXCEPT ![Handled] = Checked][i].merging
                    ELSE is_merge_mode

IsPriorityTimeOut(q) ==
  \/ InUse(q) = Slots /\ \A s \in Slots : q.source[s].age >= kPriorityTimeout
  \/ \E s \in Slots : InUse(q) = {s} /\ q.source[s].age > kPriorityTimeout

\* A higher priority clears both sources, a lower one is let in after a time-out.
Superseded == data.priority > priority

LetIn == data.priority < priority => IsPriorityTimeOut(Checked)

Prepared == IF Superseded THEN Clear(Checked, Slots) ELSE Checked

DataOfLowerPriority ==
  /\ data.kind = "data" /\ ~ LetIn
  /\ port' = [port EXCEPT ![Handled] = Checked]
  /\ is_merge_mode' = StillMerging
  /\ NextPort
  /\ discarded' = FALSE
  /\ UNCHANGED <<priority, is_network_data_loss, sync, packet_age, sync_age>>

\* Cases 1 to 9, for the port as the turn found it.
SlotFor(q, x) ==
  CASE Matching(q, x) # {} -> IF "a" \in Matching(q, x) THEN "a" ELSE "b" \* 2, 3, 6, 7
    [] Matching(q, x) = {} /\ "a" \notin InUse(q) -> "a"                  \* 1, 5
    [] Matching(q, x) = {} /\ InUse(q) = {"a"}    -> "b"                  \* 4
    [] OTHER -> "none"                                                    \* 9

Slot == SlotFor(port[Handled], data.stream)

\* A source that is new to the port enters the slot; one that was known only
\* brings its time up to date, also when the slot has been cleared since.  The data
\* of a third source is not taken, but as the firmware is built with NDEBUG the rest
\* of the turn is run for it all the same.
Accepted ==
  LET new == Matching(port[Handled], data.stream) = {}
  IN IF Slot = "none" THEN Prepared
     ELSE [Prepared EXCEPT
             !.source[Slot] = [stream |-> IF new THEN data.stream ELSE @.stream, age |-> 0],
             !.merging      = @ \/ Other(Slot) \in InUse(port[Handled])]

\* SetSynchronizationAddress: the source that asked for synchronisation.
AskedBy(q) ==
  LET known == Matching(port[Handled], data.stream)
      from  == IF known # {} THEN known ELSE InUse(q)
  IN IF "a" \in from THEN {"a"} ELSE from

Synchronize(q) ==
  IF data.force
    THEN /\ is_forced_synchronized' = FALSE
         /\ UNCHANGED <<is_synchronized, synchronization_address>>
  ELSE IF data.address = NoAddress \/ is_forced_synchronized
    THEN UNCHANGED sync
    ELSE /\ is_forced_synchronized' = TRUE
         /\ is_synchronized' = TRUE
         /\ synchronization_address' =
              [s \in Slots |-> IF s \in AskedBy(q) THEN data.address
                                                   ELSE synchronization_address[s]]

\* dmxnode::DataOutput and Start, or dmxnode::DataSet.
Updates == ~ is_synchronized' \/ disable_synchronize

DataOutput ==
  /\ data.kind = "data" /\ LetIn
  /\ Synchronize(Accepted)
  /\ port' = [port EXCEPT ![Handled] =
                IF Updates THEN [Accepted EXCEPT !.transmitting = TRUE]
                           ELSE [Accepted EXCEPT !.pending = TRUE]]
  /\ priority' = data.priority
  /\ is_merge_mode' = \/ Slot # "none" /\ Other(Slot) \in InUse(port[Handled])
                      \/ StillMerging /\ ~ Superseded
  /\ NextPort
  /\ discarded' = (Slot = "none")
  /\ UNCHANGED <<is_network_data_loss, packet_age, sync_age>>

HandleDmx ==
  /\ data # Idle
  /\ \/ DataOutOfSequence \/ StreamTerminated
     \/ DataOfLowerPriority \/ DataOutput

-----------------------------------------------------------------------------
(* The rest of the node. *)

LossDue == /\ \E p \in Ports : port[p].output \* enabled_output_ports # 0
           /\ packet_age >= kNetworkDataLossTimeout
           /\ ~ is_network_data_loss

DataLostKeepsOutput(q) == \* mutant: is_transmitting is left
  IF q.transmitting THEN [Clear(q, Slots) EXCEPT !.merging = FALSE] ELSE q

DataLost(q) ==
  IF q.transmitting
    THEN [Clear(q, Slots) EXCEPT !.merging = FALSE, !.transmitting = FALSE] ELSE q

\* Run: the network has been silent for too long, SetNetworkDataLossCondition.
SetNetworkDataLossCondition ==
  /\ data = Idle
  /\ LossDue
  /\ is_network_data_loss' = TRUE
  /\ is_merge_mode' = FALSE
  /\ is_synchronized' = FALSE
  /\ is_forced_synchronized' = FALSE
  /\ priority' = kLowest
  /\ port' = [p \in Ports |-> DataLost(port[p])]
  /\ discarded' = FALSE
  /\ UNCHANGED <<synchronization_address, packet_age, sync_age, data>>

\* Clear: the port puts out zeros; the loss will be noticed again.
ClearPort(p) ==
  /\ data = Idle
  /\ port' = [port EXCEPT ![p].transmitting = @ \/ port[p].output]
  /\ is_network_data_loss' = FALSE
  /\ discarded' = FALSE
  /\ UNCHANGED <<priority, is_merge_mode, sync, packet_age, sync_age, data>>

\* SetUniverse and SetDirection leave the sources of the port as they are.
SetUniverse(p, universe) ==
  /\ data = Idle
  /\ port' = [port EXCEPT ![p].universe = universe]
  /\ discarded' = FALSE
  /\ UNCHANGED <<priority, is_merge_mode, is_network_data_loss, sync, packet_age, sync_age, data>>

SetDirection(p, output) ==
  /\ data = Idle
  /\ port' = [port EXCEPT ![p].output = output]
  /\ discarded' = FALSE
  /\ UNCHANGED <<priority, is_merge_mode, is_network_data_loss, sync, packet_age, sync_age, data>>

Aged(q) == [q EXCEPT !.source = [s \in Slots |->
                       [q.source[s] EXCEPT !.age = Older(@, kMergeTimeout + 1)]]]

\* A tick passes.  The super loop calls Run many times in one.
Tick ==
  /\ data = Idle
  /\ ~ LossDue
  /\ packet_age' = Older(packet_age, kNetworkDataLossTimeout)
  /\ sync_age' = Older(sync_age, kNetworkDataLossTimeout)
  /\ port' = [p \in Ports |-> Aged(port[p])]
  /\ discarded' = FALSE
  /\ UNCHANGED <<priority, is_merge_mode, is_network_data_loss, sync, data>>

Next ==
  \/ \E f \in Frames, k \in Kinds : InputData(f, k)
  \/ InputOther
  \/ \E address \in Addresses : SyncIgnored(address) \/ HandleSynchronization(address)
  \/ HandleDmx
  \/ SetNetworkDataLossCondition
  \/ \E p \in Ports : ClearPort(p)
  \/ \E p \in Disables, output \in BOOLEAN : SetDirection(p, output)
  \/ \E s \in Switches : SetUniverse(s[1], s[2])
  \/ Tick

Spec == Init /\ [][Next]_vars

-----------------------------------------------------------------------------
(* Properties. *)

TypeOK ==
  /\ port \in [Ports -> PortType]
  /\ priority \in Priorities
  /\ is_merge_mode \in BOOLEAN /\ is_network_data_loss \in BOOLEAN
  /\ is_synchronized \in BOOLEAN /\ is_forced_synchronized \in BOOLEAN
  /\ synchronization_address \in [Slots -> Addresses]
  /\ packet_age \in 0 .. kNetworkDataLossTimeout
  /\ sync_age \in 0 .. kNetworkDataLossTimeout
  /\ data = Idle \/ data \in [stream : Streams, universe : Universes,
                              priority : Priorities, address : Addresses,
                              force : BOOLEAN, kind : Kinds, port : Ports]
  /\ discarded \in BOOLEAN

\* The two slots of a port never hold the same stream, although the cases of
\* HandleDmx work with addresses that have been cleared since they were read.
TwoStreams ==
  \A p \in Ports : InUse(port[p]) = Slots =>
    port[p].source["a"].stream # port[p].source["b"].stream

\* While the node reports network data loss no port transmits and nothing of
\* the old streams governs the next one: not their priority, not their
\* synchronisation, not merge mode.
LossMeansQuiet ==
  is_network_data_loss =>
    /\ \A p \in Ports : ~ port[p].transmitting
    /\ priority = kLowest
    /\ ~ is_merge_mode /\ ~ is_synchronized /\ ~ is_forced_synchronized

\* While data is held back for a synchronisation packet the node knows an
\* address on which one can come: SetSynchronizationAddress returns without one
\* only to "Just make the compiler happy".
SynchronizedHasAddress ==
  is_synchronized \/ is_forced_synchronized =>
    \E s \in Slots : synchronization_address[s] # NoAddress

\* When the data of a third source is dropped by a node in merge
\* mode, the sources that have been silent for longer than the merge time-out
\* have left the port, so that the next packet gets in.
DiscardFreesSilent ==
  [][ discarded' /\ is_merge_mode /\ ~ disable_merge_timeout =>
        \A s \in InUse(port'[Handled]) : port'[Handled].source[s].age <= kMergeTimeout ]_vars

=============================================================================
