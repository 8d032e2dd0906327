# Formal models of GD32F107RC-DMX512-RDM

This directory holds TLA+ specifications of the firmware's own core logic: the
super loop's software timers, the RDM controller (table of devices, discovery
state machine, scheduling of discovery over the ports), the configuration store
with the driver of the on-chip flash, the output ports of the Art-Net node and of
the sACN bridge, the server side of TCP, and the transmitting side of the DMX and
RDM line driver. TLC checks small instances of them; TLAPS proves what holds for
every instance.

Sections: 1 inventory, 2 modules and their correspondence to the code, 3 runs,
4 fairness, 5 proofs, 6 where the code departs from what it says, 7 what is not
modelled, 8 plan.

## 1. Inventory

Every firmware is one super loop: `main()` sets the services up and then calls
their `Run()` in turn for ever. Beside it there are only the interrupt handlers
of the DMX/RDM UARTs and their timers. There are no threads, so an operation
that is called from the loop is atomic with regard to the other services. What
makes the behaviour hard is

* *callbacks inside an operation*: a timer's callback changes the pool of timers
  that is in the middle of calling it;
* *state machines resumed once per pass*: discovery, erasing and writing flash
  and saving the configuration each do one step per call, and anything may be
  called between two steps;
* *peers*: RDM responders collide, answer late or not at all and are unplugged;
  controllers start, stop, resume and contradict each other;
* *time*: time-outs that race with late answers, a clock that wraps, periods
  that are checked only in some modes; and
* *loss of power* while the configuration is being rewritten.

| component | state | operations | interacts with |
|---|---|---|---|
| super-loop timers (`lib-superloop`) | pool of timers, count, cursor, next id | add, delete, change, run | every service that waits; callbacks re-enter the pool |
| table of devices (`rdm_tod.h`) | UIDs, entries, mute bits, cursor | add, delete, exist, copy, mute, next | discovery, ArtTodData, the gateway's responder |
| discovery state machine (`rdm_discovery_statemachine`) | state, stack of ranges, retry counters, received frame | full, incremental, stop, process | the line, the table |
| discovery scheduler (`rdm_discovery.h`) | bit sets of ports: enabled, waiting, full, background; turn | full, incremental, stop, enable, background, run | state machine, Art-Net gateway, a software timer |
| Art-Net RDM gateway (`artnetrdmcontroller`, `handlerdm`) | queue of requests, table of requesters | ArtTodRequest, ArtTodControl, ArtRdm | scheduler, DMX line |
| RDM responder, LLRP | mute, identify, queued messages | one handler per parameter | DMX line or UDP |
| configuration store (`lib-configstore`) | copy in memory, state of the save, timer handle | update, reset, flash, commit | timers, flash driver, board reboot |
| flash driver (`lib-flashcode`) | state, address, remaining length | erase, write | flash controller; shared by the store, the scenes and TFTP |
| failsafe scenes (`lib-dmxnode`) | position in the scene's sector | record, play back | flash driver, Art-Net failsafe |
| Art-Net output ports (`lib-artnet`) | two sources per port, merging, pending, node-wide merge and synchronous mode | ArtDmx, ArtSync, ArtAddress, data loss | DMX node data, output driver |
| Art-Net polling, inputs, controller | queue of replies, sequence numbers, table of nodes | ArtPoll, input, poll table | UDP, DMX line |
| sACN E1.31 bridge (`lib-e131`) | two sources per port, priority, synchronisation addresses, joined universes | data, sync, universe, data loss | IGMP, DMX node data |
| DMX and RDM line driver (`lib-dmx`) | state per port, buffers, counters | interrupt handlers; send, receive, direction | everything that sends or receives DMX and RDM |
| network (`lib-network`) | DHCP, conflict detection, IGMP groups, ARP cache, TCP connections, UDP ports, TFTP, NTP, mDNS | one input handler and one timer each | super-loop timers, Ethernet MAC |
| OSC, HTTP, JSON | little beyond the request | one handler per message | the services they configure |
| pixels, PCA9685, display, clocks, sensors | levels and registers | output | hardware |

What makes each correct, in one line: *timers*: a handle names one timer and it
fires every period; *discovery*: it ends, with exactly the devices on the line;
*scheduler*: no request is lost and every port has its turn; *store*: idle means
saved, and a start-up never reads a mixture; *output ports*: at most two live
streams are merged, and a stream that is gone makes room; *DHCP*: an address is
used only under a lease; *E1.31*: as the output ports, and what governed the
streams that are gone governs no new one; *TCP*: the application reads what was
sent, in order and once, a block of memory has one owner, and a peer that is gone
gives its control block back; *line driver*: the line is driven while something
is sent, nothing is put over a packet that is being sent, and no wait is for ever.

The images are built with `NDEBUG` (`lib-*/Makefile.GD32`): an assertion stops
nothing, and where a `default` branch exists only in a debug build the models do
what the release does.

`PROJECT.json` lists the components with their sources, and the hazards at the
lines where they bite.

## 2. Modules

| module | source | composes |
|---|---|---|
| `SoftwareTimers` | `lib-superloop/src/softwaretimers.cpp` | |
| `RdmTod` | `lib-rdm/include/rdm_tod.h` | |
| `DiscoveryMachine` | abstract: what discovery promises | |
| `RdmDiscovery` | `rdm_discovery_statemachine.cpp`, with the line and the responders | `RdmTod`; implements `DiscoveryMachine` |
| `RdmDiscoveryPorts` | `rdm_discovery.h` and its callers in `handlerdm.cpp` | the phases of `DiscoveryMachine` |
| `FlashCode` | `lib-flashcode/src/gd32/fmc/flashcode.cpp`, with the flash controller | |
| `ConfigStore` | `configstore.h`, `scenes/rom/scenes.cpp`, `board_reboot.cpp` | `FlashCode` |
| `ArtNetDmx` | `artnetnode.cpp`, `artnetnodehandleaddress.cpp`, `dmxnodedata.h` | |
| `E131Bridge` | `e131bridge.cpp`, `e131bridge.h`, `e131bridge_inline_impl.h` | |
| `Tcp` | `tcp.cpp`, `network_tcp_datasegmentqueue.h`, `network_memory.h`, `httpdhandlerequest.cpp` | |
| `DmxLine` | `lib-dmx/src/gd32/dmx.cpp`, with its callers in `artnetnode.cpp` and `handlerdm.cpp` | |
| `MCRdmDiscovery`, `MCArtNetDmx`, `MCE131Bridge` | the instances that TLC checks | |
| `SoftwareTimersProofs`, `RdmDiscoveryProofs`, `RdmDiscoveryPortsProofs`, `ConfigStoreProofs`, `ArtNetDmxProofs`, `E131BridgeProofs`, `TcpProofs`, `DmxLineProofs` | theorems | |

### SoftwareTimers

`pool` is `s_timers`, `s_timers_count`, `s_next_id` and the cursor. `Add`,
`Delete` and `Change` are the calls of a service; `SoftwareTimerRun` is one call
of the loop: nothing to do, the timer under the cursor is not due, or it is due
and its callback runs. The operations are functions from a pool to a pool, so
that `AfterCallback` can apply them inside `RunExpired`, between the reading of
the interval and the rescheduling (lines 197 to 204 of the source).
`CallbackOps` says what callbacks do; the code base has callbacks of each of
these kinds. `Millis()` wraps at `ClockMod`. `age`, `lag`, `fired` and `meddled`
are ghosts: how long ago each timer fired, how long the loop has been away,
which callback the last step ran, and whether a callback has changed or deleted
timers.

### RdmTod, RdmDiscovery, DiscoveryMachine

Every state of `StateMachine::Process` is split into one action per branch:
sending, a matching answer, a time-out, giving up. `sm` holds the members of the
class, with the stack of ranges as a sequence. UIDs are numbers, so that the
arithmetic that halves a range is that of the source. The responders
(`devices`, `muted`) and the line (`line`, `late`) are the environment: an unmuted
responder whose UID lies in the range answers `DISC_UNIQUE_BRANCH`; several make a
garbled answer or, by capture, that of one of them; a member of `Lines` bounds how
many messages are lost, come after the time-out, or are cut off because a device
leaves. A time-out may occur only when no answer is on its way, as the code's
5.8 ms and more guarantee on a line without those delays. A device is plugged in
again (`Replug`) when none of its answers is on the way any more. `Undisturbed` says
when a discovery can be relied on: nobody left the line, the table has room for
the devices, every message is tried more often than messages are lost or late,
and answers come late only when none is lost and the discovery is a full one. (An
incremental one credits a late answer to the wrong device, see section 6.)
`DiscoveryMachine` states what the scheduler may rely on, in terms of an idle,
running or stopping machine and a table, and what is left of it while the line is
disturbed; `RdmDiscovery` implements it under the mapping `Promise`, in which
`disturbed` is the negation of `Undisturbed`.

### RdmDiscoveryPorts

The members `enabled_`, `waiting_`, `type_`, `s_bg_discovery` are the bit sets of
the source; `running_` and `port_index_` its flags. Callers are actions:
switching RDM on and off, `AtcFlush` (`Full`), `AtcEnd` (`Stop`), background
discovery on and off, and the expiry of the background timer. `Run` is one call
of the loop, with the state machine as `DiscoveryMachine` describes it. A
discovery that runs may end in any call. `flush` is a ghost: the ports for which
an `AtcFlush` was accepted and has not begun.

### FlashCode and ConfigStore

`FlashCode` has the members of the driver (`fc`), the flash as a function from
words to their contents, and the controller that completes an erase or a word
some time later; a word that is hit by a loss of power while it is being changed
is `Torn`. `Erase` and `Write` are one call each and say through `done` whether
the caller gets true. `ConfigStore` adds the store: `Update` and `UpdateArray`
(the two ways in which the setters compare and write), `Factory`, `Reboot`,
`Timer` (one step of a save), `ConfigstoreCommit` (the loop of a reboot),
`Boot` after a reboot or a loss of power, and the recorder of failsafe scenes,
which shares the driver. `mode` is the loop that has the processor: while the
recorder or a reboot loops, no timer runs.

### ArtNetDmx

`port` holds, for each output port, its Port-Address, two sources (IP address,
physical input, age), and the merging, pending and length flags of the source's
`OutputPort`. A frame is handled by the loop of `HandleDmx`: `InputDmx` starts
it, and then each turn is one of `DmxOtherUniverse`, `DmxDiscarded` and
`DmxAccepted`. `SlotFor` is the chain of cases 1 to 9, `DropSilent` and
`StillMerging` are `CheckMergeTimeouts`, `HeldBack` is the test for synchronous
mode. ArtSync, `AcCancelMerge`, `AcClear`, the programming of a Port-Address, an
ArtDmx during RDM discovery and any other packet are one action each;
`SetNetworkDataLossCondition` is what `Run` does when the node has heard nothing
for too long. The milliseconds that the code stores are ages in ticks that
saturate where they have timed out. HTP and LTP are a choice made at each frame,
because ArtAddress can change the mode between any two.

### E131Bridge

As in `ArtNetDmx` each turn of the loop of `HandleDmx` is a step: a packet of a
known source that is out of sequence, a stream that terminates, data of a lower
priority, or `DataOutput`. A stream is an IP address together with a CID. Within
a turn the code reads the addresses of both sources and may clear them afterwards,
in `CheckMergeTimeouts` (`Checked`) and for a higher priority (`Prepared`); the
cases 1 to 9 (`SlotFor`) go on with what was read. `Synchronize` is lines 785 to
807 with `SetSynchronizationAddress`, `SyncTimedOut` and `LossDue` are the two
time-outs, `ClearPort`, `SetUniverse` and `SetDirection` the calls of a port.

### Tcp

`tcb` is `s_tcbs`, each control block with the retransmission queue (`RtxQueue`),
the transmit queue and what its peer sends; `free` is the mask of free blocks of
`network::memory::Allocator`. `InputSyn`, `InputReset` and `Input` are the parts of
`tcp::Input`, in the order of its checks: `Acceptable`, reset, `Handshake`, `LastAck`,
`Acked`, `Text` with the HTTP daemon's answer as a callback (`Reply`: two calls of
`Send`, or an abort), `FinSeen`. `Run` is one turn of its loop over the control
blocks: the close that is due, the flush of the queue, the retransmission.
Sequence numbers count units of data. The network is not a set of messages: any
segment the peer of the connection could have sent, old or new, may arrive at any
time or never, which is what loss, repetition and reordering amount to. `halted`
is where the code follows a null pointer: nothing is modelled behind it.

### DmxLine

`port_direction_`, `sv_port_state`, the states of the two transmit buffers and the
DMA channel are those of the driver; `started_` and `is_transmitting` are those of
its callers. The interrupts (`DmxTimer`, `RdmTimer`, `RdmTurnAround`,
`DmaComplete`) are actions. The main loop is `todo`, the operations that the
current handler has still to do: a handler of the gateway (`ArtDmx`, `ArtRdm`,
`SetOutputStyle`, `Blackout`) fills it, and each operation of the driver takes its
head and may put others in front. `Wait`, `WaitTC` and the guards on
`TransmissionComplete` are the loops in which the code spins until an interrupt
has changed a state.

## 3. Runs

Eight runs pass with 40 properties; four show one disagreement each (section 6).

| run | instance | what it shows |
|---|---|---|
| `timers` | pool of 2, periods 1 and 2, 3 timers in all, clock modulo 16, all kinds of callbacks | handles stay unique and the cursor in use whatever callbacks do; no timer is early, and none is later than `Slack` allows, across the wrap of the clock |
| `discovery` | 8 UIDs; one line with three devices, or two, and one lost message; one line with two devices, a late answer and a device that leaves | every undisturbed discovery that finishes has found exactly the devices present; the ranges never overlap, disturbed or not; a device is listed only when muted; `DiscoveryMachine` is implemented; every discovery ends unless a device leaves |
| `ports` | 3 ports, one stop, one background expiry | no request is lost, the assertion in `Run` holds, an accepted flush stays waiting, every waiting port is served |
| `config_store` | sectors of 2 pages of 2 words, 3 words of configuration, 2 changes, 1 scene, 1 loss of power | idle means saved, a change always has a timer that will save it, the flash never holds a mixture, words are programmed only when erased, every change is saved in the end |
| `config_scene` | the same with one change and no loss of power | violated: a scene is written over words not erased |
| `artnet_dmx` | 2 ports, 2 controllers with three streams, time-outs of one tick | two slots hold two streams; merge mode and the merging flags agree; only fresh streams are merged; newcomers get in |
| `artnet_slots` | the same | violated: a frame without slots is sent |
| `e131` | 2 ports, 3 streams of 2 priorities: one that forces synchronisation and a plain one on the first universe, one of higher priority on the second that asks for the synchronisation of the first; a port that changes universe and direction, time-outs of one tick | two slots hold two streams; data loss leaves nothing of the old streams in force; a discarded third source finds the silent ones gone |
| `e131_sync` | 1 port, a third source with a higher priority | violated: data is held back without an address for synchronisation |
| `tcp` | 2 connections, 1 block, 2 units of request, windows of 0 and 1, one retry | the application reads in order; a block has one owner; half-open and half-closed connections end |
| `tcp_front` | 1 connection, 4 blocks | violated: `Run` looks at a front that does not exist |
| `dmx_line` | 2 ports, any sequence of frames, messages, styles and blackouts | the line is driven while something is sent; nothing is put over a packet; the driver's waits end; RDM messages end |

Why the bounds are enough to be of interest: two slots of a pool make a delete
move a timer, and three handles make a reused slot distinguishable from a reused
handle. Eight UIDs make a search of depth three with siblings in both halves;
`{0, 1, 6}` holds a pair that must be split down to single UIDs and one far from
it, and the smaller set makes an incremental discovery drop and add; `{5, 6}` is a
pair that only the last split separates, so that a late answer or a leaving device
meets every state of the machine. Three ports let one port ask again while one
waits and one runs. Two pages make an erase that is resumed, three words a write
that is interrupted after its header and between two fields. Two ports of one
universe make the loop of `HandleDmx` run on after a frame was accepted, and two
streams from one address separate the cases that compare addresses from those that
compare physical inputs. In `e131` the stream of the second universe meets the
two others as a third source only on the port that changes its universe. One block for two connections makes every second
allocation fail, so that queues become full without being filled, and a window of
one unit makes an answer of two be queued; one retry is enough to tell a
retransmission from the last. Two ports make a change of style stop and restart
the output of another port. `CHECK_DEADLOCK FALSE` in the two TCP configurations
is for the state after the null pointer, behind which nothing is defined.

## 4. Fairness

* `RdmDiscovery`: weak fairness of `Process`. The super loop calls it for ever,
  and each call does whatever its state and the line allow. Nothing obliges
  anybody to start or stop, to plug devices, to lose messages or to deliver a late
  answer.
* `RdmDiscoveryPorts`: weak fairness of `Run`, for the same reason. That the
  machine under it ends its discoveries is what `EndsUndisturbed` shows;
  requests of the same port may come again and again, so that
  `EveryPortServed` really is about the turns.
* `ConfigStore`: weak fairness of the timer's callback (every timer in the pool
  is serviced: `Punctual`), of the three loops, each of which is entered only to
  be run to its end, and of the flash controller. `Settles` has a finite number
  of changes to save, because a change begins the save anew.
* `Tcp`: weak fairness of `Run` for each control block, with and without an
  expired retransmission timer: the loop calls `Run` for ever, and the timer of a
  segment that stays unacknowledged expires. Nothing is assumed of the peers, which
  may fall silent in any state.
* `DmxLine`: weak fairness of the interrupts of each port (timers and DMA run
  whatever the processor does) and strong fairness of the driver's operations: the
  main loop polls many times in the interval between two frames, so that it cannot
  miss it for ever. Nobody has to ask for anything.
* The other modules state no liveness property and assume no fairness.

## 5. Proofs

The theorems hold for every value of the constants that satisfies the named
assumption of the module. Each inductive invariant was an invariant of a run
before it was proved.

* `SoftwareTimersProofs` (from `PoolAssumption`): `PoolTypeCorrect` and
  `HandlesStayUnique`, and with `TimingAssumption` also `ServicedOnTime` and the
  action property `FiresNotEarly`. The first invariant is `TypeOK` with `HandlesUnique`, which is
  inductive once the identifiers in use are known to be smaller than the next
  one and the cursor to be 0 or in use. `AddSound`, `ChangeSound` and
  `DeleteSound` show it for the operations as functions; because a callback is a
  composition of the same functions, the step of `RunExpired` follows from them.
  For the time a timer may be late the invariant needs `Rank`, an upper bound of
  the calls of `SoftwareTimerRun` that may pass before a slot is examined: a call
  looks at one slot, and a delete may move the timer behind the cursor, but only
  to a lower slot. So `Slack` is `MaxLag * (n * (n - 1) + 1)` for a pool of n. It
  is sound and not the least bound, but that a timer waits for two rounds of the
  pool at most is true of small pools only: with 5 slots it may wait 13 calls.
  `TimingAssumption` keeps the periods and the slack within half the range of the
  clock, where the comparison of wrapped times is right. `NeverEarly` follows from
  the same relation between `age` and the expiry time in the pool.
* `RdmDiscoveryPortsProofs` (from `PortsAssumption`): `TypeCorrect`,
  `NoWakeupIsLost`, `AssertionHolds` and `FlushStillWaits`. `NoLostWakeup` and
  `TurnOfPort` support each other: a discovery that ends moves the turn only
  when `running_` is set, and `running_` is cleared only when nobody waits.
* `ArtNetDmxProofs` (from `ArtNetAssumption`): `TypeCorrect`,
  `NeverMergesWithItself`, `MergingIsKnown`, `MergeModeIsMeant` and the action
  properties `MergesOnlyFresh` and `NewcomersGetIn`. The invariant says of each
  port (`PortSound`) that two slots in use hold different streams and that the
  port then says it merges, and of the node that two slots in use anywhere imply
  merge mode, and merge mode a port that merges. `DropSound` and `AcceptSound`
  carry `PortSound` through the dropping of silent sources and the accepting of
  a frame; `SlotForSound` is the case analysis of the nine cases.
  `StillMergingSound` is what remains of `CheckMergeTimeouts` for the node: it
  recomputes merge mode from all ports, not only from the one at hand.

* `E131BridgeProofs` (from `E131Assumption`): `TypeCorrect`,
  `NeverMergesWithItself`, `LossIsQuiet` and the action property
  `DiscardMakesRoom`. The invariant is that of the node (`NodeSound`: the loop is
  at a port of the packet's universe, data loss means what `LossMeansQuiet` says)
  and that of the ports (`PortsSound`: two slots in use hold different streams).
  The turn of the loop is where the code is hard to follow, because it compares
  with sources that it has cleared since: `Keeps` and `OnlyTakes` say that what
  was done to the port in between only removes sources, and `SlotCases` that the
  case chosen for the port as it was found is also sound for the port as it is.
  `FirstPort` shows that the loop advances, from the well-foundedness of the
  naturals.
* `ConfigStoreProofs` (from the assumptions of `FlashCode` and `ConfigStore`):
  `TypeCorrect`, `IdleIsSaved`, `SaveIsScheduled`, `NeverMixed` and the action
  property `ProgramsOnlyErased`, for every size of the flash and of the
  configuration. None of them is inductive: the words of the sector depend on how
  far the driver is, on what the controller has not finished, and on whom the
  driver works for. `Eff` is what a word holds once the controller is done; the
  driver's steps change it for the words they are about, the controller's never.
  The invariant is `FlashSound` (driver and controller by themselves), `Owner` (for
  whom the driver works, given the loop that has the processor and the state of
  the store; this is where the recorder's scenes come in) and `StoreSound` (the
  words behind the driver are erased, or those of the image that is written).
  `EraseQuiet` and `WriteQuiet` say which words a call of the driver leaves alone.
  `ProgramsOnlyErased` adds that without scenes the words ahead of the driver are
  erased (`Fresh`).

* `DmxLineProofs` (from `PortsAssumption`): `TypeCorrect`, `LineIsDriven` and
  `NothingOverSlots`. `Driven` alone is not inductive: `TxIsOutput` and `Planned`
  relate the operations that the main loop has still to do to what the port has
  reached, because a handler turns a port to output first and starts it only after
  several waits in which interrupts come. `NoTurnAround` is the heart of it: no
  interrupt takes a port back that the main loop is about to start, because the
  wait for that port ends when the message is out, which is before it turns round.
* `RdmDiscoveryProofs` (from `DiscoveryAssumption` and `StackAssumption`):
  `TypeCorrect`, `RangesStayOrdered`, `FindsAll` (`Complete`), the action property
  `OnlyMutedListed` (`ListedWhenMuted`) and `KeepsPromise` (`Implements`: every
  step of the state machine is a step of `DiscoveryMachine` or a stutter). The
  invariant `IInv`, which is all that the first two need, says for every state which range is in hand,
  that those on the stack ascend below it, and that a range that may be halved has
  more than one UID. `MidIsMiddle` is about the arithmetic that halves a range
  without the 49th bit; `Halves`, `PushAscends` and `PopAscends` carry the order
  through the search. Stopping in any state and the wait for a late response are
  part of it.
  `CInv` adds what completeness needs. `Depth`: the higher a range is on the stack,
  the smaller it is, so that with `StackAssumption` a push never fails and no half
  is dropped. `TodIsSet`: the table has no UID twice. `Tidy`: which of the requests
  may be running in which state, and what the stack holds then. `FramesSound`: what is on the line or late
  is an answer that a present device has given to a message that was sent. And, as
  long as the discovery is `Undisturbed`, `Calm`: a device not muted yet lies in
  the range in hand or in one on the stack (`Covered`), the table holds what is
  muted, but for the device in hand (`Agreed`), and a request to somebody present
  has used up no more tries than messages were lost or late (`Left`), so that giving
  up a range means that nobody is in it. Every action of `Process` has a lemma named `...Keeps`;
  the hard ones are the collisions, where a captured answer may name one of
  several devices, and the late answers, which may belong to an earlier message.
* `TcpProofs` (from `TcpAssumption`): `TypeCorrect`, `ReadsInOrder` and
  `BlocksOwnedOnce`. `Conn` is what holds of a connection by itself, `Clean` that
  its blocks are all different and not free. Each operation is shown to be
  `Moved`: the connection afterwards holds blocks that it had or that were free.
  That composes (`MovedTrans`), so that two calls of `Send` within a segment, or
  close, flush and retransmission within a turn of `Run`, are one move, and
  `PutSound` draws the conclusion for all the other connections. `LowestExists` is
  about the allocator, `FlushesEquations` about the loop that flushes the queue: a
  recursive function exists, by the least step at which it would not.

Only model-checked: liveness (`EveryPortServed`, `EndsUndisturbed`, `Settles`,
`HalfConnectionsEnd`, `DriverReturns`, `RdmEnds`), which is out of the prover's
reach. Every other property of a passing run is a theorem.

## 6. Where the code departs from what it says

Shown by runs:

* `config_scene`: the recorder of scenes and the configuration store share one
  flash driver: when the store is in the middle of an erase, the recorder's first
  call only completes that erase, and the scene is written over the old one
  (`scenes.cpp:77`).
* `artnet_slots`: the failsafe scene is output with the length that the port has,
  which is zero after an ArtSync or before any data
  (`artnetnodefailsafe.cpp:58`; the output driver asserts that it is not).
* `e131_sync`: without its debug branch `HandleDmx` runs the rest of a turn for the
  dropped packet of a third source. With a higher priority and a synchronisation
  address it puts the node into the synchronised state without an address
  (`e131bridge.cpp:796`).
* `tcp_front`: when the pool of blocks is empty, the first `Push` makes a queue that
  is not empty and has no front (`network_tcp_datasegmentqueue.h:73`), and `Run`
  follows the null pointer.

Observed while modelling, without a run.

Timers, RDM:

* A callback that deletes its own timer (as `ConfigStore::Timer` does) makes
  `SoftwareTimerRun` reschedule the timer that was moved into its slot, with the
  period of the deleted one (`softwaretimers.cpp:204`; the comment at line 185
  says that this is safe).
* The retry counter of the quick find is reset by every retry
  (`rdm_discovery_statemachine.cpp:522`), so that the exit at line 503 is never
  taken: a device that has answered and is then unplugged is asked for ever.
* A late answer to `DISC_MUTE` is credited to the next device of an incremental
  discovery (`rdm_discovery_statemachine.cpp:345`), which then stays listed
  although it may be gone.
* A background expiry turns a flush that is still waiting into an incremental
  discovery (`rdm_discovery.h:113`), where `artnet.h:209` promises full discovery.
* `waiting_` still names a port that has been disabled since, and `Run` starts its
  discovery (`rdm_discovery.h:202`).
* ArtTodData goes to the requesters known so far, before the new one is added
  (`handlerdm.cpp:55`).
* `ArtNetRdmController::IsRunning(port_index)` hands its argument by value to an
  overload that is meant to overwrite it (`artnetrdmcontroller.h:112`).
* The index of the queued messages may stand one past the array
  (`rdmqueuedmessage.cpp:77`).

Configuration store:

* When `SoftwareTimerAdd` fails, a change is saved only with the next one
  (`configstore.h:508`).
* `UpdateArray` compares only the words it is given: a host name shortened to a
  prefix of itself does not count as a change (`configstore.h:474`).

Art-Net:

* A source that has timed out keeps its physical input, which is still compared:
  the second stream of a controller that resumes is discarded as a third source
  for as long as the first is heard (`artnetnode.cpp:939`).
* After synchronous mode has timed out, the next ArtSync only enters it again;
  what was buffered meanwhile is not output, though the comment at
  `artnetnode.cpp:1057` says so.
* Data loss leaves merge mode but not the ports' merging flags; such a port is
  not held back for ArtSync until its sources are checked again.
* The merge time-outs are checked only in merge mode: the first frame of a new
  merge may be merged with a source that has been silent for any time.
* HTP merges with the last levels of the other source beyond that source's last
  frame length (`dmxnodedata.h:86`).
* A frame discarded by one port is not offered to the ports after it.
* `AcCancelMerge` takes effect at once, where `artnet.h:139` says upon receipt
  of the next ArtDmx packet.
* `kUseTargetPortAddress` in `artnet.h` is `(1U < 5)`, not `(1U << 5)`.

sACN E1.31:

* The priority belongs to the node, not to a port: a stream of priority 200 on one
  universe locks out one of priority 100 on another. After a clean termination of
  the stream of the higher priority the backup stays locked out, because the slots
  are empty and `IsPriorityTimeOut` asks for a slot in use.
* A terminated stream clears its slot on the ports of every universe.
* The synchronisation addresses are never cleared, and `pending` survives a loss of
  data. A synchronisation packet for address 0 matches a source that never gave an
  address (`e131bridge.cpp:497`; the comment at line 789 says that 0 means none).
* Outside merge mode nothing checks the time-outs, so that a third source is
  dropped although another has long been silent.
* `JoinUniverse` counts ports that are disabled (line 220): an output that is moved
  to, or enabled on, the universe that a disabled port is set to never joins its
  group.

TCP:

* `FreeTcb` clears the control block with the transmit queue in it: the blocks of
  the pool that the queue held are lost for good.
* With an empty pool a segment is tracked without its payload, and beyond
  `kTcpUnackMax` segments are not tracked at all, though `tcp.cpp:31` says that each
  one is.
* A reset outside the window frees the control block, though the comment above
  line 1140 says to drop it.
* A FIN ahead of missing data is acknowledged and closes the connection; data that
  is queued is flushed behind the node's own FIN.
* The HTTP daemon ignores what `Send` returns. An established connection whose peer
  vanishes keeps its control block for ever when nothing is unacknowledged.

DMX and RDM line:

* In delta style `Blackout` and `FullOn` fill the buffers and start no frame; a
  frame that is set while another is being sent is not sent by itself either.
* An ArtDmx while an RDM message goes out sets `started_` for a port that the
  turn-around then makes an input.
* Changing one port to constant style stops and restarts the other outputs without
  `sv_port_state` being `kTx`, so that a later `StopOutputPort` is a no-op
  (`dmx.cpp:1490` and `dmx.cpp:2350`), an RDM message waits for as long as the
  style is constant, and its state is left behind.

## 7. What is not modelled

Inside the modelled components:

* configuration store: failing `SoftwareTimerAdd`; the stores in SPI flash, I2C and
  RAM; lengths that are not whole words;
* RDM: requests forwarded while a discovery runs; `RdmTod`'s cursor for the
  gateway's responder;
* Art-Net node: levels and lengths of frames; local merging of DMX inputs, input and
  disabled ports, output style and indicators;
* E1.31: the IGMP groups, DMX inputs and local merging, levels, `Stop`. Which
  packets are out of sequence is left open, and so is every order of sources;
* TCP: the client side, options, whether WL1 and WL2 let the window be updated
  (`newer`, left open), the wrap-around of sequence numbers; UDP;
* line driver: reception, synchronous start, discovery responses, the contents of
  the buffers (which the main loop and the DMA share, so that frames may be torn).
  Interrupts come only while the main loop is idle or spins: between two waits an
  operation takes a microsecond, and no interrupt of the port is armed by then. A
  compare value that was passed matches again when the counter wraps.

Not at all: the components that `PROJECT.json` lists as not modelled. Of these the
drivers (display, pixels, sensors, MAC, clocks), the encoders (JSON, HTTP, OSC, LLRP
parameters) and the vendored code keep next to no state of their own and will stay
outside; the others are in the plan.

## 8. Plan

1. `Dhcp` with `SoftwareTimers`: select, request, reboot, back-off and restart,
   with lost and repeated answers, link changes and switches to a static
   address; an address is used only under a lease, no restart takes a timer for
   good, and an answering server is used in the end. `Acd` beside it.
2. `Igmp` (the group table with its holes) under `E131Bridge`: the universes of the
   ports are exactly the groups joined.
3. `RdmGateway`: ArtRdm forwarded between two steps of a discovery, the proxying
   of a table to a foreign controller with `TodNext`, and queued messages.
4. `Tftp` with `FlashCode`: a firmware image block by block, with lost and
   repeated packets, implementing "the file, in order, once".
5. Reception in `DmxLine`: the receive buffers between interrupts and super loop.
6. `ArtNetPoll`: the queue of delayed replies and the controller's table of
   nodes.
7. Proofs: the safety properties of the modules to come. Of the modules there are,
   two results could be sharper: `Slack` is not the least bound, and nothing is
   stated of an incremental discovery in which answers come late.

Runs are few on purpose: when a component of the plan is added, the questions of
related components are brought together in one run where their state allows it.
