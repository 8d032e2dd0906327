---------------------------- MODULE RdmDiscovery ----------------------------
(***************************************************************************)
(* The RDM discovery state machine, rdm::discovery::StateMachine (lib-rdm),*)
(* on one port, with the line and the responders on it.                    *)
(*                                                                         *)
(* Process is called once per pass of the super loop and handles one state.*)
(* UIDs are the naturals 0 .. 2 * Half - 1, where Half is 2^47 in the      *)
(* source; the search starts from all of them but the broadcast UID.       *)
(* Micros() is abstracted to what the code asks of it: a time-out may pass *)
(* whenever no answer is on its way.                                       *)
(*                                                                         *)
(* The line may lose requests and answers, deliver answers after the       *)
(* time-out, and lose responders during a discovery.  When several unmuted *)
(* responders answer one DISC_UNIQUE_BRANCH the answer is garbled, or the  *)
(* strongest is received.                                                  *)
(***************************************************************************)
EXTENDS Integers, Sequences, FiniteSets

CONSTANTS
  Half,                    \* half of the UID space
  kTableSize,
  kUnmuteCounter, kMuteCounter, kDiscoveryCounter, kQuikfindCounter,
  kQuikfindDiscoveryCounter, kDiscoveryStackSize,
  Lines \* the lines to consider: the sets of responders, and the bounds on the
        \* messages lost, the late answers and the devices unplugged

ASSUME DiscoveryAssumption ==
  /\ Half \in Nat \ {0} /\ Half % 2 = 0
  /\ {kTableSize, kUnmuteCounter, kMuteCounter, kDiscoveryCounter,
      kQuikfindCounter, kQuikfindDiscoveryCounter, kDiscoveryStackSize} \subseteq Nat \ {0}
  /\ \A l \in Lines : /\ l.sets \subseteq SUBSET (0 .. 2 * Half - 2)
                      /\ {l.noise, l.late, l.unplugged} \subseteq Nat

\* The powers of 2.  There is room on the stack for one half of each size of
\* range: 2 ^ 48 UIDs in 200 entries in the source.
Powers[n \in 0 .. kDiscoveryStackSize] == IF n = 0 THEN 1 ELSE 2 * Powers[n - 1]

ASSUME StackAssumption == 2 * Half <= Powers[kDiscoveryStackSize]

kUidAll  == 2 * Half - 1
kUidLast == 2 * Half - 2 \* 0xfffffffffffe
Uids     == 0 .. kUidLast
INSTANCE RdmTod

States == {"kIdle", "kUnmute", "kMute", "kDiscovery", "kDiscoverySingleDevice",
           "kDub", "kQuickfind", "kQuickfindDiscovery", "kLateResponse", "kFinished"}

\* What Receive can find: nothing, a discovery response that may be a
\* collision, or the acknowledgement of a DISC_MUTE.
Frame    == [kind : {"none", "dub", "garbled", "mute"}, uid : Uids]
NoFrame  == [kind |-> "none", uid |-> 0]
Garbled  == [kind |-> "garbled", uid |-> 0]

Branch   == [lower_bound : Uids, upper_bound : Uids]
Everyone == [lower_bound |-> 0, upper_bound |-> kUidLast]

VARIABLES
  sm,        \* the state machine's members
  tod,       \* the table of devices of the port
  devices,   \* the responders on the line
  muted,     \* those that do not answer DISC_UNIQUE_BRANCH
  line,      \* the answer on its way to the controller
  late,      \* an answer that is still to come when the time-out has passed
  noise,     \* ghost: how many messages the line has lost
  delayed,   \* ghost: how many it has delayed
  unplugged, \* ghost: how many devices left during a discovery
  limits     \* the member of Lines that this is, for ever

bus  == <<muted, line, late, noise, delayed>>
env  == <<devices, unplugged, limits>>
vars == <<sm, tod, devices, muted, line, late, noise, delayed,
          unplugged, limits>>

Within(u, r) == r.lower_bound <= u /\ u <= r.upper_bound

-----------------------------------------------------------------------------
(* The line. *)

UnMuteAllMsg == [pid |-> "DISC_UN_MUTE", uid |-> 0, range |-> Everyone]
MuteMsg(u)   == [pid |-> "DISC_MUTE", uid |-> u, range |-> Everyone]
BranchMsg(r) == [pid |-> "DISC_UNIQUE_BRANCH", uid |-> 0, range |-> r]

MutedAfter(m) ==
  CASE m.pid = "DISC_UN_MUTE"       -> {}
    [] m.pid = "DISC_MUTE"          -> muted \cup ({m.uid} \cap devices)
    [] m.pid = "DISC_UNIQUE_BRANCH" -> muted

Answers(m) ==
  LET heard == {u \in devices \ muted : Within(u, m.range)}
  IN  CASE m.pid = "DISC_MUTE" /\ m.uid \in devices ->
             {[kind |-> "mute", uid |-> m.uid]}
        [] m.pid = "DISC_UNIQUE_BRANCH" /\ heard # {} ->
             {[kind |-> "dub", uid |-> u] : u \in heard}
               \cup {Garbled : u \in {v \in heard : heard # {v}}}
        [] OTHER -> {NoFrame}

\* Sending turns the line round: an answer still on its way is lost.
Transmit(m) ==
  \/ /\ muted' = MutedAfter(m)
     /\ line' \in Answers(m)
     /\ UNCHANGED <<late, noise, delayed>>
  \/ /\ noise < limits.noise
     /\ muted' \in {muted, MutedAfter(m)}
     /\ line' = NoFrame
     /\ noise' = noise + 1
     /\ UNCHANGED <<late, delayed>>
  \/ /\ delayed < limits.late
     /\ muted' = MutedAfter(m)
     /\ late' \in Answers(m) \ {NoFrame}
     /\ line' = NoFrame
     /\ delayed' = delayed + 1
     /\ UNCHANGED noise

Receive(frame) ==
  /\ frame \in {line, NoFrame}
  /\ line' = IF frame = line THEN NoFrame ELSE line
  /\ UNCHANGED <<muted, late, noise, delayed>>

\* Nothing was received and kReceiveTimeOut has passed: a responder that
\* heard the request has answered well before.
TimedOut == line = NoFrame

\* IsValidDiscoveryResponse: preamble and checksum are right.
IsValidDiscoveryResponse(frame) == frame.kind = "dub"

-----------------------------------------------------------------------------
(* The state machine. *)

Counter == [counter : Nat, is_command_running : BOOLEAN]
NotRunning(n) == [counter |-> n, is_command_running |-> FALSE]

SmType ==
  [state : States, saved_state : States,
   is_finished : BOOLEAN, do_incremental : BOOLEAN,
   response    : Frame,          \* response_, as kDub finds it
   stack       : Seq(Branch),    \* discovery_.stack, bottom first
   range       : Branch,         \* discovery_.lower_bound, .upper_bound; pdl
   mute_uid    : Uids \cup {kUidAll}, tod_entries : Nat,
   quick_find_uid : Uids,
   unmute : Counter, mute : Counter, discovery : Counter,
   discovery_single_device : Counter, quick_find : Counter,
   quick_find_discovery : Counter]

\* NewState: a late response is waited for first, unless already doing so.
NewState(s, new, do_late) ==
  IF do_late /\ s.state # "kLateResponse"
    THEN [s EXCEPT !.state = "kLateResponse", !.saved_state = new]
    ELSE [s EXCEPT !.state = new]

Push(stack, r) ==
  IF Len(stack) = kDiscoveryStackSize THEN stack ELSE Append(stack, r)

\* The sum of two 48-bit UIDs, halved without the 49th bit.
Mid(lower, upper) ==
  ((lower % Half) + (upper % Half)) \div 2
    + (IF upper >= Half THEN Half \div 2 ELSE 0)
    + (IF lower >= Half THEN Half \div 2 ELSE 0)

LowerHalf(r) == [r EXCEPT !.upper_bound = Mid(r.lower_bound, r.upper_bound)]
UpperHalfOverlaps(r) == \* mutant: the middle is searched twice
  [r EXCEPT !.lower_bound = Mid(r.lower_bound, r.upper_bound)]

UpperHalf(r) == [r EXCEPT !.lower_bound = Mid(r.lower_bound, r.upper_bound) + 1]

Started(incremental) ==
  NewState(
    [sm EXCEPT !.do_incremental = incremental,
               !.is_finished    = FALSE,
               !.unmute         = NotRunning(kUnmuteCounter),
               !.mute           = NotRunning(kMuteCounter),
               !.stack          = Push(<<>>, Everyone),
               !.discovery      = NotRunning(kDiscoveryCounter),
               !.discovery_single_device = NotRunning(kMuteCounter),
               !.quick_find              = NotRunning(kQuikfindCounter),
               !.quick_find_discovery    = NotRunning(kQuikfindDiscoveryCounter)],
    "kUnmute", FALSE)

FullKeepsTod == \* mutant: the table is not flushed
  /\ sm.state = "kIdle"
  /\ sm' = Started(FALSE)
  /\ UNCHANGED <<tod, bus, env>>

Full ==
  /\ sm.state = "kIdle"
  /\ tod' = TodReset(tod)
  /\ sm' = Started(FALSE)
  /\ UNCHANGED <<bus, env>>

Incremental ==
  /\ sm.state = "kIdle"
  /\ sm' = [Started(TRUE) EXCEPT !.tod_entries = tod.entries]
  /\ UNCHANGED <<tod, bus, env>>

Stop ==
  /\ sm.state # "kIdle"
  /\ sm' = NewState([sm EXCEPT !.is_finished = FALSE], "kIdle", TRUE)
  /\ UNCHANGED <<tod, bus, env>>

-----------------------------------------------------------------------------
(* Process, one action per branch of each state. *)

LateResponse ==
  /\ sm.state = "kLateResponse"
  /\ \E frame \in {line, NoFrame} : Receive(frame)
  /\ sm' = [sm EXCEPT !.state = sm.saved_state]
  /\ UNCHANGED <<tod, env>>

UnmuteDone ==
  /\ sm.state = "kUnmute"
  /\ sm.unmute.counter = 0
  /\ sm' = NewState([sm EXCEPT !.unmute = NotRunning(kUnmuteCounter)],
                    IF sm.do_incremental THEN "kMute" ELSE "kDiscovery", FALSE)
  /\ UNCHANGED <<tod, bus, env>>

UnmuteSend ==
  /\ sm.state = "kUnmute"
  /\ sm.unmute.counter # 0
  /\ ~ sm.unmute.is_command_running
  /\ Transmit(UnMuteAllMsg)
  /\ sm' = [sm EXCEPT !.unmute.is_command_running = TRUE]
  /\ UNCHANGED <<tod, env>>

UnmuteTimeOut ==
  /\ sm.state = "kUnmute"
  /\ sm.unmute.counter # 0
  /\ sm.unmute.is_command_running
  /\ Receive(line)
  /\ sm' = [sm EXCEPT !.unmute = NotRunning(@.counter - 1)]
  /\ UNCHANGED <<tod, env>>

MuteDone ==
  /\ sm.state = "kMute"
  /\ sm.tod_entries = 0
  /\ sm' = NewState([sm EXCEPT !.mute.is_command_running = FALSE], "kDiscovery", FALSE)
  /\ UNCHANGED <<tod, bus, env>>

\* "Device is gone"
MuteGone ==
  /\ sm.state = "kMute"
  /\ sm.tod_entries # 0
  /\ sm.mute.counter = 0
  /\ tod' = TodDelete(tod, sm.mute_uid)
  /\ sm' = [sm EXCEPT !.mute = NotRunning(kMuteCounter), !.tod_entries = @ - 1]
  /\ UNCHANGED <<bus, env>>

MuteSend ==
  /\ sm.state = "kMute"
  /\ sm.tod_entries # 0
  /\ sm.mute.counter # 0
  /\ ~ sm.mute.is_command_running
  /\ LET uid == TodCopyUidEntry(tod, sm.tod_entries - 1)
     IN  /\ Transmit(MuteMsg(uid))
         /\ sm' = [sm EXCEPT !.mute.is_command_running = TRUE, !.mute_uid = uid]
  /\ UNCHANGED <<tod, env>>

\* Any answer counts, whoever sent it; the tries left are kept for the next.
MuteAnswered ==
  /\ sm.state = "kMute"
  /\ sm.tod_entries # 0
  /\ sm.mute.counter # 0
  /\ sm.mute.is_command_running
  /\ line # NoFrame
  /\ Receive(line)
  /\ sm' = [sm EXCEPT !.mute.is_command_running = FALSE, !.tod_entries = @ - 1]
  /\ UNCHANGED <<tod, env>>

MuteTimeOut ==
  /\ sm.state = "kMute"
  /\ sm.tod_entries # 0
  /\ sm.mute.counter # 0
  /\ sm.mute.is_command_running
  /\ TimedOut
  /\ Transmit(MuteMsg(sm.mute_uid))
  /\ sm' = [sm EXCEPT !.mute.counter = @ - 1]
  /\ UNCHANGED <<tod, env>>

\* With no tries left the code gives up at once: the last request is not
\* waited for.
DiscoveryReceive ==
  /\ sm.state = "kDiscovery"
  /\ sm.discovery.is_command_running
  /\ \E frame \in {line, NoFrame} :
       /\ Receive(frame)
       /\ frame # NoFrame \/ sm.discovery.counter = 0
       /\ sm' = NewState([sm EXCEPT !.discovery.is_command_running = FALSE,
                                    !.response = frame],
                         "kDub", FALSE)
  /\ UNCHANGED <<tod, env>>

DiscoveryTimeOutForever == \* mutant: the tries left are not tested
  /\ sm.state = "kDiscovery"
  /\ sm.discovery.is_command_running
  /\ TimedOut
  /\ Transmit(BranchMsg(sm.range))
  /\ sm' = [sm EXCEPT !.discovery.counter = @ - 1]
  /\ UNCHANGED <<tod, env>>


DiscoveryTimeOut ==
  /\ sm.state = "kDiscovery"
  /\ sm.discovery.is_command_running
  /\ sm.discovery.counter # 0
  /\ TimedOut
  /\ Transmit(BranchMsg(sm.range))
  /\ sm' = [sm EXCEPT !.discovery.counter = @ - 1]
  /\ UNCHANGED <<tod, env>>

DiscoveryEmpty ==
  /\ sm.state = "kDiscovery"
  /\ ~ sm.discovery.is_command_running
  /\ sm.stack = <<>>
  /\ sm' = NewState(sm, "kFinished", TRUE)
  /\ UNCHANGED <<tod, bus, env>>

Top      == sm.stack[Len(sm.stack)]
PopStack == SubSeq(sm.stack, 1, Len(sm.stack) - 1)

DiscoveryPopSingle ==
  /\ sm.state = "kDiscovery"
  /\ ~ sm.discovery.is_command_running
  /\ sm.stack # <<>>
  /\ Top.lower_bound = Top.upper_bound
  /\ sm' = NewState([sm EXCEPT !.stack = PopStack, !.range = Top,
                               !.quick_find_discovery.is_command_running = FALSE],
                    "kDiscoverySingleDevice", TRUE)
  /\ UNCHANGED <<tod, bus, env>>

DiscoveryPopBranchOneTry == \* mutant: the counter is not set again
  /\ sm.state = "kDiscovery"
  /\ ~ sm.discovery.is_command_running
  /\ sm.stack # <<>>
  /\ Top.lower_bound # Top.upper_bound
  /\ Transmit(BranchMsg(Top))
  /\ sm' = [sm EXCEPT !.stack = PopStack, !.range = Top,
                      !.discovery.is_command_running = TRUE]
  /\ UNCHANGED <<tod, env>>


DiscoveryPopBranch ==
  /\ sm.state = "kDiscovery"
  /\ ~ sm.discovery.is_command_running
  /\ sm.stack # <<>>
  /\ Top.lower_bound # Top.upper_bound
  /\ Transmit(BranchMsg(Top))
  /\ sm' = [sm EXCEPT !.stack = PopStack, !.range = Top,
                      !.discovery = [counter |-> kDiscoveryCounter,
                                     is_command_running |-> TRUE]]
  /\ UNCHANGED <<tod, env>>

SingleGiveUp ==
  /\ sm.state = "kDiscoverySingleDevice"
  /\ sm.discovery_single_device.counter = 0
  /\ sm' = NewState([sm EXCEPT !.discovery_single_device =
                                 NotRunning(kQuikfindDiscoveryCounter)],
                    "kDiscovery", TRUE)
  /\ UNCHANGED <<tod, bus, env>>

SingleSend ==
  /\ sm.state = "kDiscoverySingleDevice"
  /\ sm.discovery_single_device.counter # 0
  /\ ~ sm.discovery_single_device.is_command_running
  /\ Transmit(MuteMsg(sm.range.lower_bound))
  /\ sm' = [sm EXCEPT !.discovery_single_device.is_command_running = TRUE]
  /\ UNCHANGED <<tod, env>>

SingleAnswered ==
  /\ sm.state = "kDiscoverySingleDevice"
  /\ sm.discovery_single_device.counter # 0
  /\ sm.discovery_single_device.is_command_running
  /\ line # NoFrame
  /\ Receive(line)
  /\ IF line = [kind |-> "mute", uid |-> sm.range.lower_bound]
       THEN /\ tod' = TodAddUid(tod, sm.range.lower_bound)
            /\ sm' = NewState([sm EXCEPT !.discovery_single_device =
                                           NotRunning(kQuikfindDiscoveryCounter)],
                              "kDiscovery", FALSE)
       ELSE UNCHANGED <<tod, sm>>
  /\ UNCHANGED env

SingleTimeOut ==
  /\ sm.state = "kDiscoverySingleDevice"
  /\ sm.discovery_single_device.counter # 0
  /\ sm.discovery_single_device.is_command_running
  /\ TimedOut
  /\ Transmit(MuteMsg(sm.range.lower_bound))
  /\ sm' = [sm EXCEPT !.discovery_single_device.counter = @ - 1]
  /\ UNCHANGED <<tod, env>>

DubNone ==
  /\ sm.state = "kDub"
  /\ sm.response = NoFrame
  /\ sm' = NewState(sm, "kDiscovery", FALSE)
  /\ UNCHANGED <<tod, bus, env>>

DubValidListed == \* mutant: the device is listed before it is muted
  /\ sm.state = "kDub"
  /\ IsValidDiscoveryResponse(sm.response)
  /\ tod' = TodAddUid(tod, sm.response.uid)
  /\ sm' = NewState([sm EXCEPT !.quick_find_uid = sm.response.uid], "kQuickfind", TRUE)
  /\ UNCHANGED <<bus, env>>


DubValid ==
  /\ sm.state = "kDub"
  /\ IsValidDiscoveryResponse(sm.response)
  /\ sm' = NewState([sm EXCEPT !.quick_find_uid = sm.response.uid], "kQuickfind", TRUE)
  /\ UNCHANGED <<tod, bus, env>>

DubCollision ==
  /\ sm.state = "kDub"
  /\ sm.response # NoFrame
  /\ ~ IsValidDiscoveryResponse(sm.response)
  /\ sm' = NewState([sm EXCEPT !.stack = Push(Push(@, LowerHalf(sm.range)),
                                              UpperHalf(sm.range))],
                    "kDiscovery", TRUE)
  /\ UNCHANGED <<tod, bus, env>>

\* Every request resets the counter, so that it does not get to 0 when
\* kQuikfindCounter is more than 1.
QuickfindSend ==
  /\ sm.state = "kQuickfind"
  /\ ~ sm.quick_find.is_command_running
  /\ IF sm.quick_find.counter = 0
       THEN /\ sm' = NewState(sm, "kQuickfindDiscovery", FALSE)
            /\ UNCHANGED bus
       ELSE /\ Transmit(MuteMsg(sm.quick_find_uid))
            /\ sm' = [sm EXCEPT !.quick_find = [counter |-> kQuikfindCounter,
                                                is_command_running |-> TRUE]]
  /\ UNCHANGED <<tod, env>>

QuickfindAnswered ==
  /\ sm.state = "kQuickfind"
  /\ sm.quick_find.is_command_running
  /\ line # NoFrame
  /\ Receive(line)
  /\ IF line.kind = "mute"
       THEN /\ tod' = IF line.uid = sm.quick_find_uid
                        THEN TodAddUid(tod, line.uid) ELSE tod
            /\ sm' = NewState([sm EXCEPT !.quick_find = NotRunning(kQuikfindCounter)],
                              "kQuickfindDiscovery", FALSE)
       ELSE UNCHANGED <<tod, sm>>
  /\ UNCHANGED env

QuickfindTimeOut ==
  /\ sm.state = "kQuickfind"
  /\ sm.quick_find.is_command_running
  /\ TimedOut
  /\ sm' = [sm EXCEPT !.quick_find = NotRunning(@.counter - 1)]
  /\ UNCHANGED <<tod, bus, env>>

QuickfindDiscoveryGiveUp ==
  /\ sm.state = "kQuickfindDiscovery"
  /\ sm.quick_find_discovery.counter = 0
  /\ sm' = NewState([sm EXCEPT !.quick_find_discovery =
                                 NotRunning(kQuikfindDiscoveryCounter)],
                    "kDiscovery", TRUE)
  /\ UNCHANGED <<tod, bus, env>>

QuickfindDiscoverySend ==
  /\ sm.state = "kQuickfindDiscovery"
  /\ sm.quick_find_discovery.counter # 0
  /\ ~ sm.quick_find_discovery.is_command_running
  /\ Transmit(BranchMsg(sm.range))
  /\ sm' = [sm EXCEPT !.quick_find_discovery.is_command_running = TRUE]
  /\ UNCHANGED <<tod, env>>

QuickfindDiscoveryAnswered ==
  /\ sm.state = "kQuickfindDiscovery"
  /\ sm.quick_find_discovery.counter # 0
  /\ sm.quick_find_discovery.is_command_running
  /\ line # NoFrame
  /\ Receive(line)
  /\ LET s == [sm EXCEPT !.quick_find_discovery = NotRunning(kQuikfindDiscoveryCounter)]
     IN  sm' = IF IsValidDiscoveryResponse(line)
                 THEN NewState([s EXCEPT !.quick_find_uid = line.uid], "kQuickfind", TRUE)
                 ELSE NewState([s EXCEPT !.response = line], "kDub", FALSE)
  /\ UNCHANGED <<tod, env>>

QuickfindDiscoveryTimeOutForever == \* mutant: the tries are not counted
  /\ sm.state = "kQuickfindDiscovery"
  /\ sm.quick_find_discovery.counter # 0
  /\ sm.quick_find_discovery.is_command_running
  /\ TimedOut
  /\ sm' = [sm EXCEPT !.quick_find_discovery.is_command_running = FALSE]
  /\ UNCHANGED <<tod, bus, env>>


QuickfindDiscoveryTimeOut ==
  /\ sm.state = "kQuickfindDiscovery"
  /\ sm.quick_find_discovery.counter # 0
  /\ sm.quick_find_discovery.is_command_running
  /\ TimedOut
  /\ sm' = [sm EXCEPT !.quick_find_discovery = NotRunning(@.counter - 1)]
  /\ UNCHANGED <<tod, bus, env>>

Finished ==
  /\ sm.state = "kFinished"
  /\ sm' = NewState([sm EXCEPT !.is_finished = TRUE], "kIdle", FALSE)
  /\ UNCHANGED <<tod, bus, env>>

Process ==
  \/ LateResponse
  \/ UnmuteDone \/ UnmuteSend \/ UnmuteTimeOut
  \/ MuteDone \/ MuteGone \/ MuteSend \/ MuteAnswered \/ MuteTimeOut
  \/ DiscoveryReceive \/ DiscoveryTimeOut \/ DiscoveryEmpty
  \/ DiscoveryPopSingle \/ DiscoveryPopBranch
  \/ SingleGiveUp \/ SingleSend \/ SingleAnswered \/ SingleTimeOut
  \/ DubNone \/ DubValid \/ DubCollision
  \/ QuickfindSend \/ QuickfindAnswered \/ QuickfindTimeOut
  \/ QuickfindDiscoveryGiveUp \/ QuickfindDiscoverySend
  \/ QuickfindDiscoveryAnswered \/ QuickfindDiscoveryTimeOut
  \/ Finished

LateAnswer ==
  /\ late # NoFrame
  /\ line = NoFrame
  /\ line' = late
  /\ late' = NoFrame
  /\ UNCHANGED <<sm, tod, devices, muted, noise, delayed, unplugged, limits>>

-----------------------------------------------------------------------------
(* The responders come and go between discoveries, or drop off during one. *)

\* By the time the wiring has been changed no answer is on its way any more.
Replug ==
  /\ sm.state = "kIdle"
  /\ devices' \in limits.sets
  /\ muted' \in {muted \cap devices', devices'}
  /\ line' = NoFrame
  /\ late' = NoFrame
  /\ UNCHANGED <<sm, tod, noise, delayed, unplugged, limits>>

Unplug(u) ==
  /\ sm.state # "kIdle"
  /\ unplugged < limits.unplugged
  /\ devices' = devices \ {u}
  /\ muted' = muted \ {u}
  /\ unplugged' = unplugged + 1
  /\ UNCHANGED <<sm, tod, line, late, noise, delayed, limits>>

Init ==
  /\ sm = [state |-> "kIdle", saved_state |-> "kIdle",
           is_finished |-> FALSE, do_incremental |-> FALSE,
           response |-> NoFrame, stack |-> <<>>, range |-> Everyone,
           mute_uid |-> 0, tod_entries |-> 0, quick_find_uid |-> 0,
           unmute                  |-> NotRunning(0),
           mute                    |-> NotRunning(0),
           discovery               |-> NotRunning(0),
           discovery_single_device |-> NotRunning(0),
           quick_find              |-> NotRunning(0),
           quick_find_discovery    |-> NotRunning(0)]
  /\ tod = EmptyTod(kUidAll)
  /\ limits \in Lines
  /\ devices \in limits.sets
  /\ muted \in {{}, devices}
  /\ line = NoFrame
  /\ late = NoFrame
  /\ noise = 0
  /\ delayed = 0
  /\ unplugged = 0

Next ==
  \/ Full \/ Incremental \/ Stop
  \/ Process
  \/ LateAnswer
  \/ Replug
  \/ \E u \in devices : Unplug(u)

Spec == Init /\ [][Next]_vars

\* The super loop calls Process for ever; nobody is obliged to stop or start.
FairSpec == Spec /\ WF_vars(Process)

-----------------------------------------------------------------------------
(* Properties. *)

TypeOK ==
  /\ sm \in SmType
  /\ tod \in TodType
  /\ devices \subseteq Uids
  /\ muted \subseteq devices
  /\ line \in Frame
  /\ late \in Frame
  /\ delayed \in 0 .. limits.late
  /\ noise \in 0 .. limits.noise
  /\ unplugged \in 0 .. limits.unplugged

\* What the state machine can cope with: nobody leaves, the table has room, there
\* are more tries than messages lost or late, and an answer is late only when no
\* message is lost and the discovery is a full one (which takes no answer of a
\* device for another's).
AllTries == {kUnmuteCounter, kMuteCounter, kDiscoveryCounter, kQuikfindCounter,
             kQuikfindDiscoveryCounter}
Undisturbed ==
  /\ unplugged = 0
  /\ Cardinality(devices) <= kTableSize
  /\ \A tries \in AllTries : noise + delayed < tries
  /\ noise = 0 \/ delayed = 0
  /\ sm.do_incremental => delayed = 0

\* A discovery that finishes has found every responder on the line and no
\* other, each listed once, and has muted them all: no collision, capture,
\* retry or tolerated loss makes the binary search skip a branch.
Complete ==
  sm.state = "kFinished" /\ Undisturbed =>
    /\ Listed(tod) = devices
    /\ TodIsSet(tod)
    /\ devices \subseteq muted

Unclaimed == {"kDiscoverySingleDevice", "kDub", "kQuickfind", "kQuickfindDiscovery"}
InHand ==
  \/ sm.state = "kDiscovery" /\ sm.discovery.is_command_running
  \/ sm.state \in Unclaimed
  \/ sm.state = "kLateResponse" /\ sm.saved_state \in Unclaimed

\* The ranges still to be searched never overlap, and they are met from the
\* highest UID down: the one in hand lies above all those on the stack.
RangesOrdered ==
  /\ \A i \in 1 .. Len(sm.stack) :
       sm.stack[i].lower_bound <= sm.stack[i].upper_bound
  /\ \A i, j \in 1 .. Len(sm.stack) :
       i < j => sm.stack[i].upper_bound < sm.stack[j].lower_bound
  /\ InHand => /\ sm.range.lower_bound <= sm.range.upper_bound
               /\ \A i \in 1 .. Len(sm.stack) :
                    sm.stack[i].upper_bound < sm.range.lower_bound

\* A device enters the table only after it has been muted.
ListedWhenMuted ==
  [][ Undisturbed => Listed(tod') \ Listed(tod) \subseteq muted ]_vars

\* The state machine keeps the promise that DiscoveryMachine states.
Phase ==
  CASE sm.state = "kIdle" -> "idle"
    [] sm.state = "kLateResponse" /\ sm.saved_state = "kIdle" -> "stopping"
    [] OTHER -> "running"
Promise == INSTANCE DiscoveryMachine
             WITH phase <- Phase, do_incremental <- sm.do_incremental,
                  is_finished <- sm.is_finished, table <- Listed(tod),
                  disturbed <- ~ Undisturbed
Implements == Promise!Spec

\* A discovery that is started comes to an end, unless a device leaves the
\* line meanwhile.
EndsUndisturbed ==
  (sm.state # "kIdle") ~> (sm.state = "kIdle" \/ unplugged > 0)
=============================================================================
