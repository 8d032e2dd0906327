----------------------------- MODULE ArtNetDmx -----------------------------
(***************************************************************************)
(* The Art-Net output ports of lib-artnet: which ArtDmx streams a port     *)
(* merges, when it stops merging, and when ArtSync holds its output back.  *)
(*                                                                         *)
(* A stream is an IP address and a physical input at it.  A port has two   *)
(* source slots, "a" and "b".  The levels are abstracted to the slots that *)
(* a frame is made of.  Time is counted in ticks since the events whose    *)
(* milliseconds the code keeps.  HandleDmx is one call; here each turn of  *)
(* its loop over the ports is a step, and no other action is enabled       *)
(* before the loop has ended.                                              *)
(***************************************************************************)
EXTENDS Integers

CONSTANTS
  MaxPorts,               \* dmxnode::kMaxPorts
  Streams,                \* <<ip, physical, universe>> of the ArtDmx streams there are
  Patch,                  \* the Port-Address of each port at start-up
  Switches,               \* bound: the <<port, universe>> that ArtAddress programs
  NoIp,                   \* ip = 0
  NoPhysical,             \* 0x100, which no packet carries
  kMergeTimeout,          \* kMergeTimeoutSeconds, in ticks
  kSyncTimeout,           \* the 4 seconds of InputUdp, in ticks
  kNetworkDataLossTimeout, \* in ticks
  disable_merge_timeout,  \* state_.disable_merge_timeout
  Playback                \* the failsafe mode is kNetworklossPlayback

Ips       == {s[1] : s \in Streams}
Physicals == {s[2] : s \in Streams}
Universes == {s[3] : s \in Streams}

ASSUME ArtNetAssumption ==
  /\ MaxPorts \in Nat \ {0}
  /\ Patch \in [1 .. MaxPorts -> Universes]
  /\ Switches \subseteq (1 .. MaxPorts) \X Universes
  /\ NoIp \notin Ips
  /\ NoPhysical \notin Physicals
  /\ kMergeTimeout \in Nat /\ kSyncTimeout \in Nat /\ kNetworkDataLossTimeout \in Nat
  /\ disable_merge_timeout \in BOOLEAN /\ Playback \in BOOLEAN

VARIABLES
  port,                \* node_.port[] and output_port_[]
  is_merge_mode,       \* state_.is_merge_mode
  is_synchronous_mode, \* state_.is_synchronous_mode
  dmx_ip,              \* state_.art.dmx_ip
  packet_age,          \* ticks since packet_millis_
  sync_age,            \* ticks since state_.art.sync_millis
  dmx,                 \* the ArtDmx in HandleDmx and the port of its loop
  sent,                \* ghost: the ports the last step put data on
  mix,                 \* ghost: the slots that the frame of the last step is made of
  discarded            \* ghost: the last step discarded a frame as a third source

vars == <<port, is_merge_mode, is_synchronous_mode, dmx_ip, packet_age, sync_age,
          dmx, sent, mix, discarded>>

Ports    == 1 .. MaxPorts
Slots    == {"a", "b"}
Ages     == 0 .. kMergeTimeout + 1 \* bound: ages saturate where they have timed out
Source   == [ip : Ips \cup {NoIp}, physical : Physicals \cup {NoPhysical}, age : Ages]
PortType == [universe : Universes, source : [Slots -> Source], merging : BOOLEAN,
             pending : BOOLEAN, length : BOOLEAN]

Other(s) == IF s = "a" THEN "b" ELSE "a"
InUse(q) == {s \in Slots : q.source[s].ip # NoIp}
Older(n, limit) == IF n < limit THEN n + 1 ELSE n

Idle    == [from |-> NoIp, physical |-> NoPhysical, port |-> 0]
Handled == dmx.port

-----------------------------------------------------------------------------
(* The sources of a port. *)

SlotForAnyPhysical(q, from, physical) == \* mutant: a new slot for the same stream
  LET used == InUse(q)
  IN IF used = Slots
       THEN IF q.source["a"].ip = from THEN "a"
            ELSE IF q.source["b"].ip = from THEN "b" ELSE "none"
       ELSE IF used = {} THEN "a" ELSE CHOOSE s \in Slots : s \notin used

SlotForNoCase5(q, from, physical) == \* mutant: Case 5 is missing
  IF InUse(q) = {"b"} /\ q.source["b"].ip # from THEN "none"
  ELSE IF q.source["b"].ip = NoIp THEN IF q.source["a"].ip \in {NoIp, from} THEN "a" ELSE "b"
  ELSE IF q.source["a"].ip = from THEN "a"
  ELSE IF q.source["b"].ip = from THEN "b"
  ELSE "none"

\* The slot that a frame goes to; "none" when it is discarded.
SlotFor(q, from, physical) ==
  LET Matches(s) == q.source[s].ip = from /\ q.source[s].physical = physical
      used == InUse(q)
  IN CASE used = {} -> "a"                                        \* Case 1
       [] used = Slots ->                                         \* Cases 6 to 9
            IF Matches("a") THEN "a" ELSE IF Matches("b") THEN "b" ELSE "none"
       [] OTHER ->
            LET s == CHOOSE u \in Slots : used = {u}
            IN IF q.source[s].ip # from THEN Other(s)             \* Cases 4 and 5
               ELSE IF Matches(s) THEN s                          \* Cases 2 and 3
               ELSE IF q.source[Other(s)].physical # physical THEN Other(s)
               ELSE "none"

Merges(q, s) == Other(s) \in InUse(q)

\* IMergeSourceA and IMergeSourceB: the slots the output buffer is made of.
MadeOf(q, s, ltp) == IF Merges(q, s) /\ ~ ltp THEN Slots ELSE {s}

\* The slot takes the frame: alone, or merged with the other one.
AcceptFrame(q, s, from, physical) ==
  [q EXCEPT !.source[s] = [ip |-> from, physical |-> physical, age |-> 0],
            !.merging   = @ \/ Merges(q, s),
            !.length    = TRUE]

\* CheckMergeTimeouts, for the port itself.
TimedOutA(q) == {s \in {"a"} : q.source[s].age > kMergeTimeout} \* mutant: not slot b

TimedOut(q) == {s \in Slots : q.source[s].age > kMergeTimeout}

DropSilent(q) ==
  [q EXCEPT !.source  = [s \in Slots |-> IF s \in TimedOut(q)
                                           THEN [q.source[s] EXCEPT !.ip = NoIp]
                                           ELSE q.source[s]],
            !.merging = @ /\ TimedOut(q) = {}]

ChecksTimeouts == is_merge_mode /\ ~ disable_merge_timeout

\* The port as the cases of HandleDmx find it.
Checked(p) == IF ChecksTimeouts THEN DropSilent(port[p]) ELSE port[p]

StillMergingHere(p) == Checked(p).merging /\ is_merge_mode \* mutant: other ports forgotten

StillMergingForEver(p) == is_merge_mode \* mutant: merge mode is never left

\* is_merge_mode after CheckMergeTimeouts: some port is still merging.
StillMerging(p) ==
  IF ChecksTimeouts THEN \E i \in Ports : [port EXCEPT ![p] = DropSilent(@)][i].merging
                    ELSE is_merge_mode

-----------------------------------------------------------------------------
Init ==
  /\ port = [p \in Ports |->
               [universe |-> Patch[p],
                source   |-> [s \in Slots |->
                               [ip |-> NoIp, physical |-> NoPhysical, age |-> 0]],
                merging  |-> FALSE, pending |-> FALSE, length |-> FALSE]]
  /\ is_merge_mode = FALSE
  /\ is_synchronous_mode = FALSE
  /\ dmx_ip = NoIp
  /\ packet_age = 0
  /\ sync_age = 0
  /\ dmx = Idle
  /\ sent = {}
  /\ mix = {}
  /\ discarded = FALSE

SentNothing == sent' = {} /\ mix' = {}

\* What InputUdp does for every Art-Net packet, before it looks at the op-code.
SyncTimedOut == sync_age >= kSyncTimeout

StaysSynchronous == is_synchronous_mode /\ ~ SyncTimedOut

InputUdp ==
  /\ dmx = Idle
  /\ packet_age' = 0
  /\ discarded' = FALSE

\* An ArtDmx packet: the loop of HandleDmx starts.
InputDmx(from, physical, universe) ==
  /\ InputUdp
  /\ is_synchronous_mode' = StaysSynchronous
  /\ dmx' = [from |-> from, physical |-> physical, universe |-> universe, port |-> 1]
  /\ SentNothing
  /\ UNCHANGED <<port, is_merge_mode, dmx_ip, sync_age>>

\* The same while RDM discovery runs: every port is passed over.
InputDmxDiscovering(from) ==
  /\ InputUdp
  /\ is_synchronous_mode' = StaysSynchronous
  /\ dmx_ip' = from
  /\ SentNothing
  /\ UNCHANGED <<port, is_merge_mode, sync_age, dmx>>

NextPortTooFar == \* mutant: the loop runs one port too far
  IF Handled <= MaxPorts
    THEN dmx' = [dmx EXCEPT !.port = @ + 1] /\ UNCHANGED dmx_ip
    ELSE dmx' = Idle /\ dmx_ip' = dmx.from

\* To the next port, or back to InputUdp, which notes where the frame came from.
NextPort ==
  IF Handled < MaxPorts
    THEN dmx' = [dmx EXCEPT !.port = @ + 1] /\ UNCHANGED dmx_ip
    ELSE dmx' = Idle /\ dmx_ip' = dmx.from

DmxOtherUniverse ==
  /\ dmx # Idle
  /\ port[Handled].universe # dmx.universe
  /\ NextPort
  /\ SentNothing
  /\ discarded' = FALSE
  /\ UNCHANGED <<port, is_merge_mode, is_synchronous_mode, packet_age, sync_age>>

\* A third source: the rest of the loop is not executed.
DmxDiscarded ==
  /\ dmx # Idle
  /\ port[Handled].universe = dmx.universe
  /\ SlotFor(Checked(Handled), dmx.from, dmx.physical) = "none"
  /\ port' = [port EXCEPT ![Handled] = Checked(Handled)]
  /\ is_merge_mode' = StillMerging(Handled)
  /\ dmx' = Idle
  /\ dmx_ip' = dmx.from
  /\ SentNothing
  /\ discarded' = TRUE
  /\ UNCHANGED <<is_synchronous_mode, packet_age, sync_age>>

\* A port that merges is not held back for ArtSync.
HeldBack(q) == is_synchronous_mode /\ ~ q.merging

DmxAccepted ==
  /\ dmx # Idle
  /\ port[Handled].universe = dmx.universe
  /\ LET q == Checked(Handled)
         s == SlotFor(q, dmx.from, dmx.physical)
         r == AcceptFrame(q, s, dmx.from, dmx.physical)
     IN  /\ s # "none"
         /\ port' = [port EXCEPT ![Handled] = [r EXCEPT !.pending = @ \/ HeldBack(r)]]
         /\ sent' = IF HeldBack(r) THEN {} ELSE {Handled}
         /\ \E ltp \in BOOLEAN : mix' = MadeOf(q, s, ltp)
         /\ is_merge_mode' = (StillMerging(Handled) \/ Merges(q, s))
  /\ NextPort
  /\ discarded' = FALSE
  /\ UNCHANGED <<is_synchronous_mode, packet_age, sync_age>>

HandleDmx == DmxOtherUniverse \/ DmxDiscarded \/ DmxAccepted

(* ArtSync. *)
SyncIgnored(from) ==
  /\ InputUdp
  /\ dmx_ip # from \/ is_merge_mode
  /\ is_synchronous_mode' = StaysSynchronous
  /\ SentNothing
  /\ UNCHANGED <<port, is_merge_mode, dmx_ip, sync_age, dmx>>

SyncStarts(from) ==
  /\ InputUdp
  /\ dmx_ip = from /\ ~ is_merge_mode
  /\ ~ StaysSynchronous
  /\ is_synchronous_mode' = TRUE
  /\ sync_age' = 0
  /\ SentNothing
  /\ UNCHANGED <<port, is_merge_mode, dmx_ip, dmx>>

\* The ports with data pending go out together; the lengths of all are cleared.
HandleSync(from) ==
  /\ InputUdp
  /\ dmx_ip = from /\ ~ is_merge_mode
  /\ StaysSynchronous
  /\ sync_age' = 0
  /\ sent' = {p \in Ports : port[p].pending}
  /\ mix' = {}
  /\ port' = [p \in Ports |-> [port[p] EXCEPT !.pending = FALSE, !.length = FALSE]]
  /\ UNCHANGED <<is_merge_mode, is_synchronous_mode, dmx_ip, dmx>>

(* ArtAddress, and every other packet. *)
Cancelled(q) ==
  [q EXCEPT !.source  = [s \in Slots |-> [q.source[s] EXCEPT !.ip = NoIp]],
            !.merging = FALSE]

AddressCancel ==
  /\ InputUdp
  /\ is_synchronous_mode' = StaysSynchronous
  /\ is_merge_mode' = FALSE
  /\ port' = [p \in Ports |-> Cancelled(port[p])]
  /\ SentNothing
  /\ UNCHANGED <<dmx_ip, sync_age, dmx>>

\* ArtAddress programs the switches of the port; its sources stay as they are.
SetSwitch(p, universe) ==
  /\ InputUdp
  /\ is_synchronous_mode' = StaysSynchronous
  /\ port' = [port EXCEPT ![p].universe = universe]
  /\ SentNothing
  /\ UNCHANGED <<is_merge_mode, dmx_ip, sync_age, dmx>>

\* AcClear: the levels of the port are cleared and put on the line.
AddressClear(p) ==
  /\ InputUdp
  /\ is_synchronous_mode' = StaysSynchronous
  /\ port' = [port EXCEPT ![p].length = TRUE]
  /\ sent' = {p}
  /\ mix' = {}
  /\ UNCHANGED <<is_merge_mode, dmx_ip, sync_age, dmx>>

\* ArtPoll and the other op-codes leave all of this alone.
InputOther ==
  /\ InputUdp
  /\ is_synchronous_mode' = StaysSynchronous
  /\ SentNothing
  /\ UNCHANGED <<port, is_merge_mode, dmx_ip, sync_age, dmx>>

(* Run: the network has been silent for too long. *)
HasSources == \E p \in Ports : InUse(port[p]) # {}

DataLost(q) ==
  [q EXCEPT !.source = [s \in Slots |-> [q.source[s] EXCEPT !.ip = NoIp]],
            !.length = FALSE]

LossDue == packet_age >= kNetworkDataLossTimeout
LossDone == ~ is_merge_mode /\ ~ is_synchronous_mode /\ ~ HasSources

SetNetworkDataLossCondition ==
  /\ dmx = Idle
  /\ LossDue /\ ~ LossDone
  /\ is_merge_mode' = FALSE
  /\ is_synchronous_mode' = FALSE
  /\ port' = IF HasSources THEN [p \in Ports |-> DataLost(port[p])] ELSE port
  /\ sent' = IF HasSources /\ Playback THEN Ports ELSE {}
  /\ mix' = {}
  /\ discarded' = FALSE
  /\ UNCHANGED <<dmx_ip, packet_age, sync_age, dmx>>

Aged(q) ==
  [q EXCEPT !.source = [s \in Slots |->
               [q.source[s] EXCEPT !.age = Older(@, kMergeTimeout + 1)]]]

\* A tick passes.  The super loop calls Run many times in one.
Tick ==
  /\ dmx = Idle
  /\ LossDue => LossDone
  /\ packet_age' = Older(packet_age, kNetworkDataLossTimeout)
  /\ sync_age' = Older(sync_age, kSyncTimeout)
  /\ port' = [p \in Ports |-> Aged(port[p])]
  /\ SentNothing
  /\ discarded' = FALSE
  /\ UNCHANGED <<is_merge_mode, is_synchronous_mode, dmx_ip, dmx>>

Next ==
  \/ \E s \in Streams : InputDmx(s[1], s[2], s[3])
  \/ \E from \in Ips :
       InputDmxDiscovering(from) \/ SyncIgnored(from) \/ SyncStarts(from) \/ HandleSync(from)
  \/ HandleDmx
  \/ AddressCancel
  \/ \E s \in Switches : SetSwitch(s[1], s[2])
  \/ \E p \in Ports : AddressClear(p)
  \/ InputOther
  \/ SetNetworkDataLossCondition
  \/ Tick

Spec == Init /\ [][Next]_vars

-----------------------------------------------------------------------------
(* Properties. *)

TypeOK ==
  /\ port \in [Ports -> PortType]
  /\ is_merge_mode \in BOOLEAN /\ is_synchronous_mode \in BOOLEAN
  /\ dmx_ip \in Ips \cup {NoIp}
  /\ packet_age \in 0 .. kNetworkDataLossTimeout
  /\ sync_age \in 0 .. kSyncTimeout
  /\ dmx = Idle \/ dmx \in [from : Ips, physical : Physicals, universe : Universes,
                              port : Ports]
  /\ sent \subseteq Ports /\ mix \subseteq Slots /\ discarded \in BOOLEAN

\* A port never merges a stream with itself: whatever order frames, time-outs,
\* cancels and losses come in, the two slots hold different streams.
Stream(src) == <<src.ip, src.physical>>
TwoStreams ==
  \A p \in Ports : InUse(port[p]) = Slots =>
    Stream(port[p].source["a"]) # Stream(port[p].source["b"])

\* A port with two sources says that it merges and the node is in merge mode,
\* without which the time-outs that free its slots would not be checked.
TwoSourcesMerge ==
  \A p \in Ports : InUse(port[p]) = Slots => port[p].merging /\ is_merge_mode

\* The node is in merge mode, and ignores ArtSync, only for a port that says
\* that it merges.
MergeModeMeans == is_merge_mode => \E p \in Ports : port[p].merging

\* While the node is in merge mode and the time-outs are not disabled, a frame
\* is merged only with a stream that has been heard within the merge time-out.
FreshMix ==
  [][ mix' # {} /\ is_merge_mode /\ ~ disable_merge_timeout =>
        \A s \in mix' : port'[Handled].source[s].age <= kMergeTimeout ]_vars

\* A controller that a port does not listen to yet is turned away only while
\* two others are heard: slots of controllers that are gone are given up.
NewcomerAdmitted ==
  [][ discarded' /\ ~ disable_merge_timeout
      /\ dmx.from \notin {port[Handled].source[s].ip : s \in Slots} =>
        \A s \in Slots : /\ port[Handled].source[s].ip # NoIp
                         /\ port[Handled].source[s].age <= kMergeTimeout ]_vars

\* The output driver is never given a frame without slots.
SendsSlots ==
  [][ \A p \in sent' : port[p].length \/ port'[p].length ]_vars
=============================================================================
