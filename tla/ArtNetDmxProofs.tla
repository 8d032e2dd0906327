-------------------------- MODULE ArtNetDmxProofs --------------------------
(***************************************************************************)
(* For every number of ports, set of streams and time-out: a port never    *)
(* merges a stream with itself, and a port with two sources is known to    *)
(* the node as merging.                                                    *)
(*                                                                         *)
(* The invariant is about one port at a time: while both its slots are in  *)
(* use, they hold different streams and the port says that it merges.  The *)
(* lemmas show that dropping silent sources and accepting a frame keep it, *)
(* and the step lemma adds what relates the ports to the node.             *)
(***************************************************************************)
EXTENDS ArtNetDmx, TLAPS

PortSound(q) ==
  InUse(q) = Slots => /\ Stream(q.source["a"]) # Stream(q.source["b"])
                      /\ q.merging

IInv ==
  /\ TypeOK
  /\ \A p \in Ports : PortSound(port[p])
  /\ \A p \in Ports : InUse(port[p]) = Slots => is_merge_mode
  /\ is_merge_mode => \E p \in Ports : port[p].merging

\* Both slots are in use exactly when neither address is NoIp.
LEMMA BothInUse ==
  ASSUME NEW q
  PROVE  InUse(q) = Slots <=> q.source["a"].ip # NoIp /\ q.source["b"].ip # NoIp
BY DEF InUse, Slots

LEMMA OtherSlot ==
  ASSUME NEW s \in Slots
  PROVE  Other(s) \in Slots /\ Other(s) # s /\ Slots = {s, Other(s)} /\ Other(Other(s)) = s
BY DEF Other, Slots

\* An accepted frame goes to one of the two slots.
LEMMA SlotForSlot ==
  ASSUME NEW q, NEW from, NEW physical, SlotFor(q, from, physical) # "none"
  PROVE  SlotFor(q, from, physical) \in Slots
<1>1. CASE InUse(q) \in {{}, Slots}
  BY <1>1 DEF SlotFor, Slots
<1>2. CASE InUse(q) \notin {{}, Slots}
  <2>1. \E u \in Slots : InUse(q) = {u}
    BY <1>2 DEF InUse, Slots
  <2> DEFINE t == CHOOSE u \in Slots : InUse(q) = {u}
  <2>2. t \in Slots
    BY <2>1
  <2>3. SlotFor(q, from, physical) \in {t, Other(t), "none"}
    BY <1>2 DEF SlotFor
  <2> QED
    BY <2>2, <2>3, OtherSlot
<1> QED
  BY <1>1, <1>2

\* The slot of an accepted frame, and the stream that it is merged with.
LEMMA SlotForSound ==
  ASSUME NEW q, NEW from, NEW physical, PortSound(q),
         SlotFor(q, from, physical) # "none"
  PROVE  LET s == SlotFor(q, from, physical)
         IN  /\ s \in Slots
             /\ Merges(q, s) => Stream(q.source[Other(s)]) # <<from, physical>>
<1> DEFINE s == SlotFor(q, from, physical)
           Matches(t) == q.source[t].ip = from /\ q.source[t].physical = physical
<1>1. CASE InUse(q) = {}
  <2>1. InUse(q) # Slots
    BY <1>1 DEF Slots
  <2>2. s = "a"
    BY <1>1, <2>1 DEF SlotFor
  <2> QED
    BY <1>1, <2>2, OtherSlot DEF Slots, Merges
<1>2. CASE InUse(q) = Slots
  <2>1. InUse(q) # {}
    BY <1>2 DEF Slots
  <2>2. s = IF Matches("a") THEN "a" ELSE IF Matches("b") THEN "b" ELSE "none"
    BY <1>2, <2>1 DEF SlotFor
  <2>3. Stream(q.source["a"]) # Stream(q.source["b"])
    BY <1>2 DEF PortSound
  <2>4. CASE Matches("a")
    BY <2>2, <2>3, <2>4 DEF Slots, Stream, Other
  <2>5. CASE ~ Matches("a")
    <3>1. s = "b"
      BY <2>2, <2>5
    <3> QED
      BY <2>5, <3>1 DEF Slots, Stream, Other
  <2> QED
    BY <2>4, <2>5
<1>3. CASE InUse(q) # {} /\ InUse(q) # Slots
  <2> DEFINE t == CHOOSE u \in Slots : InUse(q) = {u}
  <2>1. \E u \in Slots : InUse(q) = {u}
    BY <1>3 DEF InUse, Slots
  <2>2. t \in Slots /\ InUse(q) = {t}
    BY <2>1
  <2>3. s = IF q.source[t].ip # from THEN Other(t)
            ELSE IF Matches(t) THEN t
            ELSE IF q.source[Other(t)].physical # physical THEN Other(t)
            ELSE "none"
    BY <1>3 DEF SlotFor
  <2> HIDE DEF t
  <2>4. CASE s = Other(t)
    <3>1. ~ Matches(t)
      BY <2>2, <2>3, <2>4, OtherSlot
    <3> QED
      BY <2>2, <2>4, <3>1, OtherSlot DEF Stream
  <2>5. CASE s = t
    BY <2>2, <2>5, OtherSlot DEF Merges
  <2> QED
    BY <2>3, <2>4, <2>5
<1> QED
  BY <1>1, <1>2, <1>3

\* Dropping silent sources keeps a port sound, and adds no source.
LEMMA DropSound ==
  ASSUME NEW q \in PortType, PortSound(q)
  PROVE  /\ DropSilent(q) \in PortType
         /\ PortSound(DropSilent(q))
         /\ InUse(DropSilent(q)) \subseteq InUse(q)
<1> DEFINE r == DropSilent(q)
<1>1. r \in PortType
  BY DEF DropSilent, PortType, Source
<1>2. \A s \in Slots : r.source[s] = IF s \in TimedOut(q)
                                       THEN [q.source[s] EXCEPT !.ip = NoIp]
                                       ELSE q.source[s]
  BY DEF DropSilent, PortType
<1>3. \A s \in Slots : s \in TimedOut(q) => r.source[s].ip = NoIp
  BY <1>2 DEF PortType, Source
<1>4. InUse(r) \subseteq InUse(q)
  BY <1>2, <1>3 DEF InUse
<1>5. ASSUME InUse(r) = Slots
      PROVE  Stream(r.source["a"]) # Stream(r.source["b"]) /\ r.merging
  <2>1. TimedOut(q) = {}
    BY <1>3, <1>5 DEF InUse, TimedOut
  <2>2. r.source["a"] = q.source["a"] /\ r.source["b"] = q.source["b"]
    BY <1>2, <2>1 DEF Slots
  <2>3. InUse(q) = Slots
    BY <1>4, <1>5 DEF InUse
  <2>4. r.merging = (q.merging /\ TimedOut(q) = {})
    BY DEF DropSilent, PortType
  <2> QED
    BY <2>1, <2>2, <2>3, <2>4 DEF PortSound
<1> QED
  BY <1>1, <1>4, <1>5 DEF PortSound

\* Accepting a frame keeps a port sound; it then has two sources only by merging.
LEMMA AcceptSound ==
  ASSUME NEW q \in PortType, PortSound(q),
         NEW from \in Ips, NEW physical \in Physicals,
         NEW s, s = SlotFor(q, from, physical), s # "none"
  PROVE  LET r == AcceptFrame(q, s, from, physical)
         IN  /\ r \in PortType
             /\ PortSound(r)
             /\ InUse(r) = Slots => Merges(q, s)
             /\ Merges(q, s) => r.merging
             /\ q.merging => r.merging
<1> DEFINE r == AcceptFrame(q, s, from, physical)
           o == Other(s)
<1>1. s \in Slots /\ (Merges(q, s) => Stream(q.source[o]) # <<from, physical>>)
  BY SlotForSound
<1>2. o \in Slots /\ o # s /\ Slots = {s, o}
  BY <1>1, OtherSlot
<1>3. 0 \in Ages
  BY ArtNetAssumption DEF Ages
<1>4. [ip |-> from, physical |-> physical, age |-> 0] \in Source
  BY <1>3 DEF Source
<1>5. r.source[s] = [ip |-> from, physical |-> physical, age |-> 0]
  BY <1>1 DEF AcceptFrame, PortType
<1>6. r.source[o] = q.source[o]
  BY <1>1, <1>2 DEF AcceptFrame, PortType
<1>7. r.merging = (q.merging \/ Merges(q, s))
  BY DEF AcceptFrame, PortType
<1>8. r \in PortType
  BY <1>1, <1>4 DEF AcceptFrame, PortType, Merges
<1>9. InUse(r) = Slots => Merges(q, s)
  BY <1>2, <1>6 DEF InUse, Merges
<1>10. InUse(r) = Slots => Stream(r.source["a"]) # Stream(r.source["b"])
  <2>1. InUse(r) = Slots => Stream(r.source[s]) # Stream(r.source[o])
    BY <1>1, <1>5, <1>6, <1>9 DEF Stream
  <2>2. (s = "a" /\ o = "b") \/ (s = "b" /\ o = "a")
    BY <1>1 DEF Slots, Other
  <2> QED
    BY <2>1, <2>2
<1> QED
  BY <1>7, <1>8, <1>9, <1>10 DEF PortSound

\* The port that the loop has reached, as the cases of HandleDmx find it.
LEMMA CheckedSound ==
  ASSUME IInv, dmx # Idle
  PROVE  /\ Handled \in Ports /\ dmx.from \in Ips /\ dmx.physical \in Physicals
         /\ Checked(Handled) \in PortType
         /\ PortSound(Checked(Handled))
         /\ InUse(Checked(Handled)) \subseteq InUse(port[Handled])
<1>1. Handled \in Ports /\ dmx.from \in Ips /\ dmx.physical \in Physicals
  BY DEF IInv, TypeOK, Handled
<1>2. port[Handled] \in PortType /\ PortSound(port[Handled])
  BY <1>1 DEF IInv, TypeOK
<1> QED
  BY <1>1, <1>2, DropSound DEF Checked

\* After CheckMergeTimeouts the node is in merge mode if and only if a port
\* merges, and so it is as long as a port has two sources.
LEMMA StillMergingSound ==
  ASSUME IInv, dmx # Idle, NEW new,
         new = [port EXCEPT ![Handled] = Checked(Handled)]
  PROVE  /\ StillMerging(Handled) \in BOOLEAN
         /\ StillMerging(Handled) => \E i \in Ports : new[i].merging
         /\ \A i \in Ports : InUse(new[i]) = Slots => StillMerging(Handled)
<1>1. Handled \in Ports
  BY CheckedSound
<1>2. port \in [Ports -> PortType]
  BY DEF IInv, TypeOK
<1>3. is_merge_mode \in BOOLEAN
  BY Zenon DEF IInv, TypeOK
<1>4. \A i \in Ports : PortSound(new[i])
  BY <1>1, <1>2, CheckedSound DEF IInv
<1>5. CASE ChecksTimeouts
  <2>1. Checked(Handled) = DropSilent(port[Handled])
    BY <1>5 DEF Checked
  <2>2. StillMerging(Handled) = (\E i \in Ports : new[i].merging)
    BY <1>5, <2>1, Zenon DEF StillMerging
  <2> QED
    BY <1>4, <2>2 DEF PortSound
<1>6. CASE ~ ChecksTimeouts
  <2>1. new = port
    BY <1>1, <1>2, <1>6 DEF Checked
  <2>2. StillMerging(Handled) = is_merge_mode
    BY <1>6, Zenon DEF StillMerging
  <2> QED
    BY <1>3, <2>1, <2>2 DEF IInv
<1> QED
  BY <1>5, <1>6

-----------------------------------------------------------------------------
(* The steps. *)

\* The part of TypeOK that is about the node and the ghosts.
NodeType ==
  /\ is_synchronous_mode \in BOOLEAN
  /\ dmx_ip \in Ips \cup {NoIp}
  /\ packet_age \in 0 .. kNetworkDataLossTimeout
  /\ sync_age \in 0 .. kSyncTimeout
  /\ dmx = Idle \/ dmx \in [from : Ips, physical : Physicals, universe : Universes,
                              port : Ports]
  /\ sent \subseteq Ports /\ mix \subseteq Slots /\ discarded \in BOOLEAN

Zeroes == 0 \in 0 .. kNetworkDataLossTimeout /\ 0 \in 0 .. kSyncTimeout

LEMMA ZeroesHold == Zeroes
BY ArtNetAssumption DEF Zeroes

LEMMA StreamParts ==
  ASSUME NEW t \in Streams
  PROVE  t[1] \in Ips /\ t[2] \in Physicals /\ t[3] \in Universes
BY DEF Ips, Physicals, Universes

\* A packet that leaves the loop idle, or starts it at the first port.
LEMMA InputNode ==
  ASSUME NodeType, InputUdp, is_synchronous_mode' \in BOOLEAN,
         dmx_ip' \in Ips \cup {NoIp}, sync_age' \in {0, sync_age},
         dmx' = dmx \/ dmx' \in [from : Ips, physical : Physicals,
                                 universe : Universes, port : Ports],
         sent' \subseteq Ports, mix' = {}
  PROVE  NodeType'
<1>1. packet_age' \in 0 .. kNetworkDataLossTimeout /\ sync_age' \in 0 .. kSyncTimeout
  BY ZeroesHold DEF Zeroes, InputUdp, NodeType
<1>2. dmx' = Idle \/ dmx' \in [from : Ips, physical : Physicals,
                               universe : Universes, port : Ports]
  BY DEF InputUdp
<1>3. discarded' \in BOOLEAN
  BY Zenon DEF InputUdp
<1>4. mix' \subseteq Slots
  OBVIOUS
<1> QED
  BY <1>1, <1>2, <1>3, <1>4, Zenon DEF NodeType

\* The loop goes on to a port that exists, or ends.
LEMMA NextPortNode ==
  ASSUME NodeType, dmx # Idle, NextPort
  PROVE  /\ dmx_ip' \in Ips \cup {NoIp}
         /\ dmx' = Idle \/ dmx' \in [from : Ips, physical : Physicals,
                                     universe : Universes, port : Ports]
<1>1. dmx \in [from : Ips, physical : Physicals, universe : Universes, port : Ports]
  BY DEF NodeType
<1>2. CASE Handled < MaxPorts
  <2>1. dmx.port + 1 \in Ports
    BY <1>1, <1>2, ArtNetAssumption DEF Handled, Ports
  <2>2. dmx' = [dmx EXCEPT !.port = dmx.port + 1] /\ dmx_ip' = dmx_ip
    BY <1>2 DEF NextPort
  <2> QED
    BY <1>1, <2>1, <2>2 DEF NodeType
<1>3. CASE ~ (Handled < MaxPorts)
  BY <1>1, <1>3 DEF NextPort
<1> QED
  BY <1>2, <1>3

LEMMA NodeSteps == ASSUME NodeType, [Next]_vars PROVE NodeType'
<1>1. StaysSynchronous \in BOOLEAN
  BY Zenon DEF StaysSynchronous
<1>2. ASSUME NEW t \in Streams, InputDmx(t[1], t[2], t[3]) PROVE NodeType'
  <2>1. 1 \in Ports
    BY ArtNetAssumption DEF Ports
  <2>2. dmx' \in [from : Ips, physical : Physicals, universe : Universes, port : Ports]
    BY <1>2, <2>1, StreamParts DEF InputDmx
  <2> QED
    BY <1>1, <1>2, <2>2, InputNode DEF InputDmx, SentNothing, NodeType
<1>3. ASSUME NEW from \in Ips,
             InputDmxDiscovering(from) \/ SyncIgnored(from) \/ SyncStarts(from)
             \/ HandleSync(from)
      PROVE  NodeType'
  <2>1. is_synchronous_mode' \in BOOLEAN
    BY <1>1, <1>3, Zenon DEF InputDmxDiscovering, SyncIgnored, SyncStarts, HandleSync,
       NodeType
  <2>2. /\ InputUdp /\ dmx_ip' \in Ips \cup {NoIp} /\ sync_age' \in {0, sync_age}
        /\ dmx' = dmx /\ sent' \subseteq Ports /\ mix' = {}
    BY <1>3 DEF InputDmxDiscovering, SyncIgnored, SyncStarts, HandleSync, SentNothing,
       NodeType
  <2> QED
    BY <2>1, <2>2, InputNode
<1>4. CASE DmxOtherUniverse
  BY <1>4, NextPortNode DEF DmxOtherUniverse, NodeType, SentNothing
<1>5. CASE DmxDiscarded
  BY <1>5 DEF DmxDiscarded, NodeType, SentNothing
<1>6. CASE DmxAccepted
  <2> DEFINE q == Checked(Handled)
             s == SlotFor(q, dmx.from, dmx.physical)
  <2>1. dmx \in [from : Ips, physical : Physicals, universe : Universes, port : Ports]
    BY <1>6 DEF DmxAccepted, NodeType
  <2>2. sent' \subseteq Ports
    BY <1>6, <2>1 DEF DmxAccepted, Handled
  <2>3. s \in Slots
    BY <1>6, SlotForSlot DEF DmxAccepted
  <2>4. mix' \subseteq Slots
    BY <1>6, <2>3 DEF DmxAccepted, MadeOf
  <2> QED
    BY <1>6, <2>2, <2>4, NextPortNode DEF DmxAccepted, NodeType
<1>7. CASE AddressCancel
  BY <1>1, <1>7, InputNode DEF AddressCancel, SentNothing, NodeType
<1>8. ASSUME NEW t \in Switches, SetSwitch(t[1], t[2]) PROVE NodeType'
  BY <1>1, <1>8, InputNode DEF SetSwitch, SentNothing, NodeType
<1>9. ASSUME NEW p \in Ports, AddressClear(p) PROVE NodeType'
  BY <1>1, <1>9, InputNode DEF AddressClear, NodeType
<1>10. CASE InputOther
  BY <1>1, <1>10, InputNode DEF InputOther, SentNothing, NodeType
<1>11. CASE SetNetworkDataLossCondition
  <2>1. sent' \subseteq Ports /\ mix' \subseteq Slots
    BY <1>11 DEF SetNetworkDataLossCondition
  <2> QED
    BY <1>11, <2>1 DEF SetNetworkDataLossCondition, NodeType
<1>12. CASE Tick
  <2>1. ASSUME NEW limit \in Nat, NEW n \in 0 .. limit
        PROVE  Older(n, limit) \in 0 .. limit
    BY DEF Older
  <2>2. /\ packet_age' \in 0 .. kNetworkDataLossTimeout
        /\ sync_age' \in 0 .. kSyncTimeout
    BY <1>12, <2>1, ArtNetAssumption DEF Tick, NodeType
  <2> QED
    BY <1>12, <2>2 DEF Tick, NodeType, SentNothing
<1>13. CASE UNCHANGED vars
  BY <1>13 DEF vars, NodeType
<1> QED
  BY <1>2, <1>3, <1>4, <1>5, <1>6, <1>7, <1>8, <1>9, <1>10, <1>11, <1>12, <1>13
     DEF Next, HandleDmx

\* What IInv says of the ports and of merge mode.
PortsSafe ==
  /\ port \in [Ports -> PortType]
  /\ is_merge_mode \in BOOLEAN
  /\ \A p \in Ports : PortSound(port[p])
  /\ \A p \in Ports : InUse(port[p]) = Slots => is_merge_mode
  /\ is_merge_mode => \E p \in Ports : port[p].merging

LEMMA IInvParts == IInv <=> NodeType /\ PortsSafe
BY Zenon DEF IInv, TypeOK, NodeType, PortsSafe

\* A step that keeps the streams in the slots and the flag of every port.
LEMMA SameSources ==
  ASSUME PortsSafe, port' \in [Ports -> PortType], is_merge_mode' = is_merge_mode,
         \A p \in Ports : /\ \A s \in Slots : Stream(port'[p].source[s]) = Stream(port[p].source[s])
                          /\ port'[p].merging = port[p].merging
  PROVE  PortsSafe'
<1>1. \A p \in Ports, s \in Slots : port'[p].source[s].ip = port[p].source[s].ip
  BY DEF Stream
<1>2. \A p \in Ports : InUse(port'[p]) = InUse(port[p])
  BY <1>1 DEF InUse
<1>3. \A p \in Ports : PortSound(port'[p])
  BY <1>2 DEF PortsSafe, PortSound, Slots
<1>4. is_merge_mode' \in BOOLEAN
  BY DEF PortsSafe
<1> QED
  BY <1>2, <1>3, <1>4 DEF PortsSafe

\* A step that empties every slot and leaves merge mode.
LEMMA NoSources ==
  ASSUME port' \in [Ports -> PortType], is_merge_mode' = FALSE,
         \A p \in Ports : InUse(port'[p]) # Slots
  PROVE  PortsSafe'
BY DEF PortsSafe, PortSound

LEMMA Emptied ==
  ASSUME NEW q \in PortType
  PROVE  LET src == [s \in Slots |-> [q.source[s] EXCEPT !.ip = NoIp]]
         IN  src \in [Slots -> Source] /\ \A s \in Slots : src[s].ip = NoIp
BY DEF PortType, Source

\* A tick ages the sources of a port and changes nothing else of it.
LEMMA AgedSound ==
  ASSUME NEW q \in PortType
  PROVE  /\ Aged(q) \in PortType
         /\ \A s \in Slots : Stream(Aged(q).source[s]) = Stream(q.source[s])
         /\ Aged(q).merging = q.merging
<1> DEFINE old(s) == [q.source[s] EXCEPT !.age = Older(@, kMergeTimeout + 1)]
           src == [s \in Slots |-> old(s)]
<1>1. \A n \in Ages : Older(n, kMergeTimeout + 1) \in Ages
  BY ArtNetAssumption DEF Older, Ages
<1>2. \A s \in Slots : q.source[s] \in Source
  BY DEF PortType
<1>3. ASSUME NEW s \in Slots
      PROVE  old(s) \in Source /\ Stream(old(s)) = Stream(q.source[s])
  <2>1. old(s).age = Older(q.source[s].age, kMergeTimeout + 1)
    BY <1>2 DEF Source
  <2>2. old(s).ip = q.source[s].ip /\ old(s).physical = q.source[s].physical
    BY <1>2 DEF Source
  <2> QED
    BY <1>1, <1>2, <2>1, <2>2 DEF Source, Stream
<1>4. src \in [Slots -> Source]
  BY <1>3
<1>5. Aged(q) = [q EXCEPT !.source = src]
  BY DEF Aged
<1>6. Aged(q) \in PortType /\ Aged(q).source = src /\ Aged(q).merging = q.merging
  BY <1>4, <1>5 DEF PortType
<1> QED
  BY <1>3, <1>6

LEMMA PortsSteps == ASSUME IInv, [Next]_vars PROVE PortsSafe'
<1>1. PortsSafe
  BY IInvParts
<1>2. port \in [Ports -> PortType]
  BY <1>1 DEF PortsSafe
<1>3. CASE UNCHANGED <<port, is_merge_mode>>
  BY <1>1, <1>2, <1>3, SameSources
<1>4. ASSUME NEW from \in Ips, HandleSync(from) PROVE PortsSafe'
  BY <1>1, <1>2, <1>4, SameSources DEF HandleSync, PortType
<1>5. CASE AddressCancel
  <2>1. port' = [p \in Ports |-> Cancelled(port[p])] /\ is_merge_mode' = FALSE
    BY <1>5 DEF AddressCancel
  <2>2. \A p \in Ports : Cancelled(port[p]) \in PortType
    BY <1>2, Emptied DEF Cancelled, PortType
  <2>3. \A p \in Ports : \A s \in Slots : Cancelled(port[p]).source[s].ip = NoIp
    BY <1>2, Emptied DEF Cancelled, PortType
  <2> QED
    BY <2>1, <2>2, <2>3, NoSources DEF InUse, Slots
<1>6. ASSUME NEW t \in Switches, SetSwitch(t[1], t[2]) PROVE PortsSafe'
  <2>1. t[1] \in Ports /\ t[2] \in Universes
    BY ArtNetAssumption DEF Ports
  <2>2. port' = [port EXCEPT ![t[1]].universe = t[2]] /\ is_merge_mode' = is_merge_mode
    BY <1>6 DEF SetSwitch
  <2> QED
    BY <1>1, <1>2, <2>1, <2>2, SameSources DEF PortType
<1>7. ASSUME NEW p \in Ports, AddressClear(p) PROVE PortsSafe'
  BY <1>1, <1>2, <1>7, SameSources DEF AddressClear, PortType
<1>8. CASE SetNetworkDataLossCondition
  <2>1. is_merge_mode' = FALSE
    BY <1>8 DEF SetNetworkDataLossCondition
  <2>2. CASE ~ HasSources
    <3>1. port' = port
      BY <1>8, <2>2 DEF SetNetworkDataLossCondition
    <3> QED
      BY <1>2, <2>1, <2>2, <3>1, NoSources DEF HasSources, Slots
  <2>3. CASE HasSources
    <3>1. port' = [p \in Ports |-> DataLost(port[p])]
      BY <1>8, <2>3 DEF SetNetworkDataLossCondition
    <3>2. \A p \in Ports : DataLost(port[p]) \in PortType
      BY <1>2, Emptied DEF DataLost, PortType
    <3>3. \A p \in Ports : \A s \in Slots : DataLost(port[p]).source[s].ip = NoIp
      BY <1>2, Emptied DEF DataLost, PortType
    <3> QED
      BY <2>1, <3>1, <3>2, <3>3, NoSources DEF InUse, Slots
  <2> QED
    BY <2>2, <2>3
<1>9. CASE Tick
  <2>1. port' = [p \in Ports |-> Aged(port[p])] /\ is_merge_mode' = is_merge_mode
    BY <1>9 DEF Tick
  <2> QED
    BY <1>1, <1>2, <2>1, AgedSound, SameSources
<1>10. CASE DmxDiscarded
  <2>1. dmx # Idle /\ port' = [port EXCEPT ![Handled] = Checked(Handled)]
    BY <1>10 DEF DmxDiscarded
  <2>2. port' \in [Ports -> PortType] /\ \A p \in Ports : PortSound(port'[p])
    BY <1>1, <1>2, <2>1, CheckedSound DEF PortsSafe
  <2>3. is_merge_mode' = StillMerging(Handled)
    BY <1>10 DEF DmxDiscarded
  <2> QED
    BY <2>1, <2>2, <2>3, StillMergingSound DEF PortsSafe
<1>11. CASE DmxAccepted
  <2> DEFINE q == Checked(Handled)
             s == SlotFor(q, dmx.from, dmx.physical)
             r == AcceptFrame(q, s, dmx.from, dmx.physical)
             n == [r EXCEPT !.pending = @ \/ HeldBack(r)]
             c == [port EXCEPT ![Handled] = q]
  <2>1. /\ dmx # Idle /\ s # "none"
        /\ port' = [port EXCEPT ![Handled] = n]
    BY <1>11 DEF DmxAccepted
  <2>2. is_merge_mode' = (StillMerging(Handled) \/ Merges(q, s))
    BY <1>11, Zenon DEF DmxAccepted
  <2>3. Handled \in Ports /\ q \in PortType
    BY <2>1, CheckedSound
  <2>4. /\ r \in PortType /\ PortSound(r) /\ (InUse(r) = Slots => Merges(q, s))
        /\ (Merges(q, s) => r.merging) /\ (q.merging => r.merging)
    BY <2>1, CheckedSound, AcceptSound
  <2>5. n \in PortType /\ n.source = r.source /\ n.merging = r.merging
    BY <2>4 DEF PortType, HeldBack
  <2>6. InUse(n) = InUse(r) /\ PortSound(n)
    BY <2>4, <2>5 DEF InUse, PortSound
  <2>7. /\ StillMerging(Handled) => \E i \in Ports : c[i].merging
        /\ \A i \in Ports : InUse(c[i]) = Slots => StillMerging(Handled)
    BY <2>1, StillMergingSound
  <2>8. \A i \in Ports : i # Handled => port'[i] = c[i]
    BY <1>2, <2>1
  <2>9. port'[Handled] = n /\ c[Handled] = q
    BY <1>2, <2>1, <2>3
  <2>10. port' \in [Ports -> PortType] /\ \A i \in Ports : PortSound(port'[i])
    BY <1>1, <1>2, <2>1, <2>3, <2>5, <2>6 DEF PortsSafe
  <2>11. ASSUME NEW i \in Ports, InUse(port'[i]) = Slots PROVE is_merge_mode'
    <3>1. CASE i = Handled
      BY <2>2, <2>4, <2>6, <2>9, <2>11, <3>1
    <3>2. CASE i # Handled
      BY <2>2, <2>7, <2>8, <2>11, <3>2
    <3> QED
      BY <3>1, <3>2
  <2>12. ASSUME is_merge_mode' PROVE \E i \in Ports : port'[i].merging
    <3>1. CASE Merges(q, s)
      BY <2>3, <2>4, <2>5, <2>9, <3>1
    <3>2. CASE StillMerging(Handled)
      <4>1. PICK i \in Ports : c[i].merging
        BY <2>7, <3>2
      <4> QED
        BY <2>3, <2>4, <2>5, <2>8, <2>9, <4>1
    <3> QED
      BY <2>2, <2>12, <3>1, <3>2
  <2>13. is_merge_mode' \in BOOLEAN
    BY <2>2, Zenon
  <2> QED
    BY <2>10, <2>11, <2>12, <2>13 DEF PortsSafe
<1>12. \/ UNCHANGED <<port, is_merge_mode>>
       \/ \E from \in Ips : HandleSync(from)
       \/ AddressCancel
       \/ \E t \in Switches : SetSwitch(t[1], t[2])
       \/ \E p \in Ports : AddressClear(p)
       \/ SetNetworkDataLossCondition
       \/ Tick
       \/ DmxDiscarded
       \/ DmxAccepted
  BY DEF Next, vars, HandleDmx, InputDmx, InputDmxDiscovering, SyncIgnored, SyncStarts,
     DmxOtherUniverse, InputOther
<1> QED
  BY <1>3, <1>4, <1>5, <1>6, <1>7, <1>8, <1>9, <1>10, <1>11, <1>12

LEMMA InitIInv == Init => IInv
<1> SUFFICES ASSUME Init PROVE IInv
  OBVIOUS
<1> DEFINE src == [s \in Slots |-> [ip |-> NoIp, physical |-> NoPhysical, age |-> 0]]
<1>1. src \in [Slots -> Source]
  BY ArtNetAssumption DEF Source, Ages
<1>2. port = [p \in Ports |-> [universe |-> Patch[p], source |-> src, merging |-> FALSE,
                               pending |-> FALSE, length |-> FALSE]]
  BY DEF Init
<1>3. port \in [Ports -> PortType]
  BY <1>1, <1>2, ArtNetAssumption DEF PortType, Ports
<1>4. \A p \in Ports : InUse(port[p]) # Slots
  BY <1>2 DEF InUse, Slots
<1>5. PortsSafe
  BY <1>3, <1>4 DEF PortsSafe, PortSound, Init
<1>6. NodeType
  BY ZeroesHold DEF Zeroes, Init, NodeType
<1> QED
  BY <1>5, <1>6, IInvParts

LEMMA NextIInv == IInv /\ [Next]_vars => IInv'
<1> SUFFICES ASSUME IInv, [Next]_vars PROVE IInv'
  OBVIOUS
<1>1. NodeType'
  BY NodeSteps, IInvParts
<1>2. PortsSafe'
  BY PortsSteps
<1> QED
  BY <1>1, <1>2, Zenon DEF IInv, TypeOK, NodeType, PortsSafe

LEMMA Always == Spec => []IInv
BY InitIInv, NextIInv, PTL DEF Spec

-----------------------------------------------------------------------------
(* The theorems. *)

\* The state of the ports and of the loop over them is well-typed: the loop of
\* HandleDmx never runs past the last port.
THEOREM TypeCorrect == Spec => []TypeOK
<1>1. IInv => TypeOK
  BY DEF IInv
<1> QED
  BY Always, <1>1, PTL

\* Whatever frames, time-outs, cancels and losses come, in any order, a port
\* never merges a stream with itself.
THEOREM NeverMergesWithItself == Spec => []TwoStreams
<1>1. IInv => TwoStreams
  BY DEF IInv, PortSound, TwoStreams
<1> QED
  BY Always, <1>1, PTL

\* A port with two sources says so, and the node is in merge mode: its sources
\* are subject to the merge time-outs.
THEOREM MergingIsKnown == Spec => []TwoSourcesMerge
<1>1. IInv => TwoSourcesMerge
  BY DEF IInv, PortSound, TwoSourcesMerge
<1> QED
  BY Always, <1>1, PTL

\* ArtSync is ignored only while a port says that it merges.
THEOREM MergeModeIsMeant == Spec => []MergeModeMeans
<1>1. IInv => MergeModeMeans
  BY DEF IInv, MergeModeMeans
<1> QED
  BY Always, <1>1, PTL

\* What DropSilent leaves in use has been heard within the time-out.
LEMMA DropFresh ==
  ASSUME NEW q \in PortType, NEW s \in InUse(DropSilent(q))
  PROVE  /\ s \in Slots /\ s \in InUse(q)
         /\ DropSilent(q).source[s] = q.source[s]
         /\ q.source[s].age <= kMergeTimeout
<1>1. s \in Slots
  BY DEF InUse
<1>2. DropSilent(q).source[s] = IF s \in TimedOut(q)
                                  THEN [q.source[s] EXCEPT !.ip = NoIp]
                                  ELSE q.source[s]
  BY <1>1 DEF DropSilent, PortType
<1>3. DropSilent(q).source[s].ip # NoIp
  BY DEF InUse
<1>4. q.source[s] \in Source
  BY <1>1 DEF PortType
<1>5. s \notin TimedOut(q)
  BY <1>2, <1>3, <1>4 DEF Source
<1>6. q.source[s].age \in Int /\ kMergeTimeout \in Int
  BY <1>4, ArtNetAssumption DEF Source, Ages
<1> QED
  BY <1>1, <1>2, <1>3, <1>5, <1>6 DEF InUse, TimedOut

\* A frame is discarded, if it is not of a controller the port listens to, only
\* when both slots are in use.
LEMMA NoneMeansFull ==
  ASSUME NEW q, NEW from, NEW physical, SlotFor(q, from, physical) = "none",
         \A s \in InUse(q) : q.source[s].ip # from
  PROVE  InUse(q) = Slots
<1> SUFFICES ASSUME InUse(q) # Slots PROVE FALSE
  OBVIOUS
<1>1. CASE InUse(q) = {}
  BY <1>1 DEF SlotFor, Slots
<1>2. CASE InUse(q) # {}
  <2> DEFINE t == CHOOSE u \in Slots : InUse(q) = {u}
  <2>1. \E u \in Slots : InUse(q) = {u}
    BY <1>2 DEF InUse, Slots
  <2>2. t \in Slots /\ InUse(q) = {t}
    BY <2>1
  <2>3. q.source[t].ip # from
    BY <2>2
  <2>4. SlotFor(q, from, physical) = Other(t)
    BY <1>2, <2>3 DEF SlotFor
  <2> QED
    BY <2>2, <2>4, OtherSlot DEF Slots
<1> QED
  BY <1>1, <1>2

\* In every reachable state a step that discards a frame of a newcomer finds
\* both slots taken by streams that are still heard.
LEMMA NewcomerStep ==
  ASSUME IInv, [Next]_vars, ~ UNCHANGED vars, discarded', ~ disable_merge_timeout,
         dmx.from \notin {port[Handled].source[s].ip : s \in Slots}
  PROVE  \A s \in Slots : /\ port[Handled].source[s].ip # NoIp
                          /\ port[Handled].source[s].age <= kMergeTimeout
<1>1. DmxDiscarded
  BY DEF Next, HandleDmx, InputDmx, InputDmxDiscovering, SyncIgnored, SyncStarts,
     HandleSync, InputUdp, DmxOtherUniverse, DmxAccepted, AddressCancel, SetSwitch,
     AddressClear, InputOther, SetNetworkDataLossCondition, Tick
<1> DEFINE q == Checked(Handled)
<1>2. dmx # Idle /\ SlotFor(q, dmx.from, dmx.physical) = "none"
  BY <1>1 DEF DmxDiscarded
<1>3. Handled \in Ports /\ dmx.from \in Ips /\ InUse(q) \subseteq InUse(port[Handled])
  BY <1>2, CheckedSound
<1>4. port[Handled] \in PortType
  BY <1>3 DEF IInv, TypeOK
<1>5. \A s \in InUse(q) : q.source[s] = port[Handled].source[s]
  BY <1>4, DropFresh DEF Checked
<1>6. \A s \in InUse(q) : q.source[s].ip # dmx.from
  BY <1>5 DEF InUse
<1>7. InUse(q) = Slots
  BY <1>2, <1>6, NoneMeansFull
<1>8. InUse(port[Handled]) = Slots
  BY <1>3, <1>7 DEF InUse
<1>9. is_merge_mode
  BY <1>3, <1>8 DEF IInv
<1>10. q = DropSilent(port[Handled])
  BY <1>9 DEF Checked, ChecksTimeouts
<1> QED
  BY <1>4, <1>7, <1>8, <1>10, DropFresh DEF InUse

\* In every reachable state a step that sends a frame in merge mode makes it of
\* streams that are still heard.
LEMMA MixStep ==
  ASSUME IInv, [Next]_vars, ~ UNCHANGED vars, mix' # {}, is_merge_mode,
         ~ disable_merge_timeout, NEW u \in mix'
  PROVE  port'[Handled].source[u].age <= kMergeTimeout
<1>1. DmxAccepted
  BY DEF Next, HandleDmx, InputDmx, InputDmxDiscovering, SyncIgnored, SyncStarts,
     HandleSync, SentNothing, DmxOtherUniverse, DmxDiscarded, AddressCancel, SetSwitch,
     AddressClear, InputOther, SetNetworkDataLossCondition, Tick
<1> DEFINE q == Checked(Handled)
           s == SlotFor(q, dmx.from, dmx.physical)
           r == AcceptFrame(q, s, dmx.from, dmx.physical)
           n == [r EXCEPT !.pending = @ \/ HeldBack(r)]
<1>2. /\ dmx # Idle /\ s # "none" /\ port' = [port EXCEPT ![Handled] = n]
      /\ \E ltp \in BOOLEAN : mix' = MadeOf(q, s, ltp)
  BY <1>1 DEF DmxAccepted
<1>3. /\ Handled \in Ports /\ dmx.from \in Ips /\ dmx.physical \in Physicals
      /\ q \in PortType /\ PortSound(q)
  BY <1>2, CheckedSound
<1>4. port \in [Ports -> PortType]
  BY DEF IInv, TypeOK
<1>5. r \in PortType /\ s \in Slots
  BY <1>2, <1>3, AcceptSound, SlotForSlot
<1>6. port'[Handled].source = r.source
  BY <1>2, <1>3, <1>4, <1>5 DEF PortType
<1>7. u = s \/ (Merges(q, s) /\ u = Other(s))
  BY <1>2, <1>5, OtherSlot DEF MadeOf
<1>8. CASE u = s
  <2>1. r.source[u].age = 0
    BY <1>3, <1>5, <1>8 DEF AcceptFrame, PortType
  <2> QED
    BY <1>6, <2>1, ArtNetAssumption
<1>9. CASE Merges(q, s) /\ u = Other(s)
  <2>1. q = DropSilent(port[Handled])
    BY DEF Checked, ChecksTimeouts
  <2>2. u \in InUse(q)
    BY <1>9 DEF Merges
  <2>3. q.source[u] = port[Handled].source[u] /\ port[Handled].source[u].age <= kMergeTimeout
    BY <1>3, <1>4, <2>1, <2>2, DropFresh
  <2>4. r.source[u] = q.source[u]
    BY <1>3, <1>5, <1>9, OtherSlot DEF AcceptFrame, PortType
  <2> QED
    BY <1>6, <2>3, <2>4
<1> QED
  BY <1>7, <1>8, <1>9

\* In merge mode, with the time-outs enabled, a frame is merged only with a
\* stream that has been heard within the merge time-out.
THEOREM MergesOnlyFresh == Spec => FreshMix
<1>1. IInv /\ [Next]_vars =>
        [ mix' # {} /\ is_merge_mode /\ ~ disable_merge_timeout =>
            \A s \in mix' : port'[Handled].source[s].age <= kMergeTimeout ]_vars
  BY MixStep
<1> QED
  BY Always, <1>1, PTL DEF Spec, FreshMix

\* A controller new to a port is turned away only while two others are heard.
THEOREM NewcomersGetIn == Spec => NewcomerAdmitted
<1>1. IInv /\ [Next]_vars =>
        [ discarded' /\ ~ disable_merge_timeout
          /\ dmx.from \notin {port[Handled].source[s].ip : s \in Slots} =>
            \A s \in Slots : /\ port[Handled].source[s].ip # NoIp
                             /\ port[Handled].source[s].age <= kMergeTimeout ]_vars
  BY NewcomerStep
<1> QED
  BY Always, <1>1, PTL DEF Spec, NewcomerAdmitted
=============================================================================
