------------------------- MODULE RdmDiscoveryProofs -------------------------
(***************************************************************************)
(* For every size of the UID space, every table, every number of tries and *)
(* every line: the ranges that discovery has still to search are proper    *)
(* and never overlap, whatever is lost, comes late, collides or leaves,    *)
(* and wherever a discovery is stopped and another one started (IInv).  An *)
(* undisturbed discovery finds every device, lists it only when it is      *)
(* muted, and keeps the promise of DiscoveryMachine (CInv).                *)
(*                                                                         *)
(* A state that waits for a late response is one with the state after it:  *)
(* At.  The range that was taken from the stack is in hand until the state *)
(* machine is done with it; it may be halved only when it is more than one *)
(* UID, and a request that runs is one for the range in hand.              *)
(*                                                                         *)
(* What CInv adds: a range on the stack has been halved once per entry     *)
(* below it, so that a half is never dropped for want of room (Depth); the *)
(* counters that a state does not set when it is entered are as they were  *)
(* left (Tidy); a DISC_MUTE is acknowledged by a device that is there      *)
(* (FramesSound); and as long as the line copes (Calm), every device that  *)
(* is not listed lies in a range still to be searched (Covered), what is   *)
(* muted is listed but for the device in hand (Agreed), and a try is spent *)
(* in vain only on a message that was lost or came late (Left).            *)
(***************************************************************************)
EXTENDS RdmDiscovery, FiniteSetTheorems, NaturalsInduction, WellFoundedInduction, TLAPS

At(s) == IF s.state = "kLateResponse" THEN s.saved_state ELSE s.state

\* The range in hand is still to be searched.
Hand(s) == \/ At(s) = "kDiscovery" /\ s.discovery.is_command_running
           \/ At(s) \in Unclaimed

Ascending(stack) ==
  /\ \A i \in 1 .. Len(stack) : stack[i].lower_bound <= stack[i].upper_bound
  /\ \A i, j \in 1 .. Len(stack) : i < j => stack[i].upper_bound < stack[j].lower_bound

\* r is a proper range above all those on the stack.
Above(r, stack) ==
  /\ r.lower_bound <= r.upper_bound
  /\ \A i \in 1 .. Len(stack) : stack[i].upper_bound < r.lower_bound

Wide(r) == r.lower_bound # r.upper_bound

\* A request of kDiscovery runs in kDiscovery, or has been stopped there.
Requests(s) == s.discovery.is_command_running => At(s) \in {"kIdle", "kDiscovery"}

Searching(s) ==
  /\ s.saved_state # "kLateResponse"
  /\ Requests(s)
  /\ s.quick_find.is_command_running => s.quick_find.counter # 0
  /\ Ascending(s.stack)
  /\ Hand(s) => Above(s.range, s.stack)
  /\ Hand(s) /\ At(s) # "kDiscoverySingleDevice" => Wide(s.range)

Sound(s) == s \in SmType /\ Searching(s)

\* The table, the line and the responders.
LineSound ==
  /\ tod \in TodType
  /\ devices \subseteq Uids /\ muted \subseteq devices
  /\ line \in Frame /\ late \in Frame
  /\ limits \in Lines
  /\ delayed \in 0 .. limits.late
  /\ noise \in 0 .. limits.noise
  /\ unplugged \in 0 .. limits.unplugged

IInv == Sound(sm) /\ LineSound

-----------------------------------------------------------------------------
(* The middle of a range. *)

\* The upper half of the UID space, without its bit.
LEMMA HalfFacts == Half \in Nat /\ Half >= 2 /\ \E k \in Nat : Half = 2 * k
<1>1. Half \in Nat \ {0} /\ Half % 2 = 0
  BY DiscoveryAssumption
<1>2. Half = 2 * (Half \div 2) /\ Half \div 2 \in Nat
  BY <1>1
<1>3. \E k \in Nat : Half = 2 * k
  BY <1>2
<1>4. Half >= 2
  BY <1>1, <1>2
<1>5. QED  BY <1>1, <1>3, <1>4

LEMMA WithoutTopBit ==
  ASSUME NEW u \in Uids
  PROVE  u % Half = IF u >= Half THEN u - Half ELSE u
<1>1. Half \in Nat /\ Half > 0 /\ u \in Nat /\ u < 2 * Half
  BY HalfFacts DEF Uids, kUidLast
<1>2. CASE u < Half
  BY <1>1, <1>2
<1>3. CASE u >= Half
  <2>1. u = 1 * Half + (u - Half) /\ u - Half \in 0 .. Half - 1
    BY <1>1, <1>3
  <2>2. QED  BY <1>1, <1>3, <2>1
<1>4. QED  BY <1>1, <1>2, <1>3

\* Halving without the 49th bit is halving.
LEMMA MidIsMiddle ==
  ASSUME NEW lower \in Uids, NEW upper \in Uids, lower < upper
  PROVE  /\ lower <= Mid(lower, upper) /\ Mid(lower, upper) < upper /\ Mid(lower, upper) \in Uids
         /\ Mid(lower, upper) = (lower + upper) \div 2
<1>1. PICK k \in Nat : Half = 2 * k
  BY HalfFacts
<1>2. Half \div 2 = k
  BY <1>1
<1>3. lower \in Nat /\ upper \in Nat /\ upper <= 2 * Half - 2 /\ Half \in Nat
  BY HalfFacts DEF Uids, kUidLast
<1> DEFINE a == lower % Half
           b == upper % Half
<1>4. /\ a = IF lower >= 2 * k THEN lower - 2 * k ELSE lower
      /\ b = IF upper >= 2 * k THEN upper - 2 * k ELSE upper
  BY <1>1, WithoutTopBit
<1>5. a \in Nat /\ b \in Nat
  BY <1>3, <1>4, <1>1
<1>6. Mid(lower, upper) = (a + b) \div 2 + (IF upper >= 2 * k THEN k ELSE 0) + (IF lower >= 2 * k THEN k ELSE 0)
  BY <1>1, <1>2 DEF Mid
<1> HIDE DEF a, b
<1>7. Mid(lower, upper) = (lower + upper) \div 2
  BY <1>3, <1>4, <1>5, <1>6, <1>1
<1>8. QED  BY <1>3, <1>7 DEF Uids, kUidLast

-----------------------------------------------------------------------------
(* The stack of ranges. *)

LEMMA Bounds ==
  ASSUME NEW r \in Branch
  PROVE  r.lower_bound \in Nat /\ r.upper_bound \in Nat /\ r.upper_bound <= kUidLast /\ kUidLast \in Int
BY HalfFacts DEF Branch, Uids, kUidLast

LEMMA EveryoneRange == Everyone \in Branch /\ Everyone.lower_bound <= Everyone.upper_bound
BY HalfFacts DEF Everyone, Branch, Uids, kUidLast

\* A range above the stack may be pushed, when there is room.
LEMMA PushAscends ==
  ASSUME NEW stack \in Seq(Branch), NEW r \in Branch, Ascending(stack), Above(r, stack)
  PROVE  /\ Push(stack, r) \in Seq(Branch) /\ Ascending(Push(stack, r))
         /\ \A q \in Branch : Above(q, stack) /\ r.upper_bound < q.lower_bound => Above(q, Push(stack, r))
<1>1. CASE Push(stack, r) = stack
  BY <1>1
<1>2. CASE Push(stack, r) = Append(stack, r)
  <2>1. /\ Append(stack, r) \in Seq(Branch) /\ Len(Append(stack, r)) = Len(stack) + 1
        /\ Append(stack, r)[Len(stack) + 1] = r
        /\ \A i \in 1 .. Len(stack) : Append(stack, r)[i] = stack[i]
    OBVIOUS
  <2>2. \A i \in 1 .. Len(stack) + 1 : i \in 1 .. Len(stack) \/ i = Len(stack) + 1
    OBVIOUS
  <2>3. \A i \in 1 .. Len(stack) : stack[i].lower_bound \in Int /\ stack[i].upper_bound \in Int
    BY Bounds
  <2>4. Ascending(Append(stack, r))
    BY <2>1, <2>2, <2>3 DEF Ascending, Above
  <2>5. ASSUME NEW q \in Branch, Above(q, stack), r.upper_bound < q.lower_bound
        PROVE  Above(q, Append(stack, r))
    BY <2>1, <2>2, <2>5 DEF Above
  <2>6. QED  BY <1>2, <2>1, <2>4, <2>5
<1>3. QED  BY <1>1, <1>2 DEF Push

\* The range on the top lies above the others.
LEMMA PopAscends ==
  ASSUME sm \in SmType, Ascending(sm.stack), sm.stack # <<>>
  PROVE  /\ PopStack \in Seq(Branch) /\ Ascending(PopStack)
         /\ Top \in Branch /\ Above(Top, PopStack)
<1>1. sm.stack \in Seq(Branch) /\ Len(sm.stack) \in Nat \ {0}
  BY DEF SmType
<1>2. /\ PopStack \in Seq(Branch) /\ Len(PopStack) = Len(sm.stack) - 1
      /\ \A i \in 1 .. Len(PopStack) : PopStack[i] = sm.stack[i]
  BY <1>1 DEF PopStack
<1>3. Top \in Branch
  BY <1>1 DEF Top
<1>4. Ascending(PopStack)
  <2> DEFINE n == Len(PopStack)
  <2>1. n \in Int /\ 1 .. n \subseteq 1 .. Len(sm.stack)
    BY <1>1, <1>2
  <2>2. \A i \in 1 .. n : PopStack[i].lower_bound <= PopStack[i].upper_bound
    BY <1>2, <2>1 DEF Ascending
  <2>3. \A i, j \in 1 .. n : i < j => PopStack[i].upper_bound < PopStack[j].lower_bound
    BY <1>2, <2>1 DEF Ascending
  <2>4. QED  BY <2>2, <2>3 DEF Ascending
<1>5. Top.lower_bound <= Top.upper_bound
  BY <1>1 DEF Ascending, Top
<1>6. ASSUME NEW i \in 1 .. Len(PopStack) PROVE PopStack[i].upper_bound < Top.lower_bound
  BY <1>1, <1>2 DEF Ascending, Top
<1>7. QED  BY <1>2, <1>3, <1>4, <1>5, <1>6 DEF Above

\* Both halves of a wide range lie where it lay, the upper one above the other.
LEMMA Halves ==
  ASSUME NEW r \in Branch, NEW stack \in Seq(Branch), Above(r, stack), Wide(r)
  PROVE  /\ LowerHalf(r) \in Branch /\ UpperHalf(r) \in Branch
         /\ Above(LowerHalf(r), stack) /\ Above(UpperHalf(r), stack)
         /\ LowerHalf(r).upper_bound < UpperHalf(r).lower_bound
<1> DEFINE m == Mid(r.lower_bound, r.upper_bound)
<1>1. r.lower_bound \in Uids /\ r.upper_bound \in Uids /\ r.lower_bound < r.upper_bound
  BY DEF Branch, Above, Wide, Uids
<1>2. r.lower_bound <= m /\ m < r.upper_bound /\ m \in Uids
  BY <1>1, MidIsMiddle
<1> HIDE DEF m
<1>3. /\ LowerHalf(r) = [lower_bound |-> r.lower_bound, upper_bound |-> m]
      /\ UpperHalf(r) = [lower_bound |-> m + 1, upper_bound |-> r.upper_bound]
  BY DEF LowerHalf, UpperHalf, m, Branch
<1>4. m + 1 \in Uids
  BY <1>1, <1>2, Bounds DEF Uids
<1>5. \A i \in 1 .. Len(stack) : stack[i].upper_bound \in Int
  BY Bounds
<1>6. r.lower_bound \in Int /\ r.upper_bound \in Int /\ m \in Int
  BY <1>2, Bounds DEF Uids
<1>7. LowerHalf(r) \in Branch /\ UpperHalf(r) \in Branch
  BY <1>1, <1>2, <1>3, <1>4 DEF Branch
<1>8. QED  BY <1>2, <1>3, <1>5, <1>6, <1>7 DEF Above

-----------------------------------------------------------------------------
(* The steps of the state machine. *)

\* NewState changes the state, and the state after a late response, only.
LEMMA NewStateSound ==
  ASSUME NEW s \in SmType, NEW new \in States \ {"kLateResponse"}, NEW late_too \in BOOLEAN
  PROVE  LET t == NewState(s, new, late_too) IN
         /\ t \in SmType /\ At(t) = new
         /\ s.saved_state # "kLateResponse" => t.saved_state # "kLateResponse"
         /\ \A f \in {"stack", "range", "discovery", "quick_find"} : t[f] = s[f]
<1>1. CASE late_too /\ s.state # "kLateResponse"
  BY <1>1 DEF NewState, SmType, At, States
<1>2. CASE ~ (late_too /\ s.state # "kLateResponse")
  BY <1>2 DEF NewState, SmType, At, States
<1>3. QED  BY <1>1, <1>2

\* A step that leaves the search as it is, and where it stands.
Same(t) ==
  /\ t \in SmType
  /\ At(t) = At(sm) /\ t.saved_state # "kLateResponse"
  /\ t.stack = sm.stack /\ t.range = sm.range
  /\ t.discovery.is_command_running = sm.discovery.is_command_running

LEMMA SameSound ==
  ASSUME Sound(sm), NEW t, Same(t),
         t.quick_find.is_command_running => t.quick_find.counter # 0
  PROVE  Sound(t)
BY DEF Same, Sound, Searching, Requests, Hand

\* A step that is done with the range in hand.
LEMMA DoneSound ==
  ASSUME Sound(sm), NEW s \in SmType, s.saved_state # "kLateResponse",
         s.stack = sm.stack, s.quick_find.is_command_running => s.quick_find.counter # 0,
         NEW new \in States \ (Unclaimed \cup {"kLateResponse"}), NEW late_too \in BOOLEAN,
         s.discovery.is_command_running => new = "kIdle"
  PROVE  Sound(NewState(s, new, late_too))
<1> DEFINE t == NewState(s, new, late_too)
<1>1. /\ t \in SmType /\ At(t) = new /\ t.saved_state # "kLateResponse"
      /\ t.stack = s.stack /\ t.discovery = s.discovery /\ t.quick_find = s.quick_find
  BY NewStateSound
<1> HIDE DEF t
<1>2. ~ Hand(t)
  BY <1>1 DEF Hand, Unclaimed
<1>3. Sound(t)
  BY <1>1, <1>2 DEF Sound, Searching, Requests
<1>4. QED  BY <1>3 DEF t

\* A step of the search within the range in hand, which is wide.
LEMMA KeptSound ==
  ASSUME Sound(sm), Hand(sm), Wide(sm.range), NEW s \in SmType, s.saved_state # "kLateResponse",
         s.stack = sm.stack, s.range = sm.range, ~ s.discovery.is_command_running,
         s.quick_find.is_command_running => s.quick_find.counter # 0,
         NEW new \in Unclaimed, NEW late_too \in BOOLEAN
  PROVE  Sound(NewState(s, new, late_too))
<1> DEFINE t == NewState(s, new, late_too)
<1>0. new \in States \ {"kLateResponse"}
  BY DEF Unclaimed, States
<1>1. /\ t \in SmType /\ At(t) = new /\ t.saved_state # "kLateResponse"
      /\ t.stack = s.stack /\ t.range = s.range
      /\ t.discovery = s.discovery /\ t.quick_find = s.quick_find
  BY <1>0, NewStateSound
<1> HIDE DEF t
<1>2. Sound(t)
  BY <1>1 DEF Sound, Searching, Requests, Hand
<1>3. QED  BY <1>2 DEF t

LEMMA Counts == \A n \in Nat : NotRunning(n) \in Counter /\ NotRunning(n).counter = n
                               /\ NotRunning(n).is_command_running = FALSE
BY DEF NotRunning, Counter

\* A discovery starts with everything to be searched and nothing in hand.
LEMMA StartedSound ==
  ASSUME Sound(sm), sm.state = "kIdle", NEW incremental \in BOOLEAN
  PROVE  Sound(Started(incremental))
<1> DEFINE t == Started(incremental)
<1>1. Push(<<>>, Everyone) = <<Everyone>>
  BY DiscoveryAssumption DEF Push
<1>2. <<Everyone>> \in Seq(Branch) /\ Ascending(<<Everyone>>)
  BY EveryoneRange DEF Ascending
<1>3. {kUnmuteCounter, kMuteCounter, kDiscoveryCounter, kQuikfindCounter,
       kQuikfindDiscoveryCounter} \subseteq Nat
  BY DiscoveryAssumption
<1> DEFINE s == [sm EXCEPT !.do_incremental = incremental,
               !.is_finished    = FALSE,
               !.unmute         = NotRunning(kUnmuteCounter),
               !.mute           = NotRunning(kMuteCounter),
               !.stack          = Push(<<>>, Everyone),
               !.discovery      = NotRunning(kDiscoveryCounter),
               !.discovery_single_device = NotRunning(kMuteCounter),
               !.quick_find              = NotRunning(kQuikfindCounter),
               !.quick_find_discovery    = NotRunning(kQuikfindDiscoveryCounter)]
<1>4. /\ s \in SmType /\ s.saved_state = sm.saved_state /\ s.stack = <<Everyone>>
      /\ ~ s.discovery.is_command_running /\ ~ s.quick_find.is_command_running
  BY <1>1, <1>2, <1>3, Counts DEF Sound, SmType
<1>5. t = NewState(s, "kUnmute", FALSE)
  BY DEF Started
<1> HIDE DEF s, t
<1>6. /\ t \in SmType /\ At(t) = "kUnmute" /\ t.saved_state # "kLateResponse"
      /\ t.stack = s.stack /\ t.discovery = s.discovery /\ t.quick_find = s.quick_find
  BY <1>4, <1>5, NewStateSound DEF States, Sound, Searching
<1>7. ~ Hand(t)
  BY <1>4, <1>6 DEF Hand, Unclaimed
<1>8. Sound(t)
  BY <1>2, <1>4, <1>6, <1>7 DEF Sound, Searching, Requests
<1>9. QED  BY <1>8 DEF t

\* The members' types, for the provers.
LEMMA Members ==
  ASSUME Sound(sm)
  PROVE  /\ sm \in SmType /\ sm.saved_state # "kLateResponse"
         /\ sm.quick_find.is_command_running => sm.quick_find.counter # 0
         /\ {kUnmuteCounter, kMuteCounter, kDiscoveryCounter, kQuikfindCounter,
             kQuikfindDiscoveryCounter} \subseteq Nat \ {0}
         /\ At(sm) \notin {"kIdle", "kDiscovery"} => ~ sm.discovery.is_command_running
BY DiscoveryAssumption DEF Sound, Searching, Requests

LEMMA StopSound ==
  ASSUME Sound(sm), Stop PROVE Sound(sm')
<1> DEFINE s == [sm EXCEPT !.is_finished = FALSE]
<1>1. /\ s \in SmType /\ s.saved_state = sm.saved_state /\ s.stack = sm.stack
      /\ s.quick_find = sm.quick_find
  BY DEF Sound, SmType
<1>2. sm' = NewState(s, "kIdle", TRUE)
  BY DEF Stop
<1> HIDE DEF s
<1>3. QED  BY <1>1, <1>2, DoneSound, Members DEF States, Unclaimed

LEMMA UnmuteSound ==
  ASSUME Sound(sm), UnmuteDone \/ UnmuteSend \/ UnmuteTimeOut PROVE Sound(sm')
<1>1. CASE UnmuteDone
  <2> DEFINE s == [sm EXCEPT !.unmute = NotRunning(kUnmuteCounter)]
             new == IF sm.do_incremental THEN "kMute" ELSE "kDiscovery"
  <2>1. /\ s \in SmType /\ s.saved_state = sm.saved_state /\ s.stack = sm.stack
        /\ s.quick_find = sm.quick_find /\ s.discovery = sm.discovery
    BY Counts, Members DEF SmType
  <2>2. sm' = NewState(s, new, FALSE) /\ ~ sm.discovery.is_command_running
    BY <1>1, Members DEF UnmuteDone, At
  <2>3. new \in States \ (Unclaimed \cup {"kLateResponse"})
    BY DEF States, Unclaimed
  <2> HIDE DEF s, new
  <2>4. QED  BY <2>1, <2>2, <2>3, DoneSound, Members
<1>2. CASE UnmuteSend
  <2>1. Same(sm') /\ sm'.quick_find = sm.quick_find
    BY <1>2, Members DEF UnmuteSend, Same, SmType, Counter, At
  <2>2. QED  BY <2>1, SameSound, Members
<1>3. CASE UnmuteTimeOut
  <2>1. NotRunning(sm.unmute.counter - 1) \in Counter
    BY <1>3, Members, Counts DEF UnmuteTimeOut, SmType, Counter
  <2>2. Same(sm') /\ sm'.quick_find = sm.quick_find
    BY <1>3, <2>1, Members DEF UnmuteTimeOut, Same, SmType, Counter, At
  <2>3. QED  BY <2>2, SameSound, Members
<1>4. QED  BY <1>1, <1>2, <1>3

LEMMA MuteSound ==
  ASSUME Sound(sm), tod \in TodType,
         MuteDone \/ MuteGone \/ MuteSend \/ MuteAnswered \/ MuteTimeOut
  PROVE  Sound(sm')
<1>1. CASE MuteDone
  <2> DEFINE s == [sm EXCEPT !.mute.is_command_running = FALSE]
  <2>1. /\ s \in SmType /\ s.saved_state = sm.saved_state /\ s.stack = sm.stack
        /\ s.quick_find = sm.quick_find /\ s.discovery = sm.discovery
    BY Members DEF SmType, Counter
  <2>2. sm' = NewState(s, "kDiscovery", FALSE) /\ ~ sm.discovery.is_command_running
    BY <1>1, Members DEF MuteDone, At
  <2> HIDE DEF s
  <2>3. QED  BY <2>1, <2>2, DoneSound, Members DEF States, Unclaimed
<1>2. ASSUME MuteGone \/ MuteSend \/ MuteAnswered \/ MuteTimeOut
      PROVE  Same(sm') /\ sm'.quick_find = sm.quick_find
  <2>1. CASE MuteGone
    <3>1. sm.tod_entries - 1 \in Nat
      BY <2>1, Members DEF MuteGone, SmType
    <3>2. QED  BY <2>1, <3>1, Members, Counts DEF MuteGone, Same, SmType, At
  <2>2. CASE MuteSend
    <3>1. sm.tod_entries - 1 \in Nat
      BY <2>2, Members DEF MuteSend, SmType
    <3>2. TodCopyUidEntry(tod, sm.tod_entries - 1) \in Uids \cup {kUidAll}
      BY <3>1, DiscoveryAssumption DEF TodCopyUidEntry, TodType, Cells
    <3>3. QED  BY <2>2, <3>2, Members DEF MuteSend, Same, SmType, Counter, At
  <2>3. CASE MuteAnswered
    <3>1. sm.tod_entries - 1 \in Nat
      BY <2>3, Members DEF MuteAnswered, SmType
    <3>2. QED  BY <2>3, <3>1, Members DEF MuteAnswered, Same, SmType, Counter, At
  <2>4. CASE MuteTimeOut
    <3>1. sm.mute.counter - 1 \in Nat
      BY <2>4, Members DEF MuteTimeOut, SmType, Counter
    <3>2. QED  BY <2>4, <3>1, Members DEF MuteTimeOut, Same, SmType, Counter, At
  <2>5. QED  BY <1>2, <2>1, <2>2, <2>3, <2>4
<1>3. QED  BY <1>1, <1>2, SameSound, Members

LEMMA DiscoverySound ==
  ASSUME Sound(sm), line \in Frame,
         DiscoveryReceive \/ DiscoveryTimeOut \/ DiscoveryEmpty \/ DiscoveryPopSingle
         \/ DiscoveryPopBranch
  PROVE  Sound(sm')
<1>0. NoFrame \in Frame
  BY HalfFacts DEF NoFrame, Frame, Uids, kUidLast
<1>1. CASE DiscoveryReceive
  <2>1. PICK frame \in {line, NoFrame} :
          sm' = NewState([sm EXCEPT !.discovery.is_command_running = FALSE,
                                    !.response = frame], "kDub", FALSE)
    BY <1>1 DEF DiscoveryReceive
  <2>2. At(sm) = "kDiscovery" /\ sm.discovery.is_command_running
    BY <1>1 DEF DiscoveryReceive, At
  <2>3. Hand(sm) /\ Wide(sm.range)
    BY <2>2 DEF Hand, Sound, Searching
  <2> DEFINE s == [sm EXCEPT !.discovery.is_command_running = FALSE, !.response = frame]
  <2>4. /\ s \in SmType /\ s.saved_state = sm.saved_state /\ s.stack = sm.stack
        /\ s.range = sm.range /\ s.quick_find = sm.quick_find
        /\ ~ s.discovery.is_command_running
    BY <1>0, Members DEF SmType, Counter
  <2>5. sm' = NewState(s, "kDub", FALSE)
    BY <2>1
  <2> HIDE DEF s
  <2>6. QED  BY <2>3, <2>4, <2>5, KeptSound, Members DEF Unclaimed
<1>2. CASE DiscoveryTimeOut
  <2>1. sm.discovery.counter - 1 \in Nat
    BY <1>2, Members DEF DiscoveryTimeOut, SmType, Counter
  <2>2. Same(sm') /\ sm'.quick_find = sm.quick_find
    BY <1>2, <2>1, Members DEF DiscoveryTimeOut, Same, SmType, Counter, At
  <2>3. QED  BY <2>2, SameSound, Members
<1>3. CASE DiscoveryEmpty
  <2>1. sm' = NewState(sm, "kFinished", TRUE) /\ ~ sm.discovery.is_command_running
    BY <1>3 DEF DiscoveryEmpty
  <2>2. QED  BY <2>1, DoneSound, Members DEF States, Unclaimed
<1>4. CASE DiscoveryPopSingle
  <2> DEFINE s == [sm EXCEPT !.stack = PopStack, !.range = Top,
                             !.quick_find_discovery.is_command_running = FALSE]
             t == NewState(s, "kDiscoverySingleDevice", TRUE)
  <2>1. /\ PopStack \in Seq(Branch) /\ Ascending(PopStack)
        /\ Top \in Branch /\ Above(Top, PopStack)
    BY <1>4, PopAscends, Members DEF DiscoveryPopSingle, Sound, Searching
  <2>2. /\ s \in SmType /\ s.saved_state = sm.saved_state /\ s.stack = PopStack
        /\ s.range = Top /\ s.quick_find = sm.quick_find /\ s.discovery = sm.discovery
    BY <2>1, Members DEF SmType, Counter
  <2>3. sm' = t /\ ~ sm.discovery.is_command_running
    BY <1>4 DEF DiscoveryPopSingle
  <2> HIDE DEF s
  <2>4. /\ t \in SmType /\ At(t) = "kDiscoverySingleDevice" /\ t.saved_state # "kLateResponse"
        /\ t.stack = s.stack /\ t.range = s.range
        /\ t.discovery = s.discovery /\ t.quick_find = s.quick_find
    BY <2>2, NewStateSound, Members DEF States
  <2> HIDE DEF t
  <2>5. QED  BY <2>1, <2>2, <2>3, <2>4, Members DEF Sound, Searching, Requests, Hand
<1>5. CASE DiscoveryPopBranch
  <2>1. /\ PopStack \in Seq(Branch) /\ Ascending(PopStack)
        /\ Top \in Branch /\ Above(Top, PopStack) /\ Wide(Top)
    BY <1>5, PopAscends, Members DEF DiscoveryPopBranch, Sound, Searching, Wide
  <2>2. /\ sm' \in SmType /\ At(sm') = "kDiscovery" /\ sm'.saved_state = sm.saved_state
        /\ sm'.stack = PopStack /\ sm'.range = Top /\ sm'.quick_find = sm.quick_find
    BY <1>5, <2>1, Members DEF DiscoveryPopBranch, SmType, Counter, At
  <2>3. QED  BY <2>1, <2>2, Members DEF Sound, Searching, Requests, Hand
<1>6. QED  BY <1>1, <1>2, <1>3, <1>4, <1>5

LEMMA SingleSound ==
  ASSUME Sound(sm), SingleGiveUp \/ SingleSend \/ SingleAnswered \/ SingleTimeOut
  PROVE  Sound(sm')
<1> DEFINE s == [sm EXCEPT !.discovery_single_device = NotRunning(kQuikfindDiscoveryCounter)]
<1>1. /\ s \in SmType /\ s.saved_state = sm.saved_state /\ s.stack = sm.stack
      /\ s.quick_find = sm.quick_find /\ s.discovery = sm.discovery
  BY Counts, Members DEF SmType
<1>2. At(sm) = "kDiscoverySingleDevice" /\ ~ sm.discovery.is_command_running
  BY Members DEF SingleGiveUp, SingleSend, SingleAnswered, SingleTimeOut, At
<1>3. ASSUME NEW late_too \in BOOLEAN, sm' = NewState(s, "kDiscovery", late_too)
      PROVE  Sound(sm')
  <2> HIDE DEF s
  <2>1. QED  BY <1>1, <1>2, <1>3, DoneSound, Members DEF States, Unclaimed
<1>4. CASE SingleGiveUp
  BY <1>3, <1>4 DEF SingleGiveUp
<1>5. CASE SingleSend
  <2>1. Same(sm') /\ sm'.quick_find = sm.quick_find
    BY <1>5, Members DEF SingleSend, Same, SmType, Counter, At
  <2>2. QED  BY <2>1, SameSound, Members
<1>6. CASE SingleAnswered
  BY <1>3, <1>6 DEF SingleAnswered
<1>7. CASE SingleTimeOut
  <2>1. sm.discovery_single_device.counter - 1 \in Nat
    BY <1>7, Members DEF SingleTimeOut, SmType, Counter
  <2>2. Same(sm') /\ sm'.quick_find = sm.quick_find
    BY <1>7, <2>1, Members DEF SingleTimeOut, Same, SmType, Counter, At
  <2>3. QED  BY <2>2, SameSound, Members
<1>8. QED  BY <1>4, <1>5, <1>6, <1>7

LEMMA DubSound ==
  ASSUME Sound(sm), DubNone \/ DubValid \/ DubCollision PROVE Sound(sm')
<1>1. At(sm) = "kDub" /\ ~ sm.discovery.is_command_running
  BY Members DEF DubNone, DubValid, DubCollision, At
<1>2. Hand(sm) /\ Above(sm.range, sm.stack) /\ Wide(sm.range)
  BY <1>1 DEF Sound, Searching, Hand, Unclaimed
<1>3. CASE DubNone
  <2>1. sm' = NewState(sm, "kDiscovery", FALSE)
    BY <1>3 DEF DubNone
  <2>2. QED  BY <1>1, <2>1, DoneSound, Members DEF States, Unclaimed
<1>4. CASE DubValid
  <2> DEFINE s == [sm EXCEPT !.quick_find_uid = sm.response.uid]
  <2>1. /\ s \in SmType /\ s.saved_state = sm.saved_state /\ s.stack = sm.stack
        /\ s.range = sm.range /\ s.quick_find = sm.quick_find /\ s.discovery = sm.discovery
    BY Members DEF SmType, Frame
  <2>2. sm' = NewState(s, "kQuickfind", TRUE)
    BY <1>4 DEF DubValid
  <2> HIDE DEF s
  <2>3. QED  BY <1>1, <1>2, <2>1, <2>2, KeptSound, Members DEF Unclaimed
<1>5. CASE DubCollision
  <2> DEFINE halved == Push(Push(sm.stack, LowerHalf(sm.range)), UpperHalf(sm.range))
             s == [sm EXCEPT !.stack = halved]
             t == NewState(s, "kDiscovery", TRUE)
  <2>1. sm.stack \in Seq(Branch) /\ sm.range \in Branch /\ Ascending(sm.stack)
    BY Members DEF SmType, Sound, Searching
  <2>2. halved \in Seq(Branch) /\ Ascending(halved)
    BY <1>2, <2>1, Halves, PushAscends
  <2> HIDE DEF halved
  <2>3. /\ s \in SmType /\ s.saved_state = sm.saved_state /\ s.stack = halved
        /\ s.quick_find = sm.quick_find /\ s.discovery = sm.discovery
    BY <2>2, Members DEF SmType
  <2>4. sm' = t
    BY <1>5 DEF DubCollision, halved
  <2> HIDE DEF s
  <2>5. /\ t \in SmType /\ At(t) = "kDiscovery" /\ t.saved_state # "kLateResponse"
        /\ t.stack = s.stack /\ t.discovery = s.discovery /\ t.quick_find = s.quick_find
    BY <2>3, NewStateSound, Members DEF States
  <2> HIDE DEF t
  <2>6. ~ Hand(t)
    BY <1>1, <2>3, <2>5 DEF Hand, Unclaimed
  <2>7. QED  BY <1>1, <2>2, <2>3, <2>4, <2>5, <2>6, Members DEF Sound, Searching, Requests
<1>6. QED  BY <1>3, <1>4, <1>5

LEMMA QuickfindSound ==
  ASSUME Sound(sm), QuickfindSend \/ QuickfindAnswered \/ QuickfindTimeOut PROVE Sound(sm')
<1>1. At(sm) = "kQuickfind" /\ ~ sm.discovery.is_command_running
  BY Members DEF QuickfindSend, QuickfindAnswered, QuickfindTimeOut, At
<1>2. Hand(sm) /\ Wide(sm.range)
  BY <1>1 DEF Sound, Searching, Hand, Unclaimed
<1>3. CASE QuickfindSend
  <2>1. CASE sm' = NewState(sm, "kQuickfindDiscovery", FALSE)
    BY <1>1, <1>2, <2>1, KeptSound, Members DEF Unclaimed
  <2>2. CASE sm' = [sm EXCEPT !.quick_find = [counter |-> kQuikfindCounter,
                                              is_command_running |-> TRUE]]
    <3>1. Same(sm') /\ sm'.quick_find.counter # 0
      BY <2>2, Members DEF Same, SmType, Counter, At
    <3>2. QED  BY <3>1, SameSound
  <2>3. QED  BY <1>3, <2>1, <2>2 DEF QuickfindSend
<1>4. CASE QuickfindAnswered
  <2> DEFINE s == [sm EXCEPT !.quick_find = NotRunning(kQuikfindCounter)]
  <2>1. /\ s \in SmType /\ s.saved_state = sm.saved_state /\ s.stack = sm.stack
        /\ s.range = sm.range /\ ~ s.quick_find.is_command_running
        /\ s.discovery = sm.discovery
    BY Counts, Members DEF SmType
  <2>2. sm' = NewState(s, "kQuickfindDiscovery", FALSE) \/ sm' = sm
    BY <1>4 DEF QuickfindAnswered
  <2> HIDE DEF s
  <2>3. QED  BY <1>1, <1>2, <2>1, <2>2, KeptSound, Members DEF Unclaimed
<1>5. CASE QuickfindTimeOut
  <2>1. sm.quick_find.counter - 1 \in Nat
    BY <1>5, Members DEF QuickfindTimeOut, SmType, Counter
  <2>2. Same(sm') /\ ~ sm'.quick_find.is_command_running
    BY <1>5, <2>1, Counts, Members DEF QuickfindTimeOut, Same, SmType, At
  <2>3. QED  BY <2>2, SameSound
<1>6. QED  BY <1>3, <1>4, <1>5

LEMMA QuickfindDiscoverySound ==
  ASSUME Sound(sm), line \in Frame,
         QuickfindDiscoveryGiveUp \/ QuickfindDiscoverySend
         \/ QuickfindDiscoveryAnswered \/ QuickfindDiscoveryTimeOut
  PROVE  Sound(sm')
<1>1. At(sm) = "kQuickfindDiscovery" /\ ~ sm.discovery.is_command_running
  BY Members DEF QuickfindDiscoveryGiveUp, QuickfindDiscoverySend,
                 QuickfindDiscoveryAnswered, QuickfindDiscoveryTimeOut, At
<1>2. Hand(sm) /\ Wide(sm.range)
  BY <1>1 DEF Sound, Searching, Hand, Unclaimed
<1> DEFINE s == [sm EXCEPT !.quick_find_discovery = NotRunning(kQuikfindDiscoveryCounter)]
<1>3. /\ s \in SmType /\ s.saved_state = sm.saved_state /\ s.stack = sm.stack
      /\ s.range = sm.range /\ s.quick_find = sm.quick_find /\ s.discovery = sm.discovery
  BY Counts, Members DEF SmType
<1>4. CASE QuickfindDiscoveryGiveUp
  <2>1. sm' = NewState(s, "kDiscovery", TRUE)
    BY <1>4 DEF QuickfindDiscoveryGiveUp
  <2> HIDE DEF s
  <2>2. QED  BY <1>1, <1>3, <2>1, DoneSound, Members DEF States, Unclaimed
<1>5. CASE QuickfindDiscoverySend
  <2>1. Same(sm') /\ sm'.quick_find = sm.quick_find
    BY <1>5, Members DEF QuickfindDiscoverySend, Same, SmType, Counter, At
  <2>2. QED  BY <2>1, SameSound, Members
<1>6. CASE QuickfindDiscoveryAnswered
  <2> DEFINE v == [s EXCEPT !.quick_find_uid = line.uid]
             d == [s EXCEPT !.response = line]
  <2>1. sm' = NewState(v, "kQuickfind", TRUE) \/ sm' = NewState(d, "kDub", FALSE)
    BY <1>6 DEF QuickfindDiscoveryAnswered
  <2> HIDE DEF s
  <2>2. \A u \in {v, d} :
          /\ u \in SmType /\ u.saved_state = s.saved_state /\ u.stack = s.stack
          /\ u.range = s.range /\ u.quick_find = s.quick_find /\ u.discovery = s.discovery
    BY <1>3 DEF SmType, Frame
  <2> HIDE DEF v, d
  <2>3. QED  BY <1>1, <1>2, <1>3, <2>1, <2>2, KeptSound, Members DEF Unclaimed
<1>7. CASE QuickfindDiscoveryTimeOut
  <2>1. NotRunning(sm.quick_find_discovery.counter - 1) \in Counter
    BY <1>7, Members, Counts DEF QuickfindDiscoveryTimeOut, SmType, Counter
  <2>2. Same(sm') /\ sm'.quick_find = sm.quick_find
    BY <1>7, <2>1, Members DEF QuickfindDiscoveryTimeOut, Same, SmType, Counter, At
  <2>3. QED  BY <2>2, SameSound, Members
<1>8. QED  BY <1>4, <1>5, <1>6, <1>7

-----------------------------------------------------------------------------
(* The table, the line and the responders. *)

LEMMA TodTypes ==
  ASSUME NEW t \in TodType, NEW uid \in Uids
  PROVE  TodReset(t) \in TodType /\ TodAddUid(t, uid) \in TodType
<1>1. kTableSize \in Nat
  BY DiscoveryAssumption
<1>2. TodReset(t) \in TodType
  BY <1>1 DEF TodReset, TodType, Cells
<1>3. TodAddUid(t, uid) \in TodType
  <2>1. CASE t.entries = kTableSize \/ uid \in Listed(t)
    BY <2>1 DEF TodAddUid
  <2>2. CASE ~ (t.entries = kTableSize \/ uid \in Listed(t))
    <3>1. TodAddUid(t, uid) = [t EXCEPT !.tod[t.entries] = uid, !.entries = @ + 1]
      BY <2>2 DEF TodAddUid
    <3>2. t.entries + 1 \in 0 .. kTableSize
      BY <1>1, <2>2 DEF TodType
    <3>3. QED  BY <3>1, <3>2 DEF TodType, Cells
  <2>3. QED  BY <2>1, <2>2
<1>4. QED  BY <1>2, <1>3

LEMMA TodDeleteType ==
  ASSUME NEW t \in TodType, NEW uid PROVE TodDelete(t, uid) \in TodType
<1>1. CASE uid \notin Listed(t)
  BY <1>1 DEF TodDelete
<1>2. CASE uid \in Listed(t)
  <2> DEFINE entry == IndexOf(t, uid)
             cells == IF entry = kTableSize - 1
                        THEN [t.tod EXCEPT ![entry] = kUidAll]
                        ELSE [i \in Cells |-> IF i \in entry .. t.entries - 1
                                                THEN t.tod[i + 1] ELSE t.tod[i]]
  <2>1. kTableSize \in Nat /\ t.entries \in 0 .. kTableSize /\ t.entries # 0
    BY <1>2, DiscoveryAssumption DEF TodType, Listed
  <2>2. entry \in Int \/ entry \notin Int
    OBVIOUS
  <2>3. TodDelete(t, uid) = [entries |-> t.entries - 1, tod |-> cells]
    BY <1>2 DEF TodDelete
  <2>4. t.tod \in [Cells -> Uids \cup {kUidAll}]
    BY DEF TodType
  <2> HIDE DEF entry
  <2>5. \A i \in Cells : i \in entry .. t.entries - 1 => i + 1 \in Cells
    BY <2>1 DEF Cells
  <2>6. cells \in [Cells -> Uids \cup {kUidAll}]
    BY <2>4, <2>5
  <2>7. QED  BY <2>1, <2>3, <2>6 DEF TodType
<1>3. QED  BY <1>1, <1>2

LEMMA FrameFacts ==
  /\ NoFrame \in Frame /\ Garbled \in Frame
  /\ \A u \in Uids : [kind |-> "mute", uid |-> u] \in Frame /\ [kind |-> "dub", uid |-> u] \in Frame
BY HalfFacts DEF NoFrame, Garbled, Frame, Uids, kUidLast

\* What the line does with a message.
LEMMA TransmitSound ==
  ASSUME LineSound, NEW m, Transmit(m),
         m.pid \in {"DISC_UN_MUTE", "DISC_MUTE", "DISC_UNIQUE_BRANCH"},
         tod' \in TodType, UNCHANGED env
  PROVE  LineSound'
<1>1. MutedAfter(m) \subseteq devices
  BY DEF MutedAfter, LineSound
<1>2. Answers(m) \subseteq Frame
  <2>1. CASE m.pid = "DISC_MUTE" /\ m.uid \in devices
    BY <2>1, FrameFacts DEF Answers, LineSound
  <2>2. CASE m.pid = "DISC_UNIQUE_BRANCH"
    BY <2>2, FrameFacts DEF Answers, LineSound
  <2>3. CASE m.pid = "DISC_UN_MUTE" \/ (m.pid = "DISC_MUTE" /\ m.uid \notin devices)
    BY <2>3, FrameFacts DEF Answers
  <2>4. QED  BY <2>1, <2>2, <2>3
<1>3. limits.noise \in Nat /\ limits.late \in Nat
  BY DiscoveryAssumption DEF LineSound
<1>4. /\ muted' \subseteq devices /\ line' \in Frame /\ late' \in Frame
      /\ delayed' \in 0 .. limits.late /\ noise' \in 0 .. limits.noise
  <2> USE <1>1, <1>2, <1>3, FrameFacts DEF LineSound
  <2>1. CASE muted' = MutedAfter(m) /\ line' \in Answers(m) /\ UNCHANGED <<late, noise, delayed>>
    BY <2>1
  <2>2. CASE /\ noise < limits.noise /\ muted' \in {muted, MutedAfter(m)} /\ line' = NoFrame
             /\ noise' = noise + 1 /\ UNCHANGED <<late, delayed>>
    BY <2>2
  <2>3. CASE /\ delayed < limits.late /\ muted' = MutedAfter(m)
             /\ late' \in Answers(m) \ {NoFrame} /\ line' = NoFrame
             /\ delayed' = delayed + 1 /\ UNCHANGED noise
    BY <2>3
  <2>4. QED  BY <2>1, <2>2, <2>3 DEF Transmit
<1>5. QED  BY <1>4 DEF LineSound, env

LEMMA ReceiveSound ==
  ASSUME LineSound, NEW frame, Receive(frame), tod' \in TodType, UNCHANGED env
  PROVE  LineSound'
BY FrameFacts DEF LineSound, Receive, env

LEMMA QuietSound ==
  ASSUME LineSound, UNCHANGED bus, tod' \in TodType, UNCHANGED env PROVE LineSound'
BY DEF LineSound, bus, env

\* What the steps of Process do to the table and the line.
LEMMA ProcessLineSound ==
  ASSUME IInv, Process PROVE LineSound'
<1>1. /\ LineSound /\ tod \in TodType /\ line \in Frame
      /\ sm.range.lower_bound \in Uids
  BY DEF IInv, LineSound, Sound, SmType, Branch
<1>2. CASE UnmuteDone \/ MuteDone \/ DiscoveryEmpty \/ DiscoveryPopSingle \/ SingleGiveUp
           \/ DubNone \/ DubValid \/ DubCollision \/ QuickfindTimeOut
           \/ QuickfindDiscoveryGiveUp \/ QuickfindDiscoveryTimeOut \/ Finished
  <2>1. UNCHANGED <<tod, bus, env>>
    BY <1>2 DEF UnmuteDone, MuteDone, DiscoveryEmpty, DiscoveryPopSingle, SingleGiveUp,
                DubNone, DubValid, DubCollision, QuickfindTimeOut,
                QuickfindDiscoveryGiveUp, QuickfindDiscoveryTimeOut, Finished
  <2>2. QED  BY <1>1, <2>1, QuietSound
<1>3. CASE MuteGone
  BY <1>1, <1>3, QuietSound, TodDeleteType DEF MuteGone
<1>4. CASE \/ UnmuteSend \/ MuteSend \/ MuteTimeOut \/ DiscoveryTimeOut \/ DiscoveryPopBranch
           \/ SingleSend \/ SingleTimeOut \/ QuickfindDiscoverySend
  <2>1. /\ UNCHANGED <<tod, env>>
        /\ \E m : Transmit(m) /\ m.pid \in {"DISC_UN_MUTE", "DISC_MUTE", "DISC_UNIQUE_BRANCH"}
    BY <1>4 DEF UnmuteSend, MuteSend, MuteTimeOut, DiscoveryTimeOut, DiscoveryPopBranch,
                SingleSend, SingleTimeOut, QuickfindDiscoverySend,
                UnMuteAllMsg, MuteMsg, BranchMsg
  <2>2. QED  BY <1>1, <2>1, TransmitSound
<1>5. CASE QuickfindSend
  <2>1. /\ UNCHANGED <<tod, env>>
        /\ UNCHANGED bus \/ Transmit(MuteMsg(sm.quick_find_uid))
    BY <1>5 DEF QuickfindSend
  <2>2. QED  BY <1>1, <2>1, QuietSound, TransmitSound DEF MuteMsg
<1>6. CASE \/ LateResponse \/ UnmuteTimeOut \/ MuteAnswered \/ DiscoveryReceive
           \/ QuickfindDiscoveryAnswered
  <2>1. UNCHANGED <<tod, env>> /\ \E frame : Receive(frame)
    BY <1>6 DEF LateResponse, UnmuteTimeOut, MuteAnswered, DiscoveryReceive,
                QuickfindDiscoveryAnswered
  <2>2. QED  BY <1>1, <2>1, ReceiveSound
<1>7. CASE SingleAnswered
  <2>1. /\ UNCHANGED env /\ Receive(line)
        /\ tod' \in {tod, TodAddUid(tod, sm.range.lower_bound)}
    BY <1>7 DEF SingleAnswered
  <2>2. QED  BY <1>1, <2>1, ReceiveSound, TodTypes
<1>8. CASE QuickfindAnswered
  <2>1. /\ UNCHANGED env /\ Receive(line)
        /\ tod' \in {tod, TodAddUid(tod, line.uid)}
    BY <1>8 DEF QuickfindAnswered
  <2>2. line.uid \in Uids
    BY <1>1 DEF Frame
  <2>3. QED  BY <1>1, <2>1, <2>2, ReceiveSound, TodTypes
<1>9. QED  BY <1>2, <1>3, <1>4, <1>5, <1>6, <1>7, <1>8 DEF Process

LEMMA ProcessSound ==
  ASSUME IInv, Process PROVE Sound(sm')
<1>1. Sound(sm) /\ tod \in TodType /\ line \in Frame
  BY DEF IInv, LineSound
<1>2. CASE LateResponse
  <2>1. Same(sm') /\ sm'.quick_find = sm.quick_find
    BY <1>1, <1>2, Members DEF LateResponse, Same, SmType, At
  <2>2. QED  BY <1>1, <2>1, SameSound, Members
<1>3. CASE Finished
  <2> DEFINE s == [sm EXCEPT !.is_finished = TRUE]
  <2>1. /\ s \in SmType /\ s.saved_state = sm.saved_state /\ s.stack = sm.stack
        /\ s.quick_find = sm.quick_find
    BY <1>1, Members DEF SmType
  <2>2. sm' = NewState(s, "kIdle", FALSE)
    BY <1>3 DEF Finished
  <2> HIDE DEF s
  <2>3. QED  BY <1>1, <2>1, <2>2, DoneSound, Members DEF States, Unclaimed
<1>4. QED
  BY <1>1, <1>2, <1>3, UnmuteSound, MuteSound, DiscoverySound, SingleSound, DubSound,
     QuickfindSound, QuickfindDiscoverySound DEF Process

-----------------------------------------------------------------------------
(* Types and order, always. *)

LEMMA InitSound == Init => IInv
<1> SUFFICES ASSUME Init PROVE IInv
  OBVIOUS
<1>1. /\ limits \in Lines /\ limits.sets \subseteq SUBSET Uids
      /\ {limits.noise, limits.late, limits.unplugged} \subseteq Nat
  BY DiscoveryAssumption DEF Init, Uids, kUidLast
<1>2. EmptyTod(kUidAll) \in TodType
  BY DiscoveryAssumption DEF EmptyTod, TodType, Cells
<1>3. LineSound
  BY <1>1, <1>2, FrameFacts DEF Init, LineSound
<1>4. 0 \in Uids
  BY HalfFacts DEF Uids, kUidLast
<1>5. sm \in SmType
  BY <1>4, FrameFacts, EveryoneRange, Counts DEF Init, SmType, States
<1>6. sm.state = "kIdle" /\ sm.saved_state = "kIdle" /\ sm.stack = <<>>
      /\ ~ sm.quick_find.is_command_running
  BY Counts DEF Init
<1>7. Searching(sm)
  BY <1>6 DEF Searching, Requests, Ascending, Hand, Unclaimed, At
<1>8. QED  BY <1>3, <1>5, <1>7 DEF IInv, Sound

LEMMA StepSound == IInv /\ [Next]_vars => IInv'
<1> SUFFICES ASSUME IInv, [Next]_vars PROVE IInv'
  OBVIOUS
<1>1. Sound(sm) /\ LineSound /\ tod \in TodType
  BY DEF IInv, LineSound
<1>2. CASE Full
  <2>1. 0 \in Uids
    BY HalfFacts DEF Uids, kUidLast
  <2>2. LineSound'
    BY <1>1, <1>2, <2>1, QuietSound, TodTypes DEF Full
  <2>3. Sound(sm')
    BY <1>1, <1>2, StartedSound DEF Full
  <2>4. QED  BY <2>2, <2>3 DEF IInv
<1>3. CASE Incremental
  <2>1. LineSound'
    BY <1>1, <1>3, QuietSound DEF Incremental
  <2>2. sm.state = "kIdle" /\ Sound(Started(TRUE))
    BY <1>1, <1>3, StartedSound DEF Incremental
  <2> DEFINE s == Started(TRUE)
  <2>3. sm' = [s EXCEPT !.tod_entries = tod.entries] /\ tod.entries \in Nat
    BY <1>1, <1>3, DiscoveryAssumption DEF Incremental, TodType
  <2> HIDE DEF s
  <2>4. Sound(s)
    BY <2>2 DEF s
  <2>5. /\ sm' \in SmType /\ At(sm') = At(s) /\ sm'.saved_state = s.saved_state
        /\ sm'.stack = s.stack /\ sm'.range = s.range
        /\ sm'.discovery = s.discovery /\ sm'.quick_find = s.quick_find
    BY <2>3, <2>4 DEF Sound, SmType, At
  <2>6. Sound(sm')
    BY <2>4, <2>5 DEF Sound, Searching, Requests, Hand
  <2>7. QED  BY <2>1, <2>6 DEF IInv
<1>4. CASE Stop
  <2>1. LineSound'
    BY <1>1, <1>4, QuietSound DEF Stop
  <2>2. QED  BY <1>1, <1>4, <2>1, StopSound DEF IInv
<1>5. CASE Process
  BY <1>5, ProcessSound, ProcessLineSound DEF IInv
<1>6. CASE LateAnswer
  BY <1>6, FrameFacts DEF IInv, LateAnswer, LineSound
<1>7. CASE Replug
  <2>1. limits.sets \subseteq SUBSET Uids
    BY <1>1, DiscoveryAssumption DEF LineSound, Uids, kUidLast
  <2>2. devices' \subseteq Uids /\ muted' \subseteq devices'
    BY <1>7, <2>1 DEF Replug
  <2>3. QED  BY <1>1, <1>7, <2>2, FrameFacts DEF IInv, LineSound, Replug
<1>8. CASE \E u \in devices : Unplug(u)
  <2>1. limits.unplugged \in Nat
    BY <1>1, DiscoveryAssumption DEF LineSound
  <2>2. QED  BY <1>1, <1>8, <2>1 DEF IInv, LineSound, Unplug
<1>9. CASE UNCHANGED vars
  BY <1>1, <1>9 DEF IInv, LineSound, vars
<1>10. QED  BY <1>2, <1>3, <1>4, <1>5, <1>6, <1>7, <1>8, <1>9 DEF Next

LEMMA Always == Spec => []IInv
BY InitSound, StepSound, PTL DEF Spec

\* Every member of the state machine, the table and the line keep their types: in
\* particular no counter of tries gets below 0, and the table keeps its size.
THEOREM TypeCorrect == Spec => []TypeOK
<1>1. IInv => TypeOK
  BY DEF IInv, Sound, LineSound, TypeOK
<1>2. QED  BY <1>1, Always, PTL

\* The ranges on the stack and the one in hand never overlap, in whatever state a
\* discovery is stopped, started, disturbed, or waits for a late response.
THEOREM RangesStayOrdered == Spec => []RangesOrdered
<1>1. IInv => RangesOrdered
  <2> SUFFICES ASSUME IInv PROVE RangesOrdered
    OBVIOUS
  <2>1. InHand => Hand(sm)
    BY DEF InHand, Hand, At, Unclaimed
  <2>2. QED  BY <2>1 DEF IInv, Sound, Searching, Ascending, Above, RangesOrdered
<1>2. QED  BY <1>1, Always, PTL

-----------------------------------------------------------------------------
(* What a discovery keeps up while it is not disturbed.                     *)

Width(r) == r.upper_bound - r.lower_bound

\* The i-th entry of the stack, or the range taken from there, has been halved
\* at least i - 1 times.
Depth(s) ==
  /\ Len(s.stack) <= kDiscoveryStackSize
  /\ \A i \in 1 .. Len(s.stack) :
       Width(s.stack[i]) + 1 < Powers[kDiscoveryStackSize - i + 1]
  /\ Hand(s) => /\ Len(s.stack) < kDiscoveryStackSize
                /\ Width(s.range) + 1 < Powers[kDiscoveryStackSize - Len(s.stack)]

\* No request runs.
Quiet(s) ==
  /\ ~ s.discovery.is_command_running
  /\ ~ s.discovery_single_device.is_command_running
  /\ ~ s.quick_find.is_command_running
  /\ ~ s.quick_find_discovery.is_command_running

\* The counters that the states of the search do not set when they are entered.
Tidy(s) ==
  /\ s.state = "kLateResponse" => Quiet(s) /\ At(s) \notin {"kUnmute", "kMute"}
  /\ s.quick_find.is_command_running => At(s) = "kQuickfind"
  /\ At(s) # "kQuickfindDiscovery" =>
       s.quick_find_discovery = NotRunning(kQuikfindDiscoveryCounter)
  /\ At(s) # "kDiscoverySingleDevice" =>
       s.discovery_single_device \in {NotRunning(kMuteCounter), NotRunning(kQuikfindDiscoveryCounter)}
  /\ At(s) \in {"kUnmute", "kMute"} => s.stack = <<Everyone>>
  /\ At(s) = "kMute" => s.do_incremental
  /\ At(s) = "kDiscoverySingleDevice" => s.range.lower_bound = s.range.upper_bound
  /\ At(s) = "kFinished" => s.stack = <<>>

\* An answer to DISC_MUTE comes from a device on the line.
MuteAck(u) == [kind |-> "mute", uid |-> u]
Genuine(f) == f.kind = "mute" => f.uid \in devices
FramesSound ==
  /\ delayed = 0 => late = NoFrame
  /\ unplugged = 0 => Genuine(line) /\ Genuine(late)

Lost == noise + delayed

\* Of the n tries only those have been used that the line has lost or delayed.
Left(c, n) ==
  c.counter + Lost >= n + (IF c.is_command_running /\ line = NoFrame THEN 1 ELSE 0)

\* The devices that answer a DISC_UNIQUE_BRANCH for r.
Unmuted(r) == {u \in devices \ muted : Within(u, r)}

\* The answer to the DISC_MUTE that was sent to u last.
MuteSent(u) ==
  /\ line = MuteAck(u) => u \in muted
  /\ u \in devices => /\ line \in {NoFrame, MuteAck(u)}
                      /\ line = NoFrame => late \in {NoFrame, MuteAck(u)}
                      /\ noise = 0 => u \in muted
  /\ u \notin devices /\ delayed = 0 => line = NoFrame

UnmuteCalm ==
  /\ muted = {} \/ kUnmuteCounter - sm.unmute.counter
                     + (IF sm.unmute.is_command_running THEN 1 ELSE 0) <= noise
  /\ sm.unmute.counter = 0 => ~ sm.unmute.is_command_running
  /\ IF sm.do_incremental
       THEN sm.tod_entries = tod.entries /\ sm.mute = NotRunning(kMuteCounter)
       ELSE tod.entries = 0

MuteCalm ==
  /\ sm.tod_entries <= tod.entries
  /\ \A i \in sm.tod_entries .. tod.entries - 1 : tod.tod[i] \in muted
  /\ muted \subseteq Listed(tod)
  /\ sm.mute.is_command_running => /\ sm.tod_entries # 0
                                   /\ sm.mute_uid = tod.tod[sm.tod_entries - 1]
                                   /\ MuteSent(sm.mute_uid)
  /\ sm.mute.counter = 0 => sm.mute.is_command_running
  /\ (sm.mute.is_command_running => sm.mute_uid \in devices) => Left(sm.mute, kMuteCounter)

\* The device that is muted and not listed yet.
Pending == CASE At(sm) = "kDiscoverySingleDevice" -> {sm.range.lower_bound}
             [] At(sm) = "kQuickfind" -> {sm.quick_find_uid}
             [] OTHER -> {}

Agreed == Listed(tod) \subseteq muted /\ muted \subseteq Listed(tod) \cup Pending

\* Every device is listed or still to be searched for.
Covered ==
  \A u \in devices \ Listed(tod) :
    \/ \E i \in 1 .. Len(sm.stack) : Within(u, sm.stack[i])
    \/ Hand(sm) /\ Within(u, sm.range)

DiscoveryCalm ==
  At(sm) = "kDiscovery" /\ sm.discovery.is_command_running /\ Unmuted(sm.range) # {} =>
    Left(sm.discovery, kDiscoveryCounter)

DubCalm == At(sm) = "kDub" /\ sm.response = NoFrame => Unmuted(sm.range) = {}

SingleCalm ==
  At(sm) = "kDiscoverySingleDevice" =>
    /\ sm.discovery_single_device.is_command_running => MuteSent(sm.range.lower_bound)
    /\ sm.range.lower_bound \in devices =>
         \E n \in {kMuteCounter, kQuikfindDiscoveryCounter} : Left(sm.discovery_single_device, n)

QuickfindCalm ==
  At(sm) = "kQuickfind" =>
    IF sm.quick_find.is_command_running
      THEN /\ MuteSent(sm.quick_find_uid)
           /\ sm.quick_find.counter = kQuikfindCounter
           /\ sm.quick_find_uid \in devices /\ line = NoFrame => Lost >= 1
      ELSE sm.quick_find_uid \in muted \ Listed(tod) => sm.quick_find.counter # 0

BranchCalm ==
  At(sm) = "kQuickfindDiscovery" /\ Unmuted(sm.range) # {} =>
    Left(sm.quick_find_discovery, kQuikfindDiscoveryCounter)

SearchCalm ==
  /\ Agreed /\ Covered
  /\ DiscoveryCalm /\ DubCalm /\ SingleCalm /\ QuickfindCalm /\ BranchCalm

Calm ==
  CASE At(sm) = "kIdle"   -> TRUE
    [] At(sm) = "kUnmute" -> UnmuteCalm
    [] At(sm) = "kMute"   -> MuteCalm
    [] OTHER              -> SearchCalm

CInv ==
  /\ IInv
  /\ Depth(sm)
  /\ At(sm) # "kIdle" => Tidy(sm)
  /\ TodIsSet(tod)
  /\ FramesSound
  /\ Undisturbed => Calm

-----------------------------------------------------------------------------
(* The powers of 2, and the room on the stack. *)

LEMMA Least ==
  ASSUME NEW S \in SUBSET Nat, S # {} PROVE \E m \in S : \A k \in S : m <= k
<1>1. PICK m \in S : \A k \in S : ~ (<<k, m>> \in OpToRel(<, Nat))
  BY NatLessThanWellFounded, WFMin
<1>2. \A k \in S : ~ (k < m)
  BY <1>1 DEF OpToRel
<1>3. QED  BY <1>2

\* The recursive function exists: its first values can always be continued.
LEMMA PowersEquations ==
  /\ Powers[0] = 1
  /\ \A n \in 1 .. kDiscoveryStackSize : Powers[n] = 2 * Powers[n - 1]
<1> DEFINE m == kDiscoveryStackSize
           Values(f, k) == /\ f = [n \in 0 .. k |-> f[n]]
                           /\ f[0] = 1
                           /\ \A n \in 1 .. k : f[n] = 2 * f[n - 1]
           None == {k \in 0 .. m : \A f : ~ Values(f, k)}
           Equation(f) == f = [n \in 0 .. m |-> IF n = 0 THEN 1 ELSE 2 * f[n - 1]]
<1>0. m \in Nat
  BY DiscoveryAssumption
<1>def. Powers = CHOOSE h : Equation(h)
  BY DEF Powers
<1> HIDE DEF m
<1>1. None = {}
  <2>1. SUFFICES ASSUME None # {} PROVE FALSE
    OBVIOUS
  <2>2. None \in SUBSET Nat
    BY <1>0
  <2>3. PICK k \in None : \A l \in None : k <= l
    BY <2>1, <2>2, Least
  <2>4. k \in Nat /\ k <= m
    BY <1>0
  <2>5. CASE k = 0
    <3>1. Values([n \in 0 .. 0 |-> 1], 0)
      OBVIOUS
    <3>2. QED  BY <2>5, <3>1
  <2>6. CASE k > 0
    <3>1. k - 1 \in 0 .. m /\ k - 1 \notin None
      BY <1>0, <2>3, <2>4, <2>6
    <3>2. PICK f : Values(f, k - 1)
      BY <3>1
    <3> DEFINE g == [n \in 0 .. k |-> IF n = k THEN 2 * f[k - 1] ELSE f[n]]
    <3>3. g = [n \in 0 .. k |-> g[n]] /\ g[k] = 2 * f[k - 1] /\ \A n \in 0 .. k - 1 : g[n] = f[n]
      BY <2>4, <2>6
    <3> HIDE DEF g
    <3>4. \A n \in 1 .. k : n = k \/ n \in 1 .. k - 1
      BY <2>4
    <3>5. \A n \in 1 .. k : n - 1 \in 0 .. k - 1
      BY <2>4
    <3>6. \A n \in 1 .. k - 1 : n \in 0 .. k - 1
      BY <2>4
    <3>7. 0 \in 0 .. k - 1 /\ k - 1 \in 0 .. k - 1
      BY <2>4, <2>6
    <3>8. \A n \in 1 .. k : g[n] = 2 * g[n - 1]
      BY <3>2, <3>3, <3>4, <3>5, <3>6
    <3>9. Values(g, k)
      BY <3>2, <3>3, <3>7, <3>8
    <3>10. QED  BY <3>9
  <2>7. QED  BY <2>4, <2>5, <2>6
<1>2. PICK f : Values(f, m)
  BY <1>0, <1>1
<1>3. Equation(f)
  <2>1. \A n \in 0 .. m : n = 0 \/ n \in 1 .. m
    BY <1>0
  <2>2. \A n \in 0 .. m : f[n] = IF n = 0 THEN 1 ELSE 2 * f[n - 1]
    BY <1>2, <2>1
  <2>3. QED  BY <1>2, <2>2
<1>4. Equation(Powers)
  BY <1>def, <1>3
<1>5. \A n \in 0 .. m : Powers[n] = IF n = 0 THEN 1 ELSE 2 * Powers[n - 1]
  BY <1>4
<1>6. QED  BY <1>0, <1>5 DEF m

LEMMA PowersType == \A n \in 0 .. kDiscoveryStackSize : Powers[n] \in Nat
<1> DEFINE Bad == {n \in 0 .. kDiscoveryStackSize : Powers[n] \notin Nat}
<1>0. kDiscoveryStackSize \in Nat
  BY DiscoveryAssumption
<1>1. SUFFICES ASSUME Bad # {} PROVE FALSE
  OBVIOUS
<1>2. PICK n \in Bad : \A k \in Bad : n <= k
  <2>1. Bad \in SUBSET Nat
    BY <1>0
  <2>2. QED  BY <1>1, <2>1, Least
<1>3. n # 0
  BY PowersEquations
<1>4. n - 1 \in 0 .. kDiscoveryStackSize /\ n - 1 \notin Bad /\ n \in 1 .. kDiscoveryStackSize
  BY <1>0, <1>2, <1>3
<1>5. Powers[n - 1] \in Nat /\ Powers[n] = 2 * Powers[n - 1]
  BY <1>4, PowersEquations
<1>6. QED  BY <1>5

\* The halves of a range of w + 1 UIDs are no longer than half of it.
LEMMA HalvesNarrower ==
  ASSUME NEW r \in Branch, r.lower_bound < r.upper_bound
  PROVE  /\ LowerHalf(r) \in Branch /\ UpperHalf(r) \in Branch
         /\ Width(r) \in Nat /\ Width(LowerHalf(r)) \in Int /\ Width(UpperHalf(r)) \in Int
         /\ 2 * Width(LowerHalf(r)) <= Width(r)
         /\ 2 * Width(UpperHalf(r)) <= Width(r) - 1
<1> DEFINE m == Mid(r.lower_bound, r.upper_bound)
<1>1. r.lower_bound \in Uids /\ r.upper_bound \in Uids
  BY DEF Branch
<1>2. r.lower_bound <= m /\ m < r.upper_bound /\ m \in Uids /\ m = (r.lower_bound + r.upper_bound) \div 2
  BY <1>1, MidIsMiddle
<1> HIDE DEF m
<1>3. /\ LowerHalf(r) = [lower_bound |-> r.lower_bound, upper_bound |-> m]
      /\ UpperHalf(r) = [lower_bound |-> m + 1, upper_bound |-> r.upper_bound]
  BY DEF LowerHalf, UpperHalf, m, Branch
<1>4. m + 1 \in Uids
  BY <1>1, <1>2, Bounds DEF Uids
<1>5. r.lower_bound \in Nat /\ r.upper_bound \in Nat /\ m \in Nat
  BY <1>2, Bounds DEF Uids
<1>6. LowerHalf(r) \in Branch /\ UpperHalf(r) \in Branch
  BY <1>1, <1>2, <1>3, <1>4 DEF Branch
<1>7. /\ Width(r) = r.upper_bound - r.lower_bound /\ Width(LowerHalf(r)) = m - r.lower_bound
      /\ Width(UpperHalf(r)) = r.upper_bound - (m + 1)
  BY <1>3 DEF Width
<1>8. 2 * m <= r.lower_bound + r.upper_bound /\ r.lower_bound + r.upper_bound <= 2 * m + 1
  BY <1>2, <1>5
<1>9. QED  BY <1>5, <1>6, <1>7, <1>8

\* The steps that do not touch the stack and keep the range, or drop it.
LEMMA DepthKept ==
  ASSUME Depth(sm), NEW t, t.stack = sm.stack, Hand(t) => Hand(sm) /\ t.range = sm.range
  PROVE  Depth(t)
BY DEF Depth

LEMMA DepthStarts ==
  ASSUME NEW t, t.stack = <<Everyone>>, ~ Hand(t)
  PROVE  Depth(t)
<1>1. /\ kDiscoveryStackSize \in Nat \ {0} /\ Half \in Nat
      /\ 2 * Half <= Powers[kDiscoveryStackSize] /\ Powers[kDiscoveryStackSize] \in Nat
  BY DiscoveryAssumption, HalfFacts, StackAssumption, PowersType
<1>2. Width(Everyone) = 2 * Half - 2
  BY <1>1 DEF Width, Everyone, kUidLast
<1>3. Len(t.stack) = 1 /\ t.stack[1] = Everyone /\ 1 .. Len(t.stack) = {1}
  OBVIOUS
<1>4. kDiscoveryStackSize - 1 + 1 = kDiscoveryStackSize
  BY <1>1
<1>5. QED  BY <1>1, <1>2, <1>3, <1>4 DEF Depth

LEMMA DepthPops ==
  ASSUME Depth(sm), sm \in SmType, sm.stack # <<>>, NEW t, t.stack = PopStack, t.range = Top
  PROVE  Depth(t)
<1>1. sm.stack \in Seq(Branch) /\ Len(sm.stack) \in Nat \ {0} /\ kDiscoveryStackSize \in Nat
  BY DiscoveryAssumption DEF SmType
<1>2. /\ Len(PopStack) = Len(sm.stack) - 1
      /\ \A i \in 1 .. Len(PopStack) : PopStack[i] = sm.stack[i] /\ i \in 1 .. Len(sm.stack)
  BY <1>1 DEF PopStack
<1>3. /\ Len(sm.stack) \in 1 .. Len(sm.stack) /\ Len(PopStack) < kDiscoveryStackSize
      /\ kDiscoveryStackSize - Len(PopStack) = kDiscoveryStackSize - Len(sm.stack) + 1
  BY <1>1, <1>2 DEF Depth
<1>4. Width(Top) + 1 < Powers[kDiscoveryStackSize - Len(PopStack)]
  BY <1>3 DEF Depth, Top
<1>5. \A i \in 1 .. Len(PopStack) : Width(PopStack[i]) + 1 < Powers[kDiscoveryStackSize - i + 1]
  BY <1>2 DEF Depth
<1>6. QED  BY <1>3, <1>4, <1>5, <1>1 DEF Depth

\* There is room for both halves of the range in hand: none is dropped.
LEMMA DepthHalves ==
  ASSUME Depth(sm), Sound(sm), At(sm) = "kDub",
         NEW t, ~ Hand(t),
         t.stack = Push(Push(sm.stack, LowerHalf(sm.range)), UpperHalf(sm.range))
  PROVE  /\ Depth(t)
         /\ t.stack = Append(Append(sm.stack, LowerHalf(sm.range)), UpperHalf(sm.range))
<1> DEFINE r == sm.range
           k == kDiscoveryStackSize
           n == Len(sm.stack)
<1>1. r \in Branch /\ sm.stack \in Seq(Branch) /\ n \in Nat /\ k \in Nat
  BY DiscoveryAssumption DEF Sound, SmType
<1>2. Hand(sm) /\ Wide(r) /\ Above(r, sm.stack)
  BY DEF Sound, Searching, Hand, Unclaimed
<1>3. r.lower_bound < r.upper_bound
  BY <1>1, <1>2, Bounds DEF Wide, Above
<1>4. /\ LowerHalf(r) \in Branch /\ UpperHalf(r) \in Branch
      /\ Width(r) \in Nat /\ Width(LowerHalf(r)) \in Int /\ Width(UpperHalf(r)) \in Int
      /\ 2 * Width(LowerHalf(r)) <= Width(r)
      /\ 2 * Width(UpperHalf(r)) <= Width(r) - 1
  BY <1>1, <1>3, HalvesNarrower
<1>5. Width(r) >= 1
  BY <1>1, <1>3, Bounds DEF Width
<1>6. n < k /\ Width(r) + 1 < Powers[k - n]
  BY <1>2 DEF Depth
<1> HIDE DEF k, n, r
<1>7. k - n \in 1 .. k /\ k - n - 1 \in 0 .. k
  BY <1>1, <1>6
<1>8. Powers[k - n] = 2 * Powers[k - n - 1] /\ Powers[k - n - 1] \in Nat
  BY <1>7, PowersEquations, PowersType DEF k
<1>9. k - n - 1 # 0
  BY <1>4, <1>5, <1>6, <1>8, PowersEquations
<1>10. n + 2 <= k
  BY <1>1, <1>7, <1>9
<1>11. /\ Width(LowerHalf(r)) + 1 < Powers[k - n]
       /\ Width(UpperHalf(r)) + 1 < Powers[k - n - 1]
  BY <1>4, <1>5, <1>6, <1>8
<1> DEFINE one == Append(sm.stack, LowerHalf(r))
           two == Append(one, UpperHalf(r))
<1>12. Len(one) = n + 1 /\ one \in Seq(Branch) /\ one[n + 1] = LowerHalf(r)
       /\ \A i \in 1 .. n : one[i] = sm.stack[i]
  BY <1>1, <1>4 DEF n
<1>13. Push(sm.stack, LowerHalf(r)) = one
  BY <1>1, <1>10 DEF Push, k, n
<1> HIDE DEF one
<1>14. Len(two) = n + 2 /\ two[n + 2] = UpperHalf(r) /\ \A i \in 1 .. n + 1 : two[i] = one[i]
  BY <1>4, <1>12, <1>1
<1>15. Push(one, UpperHalf(r)) = two
  BY <1>1, <1>10, <1>12 DEF Push, k
<1>16. t.stack = two
  BY <1>13, <1>15 DEF r
<1> HIDE DEF two
<1>17. ASSUME NEW i \in 1 .. Len(two) PROVE Width(two[i]) + 1 < Powers[k - i + 1]
  <2>1. CASE i \in 1 .. n
    <3>1. i \in 1 .. n + 1 /\ two[i] = sm.stack[i]
      BY <1>1, <1>12, <1>14, <2>1
    <3>2. QED  BY <2>1, <3>1 DEF Depth, n, k
  <2>2. CASE i = n + 1
    <3>1. two[i] = LowerHalf(r) /\ k - i + 1 = k - n
      BY <1>1, <1>12, <1>14, <2>2
    <3>2. QED  BY <1>11, <3>1
  <2>3. CASE i = n + 2
    <3>1. two[i] = UpperHalf(r) /\ k - i + 1 = k - n - 1
      BY <1>1, <1>14, <2>3
    <3>2. QED  BY <1>11, <3>1
  <2>4. QED  BY <1>1, <1>14, <2>1, <2>2, <2>3
<1>18. QED  BY <1>10, <1>14, <1>16, <1>17 DEF Depth, k, one, two, r

-----------------------------------------------------------------------------
(* The table. *)

LEMMA TableSize == kTableSize \in Nat /\ kTableSize # 0
BY DiscoveryAssumption

LEMMA CellFacts ==
  ASSUME NEW t \in TodType
  PROVE  /\ t.entries \in Nat /\ t.entries <= kTableSize
         /\ t.tod \in [0 .. kTableSize -> Uids \cup {kUidAll}]
         /\ \A i \in 0 .. t.entries - 1 : i \in 0 .. kTableSize /\ t.tod[i] \in Listed(t)
BY TableSize DEF TodType, Cells, Listed

LEMMA ResetEmpties ==
  ASSUME NEW t \in TodType
  PROVE  LET r == TodReset(t) IN r.entries = 0 /\ Listed(r) = {} /\ TodIsSet(r)
<1> DEFINE r == TodReset(t)
<1>1. r.entries = 0
  BY DEF TodReset
<1> HIDE DEF r
<1>2. 0 .. r.entries - 1 = {}
  BY <1>1
<1>3. Listed(r) = {} /\ TodIsSet(r)
  BY <1>2 DEF Listed, TodIsSet
<1>4. QED  BY <1>1, <1>3 DEF r

\* A UID is added behind the others, once, if there is room.
LEMMA AddAppends ==
  ASSUME NEW t \in TodType, TodIsSet(t), NEW uid \in Uids
  PROVE  LET a == TodAddUid(t, uid) IN
         /\ TodIsSet(a)
         /\ Listed(a) = IF t.entries = kTableSize THEN Listed(t) ELSE Listed(t) \cup {uid}
<1> DEFINE a == TodAddUid(t, uid)
           n == t.entries
<1>1. CASE uid \in Listed(t) \/ n = kTableSize
  <2>1. a = t
    BY <1>1 DEF TodAddUid
  <2>2. QED  BY <1>1, <2>1
<1>2. CASE uid \notin Listed(t) /\ n # kTableSize
  <2>1. n \in Nat /\ n < kTableSize /\ t.tod \in [0 .. kTableSize -> Uids \cup {kUidAll}]
    BY <1>2, CellFacts, TableSize
  <2>2. a = [t EXCEPT !.tod[t.entries] = uid, !.entries = @ + 1]
    BY <1>2 DEF TodAddUid
  <2>3. a.entries = n + 1 /\ a.tod = [t.tod EXCEPT ![n] = uid]
    BY <2>2 DEF TodType
  <2> HIDE DEF a, n
  <2>4. a.tod[n] = uid /\ \A i \in 0 .. n - 1 : a.tod[i] = t.tod[i]
    <3>1. n \in 0 .. kTableSize /\ \A i \in 0 .. n - 1 : i \in 0 .. kTableSize /\ i # n
      BY <2>1, TableSize
    <3>2. QED  BY <2>1, <2>3, <3>1
  <2>5. \A i \in 0 .. n - 1 : t.tod[i] \in Listed(t)
    BY DEF Listed, n
  <2>6. \A i \in 0 .. a.entries - 1 : i \in 0 .. n - 1 \/ i = n
    BY <2>1, <2>3
  <2>7. 0 .. n - 1 \subseteq 0 .. a.entries - 1 /\ n \in 0 .. a.entries - 1
    BY <2>1, <2>3
  <2>8. Listed(a) \subseteq Listed(t) \cup {uid}
    BY <2>4, <2>5, <2>6 DEF Listed
  <2>9. Listed(t) \cup {uid} \subseteq Listed(a)
    <3>1. \A i \in 0 .. n - 1 : t.tod[i] \in Listed(a)
      BY <2>4, <2>7 DEF Listed
    <3>2. uid \in Listed(a)
      BY <2>4, <2>7 DEF Listed
    <3>3. QED  BY <3>1, <3>2 DEF Listed, n
  <2>10. \A i, j \in 0 .. a.entries - 1 : a.tod[i] = a.tod[j] => i = j
    <3>1. \A i, j \in 0 .. n - 1 : t.tod[i] = t.tod[j] => i = j
      BY DEF TodIsSet, n
    <3>2. QED  BY <1>2, <2>4, <2>5, <2>6, <3>1
  <2>11. Listed(a) \subseteq Uids
    BY <2>8 DEF TodIsSet
  <2>12. Listed(a) = Listed(t) \cup {uid}
    BY <2>8, <2>9
  <2>13. TodIsSet(a)
    BY <2>10, <2>11 DEF TodIsSet
  <2>14. QED  BY <1>2, <2>12, <2>13 DEF a, n
<1>3. QED  BY <1>1, <1>2

\* The entries above the deleted one move down by one.
LEMMA DeleteShifts ==
  ASSUME NEW t \in TodType, TodIsSet(t), NEW e \in 0 .. t.entries - 1
  PROVE  LET d == TodDelete(t, t.tod[e]) IN
         /\ d.entries = t.entries - 1
         /\ \A i \in 0 .. e - 1 : d.tod[i] = t.tod[i]
         /\ \A i \in e .. t.entries - 2 : d.tod[i] = t.tod[i + 1]
         /\ TodIsSet(d) /\ Listed(d) = Listed(t) \ {t.tod[e]}
<1> DEFINE uid == t.tod[e]
           d == TodDelete(t, uid)
           n == t.entries
<1>1. /\ n \in Nat /\ n <= kTableSize /\ kTableSize \in Nat /\ e \in Nat /\ e < n
      /\ t.tod \in [0 .. kTableSize -> Uids \cup {kUidAll}]
  BY CellFacts, TableSize
<1>2. uid \in Listed(t)
  BY DEF Listed
<1>3. IndexOf(t, uid) = e
  <2>1. \A i \in 0 .. n - 1 : t.tod[i] = uid => i = e
    BY DEF TodIsSet
  <2>2. \A j \in 0 .. e - 1 : t.tod[j] # uid
    BY <1>1, <2>1
  <2>3. \E i \in 0 .. n - 1 : t.tod[i] = uid /\ \A j \in 0 .. i - 1 : t.tod[j] # uid
    BY <2>2
  <2>4. QED  BY <2>1, <2>3 DEF IndexOf
<1>4. d = [entries |-> n - 1,
           tod     |-> IF e = kTableSize - 1
                         THEN [t.tod EXCEPT ![e] = kUidAll]
                         ELSE [i \in Cells |-> IF i \in e .. n - 1 THEN t.tod[i + 1] ELSE t.tod[i]]]
  BY <1>2, <1>3 DEF TodDelete
<1> HIDE DEF uid, d, n
<1>5. d.entries = n - 1
  BY <1>4
<1>6. /\ \A i \in 0 .. e - 1 : d.tod[i] = t.tod[i]
      /\ \A i \in e .. n - 2 : d.tod[i] = t.tod[i + 1]
  <2>1. CASE e = kTableSize - 1
    <3>1. d.tod = [t.tod EXCEPT ![e] = kUidAll]
      BY <1>4, <2>1
    <3>2. e .. n - 2 = {}
      BY <1>1, <2>1
    <3>3. QED  BY <1>1, <3>1, <3>2
  <2>2. CASE e # kTableSize - 1
    <3>1. d.tod = [i \in 0 .. kTableSize |-> IF i \in e .. n - 1 THEN t.tod[i + 1] ELSE t.tod[i]]
      BY <1>4, <2>2 DEF Cells
    <3>2. QED  BY <1>1, <3>1
  <2>3. QED  BY <2>1, <2>2
<1> DEFINE from(i) == IF i < e THEN i ELSE i + 1
<1>7. \A i \in 0 .. n - 2 : from(i) \in 0 .. n - 1 /\ from(i) # e /\ d.tod[i] = t.tod[from(i)]
  BY <1>1, <1>6
<1>8. \A i, j \in 0 .. n - 2 : from(i) = from(j) => i = j
  BY <1>1
<1>9. \A j \in 0 .. n - 1 : j # e => \E i \in 0 .. n - 2 : from(i) = j
  <2>1. ASSUME NEW j \in 0 .. n - 1, j # e PROVE \E i \in 0 .. n - 2 : from(i) = j
    <3>1. CASE j < e
      <4>1. j \in 0 .. n - 2 /\ from(j) = j
        BY <1>1, <3>1
      <4>2. QED  BY <4>1
    <3>2. CASE j > e
      <4>1. j - 1 \in 0 .. n - 2 /\ from(j - 1) = j
        BY <1>1, <3>2
      <4>2. QED  BY <4>1
    <3>3. QED  BY <1>1, <2>1, <3>1, <3>2
  <2>2. QED  BY <2>1
<1> HIDE DEF from
<1>10. \A i, j \in 0 .. n - 1 : t.tod[i] = t.tod[j] => i = j
  BY DEF TodIsSet, n
<1>11. 0 .. d.entries - 1 = 0 .. n - 2
  BY <1>1, <1>5
<1>12. Listed(d) = Listed(t) \ {uid}
  <2>1. Listed(d) = {d.tod[i] : i \in 0 .. n - 2} /\ Listed(t) = {t.tod[i] : i \in 0 .. n - 1}
    BY <1>11 DEF Listed, n
  <2>2. \A i \in 0 .. n - 2 : d.tod[i] \in Listed(t) \ {uid}
    BY <1>7, <1>10, <2>1, <1>1 DEF uid, n
  <2>3. \A j \in 0 .. n - 1 : t.tod[j] # uid => t.tod[j] \in {d.tod[i] : i \in 0 .. n - 2}
    BY <1>7, <1>9 DEF uid
  <2>4. QED  BY <2>1, <2>2, <2>3
<1>13. TodIsSet(d)
  <2>1. \A i, j \in 0 .. n - 2 : d.tod[i] = d.tod[j] => i = j
    BY <1>7, <1>8, <1>10
  <2>2. Listed(d) \subseteq Uids
    BY <1>12 DEF TodIsSet
  <2>3. QED  BY <1>11, <2>1, <2>2 DEF TodIsSet
<1>14. QED  BY <1>5, <1>6, <1>12, <1>13 DEF d, uid, n

LEMMA FiniteDevices ==
  ASSUME LineSound PROVE IsFiniteSet(devices) /\ Cardinality(devices) \in Nat
<1>1. 0 \in Int /\ kUidLast \in Int
  BY HalfFacts DEF kUidLast
<1>2. IsFiniteSet(Uids)
  BY <1>1, FS_Interval DEF Uids
<1>3. QED  BY <1>2, FS_Subset, FS_CardinalityType DEF LineSound

\* A table that lists no more than the devices has room for one that is missing.
LEMMA RoomForOneMore ==
  ASSUME LineSound, TodIsSet(tod), Listed(tod) \subseteq devices,
         NEW u \in devices \ Listed(tod), Cardinality(devices) <= kTableSize
  PROVE  tod.entries # kTableSize
<1> DEFINE n == tod.entries
           others == devices \ {u}
           f == [i \in 0 .. n - 1 |-> tod.tod[i]]
<1>1. IsFiniteSet(others) /\ Cardinality(others) = Cardinality(devices) - 1
  BY FiniteDevices, FS_RemoveElement
<1>2. n \in Nat /\ n <= kTableSize /\ kTableSize \in Nat
  BY CellFacts, TableSize DEF LineSound
<1>3. IsFiniteSet(0 .. n - 1) /\ Cardinality(0 .. n - 1) = n
  <2>1. 0 \in Int /\ n - 1 \in Int
    BY <1>2
  <2>2. IsFiniteSet(0 .. n - 1) /\ Cardinality(0 .. n - 1) = IF 0 > n - 1 THEN 0 ELSE n - 1 - 0 + 1
    BY <2>1, FS_Interval
  <2>3. QED  BY <1>2, <2>2
<1>4. f \in [0 .. n - 1 -> others]
  BY DEF Listed
<1>5. \A i, j \in 0 .. n - 1 : f[i] = f[j] => i = j
  BY DEF TodIsSet
<1> HIDE DEF f, n, others
<1>6. ~ (Cardinality(others) < Cardinality(0 .. n - 1))
  <2>1. SUFFICES ASSUME Cardinality(others) < Cardinality(0 .. n - 1) PROVE FALSE
    OBVIOUS
  <2>2. \E i, j \in 0 .. n - 1 : i # j /\ f[i] = f[j]
    BY ONLY <1>1, <1>3, <1>4, <2>1, FS_PigeonHole
  <2>3. QED  BY <1>5, <2>2
<1>7. QED  BY <1>1, <1>2, <1>3, <1>6, FiniteDevices DEF n

-----------------------------------------------------------------------------
(* The line. *)

LEMMA FramesDiffer ==
  /\ \A u : MuteAck(u) # NoFrame /\ MuteAck(u).kind = "mute" /\ MuteAck(u).uid = u
  /\ \A u : [kind |-> "dub", uid |-> u] # NoFrame
  /\ \A u : [kind |-> "dub", uid |-> u].kind = "dub"
  /\ Garbled # NoFrame /\ Garbled.kind = "garbled" /\ NoFrame.kind = "none"
BY DEF MuteAck, NoFrame, Garbled

LEMMA Ghosts ==
  ASSUME LineSound PROVE noise \in Nat /\ delayed \in Nat /\ unplugged \in Nat /\ Lost \in Nat
<1>1. limits.noise \in Nat /\ limits.late \in Nat /\ limits.unplugged \in Nat
  BY DiscoveryAssumption DEF LineSound
<1>2. QED  BY <1>1 DEF LineSound, Lost

\* What an undisturbed discovery may count on.
LEMMA UndisturbedFacts ==
  ASSUME LineSound, Undisturbed
  PROVE  /\ unplugged = 0 /\ Cardinality(devices) <= kTableSize
         /\ noise = 0 \/ delayed = 0
         /\ sm.do_incremental => delayed = 0
         /\ {kUnmuteCounter, kMuteCounter, kDiscoveryCounter, kQuikfindCounter,
             kQuikfindDiscoveryCounter} \subseteq Nat
         /\ Lost \in Nat /\ noise \in Nat /\ delayed \in Nat /\ Lost = noise + delayed
         /\ Lost < kUnmuteCounter /\ Lost < kMuteCounter /\ Lost < kDiscoveryCounter
         /\ Lost < kQuikfindCounter /\ Lost < kQuikfindDiscoveryCounter
BY DiscoveryAssumption, Ghosts DEF Undisturbed, AllTries, Lost

\* What is disturbed stays so while the state machine runs.
LEMMA StaysDisturbed ==
  ASSUME LineSound, UNCHANGED env, {noise', delayed'} \subseteq Nat,
         noise <= noise', delayed <= delayed',
         sm'.do_incremental = sm.do_incremental, Undisturbed'
  PROVE  Undisturbed
<1>1. noise \in Nat /\ delayed \in Nat
  BY Ghosts
<1>2. AllTries \subseteq Nat
  BY DiscoveryAssumption DEF AllTries
<1>3. unplugged' = unplugged /\ devices' = devices
  BY DEF env
<1>4. \A tries \in AllTries : noise' + delayed' < tries
  BY DEF Undisturbed, AllTries
<1>5. ASSUME NEW tries \in AllTries PROVE noise + delayed < tries
  <2>1. tries \in Nat /\ noise' + delayed' < tries
    BY <1>2, <1>4
  <2>2. QED  BY <1>1, <2>1
<1>6. noise = 0 \/ delayed = 0
  BY <1>1 DEF Undisturbed
<1>7. sm.do_incremental => delayed = 0
  BY <1>1 DEF Undisturbed
<1>8. unplugged = 0 /\ Cardinality(devices) <= kTableSize
  BY <1>3 DEF Undisturbed
<1>9. QED  BY <1>5, <1>6, <1>7, <1>8 DEF Undisturbed

\* Nothing that is sent makes up an answer.
LEMMA AnswersGenuine ==
  ASSUME NEW m, m.pid \in {"DISC_UN_MUTE", "DISC_MUTE", "DISC_UNIQUE_BRANCH"}, NEW f \in Answers(m)
  PROVE  f.kind = "mute" => f.uid \in devices
<1>1. CASE m.pid = "DISC_MUTE" /\ m.uid \in devices
  BY <1>1 DEF Answers
<1>2. CASE m.pid = "DISC_UNIQUE_BRANCH"
  BY <1>2, FramesDiffer DEF Answers
<1>3. CASE m.pid = "DISC_UN_MUTE" \/ (m.pid = "DISC_MUTE" /\ m.uid \notin devices)
  BY <1>3, FramesDiffer DEF Answers
<1>4. QED  BY <1>1, <1>2, <1>3

LEMMA TransmitFrames ==
  ASSUME LineSound, FramesSound, NEW m, Transmit(m), UNCHANGED env,
         m.pid \in {"DISC_UN_MUTE", "DISC_MUTE", "DISC_UNIQUE_BRANCH"}
  PROVE  /\ FramesSound'
         /\ {noise', delayed'} \subseteq Nat /\ noise <= noise' /\ delayed <= delayed'
<1>1. noise \in Nat /\ delayed \in Nat /\ unplugged' = unplugged /\ devices' = devices
  BY Ghosts DEF env
<1>2. \A f \in Answers(m) : f.kind = "mute" => f.uid \in devices
  BY AnswersGenuine
<1>3. CASE line' \in Answers(m) /\ UNCHANGED <<late, noise, delayed>>
  BY <1>1, <1>2, <1>3 DEF FramesSound, Genuine
<1>4. CASE line' = NoFrame /\ noise' = noise + 1 /\ UNCHANGED <<late, delayed>>
  BY <1>1, <1>4, FramesDiffer DEF FramesSound, Genuine
<1>5. CASE /\ late' \in Answers(m) \ {NoFrame} /\ line' = NoFrame
           /\ delayed' = delayed + 1 /\ UNCHANGED noise
  BY <1>1, <1>2, <1>5, FramesDiffer DEF FramesSound, Genuine
<1>6. QED  BY <1>3, <1>4, <1>5 DEF Transmit

LEMMA ReceiveFrames ==
  ASSUME LineSound, FramesSound, NEW frame, Receive(frame), UNCHANGED env
  PROVE  /\ FramesSound' /\ UNCHANGED <<muted, late, noise, delayed>>
         /\ {noise', delayed'} \subseteq Nat /\ noise <= noise' /\ delayed <= delayed'
         /\ Lost' = Lost
<1>1. noise \in Nat /\ delayed \in Nat
  BY Ghosts
<1>2. UNCHANGED <<muted, late, noise, delayed>> /\ line' \in {line, NoFrame}
  BY DEF Receive
<1>3. unplugged' = unplugged /\ devices' = devices
  BY DEF env
<1>4. FramesSound'
  BY <1>2, <1>3, FramesDiffer DEF FramesSound, Genuine
<1>5. QED  BY <1>1, <1>2, <1>4 DEF Lost

LEMMA UnmuteSent ==
  ASSUME LineSound, Transmit(UnMuteAllMsg)
  PROVE  \/ muted' = {} /\ noise' = noise
         \/ muted' \in {muted, {}} /\ noise' = noise + 1
<1>1. UnMuteAllMsg.pid = "DISC_UN_MUTE"
  BY DEF UnMuteAllMsg
<1>2. MutedAfter(UnMuteAllMsg) = {}
  BY <1>1 DEF MutedAfter
<1>3. QED  BY <1>2 DEF Transmit

\* Devices that have heard the request answer it, unless it or the answer is lost or late.
LEMMA BranchSent ==
  ASSUME LineSound, NEW r, Transmit(BranchMsg(r))
  PROVE  /\ muted' = muted
         /\ Lost' >= Lost /\ {Lost'} \subseteq Nat
         /\ Unmuted(r) # {} /\ line' = NoFrame => Lost' >= Lost + 1
<1> DEFINE m == BranchMsg(r)
<1>1. m.pid = "DISC_UNIQUE_BRANCH" /\ m.range = r
  BY DEF BranchMsg
<1> HIDE DEF m
<1>2. MutedAfter(m) = muted
  BY <1>1 DEF MutedAfter
<1>3. Unmuted(r) # {} => NoFrame \notin Answers(m)
  BY <1>1, FramesDiffer DEF Answers, Unmuted
<1>4. Transmit(m) /\ noise \in Nat /\ delayed \in Nat
  BY Ghosts DEF m
<1>5. QED  BY <1>2, <1>3, <1>4 DEF Transmit, Lost

LEMMA MuteSends ==
  ASSUME LineSound, FramesSound, NEW u \in Uids, Transmit(MuteMsg(u)), UNCHANGED env
  PROVE  /\ muted \subseteq muted' /\ muted' \subseteq muted \cup ({u} \cap devices)
         /\ Lost' >= Lost /\ {Lost'} \subseteq Nat
         /\ u \in devices /\ line' = NoFrame => Lost' >= Lost + 1
         /\ noise' = 0 \/ delayed' = 0 => MuteSent(u)'
<1> DEFINE m == MuteMsg(u)
<1>1. m.pid = "DISC_MUTE" /\ m.uid = u
  BY DEF MuteMsg
<1> HIDE DEF m
<1>2. MutedAfter(m) = muted \cup ({u} \cap devices)
  BY <1>1 DEF MutedAfter
<1>3. Answers(m) = IF u \in devices THEN {MuteAck(u)} ELSE {NoFrame}
  BY <1>1 DEF Answers, MuteAck
<1>4. Transmit(m) /\ noise \in Nat /\ delayed \in Nat /\ devices' = devices
  BY Ghosts DEF m, env
<1>5. MuteAck(u) # NoFrame
  BY FramesDiffer
<1>6. CASE muted' = MutedAfter(m) /\ line' \in Answers(m) /\ UNCHANGED <<late, noise, delayed>>
  BY <1>2, <1>3, <1>4, <1>5, <1>6 DEF Lost, MuteSent
<1>7. CASE /\ muted' \in {muted, MutedAfter(m)} /\ line' = NoFrame
           /\ noise' = noise + 1 /\ UNCHANGED <<late, delayed>>
  BY <1>2, <1>4, <1>5, <1>7 DEF Lost, MuteSent, FramesSound
<1>8. CASE /\ muted' = MutedAfter(m) /\ late' \in Answers(m) \ {NoFrame} /\ line' = NoFrame
           /\ delayed' = delayed + 1 /\ UNCHANGED noise
  BY <1>2, <1>3, <1>4, <1>5, <1>8 DEF Lost, MuteSent
<1>9. QED  BY <1>4, <1>6, <1>7, <1>8 DEF Transmit

-----------------------------------------------------------------------------
(* NewState, and what the steps have in common. *)

\* Every member but the two that NewState sets.
SameMembers(t, s) ==
  /\ t.is_finished = s.is_finished /\ t.do_incremental = s.do_incremental
  /\ t.response = s.response /\ t.stack = s.stack /\ t.range = s.range
  /\ t.mute_uid = s.mute_uid /\ t.tod_entries = s.tod_entries
  /\ t.quick_find_uid = s.quick_find_uid
  /\ t.unmute = s.unmute /\ t.mute = s.mute /\ t.discovery = s.discovery
  /\ t.discovery_single_device = s.discovery_single_device
  /\ t.quick_find = s.quick_find /\ t.quick_find_discovery = s.quick_find_discovery

LEMMA NewStateKeeps ==
  ASSUME NEW s \in SmType, NEW new \in States \ {"kLateResponse"}, NEW late_too \in BOOLEAN
  PROVE  LET t == NewState(s, new, late_too) IN
         /\ At(t) = new /\ SameMembers(t, s)
         /\ t.state = "kLateResponse" => late_too
         /\ ~ late_too => t.state = new
<1>1. CASE late_too /\ s.state # "kLateResponse"
  BY <1>1 DEF NewState, SmType, At, States, SameMembers
<1>2. CASE ~ (late_too /\ s.state # "kLateResponse")
  BY <1>2 DEF NewState, SmType, At, States, SameMembers
<1>3. QED  BY <1>1, <1>2

\* What every step of Process has to keep up, besides the table and the line.
Keeps ==
  /\ Depth(sm)'
  /\ (At(sm) # "kIdle" => Tidy(sm))'
  /\ (Undisturbed => Calm)'

LEMMA Given ==
  ASSUME CInv
  PROVE  /\ sm \in SmType /\ Sound(sm) /\ LineSound /\ tod \in TodType /\ TodIsSet(tod)
         /\ Depth(sm) /\ FramesSound /\ line \in Frame /\ muted \subseteq devices
         /\ devices \subseteq Uids
         /\ At(sm) # "kIdle" => Tidy(sm)
         /\ Undisturbed => Calm
BY DEF CInv, IInv, Sound, LineSound

-----------------------------------------------------------------------------
(* The steps of kUnmute and kMute. *)

LEMMA UnmuteDoneKeeps ==
  ASSUME CInv, UnmuteDone PROVE Keeps
<1> DEFINE s == [sm EXCEPT !.unmute = NotRunning(kUnmuteCounter)]
           new == IF sm.do_incremental THEN "kMute" ELSE "kDiscovery"
<1>1. /\ s \in SmType /\ At(sm) = "kUnmute" /\ ~ sm.discovery.is_command_running
      /\ s.stack = sm.stack /\ s.range = sm.range /\ s.do_incremental = sm.do_incremental
      /\ s.tod_entries = sm.tod_entries /\ s.mute = sm.mute /\ s.discovery = sm.discovery
      /\ s.discovery_single_device = sm.discovery_single_device
      /\ s.quick_find = sm.quick_find /\ s.quick_find_discovery = sm.quick_find_discovery
  BY Given, Members, Counts DEF UnmuteDone, SmType, At
<1>2. sm' = NewState(s, new, FALSE) /\ UNCHANGED <<tod, bus, env>>
  BY DEF UnmuteDone
<1>3. new \in States \ {"kLateResponse"}
  BY DEF States
<1> HIDE DEF s
<1>4. At(sm') = new /\ sm'.state = new /\ SameMembers(sm', s)
  BY <1>1, <1>2, <1>3, NewStateKeeps
<1>5. /\ sm'.stack = sm.stack /\ sm'.range = sm.range /\ sm'.do_incremental = sm.do_incremental
      /\ sm'.tod_entries = sm.tod_entries /\ sm'.mute = sm.mute /\ sm'.discovery = sm.discovery
      /\ sm'.discovery_single_device = sm.discovery_single_device
      /\ sm'.quick_find = sm.quick_find /\ sm'.quick_find_discovery = sm.quick_find_discovery
  BY <1>1, <1>4 DEF SameMembers
<1>6. Tidy(sm)
  BY <1>1, Given
<1>7. Depth(sm')
  BY <1>1, <1>4, <1>5, Given, DepthKept DEF Hand, Unclaimed
<1>8. Tidy(sm')
  BY <1>1, <1>4, <1>5, <1>6 DEF Tidy
<1>9. ASSUME Undisturbed' PROVE Calm'
  <2>1. Undisturbed
    BY <1>2, <1>5, <1>9, Given, Ghosts, StaysDisturbed DEF bus
  <2>2. UnmuteCalm
    BY <1>1, <2>1, Given DEF Calm
  <2>3. muted = {}
    BY <2>1, <2>2, Given, UndisturbedFacts DEF UnmuteDone, UnmuteCalm
  <2>4. /\ tod' = tod /\ muted' = {} /\ devices' = devices /\ line' = line
        /\ noise' = noise /\ delayed' = delayed
    BY <1>2, <2>3 DEF bus, env
  <2>5. tod.entries \in Nat
    BY Given, CellFacts
  <2>6. CASE sm.do_incremental
    <3>1. new = "kMute" /\ sm.tod_entries = tod.entries /\ sm.mute = NotRunning(kMuteCounter)
      BY <2>2, <2>6 DEF UnmuteCalm
    <3>2. \A i \in sm.tod_entries .. tod.entries - 1 : FALSE
      BY <2>5, <3>1
    <3>3. kMuteCounter \in Nat \ {0} /\ Lost \in Nat
      BY Given, Members, Ghosts
    <3>4. sm.mute.counter = kMuteCounter /\ ~ sm.mute.is_command_running
      BY <3>1, <3>3, Counts
    <3>5. MuteCalm'
      BY <1>5, <2>4, <2>5, <3>1, <3>2, <3>3, <3>4 DEF MuteCalm, Left, Lost
    <3>6. QED  BY <1>4, <3>1, <3>5 DEF Calm
  <2>7. CASE ~ sm.do_incremental
    <3>1. new = "kDiscovery" /\ tod.entries = 0
      BY <2>2, <2>7 DEF UnmuteCalm
    <3>2. Listed(tod) = {}
      BY <3>1 DEF Listed
    <3>3. Agreed'
      BY <2>4, <3>2 DEF Agreed
    <3>4. sm'.stack = <<Everyone>>
      BY <1>1, <1>5, <1>6 DEF Tidy
    <3>5. Covered'
      <4>1. \A u \in devices : Within(u, sm'.stack[1])
        BY <3>4, Given, Bounds DEF Within, Everyone, Uids
      <4>2. 1 \in 1 .. Len(sm'.stack)
        BY <3>4
      <4>3. QED  BY <2>4, <4>1, <4>2 DEF Covered
    <3>6. /\ DiscoveryCalm' /\ DubCalm' /\ SingleCalm' /\ QuickfindCalm' /\ BranchCalm'
      BY <1>1, <1>4, <1>5, <3>1 DEF DiscoveryCalm, DubCalm, SingleCalm, QuickfindCalm, BranchCalm
    <3>7. QED  BY <1>4, <3>1, <3>3, <3>5, <3>6 DEF Calm, SearchCalm
  <2>8. QED  BY <2>6, <2>7
<1>10. QED  BY <1>7, <1>8, <1>9 DEF Keeps

\* The steps of kUnmute and kMute leave the rest of the state machine alone.
LEMMA SearchKept ==
  ASSUME CInv, NEW t, t.state = sm.state, t.saved_state = sm.saved_state,
         t.stack = sm.stack, t.range = sm.range, t.do_incremental = sm.do_incremental,
         t.discovery = sm.discovery, t.discovery_single_device = sm.discovery_single_device,
         t.quick_find = sm.quick_find, t.quick_find_discovery = sm.quick_find_discovery
  PROVE  At(t) = At(sm) /\ Depth(t) /\ (At(t) # "kIdle" => Tidy(t))
<1>1. At(t) = At(sm) /\ (Hand(t) <=> Hand(sm))
  BY DEF At, Hand
<1>2. Depth(t)
  BY <1>1, Given, DepthKept
<1>3. At(t) # "kIdle" => Tidy(t)
  BY <1>1, Given DEF Tidy, Quiet
<1>4. QED  BY <1>1, <1>2, <1>3

LEMMA UnmuteSendKeeps ==
  ASSUME CInv, UnmuteSend PROVE Keeps
<1>1. /\ sm.state = "kUnmute" /\ At(sm) = "kUnmute" /\ ~ sm.unmute.is_command_running
      /\ sm.unmute.counter # 0 /\ sm' = [sm EXCEPT !.unmute.is_command_running = TRUE]
      /\ Transmit(UnMuteAllMsg) /\ UNCHANGED <<tod, env>>
      /\ sm.unmute.counter \in Nat
  BY Given DEF UnmuteSend, At, SmType, Counter
<1>2. /\ sm'.unmute.is_command_running /\ sm'.unmute.counter = sm.unmute.counter
      /\ sm'.tod_entries = sm.tod_entries /\ sm'.mute = sm.mute
      /\ sm'.state = sm.state /\ sm'.saved_state = sm.saved_state
      /\ sm'.stack = sm.stack /\ sm'.range = sm.range /\ sm'.do_incremental = sm.do_incremental
      /\ sm'.discovery = sm.discovery /\ sm'.discovery_single_device = sm.discovery_single_device
      /\ sm'.quick_find = sm.quick_find /\ sm'.quick_find_discovery = sm.quick_find_discovery
  BY <1>1, Given DEF SmType, Counter
<1>3. At(sm') = At(sm) /\ Depth(sm') /\ (At(sm') # "kIdle" => Tidy(sm'))
  BY <1>2, SearchKept
<1>4. ASSUME Undisturbed' PROVE Calm'
  <2>1. {noise', delayed'} \subseteq Nat /\ noise <= noise' /\ delayed <= delayed'
    BY <1>1, Given, TransmitFrames DEF UnMuteAllMsg
  <2>2. Undisturbed
    BY <1>1, <1>2, <1>4, <2>1, Given, StaysDisturbed
  <2>3. UnmuteCalm
    BY <1>1, <2>2, Given DEF Calm
  <2>4. \/ muted' = {} /\ noise' = noise
        \/ muted' \in {muted, {}} /\ noise' = noise + 1
    BY <1>1, Given, UnmuteSent
  <2>5. noise \in Nat /\ kUnmuteCounter \in Nat
    BY Given, Ghosts, Members
  <2>6. muted' = {} \/ kUnmuteCounter - sm.unmute.counter + 1 <= noise'
    BY <1>1, <2>3, <2>4, <2>5 DEF UnmuteCalm
  <2>7. UnmuteCalm'
    BY <1>1, <1>2, <2>3, <2>6 DEF UnmuteCalm
  <2>8. QED  BY <1>1, <1>3, <2>7 DEF Calm
<1>5. QED  BY <1>3, <1>4 DEF Keeps

LEMMA UnmuteTimeOutKeeps ==
  ASSUME CInv, UnmuteTimeOut PROVE Keeps
<1>1. /\ sm.state = "kUnmute" /\ At(sm) = "kUnmute" /\ sm.unmute.is_command_running
      /\ sm.unmute.counter # 0 /\ sm' = [sm EXCEPT !.unmute = NotRunning(@.counter - 1)]
      /\ Receive(line) /\ UNCHANGED <<tod, env>>
      /\ sm.unmute.counter \in Nat /\ sm.unmute.counter - 1 \in Nat
  BY Given DEF UnmuteTimeOut, At, SmType, Counter
<1>2. /\ ~ sm'.unmute.is_command_running /\ sm'.unmute.counter = sm.unmute.counter - 1
      /\ sm'.tod_entries = sm.tod_entries /\ sm'.mute = sm.mute
      /\ sm'.state = sm.state /\ sm'.saved_state = sm.saved_state
      /\ sm'.stack = sm.stack /\ sm'.range = sm.range /\ sm'.do_incremental = sm.do_incremental
      /\ sm'.discovery = sm.discovery /\ sm'.discovery_single_device = sm.discovery_single_device
      /\ sm'.quick_find = sm.quick_find /\ sm'.quick_find_discovery = sm.quick_find_discovery
  BY <1>1, Given, Counts DEF SmType, Counter
<1>3. At(sm') = At(sm) /\ Depth(sm') /\ (At(sm') # "kIdle" => Tidy(sm'))
  BY <1>2, SearchKept
<1>4. ASSUME Undisturbed' PROVE Calm'
  <2>1. /\ {noise', delayed'} \subseteq Nat /\ noise <= noise' /\ delayed <= delayed'
        /\ UNCHANGED <<muted, late, noise, delayed>>
    BY <1>1, Given, ReceiveFrames
  <2>2. Undisturbed
    BY <1>1, <1>2, <1>4, <2>1, Given, StaysDisturbed
  <2>3. UnmuteCalm
    BY <1>1, <2>2, Given DEF Calm
  <2>4. noise \in Nat /\ kUnmuteCounter \in Nat
    BY Given, Ghosts, Members
  <2>5. muted' = {} \/ kUnmuteCounter - sm'.unmute.counter <= noise'
    BY <1>1, <1>2, <2>1, <2>3, <2>4 DEF UnmuteCalm
  <2>6. UnmuteCalm'
    <3>1. kUnmuteCounter - sm'.unmute.counter + 0 = kUnmuteCounter - sm'.unmute.counter
      BY <1>1, <1>2, <2>4
    <3>2. QED  BY <1>1, <1>2, <2>3, <2>5, <3>1 DEF UnmuteCalm
  <2>7. QED  BY <1>1, <1>3, <2>6 DEF Calm
<1>5. QED  BY <1>3, <1>4 DEF Keeps

LEMMA MuteDoneKeeps ==
  ASSUME CInv, MuteDone PROVE Keeps
<1> DEFINE s == [sm EXCEPT !.mute.is_command_running = FALSE]
<1>1. /\ s \in SmType /\ At(sm) = "kMute" /\ ~ sm.discovery.is_command_running
      /\ s.stack = sm.stack /\ s.range = sm.range /\ s.do_incremental = sm.do_incremental
      /\ s.discovery = sm.discovery /\ s.discovery_single_device = sm.discovery_single_device
      /\ s.quick_find = sm.quick_find /\ s.quick_find_discovery = sm.quick_find_discovery
  BY Given, Members DEF MuteDone, SmType, Counter, At
<1>2. sm' = NewState(s, "kDiscovery", FALSE) /\ UNCHANGED <<tod, bus, env>> /\ sm.tod_entries = 0
  BY DEF MuteDone
<1>3. "kDiscovery" \in States \ {"kLateResponse"}
  BY DEF States
<1> HIDE DEF s
<1>4. At(sm') = "kDiscovery" /\ sm'.state = "kDiscovery" /\ SameMembers(sm', s)
  BY <1>1, <1>2, <1>3, NewStateKeeps
<1>5. /\ sm'.stack = sm.stack /\ sm'.range = sm.range /\ sm'.do_incremental = sm.do_incremental
      /\ sm'.discovery = sm.discovery /\ sm'.discovery_single_device = sm.discovery_single_device
      /\ sm'.quick_find = sm.quick_find /\ sm'.quick_find_discovery = sm.quick_find_discovery
  BY <1>1, <1>4 DEF SameMembers
<1>6. Tidy(sm)
  BY <1>1, Given
<1>7. Depth(sm')
  BY <1>1, <1>4, <1>5, Given, DepthKept DEF Hand, Unclaimed
<1>8. Tidy(sm')
  BY <1>1, <1>4, <1>5, <1>6 DEF Tidy
<1>9. ASSUME Undisturbed' PROVE Calm'
  <2>1. Undisturbed
    BY <1>2, <1>5, <1>9, Given, Ghosts, StaysDisturbed DEF bus
  <2>2. MuteCalm
    BY <1>1, <2>1, Given DEF Calm
  <2>3. tod' = tod /\ muted' = muted /\ devices' = devices
    BY <1>2 DEF bus, env
  <2>4. Listed(tod) \subseteq muted /\ muted \subseteq Listed(tod)
    BY <1>2, <2>2 DEF MuteCalm, Listed
  <2>5. Agreed'
    BY <2>3, <2>4 DEF Agreed
  <2>6. Covered'
    <3>1. sm'.stack = <<Everyone>>
      BY <1>1, <1>5, <1>6 DEF Tidy
    <3>2. \A u \in devices : Within(u, sm'.stack[1])
      BY <3>1, Given, Bounds DEF Within, Everyone, Uids
    <3>3. 1 \in 1 .. Len(sm'.stack)
      BY <3>1
    <3>4. QED  BY <2>3, <3>2, <3>3 DEF Covered
  <2>7. DiscoveryCalm' /\ DubCalm' /\ SingleCalm' /\ QuickfindCalm' /\ BranchCalm'
    BY <1>1, <1>4, <1>5 DEF DiscoveryCalm, DubCalm, SingleCalm, QuickfindCalm, BranchCalm
  <2>8. QED  BY <1>4, <2>5, <2>6, <2>7 DEF Calm, SearchCalm
<1>10. QED  BY <1>7, <1>8, <1>9 DEF Keeps

\* A device that is asked and does not answer in any of the tries is gone.
LEMMA MuteGoneKeeps ==
  ASSUME CInv, MuteGone
  PROVE  /\ Keeps
         /\ Undisturbed' => /\ sm.mute_uid \in Listed(tod) \ devices
                            /\ Listed(tod') = Listed(tod) \ {sm.mute_uid}
<1>1. /\ sm.state = "kMute" /\ At(sm) = "kMute" /\ sm.tod_entries # 0 /\ sm.mute.counter = 0
      /\ sm' = [sm EXCEPT !.mute = NotRunning(kMuteCounter), !.tod_entries = @ - 1]
      /\ tod' = TodDelete(tod, sm.mute_uid) /\ UNCHANGED <<bus, env>>
      /\ sm.tod_entries \in Nat
  BY Given DEF MuteGone, At, SmType
<1>2. /\ sm'.mute = NotRunning(kMuteCounter) /\ sm'.tod_entries = sm.tod_entries - 1
      /\ sm'.mute_uid = sm.mute_uid
      /\ sm'.state = sm.state /\ sm'.saved_state = sm.saved_state
      /\ sm'.stack = sm.stack /\ sm'.range = sm.range /\ sm'.do_incremental = sm.do_incremental
      /\ sm'.discovery = sm.discovery /\ sm'.discovery_single_device = sm.discovery_single_device
      /\ sm'.quick_find = sm.quick_find /\ sm'.quick_find_discovery = sm.quick_find_discovery
  BY <1>1, Given DEF SmType
<1>3. At(sm') = At(sm) /\ Depth(sm') /\ (At(sm') # "kIdle" => Tidy(sm'))
  BY <1>2, SearchKept
<1>4. ASSUME Undisturbed'
      PROVE  /\ Calm' /\ sm.mute_uid \in Listed(tod) \ devices
             /\ Listed(tod') = Listed(tod) \ {sm.mute_uid}
  <2>1. Undisturbed
    BY <1>1, <1>2, <1>4, Given, Ghosts, StaysDisturbed DEF bus
  <2>2. MuteCalm
    BY <1>1, <2>1, Given DEF Calm
  <2>3. /\ devices' = devices /\ muted' = muted /\ line' = line /\ late' = late
        /\ noise' = noise /\ delayed' = delayed
    BY <1>1 DEF bus, env
  <2>4. /\ sm.mute.is_command_running /\ sm.tod_entries <= tod.entries
        /\ sm.mute_uid = tod.tod[sm.tod_entries - 1]
    BY <1>1, <2>2 DEF MuteCalm
  <2>5. sm.mute_uid \notin devices
    <3>1. SUFFICES ASSUME sm.mute_uid \in devices PROVE FALSE
      OBVIOUS
    <3>2. Left(sm.mute, kMuteCounter)
      BY <2>2, <3>1 DEF MuteCalm
    <3>3. QED  BY <1>1, <2>1, <3>2, Given, UndisturbedFacts DEF Left
  <2> DEFINE e == sm.tod_entries - 1
             n == tod.entries
  <2>6. n \in Nat /\ e \in 0 .. n - 1
    BY <1>1, <2>4, Given, CellFacts
  <2>7. /\ tod'.entries = n - 1
        /\ \A i \in e .. n - 2 : tod'.tod[i] = tod.tod[i + 1]
        /\ Listed(tod') = Listed(tod) \ {sm.mute_uid}
    BY <1>1, <2>4, <2>6, Given, DeleteShifts
  <2>8. sm'.tod_entries <= tod'.entries
    BY <1>1, <1>2, <2>6, <2>7
  <2>9. \A i \in sm'.tod_entries .. tod'.entries - 1 : tod'.tod[i] \in muted'
    <3>1. ASSUME NEW i \in e .. n - 2 PROVE tod'.tod[i] \in muted
      <4>1. i + 1 \in sm.tod_entries .. n - 1
        BY <1>1, <2>6
      <4>2. QED  BY <2>2, <2>7, <4>1 DEF MuteCalm
    <3>2. sm'.tod_entries = e /\ tod'.entries - 1 = n - 2
      BY <1>2, <2>6, <2>7
    <3>3. QED  BY <2>3, <3>1, <3>2
  <2>10. muted' \subseteq Listed(tod')
    BY <2>2, <2>3, <2>5, <2>7, Given DEF MuteCalm
  <2>11. ~ sm'.mute.is_command_running /\ sm'.mute.counter = kMuteCounter /\ kMuteCounter \in Nat \ {0}
    BY <1>2, Counts, Given, Members
  <2>12. Left(sm.mute, kMuteCounter)'
    BY <2>3, <2>11, Given, Ghosts DEF Left, Lost
  <2>13. MuteCalm'
    BY <2>8, <2>9, <2>10, <2>11, <2>12 DEF MuteCalm
  <2>14. sm.mute_uid \in Listed(tod)
    BY <2>4, <2>6 DEF Listed
  <2>15. QED  BY <1>1, <1>3, <2>5, <2>7, <2>13, <2>14 DEF Calm
<1>5. QED  BY <1>3, <1>4 DEF Keeps

LEMMA MuteSendKeeps ==
  ASSUME CInv, MuteSend PROVE Keeps
<1>1. PICK uid : uid = TodCopyUidEntry(tod, sm.tod_entries - 1)
  OBVIOUS
<1>2. /\ sm.state = "kMute" /\ At(sm) = "kMute" /\ sm.tod_entries # 0 /\ sm.mute.counter # 0
      /\ ~ sm.mute.is_command_running
      /\ sm' = [sm EXCEPT !.mute.is_command_running = TRUE, !.mute_uid = uid]
      /\ Transmit(MuteMsg(uid)) /\ UNCHANGED <<tod, env>>
      /\ sm.tod_entries \in Nat /\ sm.mute.counter \in Nat
  BY <1>1, Given DEF MuteSend, At, SmType, Counter
<1>3. /\ sm'.mute.is_command_running /\ sm'.mute.counter = sm.mute.counter
      /\ sm'.mute_uid = uid /\ sm'.tod_entries = sm.tod_entries
      /\ sm'.state = sm.state /\ sm'.saved_state = sm.saved_state
      /\ sm'.stack = sm.stack /\ sm'.range = sm.range /\ sm'.do_incremental = sm.do_incremental
      /\ sm'.discovery = sm.discovery /\ sm'.discovery_single_device = sm.discovery_single_device
      /\ sm'.quick_find = sm.quick_find /\ sm'.quick_find_discovery = sm.quick_find_discovery
  BY <1>2, Given DEF SmType, Counter
<1>4. At(sm') = At(sm) /\ Depth(sm') /\ (At(sm') # "kIdle" => Tidy(sm'))
  BY <1>3, SearchKept
<1>5. ASSUME Undisturbed' PROVE Calm'
  <2>1. {noise', delayed'} \subseteq Nat /\ noise <= noise' /\ delayed <= delayed'
    BY <1>2, Given, TransmitFrames DEF MuteMsg
  <2>2. Undisturbed
    BY <1>2, <1>3, <1>5, <2>1, Given, StaysDisturbed
  <2>3. MuteCalm
    BY <1>2, <2>2, Given DEF Calm
  <2>4. tod' = tod /\ devices' = devices
    BY <1>2 DEF env
  <2>5. sm.tod_entries <= tod.entries /\ tod.entries \in Nat
    BY <2>3, Given, CellFacts DEF MuteCalm
  <2>6. sm.tod_entries - 1 \in 0 .. tod.entries - 1
    BY <1>2, <2>5
  <2>7. uid = tod.tod[sm.tod_entries - 1] /\ uid \in Listed(tod)
    <3>1. ~ (sm.tod_entries - 1 > tod.entries)
      BY <1>2, <2>5
    <3>2. QED  BY <1>1, <2>6, <3>1 DEF TodCopyUidEntry, Listed
  <2>8. uid \in Uids
    BY <2>7, Given DEF TodIsSet
  <2>9. /\ muted \subseteq muted' /\ muted' \subseteq muted \cup ({uid} \cap devices)
        /\ Lost' >= Lost /\ {Lost'} \subseteq Nat
        /\ uid \in devices /\ line' = NoFrame => Lost' >= Lost + 1
        /\ noise' = 0 \/ delayed' = 0 => MuteSent(uid)'
    BY <1>2, <2>8, Given, MuteSends
  <2>10. MuteSent(sm.mute_uid)'
    BY <1>3, <1>5, <2>9 DEF MuteSent, Undisturbed
  <2>11. muted' \subseteq Listed(tod)
    BY <2>3, <2>7, <2>9 DEF MuteCalm
  <2>12. Left(sm.mute, kMuteCounter)
    BY <1>2, <2>3 DEF MuteCalm
  <2>13. uid \in devices => Left(sm.mute, kMuteCounter)'
    <3>1. Lost \in Nat /\ kMuteCounter \in Nat
      BY Given, Ghosts, Members
    <3>2. sm.mute.counter + Lost >= kMuteCounter
      BY <1>2, <2>12, <3>1 DEF Left
    <3>3. QED  BY <1>2, <1>3, <2>9, <3>1, <3>2 DEF Left
  <2>14. MuteCalm'
    BY <1>2, <1>3, <2>3, <2>4, <2>7, <2>9, <2>10, <2>11, <2>13 DEF MuteCalm
  <2>15. QED  BY <1>2, <1>4, <2>14 DEF Calm
<1>6. QED  BY <1>4, <1>5 DEF Keeps

LEMMA MuteAnsweredKeeps ==
  ASSUME CInv, MuteAnswered PROVE Keeps
<1>1. /\ sm.state = "kMute" /\ At(sm) = "kMute" /\ sm.tod_entries # 0 /\ sm.mute.counter # 0
      /\ sm.mute.is_command_running /\ line # NoFrame /\ Receive(line)
      /\ sm' = [sm EXCEPT !.mute.is_command_running = FALSE, !.tod_entries = @ - 1]
      /\ UNCHANGED <<tod, env>>
      /\ sm.tod_entries \in Nat /\ sm.mute.counter \in Nat
  BY Given DEF MuteAnswered, At, SmType, Counter
<1>2. /\ ~ sm'.mute.is_command_running /\ sm'.mute.counter = sm.mute.counter
      /\ sm'.tod_entries = sm.tod_entries - 1
      /\ sm'.state = sm.state /\ sm'.saved_state = sm.saved_state
      /\ sm'.stack = sm.stack /\ sm'.range = sm.range /\ sm'.do_incremental = sm.do_incremental
      /\ sm'.discovery = sm.discovery /\ sm'.discovery_single_device = sm.discovery_single_device
      /\ sm'.quick_find = sm.quick_find /\ sm'.quick_find_discovery = sm.quick_find_discovery
  BY <1>1, Given DEF SmType, Counter
<1>3. At(sm') = At(sm) /\ Depth(sm') /\ (At(sm') # "kIdle" => Tidy(sm'))
  BY <1>2, SearchKept
<1>4. ASSUME Undisturbed' PROVE Calm'
  <2>1. /\ {noise', delayed'} \subseteq Nat /\ noise <= noise' /\ delayed <= delayed'
        /\ UNCHANGED <<muted, late, noise, delayed>> /\ Lost' = Lost
    BY <1>1, Given, ReceiveFrames
  <2>2. Undisturbed
    BY <1>1, <1>2, <1>4, <2>1, Given, StaysDisturbed
  <2>3. MuteCalm
    BY <1>1, <2>2, Given DEF Calm
  <2>4. tod' = tod /\ devices' = devices
    BY <1>1 DEF env
  <2>5. delayed = 0
    BY <1>1, <2>2, Given, UndisturbedFacts DEF Tidy
  <2>6. sm.mute_uid \in devices
    BY <1>1, <2>3, <2>5 DEF MuteCalm, MuteSent
  <2>7. sm.mute_uid \in muted
    BY <1>1, <2>3, <2>6 DEF MuteCalm, MuteSent
  <2>8. Left(sm.mute, kMuteCounter)
    BY <2>3, <2>6 DEF MuteCalm
  <2>9. Left(sm.mute, kMuteCounter)'
    <3>1. Lost \in Nat /\ kMuteCounter \in Nat
      BY Given, Ghosts, Members
    <3>2. QED  BY <1>1, <1>2, <2>1, <2>8, <3>1 DEF Left
  <2>10. tod.entries \in Nat /\ sm.tod_entries <= tod.entries
    BY <2>3, Given, CellFacts DEF MuteCalm
  <2>11. \A i \in sm.tod_entries - 1 .. tod.entries - 1 :
           i = sm.tod_entries - 1 \/ i \in sm.tod_entries .. tod.entries - 1
    BY <1>1, <2>10
  <2>12. \A i \in sm'.tod_entries .. tod'.entries - 1 : tod'.tod[i] \in muted'
    BY <1>1, <1>2, <2>1, <2>3, <2>4, <2>7, <2>11 DEF MuteCalm
  <2>13. sm'.tod_entries <= tod'.entries
    BY <1>1, <1>2, <2>4, <2>10
  <2>14. MuteCalm'
    BY <1>1, <1>2, <2>1, <2>3, <2>4, <2>9, <2>12, <2>13 DEF MuteCalm
  <2>15. QED  BY <1>1, <1>3, <2>14 DEF Calm
<1>5. QED  BY <1>3, <1>4 DEF Keeps

LEMMA MuteTimeOutKeeps ==
  ASSUME CInv, MuteTimeOut PROVE Keeps
<1>1. PICK uid : uid = sm.mute_uid
  OBVIOUS
<1>2. /\ sm.state = "kMute" /\ At(sm) = "kMute" /\ sm.tod_entries # 0 /\ sm.mute.counter # 0
      /\ sm.mute.is_command_running /\ line = NoFrame
      /\ sm' = [sm EXCEPT !.mute.counter = @ - 1]
      /\ Transmit(MuteMsg(uid)) /\ UNCHANGED <<tod, env>>
      /\ sm.tod_entries \in Nat /\ sm.mute.counter \in Nat
  BY <1>1, Given DEF MuteTimeOut, TimedOut, At, SmType, Counter
<1>3. /\ sm'.mute.is_command_running /\ sm'.mute.counter = sm.mute.counter - 1
      /\ sm'.mute_uid = uid /\ sm'.tod_entries = sm.tod_entries
      /\ sm'.state = sm.state /\ sm'.saved_state = sm.saved_state
      /\ sm'.stack = sm.stack /\ sm'.range = sm.range /\ sm'.do_incremental = sm.do_incremental
      /\ sm'.discovery = sm.discovery /\ sm'.discovery_single_device = sm.discovery_single_device
      /\ sm'.quick_find = sm.quick_find /\ sm'.quick_find_discovery = sm.quick_find_discovery
  BY <1>1, <1>2, Given DEF SmType, Counter
<1>4. At(sm') = At(sm) /\ Depth(sm') /\ (At(sm') # "kIdle" => Tidy(sm'))
  BY <1>3, SearchKept
<1>5. ASSUME Undisturbed' PROVE Calm'
  <2>1. {noise', delayed'} \subseteq Nat /\ noise <= noise' /\ delayed <= delayed'
    BY <1>2, Given, TransmitFrames DEF MuteMsg
  <2>2. Undisturbed
    BY <1>2, <1>3, <1>5, <2>1, Given, StaysDisturbed
  <2>3. MuteCalm
    BY <1>2, <2>2, Given DEF Calm
  <2>4. tod' = tod /\ devices' = devices
    BY <1>2 DEF env
  <2>5. sm.tod_entries - 1 \in 0 .. tod.entries - 1
    BY <1>2, <2>3, Given, CellFacts DEF MuteCalm
  <2>6. uid = tod.tod[sm.tod_entries - 1] /\ uid \in Listed(tod)
    BY <1>1, <1>2, <2>3, <2>5 DEF MuteCalm, Listed
  <2>7. uid \in Uids
    BY <2>6, Given DEF TodIsSet
  <2>8. /\ muted \subseteq muted' /\ muted' \subseteq muted \cup ({uid} \cap devices)
        /\ Lost' >= Lost /\ {Lost'} \subseteq Nat
        /\ uid \in devices /\ line' = NoFrame => Lost' >= Lost + 1
        /\ noise' = 0 \/ delayed' = 0 => MuteSent(uid)'
    BY <1>2, <2>7, Given, MuteSends
  <2>9. MuteSent(sm.mute_uid)'
    BY <1>3, <1>5, <2>8 DEF MuteSent, Undisturbed
  <2>10. muted' \subseteq Listed(tod)
    BY <2>3, <2>6, <2>8 DEF MuteCalm
  <2>11. uid \in devices => Left(sm.mute, kMuteCounter)'
    <3>1. Lost \in Nat /\ kMuteCounter \in Nat
      BY Given, Ghosts, Members
    <3>2. uid \in devices => sm.mute.counter + Lost >= kMuteCounter + 1
      BY <1>1, <1>2, <2>3, <3>1 DEF Left, MuteCalm
    <3>3. QED  BY <1>2, <1>3, <2>8, <3>1, <3>2 DEF Left
  <2>12. MuteCalm'
    BY <1>2, <1>3, <2>3, <2>4, <2>6, <2>8, <2>9, <2>10, <2>11 DEF MuteCalm
  <2>13. QED  BY <1>2, <1>4, <2>12 DEF Calm
<1>6. QED  BY <1>4, <1>5 DEF Keeps

-----------------------------------------------------------------------------
(* The steps of the search.  A step that sends nothing leaves the line as it *)
(* is; in the states of the search, an undisturbed discovery is SearchCalm.  *)

SearchStates == States \ {"kIdle", "kUnmute", "kMute", "kLateResponse"}

LEMMA SearchIsCalm ==
  /\ At(sm) \in SearchStates => (Calm <=> SearchCalm)
  /\ At(sm') \in SearchStates => (Calm' <=> SearchCalm')
BY DEF Calm, SearchStates, States

\* A step of the search from a calm state.
LEMMA CalmBefore ==
  ASSUME CInv, At(sm) \in SearchStates, UNCHANGED env, {noise', delayed'} \subseteq Nat,
         noise <= noise', delayed <= delayed',
         sm'.do_incremental = sm.do_incremental, Undisturbed'
  PROVE  Undisturbed /\ SearchCalm
<1>1. Undisturbed
  BY Given, StaysDisturbed
<1>2. QED  BY <1>1, Given, SearchIsCalm

LEMMA QuietStep ==
  ASSUME CInv, At(sm) \in SearchStates, UNCHANGED <<bus, env>>,
         sm'.do_incremental = sm.do_incremental, Undisturbed'
  PROVE  /\ Undisturbed /\ SearchCalm
         /\ devices' = devices /\ muted' = muted /\ line' = line /\ late' = late
         /\ noise' = noise /\ delayed' = delayed /\ Lost' = Lost
<1>1. /\ devices' = devices /\ muted' = muted /\ line' = line /\ late' = late
      /\ noise' = noise /\ delayed' = delayed
  BY DEF bus, env
<1>2. noise \in Nat /\ delayed \in Nat
  BY Given, Ghosts
<1>3. Undisturbed /\ SearchCalm
  BY <1>1, <1>2, CalmBefore
<1>4. QED  BY <1>1, <1>3 DEF Lost

LEMMA ReceiveStep ==
  ASSUME CInv, At(sm) \in SearchStates, UNCHANGED env, NEW frame, Receive(frame),
         sm'.do_incremental = sm.do_incremental, Undisturbed'
  PROVE  /\ Undisturbed /\ SearchCalm
         /\ devices' = devices /\ muted' = muted /\ late' = late
         /\ noise' = noise /\ delayed' = delayed /\ Lost' = Lost
<1>1. devices' = devices
  BY DEF env
<1>2. /\ {noise', delayed'} \subseteq Nat /\ noise <= noise' /\ delayed <= delayed'
      /\ UNCHANGED <<muted, late, noise, delayed>> /\ Lost' = Lost
  BY Given, ReceiveFrames
<1>3. QED  BY <1>1, <1>2, CalmBefore

LEMMA SendStep ==
  ASSUME CInv, At(sm) \in SearchStates, UNCHANGED env, NEW m, Transmit(m),
         m.pid \in {"DISC_UN_MUTE", "DISC_MUTE", "DISC_UNIQUE_BRANCH"},
         sm'.do_incremental = sm.do_incremental, Undisturbed'
  PROVE  Undisturbed /\ SearchCalm /\ devices' = devices /\ (noise' = 0 \/ delayed' = 0)
<1>1. {noise', delayed'} \subseteq Nat /\ noise <= noise' /\ delayed <= delayed'
  BY Given, TransmitFrames
<1>2. devices' = devices /\ (noise' = 0 \/ delayed' = 0)
  BY DEF env, Undisturbed
<1>3. QED  BY <1>1, <1>2, CalmBefore

\* What SmType says of the members the proofs count with.
LEMMA CounterTypes ==
  ASSUME CInv
  PROVE  /\ sm.discovery.counter \in Nat /\ sm.discovery_single_device.counter \in Nat
         /\ sm.quick_find.counter \in Nat /\ sm.quick_find_discovery.counter \in Nat
         /\ sm.stack \in Seq(Branch) /\ sm.range \in Branch
         /\ sm.range.lower_bound \in Uids /\ sm.range.upper_bound \in Uids
         /\ sm.quick_find_uid \in Uids /\ Uids \subseteq Nat
BY Given DEF SmType, Counter, Branch, Uids

\* Outside its own state no request of the search runs.
LEMMA AtRest ==
  ASSUME CInv, At(sm) # "kIdle"
  PROVE  /\ At(sm) # "kDiscovery" => ~ sm.discovery.is_command_running
         /\ At(sm) # "kDiscoverySingleDevice" =>
              ~ sm.discovery_single_device.is_command_running
         /\ At(sm) # "kQuickfind" => ~ sm.quick_find.is_command_running
         /\ At(sm) # "kQuickfindDiscovery" => ~ sm.quick_find_discovery.is_command_running
<1>1. Tidy(sm) /\ {kMuteCounter, kQuikfindDiscoveryCounter} \subseteq Nat
  BY Given, Members
<1>2. \A n \in {kMuteCounter, kQuikfindDiscoveryCounter} : ~ NotRunning(n).is_command_running
  BY <1>1, Counts
<1>3. QED  BY <1>1, <1>2, Given, Members DEF Tidy

\* A step that stays in its state of the search.
LEMMA StaySearching ==
  ASSUME CInv, At(sm) \in SearchStates, sm'.state = sm.state, sm'.saved_state = sm.saved_state,
         sm.state # "kLateResponse", sm'.stack = sm.stack, sm'.range = sm.range,
         Hand(sm') => Hand(sm),
         At(sm) # "kQuickfindDiscovery" => sm'.quick_find_discovery = sm.quick_find_discovery,
         At(sm) # "kDiscoverySingleDevice" =>
           sm'.discovery_single_device = sm.discovery_single_device,
         At(sm) # "kQuickfind" => sm'.quick_find = sm.quick_find
  PROVE  At(sm') = At(sm) /\ Depth(sm)' /\ Tidy(sm)'
<1>1. At(sm') = At(sm) /\ Tidy(sm)
  BY Given DEF At, SearchStates
<1>2. Depth(sm')
  BY Given, DepthKept
<1>3. Tidy(sm')
  BY <1>1 DEF Tidy, SearchStates
<1>4. QED  BY <1>1, <1>2, <1>3

LEMMA LateResponseKeeps ==
  ASSUME CInv, LateResponse PROVE Keeps
<1>1. PICK frame : Receive(frame)
  BY DEF LateResponse
<1>2. /\ sm.state = "kLateResponse" /\ sm' = [sm EXCEPT !.state = sm.saved_state]
      /\ UNCHANGED <<tod, env>> /\ sm.saved_state # "kLateResponse" /\ At(sm) = sm.saved_state
      /\ sm.saved_state \in States
  BY Given, Members DEF LateResponse, At, SmType
<1>3. /\ sm'.state = sm.saved_state /\ sm'.saved_state = sm.saved_state /\ SameMembers(sm', sm)
  BY <1>2, Given DEF SmType, SameMembers
<1>4. At(sm') = At(sm) /\ (Hand(sm') <=> Hand(sm))
  BY <1>2, <1>3 DEF At, Hand, SameMembers
<1>5. Depth(sm')
  BY <1>3, <1>4, Given, DepthKept DEF SameMembers
<1>6. At(sm') # "kIdle" => Tidy(sm')
  BY <1>2, <1>3, <1>4, Given DEF Tidy, SameMembers
<1>7. ASSUME Undisturbed', At(sm) # "kIdle" PROVE Calm'
  <2>1. Tidy(sm) /\ Quiet(sm) /\ At(sm) \in SearchStates
    BY <1>2, <1>7, Given DEF Tidy, SearchStates
  <2>2. /\ Undisturbed /\ SearchCalm
        /\ devices' = devices /\ muted' = muted /\ late' = late
        /\ noise' = noise /\ delayed' = delayed /\ Lost' = Lost /\ tod' = tod
    BY <1>1, <1>2, <1>3, <1>7, <2>1, ReceiveStep DEF SameMembers
  <2>3. Agreed' /\ Covered'
    BY <1>3, <1>4, <2>2 DEF SearchCalm, Agreed, Covered, Pending, SameMembers
  <2>4. DiscoveryCalm' /\ DubCalm'
    BY <1>3, <1>4, <2>1, <2>2 DEF SearchCalm, DiscoveryCalm, DubCalm, Unmuted, SameMembers, Quiet
  <2>5. SingleCalm'
    BY <1>3, <1>4, <2>1, <2>2 DEF SearchCalm, SingleCalm, Left, SameMembers, Quiet
  <2>6. QuickfindCalm'
    BY <1>3, <1>4, <2>1, <2>2 DEF SearchCalm, QuickfindCalm, SameMembers, Quiet
  <2>7. BranchCalm'
    BY <1>3, <1>4, <2>1, <2>2 DEF SearchCalm, BranchCalm, Left, Unmuted, SameMembers, Quiet
  <2>8. QED  BY <1>4, <2>1, <2>3, <2>4, <2>5, <2>6, <2>7, SearchIsCalm DEF SearchCalm
<1>8. At(sm) = "kIdle" => Calm'
  BY <1>4 DEF Calm
<1>9. QED  BY <1>5, <1>6, <1>7, <1>8 DEF Keeps

-----------------------------------------------------------------------------
(* The steps of kDiscovery. *)

LEMMA DiscoveryReceiveKeeps ==
  ASSUME CInv, DiscoveryReceive PROVE Keeps
<1>1. PICK frame \in {line, NoFrame} :
        /\ Receive(frame)
        /\ frame # NoFrame \/ sm.discovery.counter = 0
        /\ sm' = NewState([sm EXCEPT !.discovery.is_command_running = FALSE,
                                     !.response = frame], "kDub", FALSE)
  BY DEF DiscoveryReceive
<1> DEFINE s == [sm EXCEPT !.discovery.is_command_running = FALSE, !.response = frame]
<1>2. sm' = NewState(s, "kDub", FALSE)
  BY <1>1
<1>3. /\ At(sm) = "kDiscovery" /\ sm.discovery.is_command_running /\ UNCHANGED <<tod, env>>
      /\ sm.state # "kLateResponse"
  BY DEF DiscoveryReceive, At
<1>4. /\ s \in SmType /\ s.response = frame
      /\ s.stack = sm.stack /\ s.range = sm.range /\ s.do_incremental = sm.do_incremental
      /\ s.discovery_single_device = sm.discovery_single_device
      /\ s.quick_find = sm.quick_find /\ s.quick_find_discovery = sm.quick_find_discovery
  BY Given, FrameFacts DEF SmType, Counter
<1>5. "kDub" \in States \ {"kLateResponse"} /\ At(sm) \in SearchStates
  BY <1>3 DEF States, SearchStates
<1> HIDE DEF s
<1>6. At(sm') = "kDub" /\ sm'.state = "kDub" /\ SameMembers(sm', s)
  BY <1>2, <1>4, <1>5, NewStateKeeps
<1>7. /\ sm'.response = frame
      /\ sm'.stack = sm.stack /\ sm'.range = sm.range /\ sm'.do_incremental = sm.do_incremental
      /\ sm'.discovery_single_device = sm.discovery_single_device
      /\ sm'.quick_find = sm.quick_find /\ sm'.quick_find_discovery = sm.quick_find_discovery
  BY <1>4, <1>6 DEF SameMembers
<1>8. Hand(sm) /\ Hand(sm')
  BY <1>3, <1>6 DEF Hand, Unclaimed
<1>9. Depth(sm') /\ Tidy(sm')
  <2>1. Depth(sm')
    BY <1>7, <1>8, Given, DepthKept
  <2>2. Tidy(sm')
    BY <1>3, <1>6, <1>7, Given DEF Tidy
  <2>3. QED  BY <2>1, <2>2
<1>10. ASSUME Undisturbed' PROVE Calm'
  <2>1. /\ Undisturbed /\ SearchCalm
        /\ devices' = devices /\ muted' = muted /\ late' = late
        /\ noise' = noise /\ delayed' = delayed /\ Lost' = Lost /\ tod' = tod
    BY <1>1, <1>3, <1>5, <1>7, <1>10, ReceiveStep
  <2>2. Agreed' /\ Covered'
    BY <1>3, <1>6, <1>7, <1>8, <2>1 DEF SearchCalm, Agreed, Covered, Pending
  <2>3. frame = NoFrame => Unmuted(sm.range) = {}
    <3>1. SUFFICES ASSUME frame = NoFrame, Unmuted(sm.range) # {} PROVE FALSE
      OBVIOUS
    <3>2. sm.discovery.counter = 0 /\ Left(sm.discovery, kDiscoveryCounter)
      BY <1>1, <1>3, <2>1, <3>1 DEF SearchCalm, DiscoveryCalm
    <3>3. QED  BY <2>1, <3>2, Given, UndisturbedFacts DEF Left
  <2>4. DubCalm'
    BY <1>7, <2>1, <2>3 DEF DubCalm, Unmuted
  <2>5. DiscoveryCalm' /\ SingleCalm' /\ QuickfindCalm' /\ BranchCalm'
    BY <1>6 DEF DiscoveryCalm, SingleCalm, QuickfindCalm, BranchCalm
  <2>6. QED  BY <1>5, <1>6, <2>2, <2>4, <2>5, SearchIsCalm DEF SearchCalm, SearchStates
<1>11. QED  BY <1>9, <1>10 DEF Keeps

LEMMA DiscoveryTimeOutKeeps ==
  ASSUME CInv, DiscoveryTimeOut PROVE Keeps
<1>1. PICK r : r = sm.range
  OBVIOUS
<1>2. /\ sm.state = "kDiscovery" /\ At(sm) = "kDiscovery" /\ sm.discovery.is_command_running
      /\ sm.discovery.counter # 0 /\ line = NoFrame /\ Transmit(BranchMsg(r))
      /\ sm' = [sm EXCEPT !.discovery.counter = @ - 1] /\ UNCHANGED <<tod, env>>
      /\ sm.discovery.counter \in Nat
  BY <1>1, CounterTypes DEF DiscoveryTimeOut, TimedOut, At
<1>3. /\ sm'.discovery.is_command_running /\ sm'.discovery.counter = sm.discovery.counter - 1
      /\ sm'.state = sm.state /\ sm'.saved_state = sm.saved_state
      /\ sm'.stack = sm.stack /\ sm'.range = r /\ sm'.do_incremental = sm.do_incremental
      /\ sm'.discovery_single_device = sm.discovery_single_device
      /\ sm'.quick_find = sm.quick_find /\ sm'.quick_find_discovery = sm.quick_find_discovery
  BY <1>1, <1>2, Given DEF SmType, Counter
<1>4. At(sm) \in SearchStates /\ Hand(sm)
  BY <1>2 DEF SearchStates, States, Hand
<1>5. At(sm') = At(sm) /\ Depth(sm)' /\ Tidy(sm)'
  BY <1>1, <1>2, <1>3, <1>4, StaySearching
<1>6. Hand(sm')
  BY <1>2, <1>3, <1>5 DEF Hand
<1>7. ASSUME Undisturbed' PROVE Calm'
  <2>1. Undisturbed /\ SearchCalm /\ devices' = devices /\ tod' = tod
    BY <1>2, <1>3, <1>4, <1>7, SendStep DEF BranchMsg
  <2>2. /\ muted' = muted /\ Lost' >= Lost /\ {Lost'} \subseteq Nat
        /\ Unmuted(r) # {} /\ line' = NoFrame => Lost' >= Lost + 1
    BY <1>2, Given, BranchSent
  <2>3. Agreed' /\ Covered'
    BY <1>1, <1>2, <1>3, <1>4, <1>5, <1>6, <2>1, <2>2 DEF SearchCalm, Agreed, Covered, Pending
  <2>4. ASSUME Unmuted(r) # {} PROVE Left(sm.discovery, kDiscoveryCounter)'
    <3>1. Lost \in Nat /\ kDiscoveryCounter \in Nat
      BY Given, Ghosts, Members
    <3>2. sm.discovery.counter + Lost >= kDiscoveryCounter + 1
      BY <1>1, <1>2, <2>1, <2>4, <3>1 DEF SearchCalm, DiscoveryCalm, Left
    <3>3. QED  BY <1>2, <1>3, <2>2, <2>4, <3>1, <3>2 DEF Left
  <2>5. DiscoveryCalm'
    BY <1>3, <2>1, <2>2, <2>4 DEF DiscoveryCalm, Unmuted
  <2>6. DubCalm' /\ SingleCalm' /\ QuickfindCalm' /\ BranchCalm'
    BY <1>2, <1>5 DEF DubCalm, SingleCalm, QuickfindCalm, BranchCalm
  <2>7. QED  BY <1>4, <1>5, <2>3, <2>5, <2>6, SearchIsCalm DEF SearchCalm
<1>8. QED  BY <1>5, <1>7 DEF Keeps

LEMMA DiscoveryEmptyKeeps ==
  ASSUME CInv, DiscoveryEmpty PROVE Keeps
<1>1. /\ At(sm) = "kDiscovery" /\ ~ sm.discovery.is_command_running /\ sm.stack = <<>>
      /\ sm' = NewState(sm, "kFinished", TRUE) /\ UNCHANGED <<tod, bus, env>>
      /\ "kFinished" \in States \ {"kLateResponse"} /\ At(sm) \in SearchStates
  BY DEF DiscoveryEmpty, At, States, SearchStates
<1>2. At(sm') = "kFinished" /\ SameMembers(sm', sm)
  BY <1>1, Given, NewStateKeeps
<1>3. ~ Hand(sm) /\ ~ Hand(sm')
  BY <1>1, <1>2 DEF Hand, Unclaimed
<1>4. Depth(sm')
  BY <1>2, <1>3, Given, DepthKept DEF SameMembers
<1>5. Tidy(sm')
  BY <1>1, <1>2, Given, AtRest DEF Tidy, Quiet, SameMembers
<1>6. ASSUME Undisturbed' PROVE Calm'
  <2>1. /\ Undisturbed /\ SearchCalm /\ tod' = tod
        /\ devices' = devices /\ muted' = muted
    BY <1>1, <1>2, <1>6, QuietStep DEF SameMembers
  <2>2. Agreed' /\ Covered'
    BY <1>1, <1>2, <1>3, <2>1 DEF SearchCalm, Agreed, Covered, Pending, SameMembers
  <2>3. DiscoveryCalm' /\ DubCalm' /\ SingleCalm' /\ QuickfindCalm' /\ BranchCalm'
    BY <1>2 DEF DiscoveryCalm, DubCalm, SingleCalm, QuickfindCalm, BranchCalm
  <2>4. QED  BY <1>1, <1>2, <2>2, <2>3, SearchIsCalm DEF SearchCalm, SearchStates
<1>7. QED  BY <1>4, <1>5, <1>6 DEF Keeps

\* What is popped from the stack is in hand.
LEMMA PopCovers ==
  ASSUME CInv, Covered, sm.stack # <<>>, ~ Hand(sm), tod' = tod, devices' = devices,
         sm'.stack = PopStack, sm'.range = Top, Hand(sm')
  PROVE  Covered'
<1>1. sm.stack \in Seq(Branch) /\ Len(sm.stack) \in Nat \ {0}
  BY CounterTypes
<1>2. /\ Len(PopStack) = Len(sm.stack) - 1
      /\ \A i \in 1 .. Len(PopStack) : PopStack[i] = sm.stack[i]
  BY <1>1 DEF PopStack
<1>3. \A i \in 1 .. Len(sm.stack) : i = Len(sm.stack) \/ i \in 1 .. Len(PopStack)
  BY <1>1, <1>2
<1>4. ASSUME NEW u \in devices \ Listed(tod)
      PROVE  (\E i \in 1 .. Len(PopStack) : Within(u, PopStack[i])) \/ Within(u, Top)
  <2>1. PICK i \in 1 .. Len(sm.stack) : Within(u, sm.stack[i])
    BY DEF Covered
  <2>2. QED  BY <1>2, <1>3, <2>1 DEF Top
<1>5. QED  BY <1>4 DEF Covered

LEMMA DiscoveryPopSingleKeeps ==
  ASSUME CInv, DiscoveryPopSingle PROVE Keeps
<1> DEFINE s == [sm EXCEPT !.stack = PopStack, !.range = Top,
                           !.quick_find_discovery.is_command_running = FALSE]
<1>1. /\ At(sm) = "kDiscovery" /\ ~ sm.discovery.is_command_running /\ sm.stack # <<>>
      /\ Top.lower_bound = Top.upper_bound
      /\ sm' = NewState(s, "kDiscoverySingleDevice", TRUE) /\ UNCHANGED <<tod, bus, env>>
      /\ "kDiscoverySingleDevice" \in States \ {"kLateResponse"} /\ At(sm) \in SearchStates
  BY DEF DiscoveryPopSingle, At, States, SearchStates
<1>2. PopStack \in Seq(Branch) /\ Top \in Branch
  BY <1>1, Given, PopAscends DEF Sound, Searching
<1>3. Tidy(sm)
  BY <1>1, Given
<1>rest. /\ sm.quick_find_discovery = NotRunning(kQuikfindDiscoveryCounter)
         /\ [sm.quick_find_discovery EXCEPT !.is_command_running = FALSE]
           = NotRunning(kQuikfindDiscoveryCounter)
  <2>1. sm.quick_find_discovery = NotRunning(kQuikfindDiscoveryCounter)
    BY <1>1, <1>3 DEF Tidy
  <2>2. /\ sm.quick_find_discovery \in [counter : Nat, is_command_running : BOOLEAN]
        /\ ~ sm.quick_find_discovery.is_command_running
    BY <1>1, Given, AtRest DEF SmType, Counter
  <2>3. [sm.quick_find_discovery EXCEPT !.is_command_running = FALSE] = sm.quick_find_discovery
    BY <2>2
  <2>4. QED  BY <2>1, <2>3
<1>4. /\ s \in SmType /\ s.stack = PopStack /\ s.range = Top
      /\ s.do_incremental = sm.do_incremental /\ s.discovery = sm.discovery
      /\ s.discovery_single_device = sm.discovery_single_device /\ s.quick_find = sm.quick_find
      /\ s.quick_find_discovery = NotRunning(kQuikfindDiscoveryCounter)
  BY <1>2, <1>rest, Given DEF SmType
<1> HIDE DEF s
<1>5. At(sm') = "kDiscoverySingleDevice" /\ SameMembers(sm', s)
  BY <1>1, <1>4, NewStateKeeps
<1>6. /\ sm'.stack = PopStack /\ sm'.range = Top
      /\ sm'.do_incremental = sm.do_incremental /\ sm'.discovery = sm.discovery
      /\ sm'.discovery_single_device = sm.discovery_single_device /\ sm'.quick_find = sm.quick_find
      /\ sm'.quick_find_discovery = NotRunning(kQuikfindDiscoveryCounter)
  BY <1>4, <1>5 DEF SameMembers
<1>7. sm.discovery_single_device \in {NotRunning(kMuteCounter), NotRunning(kQuikfindDiscoveryCounter)}
  BY <1>1, <1>3 DEF Tidy
<1>8. /\ kMuteCounter \in Nat /\ kQuikfindDiscoveryCounter \in Nat
      /\ ~ sm.discovery_single_device.is_command_running
  BY <1>7, Given, Members, Counts
<1>9. Depth(sm')
  BY <1>1, <1>6, Given, DepthPops
<1>10. Tidy(sm')
  BY <1>1, <1>3, <1>5, <1>6, <1>8, Counts DEF Tidy, Quiet
<1>11. ~ Hand(sm) /\ Hand(sm')
  BY <1>1, <1>5 DEF Hand, Unclaimed
<1>12. ASSUME Undisturbed' PROVE Calm'
  <2>1. /\ Undisturbed /\ SearchCalm /\ tod' = tod
        /\ devices' = devices /\ muted' = muted /\ Lost' = Lost
    BY <1>1, <1>6, <1>12, QuietStep
  <2>2. Agreed'
    BY <1>1, <2>1 DEF SearchCalm, Agreed, Pending
  <2>3. Covered'
    BY <1>1, <1>6, <1>11, <2>1, PopCovers DEF SearchCalm
  <2>4. SingleCalm'
    <3>1. Lost \in Nat
      BY Given, Ghosts
    <3>2. \E n \in {kMuteCounter, kQuikfindDiscoveryCounter} :
            n \in Nat /\ sm'.discovery_single_device = NotRunning(n)
      BY <1>6, <1>7, <1>8
    <3>3. \E n \in {kMuteCounter, kQuikfindDiscoveryCounter} :
            n \in Nat /\ sm'.discovery_single_device.counter = n
      BY <3>2, Counts
    <3>4. QED  BY <1>6, <1>8, <2>1, <3>1, <3>3 DEF SingleCalm, Left
  <2>5. DiscoveryCalm' /\ DubCalm' /\ QuickfindCalm' /\ BranchCalm'
    BY <1>5 DEF DiscoveryCalm, DubCalm, QuickfindCalm, BranchCalm
  <2>6. QED  BY <1>1, <1>5, <2>2, <2>3, <2>4, <2>5, SearchIsCalm DEF SearchCalm, SearchStates
<1>13. QED  BY <1>9, <1>10, <1>12 DEF Keeps

LEMMA DiscoveryPopBranchKeeps ==
  ASSUME CInv, DiscoveryPopBranch PROVE Keeps
<1>1. PICK r : r = Top
  OBVIOUS
<1>2. /\ sm.state = "kDiscovery" /\ At(sm) = "kDiscovery" /\ ~ sm.discovery.is_command_running
      /\ sm.stack # <<>> /\ Transmit(BranchMsg(r)) /\ UNCHANGED <<tod, env>>
      /\ sm' = [sm EXCEPT !.stack = PopStack, !.range = Top,
                          !.discovery = [counter |-> kDiscoveryCounter,
                                         is_command_running |-> TRUE]]
      /\ At(sm) \in SearchStates
  BY <1>1 DEF DiscoveryPopBranch, At, SearchStates, States
<1>3. /\ sm'.stack = PopStack /\ sm'.range = r /\ sm'.discovery.is_command_running
      /\ sm'.discovery.counter = kDiscoveryCounter
      /\ sm'.state = sm.state /\ sm'.saved_state = sm.saved_state
      /\ sm'.do_incremental = sm.do_incremental
      /\ sm'.discovery_single_device = sm.discovery_single_device
      /\ sm'.quick_find = sm.quick_find /\ sm'.quick_find_discovery = sm.quick_find_discovery
  BY <1>1, <1>2, Given DEF SmType
<1>4. At(sm') = "kDiscovery" /\ ~ Hand(sm) /\ Hand(sm')
  BY <1>2, <1>3 DEF At, Hand, Unclaimed
<1>5. Depth(sm')
  BY <1>1, <1>2, <1>3, Given, DepthPops
<1>6. Tidy(sm')
  BY <1>2, <1>3, <1>4, Given DEF Tidy
<1>7. ASSUME Undisturbed' PROVE Calm'
  <2>1. Undisturbed /\ SearchCalm /\ devices' = devices /\ tod' = tod
    BY <1>2, <1>3, <1>7, SendStep DEF BranchMsg
  <2>2. /\ muted' = muted /\ Lost' >= Lost /\ {Lost'} \subseteq Nat
        /\ Unmuted(r) # {} /\ line' = NoFrame => Lost' >= Lost + 1
    BY <1>2, Given, BranchSent
  <2>3. Agreed'
    BY <1>2, <1>4, <2>1, <2>2 DEF SearchCalm, Agreed, Pending
  <2>4. Covered'
    BY <1>1, <1>2, <1>3, <1>4, <2>1, PopCovers DEF SearchCalm
  <2>5. ASSUME Unmuted(r) # {} PROVE Left(sm.discovery, kDiscoveryCounter)'
    <3>1. Lost \in Nat /\ kDiscoveryCounter \in Nat
      BY Given, Ghosts, Members
    <3>2. QED  BY <1>3, <2>2, <2>5, <3>1 DEF Left
  <2>6. DiscoveryCalm'
    BY <1>3, <2>1, <2>2, <2>5 DEF DiscoveryCalm, Unmuted
  <2>7. DubCalm' /\ SingleCalm' /\ QuickfindCalm' /\ BranchCalm'
    BY <1>4 DEF DubCalm, SingleCalm, QuickfindCalm, BranchCalm
  <2>8. QED  BY <1>2, <1>4, <2>3, <2>4, <2>6, <2>7, SearchIsCalm DEF SearchCalm, SearchStates
<1>8. QED  BY <1>5, <1>6, <1>7 DEF Keeps

-----------------------------------------------------------------------------
(* The steps of kDiscoverySingleDevice. *)

LEMMA SingleGiveUpKeeps ==
  ASSUME CInv, SingleGiveUp PROVE Keeps
<1> DEFINE s == [sm EXCEPT !.discovery_single_device = NotRunning(kQuikfindDiscoveryCounter)]
<1>1. /\ At(sm) = "kDiscoverySingleDevice" /\ sm.discovery_single_device.counter = 0
      /\ sm' = NewState(s, "kDiscovery", TRUE) /\ UNCHANGED <<tod, bus, env>>
      /\ "kDiscovery" \in States \ {"kLateResponse"} /\ At(sm) \in SearchStates
  BY DEF SingleGiveUp, At, States, SearchStates
<1>2. Tidy(sm)
  BY <1>1, Given
<1>3. /\ s \in SmType /\ s.stack = sm.stack /\ s.range = sm.range
      /\ s.do_incremental = sm.do_incremental /\ s.discovery = sm.discovery
      /\ s.discovery_single_device = NotRunning(kQuikfindDiscoveryCounter)
      /\ s.quick_find = sm.quick_find /\ s.quick_find_discovery = sm.quick_find_discovery
  BY Given, Members, Counts DEF SmType
<1> HIDE DEF s
<1>4. At(sm') = "kDiscovery" /\ SameMembers(sm', s)
  BY <1>1, <1>3, NewStateKeeps
<1>5. /\ sm'.stack = sm.stack /\ sm'.range = sm.range
      /\ sm'.do_incremental = sm.do_incremental /\ sm'.discovery = sm.discovery
      /\ sm'.discovery_single_device = NotRunning(kQuikfindDiscoveryCounter)
      /\ sm'.quick_find = sm.quick_find /\ sm'.quick_find_discovery = sm.quick_find_discovery
  BY <1>3, <1>4 DEF SameMembers
<1>6. ~ sm.discovery.is_command_running /\ Hand(sm) /\ ~ Hand(sm')
  BY <1>1, <1>4, <1>5, Given, AtRest DEF Hand, Unclaimed
<1>7. Depth(sm')
  BY <1>5, <1>6, Given, DepthKept
<1>8. Tidy(sm')
  <2>1. ~ NotRunning(kQuikfindDiscoveryCounter).is_command_running
    BY Given, Members, Counts
  <2>2. QED  BY <1>1, <1>2, <1>4, <1>5, <1>6, <2>1, Given, AtRest DEF Tidy, Quiet
<1>9. ASSUME Undisturbed' PROVE Calm'
  <2>1. /\ Undisturbed /\ SearchCalm /\ tod' = tod
        /\ devices' = devices /\ muted' = muted /\ Lost' = Lost
    BY <1>1, <1>5, <1>9, QuietStep
  <2>2. sm.range.lower_bound \notin devices
    <3>1. SUFFICES ASSUME sm.range.lower_bound \in devices PROVE FALSE
      OBVIOUS
    <3>2. PICK n \in {kMuteCounter, kQuikfindDiscoveryCounter} : Left(sm.discovery_single_device, n)
      BY <1>1, <2>1, <3>1 DEF SearchCalm, SingleCalm
    <3>3. n \in Nat /\ Lost \in Nat /\ Lost < n
      BY <2>1, Given, UndisturbedFacts
    <3>4. QED  BY <1>1, <3>2, <3>3 DEF Left
  <2>3. Agreed'
    BY <1>1, <1>4, <2>1, <2>2, Given DEF SearchCalm, Agreed, Pending
  <2>4. Covered'
    <3>1. \A u \in devices : ~ Within(u, sm.range)
      BY <1>1, <1>2, <2>2, Given, CounterTypes DEF Tidy, Within
    <3>2. QED  BY <1>5, <2>1, <3>1 DEF SearchCalm, Covered
  <2>5. DiscoveryCalm' /\ DubCalm' /\ SingleCalm' /\ QuickfindCalm' /\ BranchCalm'
    BY <1>4, <1>5, <1>6 DEF DiscoveryCalm, DubCalm, SingleCalm, QuickfindCalm, BranchCalm
  <2>6. QED  BY <1>1, <1>4, <2>3, <2>4, <2>5, SearchIsCalm DEF SearchCalm, SearchStates
<1>10. QED  BY <1>7, <1>8, <1>9 DEF Keeps

LEMMA SingleSendKeeps ==
  ASSUME CInv, SingleSend PROVE Keeps
<1>1. PICK u : u = sm.range.lower_bound
  OBVIOUS
<1>2. /\ sm.state = "kDiscoverySingleDevice" /\ At(sm) = "kDiscoverySingleDevice"
      /\ ~ sm.discovery_single_device.is_command_running /\ Transmit(MuteMsg(u))
      /\ sm' = [sm EXCEPT !.discovery_single_device.is_command_running = TRUE]
      /\ UNCHANGED <<tod, env>> /\ u \in Uids /\ At(sm) \in SearchStates
      /\ sm.discovery_single_device.counter \in Nat
  BY <1>1, CounterTypes DEF SingleSend, At, SearchStates, States
<1>3. /\ sm'.state = sm.state /\ sm'.saved_state = sm.saved_state
      /\ sm'.stack = sm.stack /\ sm'.range = sm.range /\ sm'.do_incremental = sm.do_incremental
      /\ sm'.discovery_single_device.counter = sm.discovery_single_device.counter
      /\ sm'.discovery_single_device.is_command_running
      /\ sm'.quick_find = sm.quick_find /\ sm'.quick_find_discovery = sm.quick_find_discovery
  BY <1>2, Given DEF SmType, Counter
<1>4. Hand(sm)
  BY <1>2 DEF Hand, Unclaimed
<1>5. At(sm') = At(sm) /\ Depth(sm)' /\ Tidy(sm)'
  BY <1>2, <1>3, <1>4, StaySearching
<1>6. Hand(sm') /\ sm'.range.lower_bound = u
  BY <1>1, <1>2, <1>3, <1>5 DEF Hand, Unclaimed
<1>7. ASSUME Undisturbed' PROVE Calm'
  <2>1. /\ Undisturbed /\ SearchCalm /\ devices' = devices /\ tod' = tod
        /\ noise' = 0 \/ delayed' = 0
    BY <1>2, <1>3, <1>7, SendStep DEF MuteMsg
  <2>2. /\ muted \subseteq muted' /\ muted' \subseteq muted \cup ({u} \cap devices)
        /\ Lost' >= Lost /\ {Lost'} \subseteq Nat
        /\ u \in devices /\ line' = NoFrame => Lost' >= Lost + 1
        /\ noise' = 0 \/ delayed' = 0 => MuteSent(u)'
    BY <1>2, Given, MuteSends
  <2>3. Agreed'
    BY <1>1, <1>2, <1>5, <1>6, <2>1, <2>2 DEF SearchCalm, Agreed, Pending
  <2>4. Covered'
    BY <1>3, <1>4, <1>6, <2>1 DEF SearchCalm, Covered
  <2>5. SingleCalm'
    <3>1. MuteSent(sm.range.lower_bound)'
      BY <1>6, <2>1, <2>2 DEF MuteSent
    <3>2. ASSUME u \in devices
          PROVE  \E n \in {kMuteCounter, kQuikfindDiscoveryCounter} :
                   sm'.discovery_single_device.counter + Lost' >=
                     n + (IF line' = NoFrame THEN 1 ELSE 0)
      <4>1. PICK n \in {kMuteCounter, kQuikfindDiscoveryCounter} : Left(sm.discovery_single_device, n)
        BY <1>1, <1>2, <2>1, <3>2 DEF SearchCalm, SingleCalm
      <4>2. n \in Nat /\ Lost \in Nat
        BY <2>1, Given, UndisturbedFacts
      <4>3. sm.discovery_single_device.counter + Lost >= n
        BY <1>2, <4>1, <4>2 DEF Left
      <4>4. QED  BY <1>2, <1>3, <2>2, <3>2, <4>2, <4>3
    <3>3. QED  BY <1>3, <1>6, <2>1, <3>1, <3>2 DEF SingleCalm, Left
  <2>6. DiscoveryCalm' /\ DubCalm' /\ QuickfindCalm' /\ BranchCalm'
    BY <1>2, <1>5 DEF DiscoveryCalm, DubCalm, QuickfindCalm, BranchCalm
  <2>7. QED  BY <1>2, <1>5, <2>3, <2>4, <2>5, <2>6, SearchIsCalm DEF SearchCalm
<1>8. QED  BY <1>5, <1>7 DEF Keeps

LEMMA SingleTimeOutKeeps ==
  ASSUME CInv, SingleTimeOut PROVE Keeps
<1>1. PICK u : u = sm.range.lower_bound
  OBVIOUS
<1>2. /\ sm.state = "kDiscoverySingleDevice" /\ At(sm) = "kDiscoverySingleDevice"
      /\ sm.discovery_single_device.is_command_running /\ Transmit(MuteMsg(u))
      /\ sm.discovery_single_device.counter # 0 /\ line = NoFrame
      /\ sm' = [sm EXCEPT !.discovery_single_device.counter = @ - 1]
      /\ UNCHANGED <<tod, env>> /\ u \in Uids /\ At(sm) \in SearchStates
      /\ sm.discovery_single_device.counter \in Nat
  BY <1>1, CounterTypes DEF SingleTimeOut, TimedOut, At, SearchStates, States
<1>3. /\ sm'.state = sm.state /\ sm'.saved_state = sm.saved_state
      /\ sm'.stack = sm.stack /\ sm'.range = sm.range /\ sm'.do_incremental = sm.do_incremental
      /\ sm'.discovery_single_device.counter = sm.discovery_single_device.counter - 1
      /\ sm'.discovery_single_device.is_command_running
      /\ sm'.quick_find = sm.quick_find /\ sm'.quick_find_discovery = sm.quick_find_discovery
  BY <1>2, Given DEF SmType, Counter
<1>4. Hand(sm)
  BY <1>2 DEF Hand, Unclaimed
<1>5. At(sm') = At(sm) /\ Depth(sm)' /\ Tidy(sm)'
  BY <1>2, <1>3, <1>4, StaySearching
<1>6. Hand(sm') /\ sm'.range.lower_bound = u
  BY <1>1, <1>2, <1>3, <1>5 DEF Hand, Unclaimed
<1>7. ASSUME Undisturbed' PROVE Calm'
  <2>1. /\ Undisturbed /\ SearchCalm /\ devices' = devices /\ tod' = tod
        /\ noise' = 0 \/ delayed' = 0
    BY <1>2, <1>3, <1>7, SendStep DEF MuteMsg
  <2>2. /\ muted \subseteq muted' /\ muted' \subseteq muted \cup ({u} \cap devices)
        /\ Lost' >= Lost /\ {Lost'} \subseteq Nat
        /\ u \in devices /\ line' = NoFrame => Lost' >= Lost + 1
        /\ noise' = 0 \/ delayed' = 0 => MuteSent(u)'
    BY <1>2, Given, MuteSends
  <2>3. Agreed'
    BY <1>1, <1>2, <1>5, <1>6, <2>1, <2>2 DEF SearchCalm, Agreed, Pending
  <2>4. Covered'
    BY <1>3, <1>4, <1>6, <2>1 DEF SearchCalm, Covered
  <2>5. SingleCalm'
    <3>1. MuteSent(sm.range.lower_bound)'
      BY <1>6, <2>1, <2>2 DEF MuteSent
    <3>2. ASSUME u \in devices
          PROVE  \E n \in {kMuteCounter, kQuikfindDiscoveryCounter} :
                   sm'.discovery_single_device.counter + Lost' >=
                     n + (IF line' = NoFrame THEN 1 ELSE 0)
      <4>1. PICK n \in {kMuteCounter, kQuikfindDiscoveryCounter} : Left(sm.discovery_single_device, n)
        BY <1>1, <1>2, <2>1, <3>2 DEF SearchCalm, SingleCalm
      <4>2. n \in Nat /\ Lost \in Nat
        BY <2>1, Given, UndisturbedFacts
      <4>3. sm.discovery_single_device.counter + Lost >= n + 1
        BY <1>2, <4>1, <4>2 DEF Left
      <4>4. QED  BY <1>2, <1>3, <2>2, <3>2, <4>2, <4>3
    <3>3. QED  BY <1>3, <1>6, <2>1, <3>1, <3>2 DEF SingleCalm, Left
  <2>6. DiscoveryCalm' /\ DubCalm' /\ QuickfindCalm' /\ BranchCalm'
    BY <1>2, <1>5 DEF DiscoveryCalm, DubCalm, QuickfindCalm, BranchCalm
  <2>7. QED  BY <1>2, <1>5, <2>3, <2>4, <2>5, <2>6, SearchIsCalm DEF SearchCalm
<1>8. QED  BY <1>5, <1>7 DEF Keeps

\* A device that acknowledges DISC_MUTE is on the line and muted, and there is room for it.
LEMMA AckListed ==
  ASSUME CInv, Undisturbed, Agreed, NEW u \in Uids, line = MuteAck(u), MuteSent(u)
  PROVE  /\ u \in devices /\ u \in muted
         /\ Listed(TodAddUid(tod, u)) = Listed(tod) \cup {u}
<1>1. u \in devices
  BY Given, UndisturbedFacts, FramesDiffer DEF FramesSound, Genuine
<1>2. u \in muted
  BY DEF MuteSent
<1>3. Listed(tod) \subseteq devices /\ Cardinality(devices) <= kTableSize
  BY Given, UndisturbedFacts DEF Agreed
<1>4. u \notin Listed(tod) => tod.entries # kTableSize
  BY <1>1, <1>3, Given, RoomForOneMore
<1>5. Listed(TodAddUid(tod, u)) = IF tod.entries = kTableSize THEN Listed(tod) ELSE Listed(tod) \cup {u}
  BY Given, AddAppends
<1>6. QED  BY <1>1, <1>2, <1>4, <1>5

LEMMA SingleAnsweredKeeps ==
  ASSUME CInv, SingleAnswered
  PROVE  /\ Keeps
         /\ Undisturbed => Listed(tod') \ Listed(tod) \subseteq muted
<1> DEFINE s == [sm EXCEPT !.discovery_single_device = NotRunning(kQuikfindDiscoveryCounter)]
<1>1. PICK u : u = sm.range.lower_bound
  OBVIOUS
<1>2. /\ sm.state = "kDiscoverySingleDevice" /\ At(sm) = "kDiscoverySingleDevice"
      /\ sm.discovery_single_device.is_command_running
      /\ line # NoFrame /\ Receive(line) /\ UNCHANGED env
      /\ "kDiscovery" \in States \ {"kLateResponse"} /\ At(sm) \in SearchStates
      /\ u \in Uids /\ line' = NoFrame
  BY <1>1, CounterTypes DEF SingleAnswered, Receive, At, States, SearchStates
<1>3. Tidy(sm)
  BY <1>2, Given
<1>4. CASE line = MuteAck(u)
  <2>1. tod' = TodAddUid(tod, u) /\ sm' = NewState(s, "kDiscovery", FALSE)
    BY <1>1, <1>4 DEF SingleAnswered, MuteAck
  <2>2. /\ s \in SmType /\ s.stack = sm.stack /\ s.range = sm.range
        /\ s.do_incremental = sm.do_incremental /\ s.discovery = sm.discovery
        /\ s.discovery_single_device = NotRunning(kQuikfindDiscoveryCounter)
        /\ s.quick_find = sm.quick_find /\ s.quick_find_discovery = sm.quick_find_discovery
    BY Given, Members, Counts DEF SmType
  <2> HIDE DEF s
  <2>3. At(sm') = "kDiscovery" /\ sm'.state = "kDiscovery" /\ SameMembers(sm', s)
    BY <1>2, <2>1, <2>2, NewStateKeeps
  <2>4. /\ sm'.stack = sm.stack /\ sm'.range = sm.range
        /\ sm'.do_incremental = sm.do_incremental /\ sm'.discovery = sm.discovery
        /\ sm'.discovery_single_device = NotRunning(kQuikfindDiscoveryCounter)
        /\ sm'.quick_find = sm.quick_find /\ sm'.quick_find_discovery = sm.quick_find_discovery
    BY <2>2, <2>3 DEF SameMembers
  <2>5. ~ sm.discovery.is_command_running /\ Hand(sm) /\ ~ Hand(sm')
    BY <1>2, <2>3, <2>4, Given, AtRest DEF Hand, Unclaimed
  <2>6. Depth(sm')
    BY <2>4, <2>5, Given, DepthKept
  <2>7. Tidy(sm')
    BY <1>2, <1>3, <2>3, <2>4, <2>5 DEF Tidy
  <2>8. ASSUME Undisturbed, SearchCalm
        PROVE  u \in devices /\ u \in muted /\ Listed(tod') = Listed(tod) \cup {u}
    <3>1. MuteSent(u) /\ Agreed
      BY <1>1, <1>2, <2>8 DEF SearchCalm, SingleCalm
    <3>2. QED  BY <1>2, <1>4, <2>1, <2>8, <3>1, AckListed
  <2>9. ASSUME Undisturbed' PROVE Calm'
    <3>1. Undisturbed /\ SearchCalm /\ devices' = devices /\ muted' = muted
      BY <1>2, <2>4, <2>9, ReceiveStep
    <3>2. u \in devices /\ u \in muted /\ Listed(tod') = Listed(tod) \cup {u}
      BY <2>8, <3>1
    <3>3. Agreed'
      BY <1>1, <1>2, <2>3, <3>1, <3>2 DEF SearchCalm, Agreed, Pending
    <3>4. Covered'
      <4>1. \A v \in devices : Within(v, sm.range) => v = u
        BY <1>1, <1>2, <1>3, Given, CounterTypes DEF Tidy, Within
      <4>2. QED  BY <2>4, <3>1, <3>2, <4>1 DEF SearchCalm, Covered
    <3>5. DiscoveryCalm' /\ DubCalm' /\ SingleCalm' /\ QuickfindCalm' /\ BranchCalm'
      BY <2>3, <2>4, <2>5 DEF DiscoveryCalm, DubCalm, SingleCalm, QuickfindCalm, BranchCalm
    <3>6. QED  BY <1>2, <2>3, <3>3, <3>4, <3>5, SearchIsCalm DEF SearchCalm, SearchStates
  <2>10. Undisturbed => Listed(tod') \ Listed(tod) \subseteq muted
    BY <1>2, <2>8, Given, SearchIsCalm
  <2>11. QED  BY <2>6, <2>7, <2>9, <2>10 DEF Keeps
<1>5. CASE line # MuteAck(u)
  <2>1. tod' = tod /\ sm' = sm
    BY <1>1, <1>5 DEF SingleAnswered, MuteAck
  <2>2. Depth(sm') /\ Tidy(sm') /\ At(sm') = At(sm) /\ Hand(sm)
    BY <1>2, <1>3, <2>1, Given DEF Hand, Unclaimed
  <2>3. ASSUME Undisturbed' PROVE Calm'
    <3>1. /\ Undisturbed /\ SearchCalm /\ devices' = devices /\ muted' = muted
          /\ late' = late /\ noise' = noise /\ delayed' = delayed
      BY <1>2, <2>1, <2>3, ReceiveStep
    <3>2. MuteSent(u)
      BY <1>1, <1>2, <3>1 DEF SearchCalm, SingleCalm
    <3>3. u \notin devices
      BY <1>2, <1>5, <3>2 DEF MuteSent
    <3>4. Agreed' /\ Covered'
      BY <2>1, <2>2, <3>1 DEF SearchCalm, Agreed, Covered, Pending
    <3>5. SingleCalm'
      BY <1>1, <1>2, <2>1, <3>1, <3>3, FramesDiffer DEF SingleCalm, MuteSent
    <3>6. DiscoveryCalm' /\ DubCalm' /\ QuickfindCalm' /\ BranchCalm'
      BY <1>2, <2>2 DEF DiscoveryCalm, DubCalm, QuickfindCalm, BranchCalm
    <3>7. QED  BY <1>2, <2>2, <3>4, <3>5, <3>6, SearchIsCalm DEF SearchCalm
  <2>4. QED  BY <2>1, <2>2, <2>3 DEF Keeps
<1>6. QED  BY <1>4, <1>5

-----------------------------------------------------------------------------
(* The steps of kDub. *)

LEMMA DubNoneKeeps ==
  ASSUME CInv, DubNone PROVE Keeps
<1>1. /\ At(sm) = "kDub" /\ sm.response = NoFrame
      /\ sm' = NewState(sm, "kDiscovery", FALSE) /\ UNCHANGED <<tod, bus, env>>
      /\ "kDiscovery" \in States \ {"kLateResponse"} /\ At(sm) \in SearchStates
  BY DEF DubNone, At, States, SearchStates
<1>2. At(sm') = "kDiscovery" /\ sm'.state = "kDiscovery" /\ SameMembers(sm', sm)
  BY <1>1, Given, NewStateKeeps
<1>3. ~ sm'.discovery.is_command_running /\ Hand(sm) /\ ~ Hand(sm')
  BY <1>1, <1>2, Given, AtRest DEF Hand, Unclaimed, SameMembers
<1>4. Depth(sm')
  BY <1>2, <1>3, Given, DepthKept DEF SameMembers
<1>5. Tidy(sm')
  BY <1>1, <1>2, Given DEF Tidy, SameMembers
<1>6. ASSUME Undisturbed' PROVE Calm'
  <2>1. /\ Undisturbed /\ SearchCalm /\ tod' = tod
        /\ devices' = devices /\ muted' = muted
    BY <1>1, <1>2, <1>6, QuietStep DEF SameMembers
  <2>2. Agreed'
    BY <1>1, <1>2, <2>1 DEF SearchCalm, Agreed, Pending
  <2>3. \A u \in devices \ Listed(tod) : ~ Within(u, sm.range)
    BY <1>1, <2>1 DEF SearchCalm, DubCalm, Unmuted, Agreed, Pending
  <2>4. Covered'
    BY <1>2, <2>1, <2>3 DEF SearchCalm, Covered, SameMembers
  <2>5. DiscoveryCalm' /\ DubCalm' /\ SingleCalm' /\ QuickfindCalm' /\ BranchCalm'
    BY <1>2, <1>3 DEF DiscoveryCalm, DubCalm, SingleCalm, QuickfindCalm, BranchCalm
  <2>6. QED  BY <1>1, <1>2, <2>2, <2>4, <2>5, SearchIsCalm DEF SearchCalm, SearchStates
<1>7. QED  BY <1>4, <1>5, <1>6 DEF Keeps

LEMMA DubValidKeeps ==
  ASSUME CInv, DubValid PROVE Keeps
<1> DEFINE s == [sm EXCEPT !.quick_find_uid = sm.response.uid]
<1>1. /\ At(sm) = "kDub" /\ sm' = NewState(s, "kQuickfind", TRUE) /\ UNCHANGED <<tod, bus, env>>
      /\ "kQuickfind" \in States \ {"kLateResponse"} /\ At(sm) \in SearchStates
  BY DEF DubValid, At, States, SearchStates
<1>2. /\ s \in SmType /\ s.stack = sm.stack /\ s.range = sm.range
      /\ s.do_incremental = sm.do_incremental /\ s.discovery = sm.discovery
      /\ s.discovery_single_device = sm.discovery_single_device
      /\ s.quick_find = sm.quick_find /\ s.quick_find_discovery = sm.quick_find_discovery
  BY Given DEF SmType, Frame
<1> HIDE DEF s
<1>3. At(sm') = "kQuickfind" /\ SameMembers(sm', s)
  BY <1>1, <1>2, NewStateKeeps
<1>4. /\ sm'.stack = sm.stack /\ sm'.range = sm.range
      /\ sm'.do_incremental = sm.do_incremental /\ sm'.discovery = sm.discovery
      /\ sm'.discovery_single_device = sm.discovery_single_device
      /\ sm'.quick_find = sm.quick_find /\ sm'.quick_find_discovery = sm.quick_find_discovery
  BY <1>2, <1>3 DEF SameMembers
<1>5. Hand(sm) /\ Hand(sm')
  BY <1>1, <1>3 DEF Hand, Unclaimed
<1>6. Depth(sm')
  BY <1>4, <1>5, Given, DepthKept
<1>7. Tidy(sm')
  BY <1>1, <1>3, <1>4, Given, AtRest DEF Tidy, Quiet
<1>8. ASSUME Undisturbed' PROVE Calm'
  <2>1. /\ Undisturbed /\ SearchCalm /\ tod' = tod
        /\ devices' = devices /\ muted' = muted
    BY <1>1, <1>4, <1>8, QuietStep
  <2>2. muted = Listed(tod)
    BY <1>1, <2>1 DEF SearchCalm, Agreed, Pending
  <2>3. Agreed'
    BY <2>1, <2>2 DEF Agreed
  <2>4. Covered'
    BY <1>4, <1>5, <2>1 DEF SearchCalm, Covered
  <2>5. QuickfindCalm'
    BY <1>1, <1>4, <2>1, <2>2, Given, AtRest DEF QuickfindCalm
  <2>6. DiscoveryCalm' /\ DubCalm' /\ SingleCalm' /\ BranchCalm'
    BY <1>3 DEF DiscoveryCalm, DubCalm, SingleCalm, BranchCalm
  <2>7. QED  BY <1>1, <1>3, <2>3, <2>4, <2>5, <2>6, SearchIsCalm DEF SearchCalm, SearchStates
<1>9. QED  BY <1>6, <1>7, <1>8 DEF Keeps

LEMMA DubCollisionKeeps ==
  ASSUME CInv, DubCollision PROVE Keeps
<1> DEFINE halved == Push(Push(sm.stack, LowerHalf(sm.range)), UpperHalf(sm.range))
           s == [sm EXCEPT !.stack = halved]
<1>1. /\ At(sm) = "kDub" /\ sm' = NewState(s, "kDiscovery", TRUE) /\ UNCHANGED <<tod, bus, env>>
      /\ "kDiscovery" \in States \ {"kLateResponse"} /\ At(sm) \in SearchStates
  BY DEF DubCollision, At, States, SearchStates
<1>2. Hand(sm) /\ Above(sm.range, sm.stack) /\ Wide(sm.range) /\ Ascending(sm.stack)
  BY <1>1, Given DEF Sound, Searching, Hand, Unclaimed
<1>3. /\ halved \in Seq(Branch) /\ LowerHalf(sm.range) \in Branch /\ UpperHalf(sm.range) \in Branch
  BY <1>2, CounterTypes, Halves, PushAscends
<1> HIDE DEF halved
<1>4. /\ s \in SmType /\ s.stack = halved /\ s.range = sm.range
      /\ s.do_incremental = sm.do_incremental /\ s.discovery = sm.discovery
      /\ s.discovery_single_device = sm.discovery_single_device
      /\ s.quick_find = sm.quick_find /\ s.quick_find_discovery = sm.quick_find_discovery
  BY <1>3, Given DEF SmType
<1> HIDE DEF s
<1>5. At(sm') = "kDiscovery" /\ SameMembers(sm', s)
  BY <1>1, <1>4, NewStateKeeps
<1>6. /\ sm'.stack = halved
      /\ sm'.do_incremental = sm.do_incremental /\ sm'.discovery = sm.discovery
      /\ sm'.discovery_single_device = sm.discovery_single_device
      /\ sm'.quick_find = sm.quick_find /\ sm'.quick_find_discovery = sm.quick_find_discovery
  BY <1>4, <1>5 DEF SameMembers
<1>7. ~ sm'.discovery.is_command_running /\ ~ Hand(sm')
  BY <1>1, <1>5, <1>6, Given, AtRest DEF Hand, Unclaimed
<1> DEFINE lower == LowerHalf(sm.range)
           upper == UpperHalf(sm.range)
<1>8. Depth(sm') /\ halved = Append(Append(sm.stack, lower), upper)
  BY <1>1, <1>6, <1>7, Given, DepthHalves DEF halved
<1>9. Tidy(sm')
  BY <1>1, <1>5, <1>6, Given, AtRest DEF Tidy, Quiet
<1>10. \A u \in Uids : Within(u, sm.range) => Within(u, lower) \/ Within(u, upper)
  <2> DEFINE m == Mid(sm.range.lower_bound, sm.range.upper_bound)
  <2>1. m \in Uids
    <3>1. sm.range.lower_bound < sm.range.upper_bound
      BY <1>2, CounterTypes DEF Wide, Above
    <3>2. QED  BY <3>1, CounterTypes, MidIsMiddle
  <2> HIDE DEF m
  <2>2. /\ lower.lower_bound = sm.range.lower_bound /\ lower.upper_bound = m
        /\ upper.lower_bound = m + 1 /\ upper.upper_bound = sm.range.upper_bound
    BY CounterTypes DEF LowerHalf, UpperHalf, m, Branch
  <2> HIDE DEF lower, upper
  <2>3. QED  BY <2>1, <2>2, CounterTypes DEF Within
<1> HIDE DEF lower, upper
<1>11. /\ Len(halved) = Len(sm.stack) + 2 /\ Len(sm.stack) \in Nat
       /\ halved[Len(sm.stack) + 1] = lower /\ halved[Len(sm.stack) + 2] = upper
       /\ \A i \in 1 .. Len(sm.stack) : halved[i] = sm.stack[i]
  <2>1. sm.stack \in Seq(Branch) /\ lower \in Branch /\ upper \in Branch
    BY <1>3, CounterTypes DEF lower, upper
  <2> DEFINE one == Append(sm.stack, lower)
  <2>2. /\ one \in Seq(Branch) /\ Len(one) = Len(sm.stack) + 1 /\ Len(sm.stack) \in Nat
        /\ one[Len(sm.stack) + 1] = lower /\ \A i \in 1 .. Len(sm.stack) : one[i] = sm.stack[i]
    BY <2>1
  <2> HIDE DEF one
  <2>3. /\ Len(Append(one, upper)) = Len(one) + 1 /\ Append(one, upper)[Len(one) + 1] = upper
        /\ \A i \in 1 .. Len(one) : Append(one, upper)[i] = one[i]
    BY <2>1, <2>2
  <2>4. halved = Append(one, upper)
    BY <1>8 DEF one
  <2>5. 1 .. Len(sm.stack) \subseteq 1 .. Len(one) /\ Len(sm.stack) + 1 \in 1 .. Len(one)
    BY <2>2
  <2>6. Len(one) + 1 = Len(sm.stack) + 2
    BY <2>2
  <2>7. QED  BY <2>2, <2>3, <2>4, <2>5, <2>6
<1>12. ASSUME Undisturbed' PROVE Calm'
  <2>1. /\ Undisturbed /\ SearchCalm /\ tod' = tod
        /\ devices' = devices /\ muted' = muted
    BY <1>1, <1>6, <1>12, QuietStep
  <2>2. Agreed'
    BY <1>1, <1>5, <2>1 DEF SearchCalm, Agreed, Pending
  <2>3. Covered'
    <3>1. ASSUME NEW u \in devices \ Listed(tod)
          PROVE  \E i \in 1 .. Len(halved) : Within(u, halved[i])
      <4>1. CASE \E i \in 1 .. Len(sm.stack) : Within(u, sm.stack[i])
        <5>1. PICK i \in 1 .. Len(sm.stack) : Within(u, sm.stack[i])
          BY <4>1
        <5>2. i \in 1 .. Len(halved) /\ halved[i] = sm.stack[i]
          BY <1>11
        <5>3. QED  BY <5>1, <5>2
      <4>2. CASE Within(u, sm.range)
        <5>1. Len(sm.stack) + 1 \in 1 .. Len(halved) /\ Len(sm.stack) + 2 \in 1 .. Len(halved)
          BY <1>11
        <5>2. Within(u, lower) \/ Within(u, upper)
          BY <1>10, <4>2, Given
        <5>3. QED  BY <1>11, <5>1, <5>2
      <4>3. QED  BY <2>1, <4>1, <4>2 DEF SearchCalm, Covered
    <3>2. QED  BY <1>6, <2>1, <3>1 DEF Covered
  <2>4. DiscoveryCalm' /\ DubCalm' /\ SingleCalm' /\ QuickfindCalm' /\ BranchCalm'
    BY <1>5, <1>7 DEF DiscoveryCalm, DubCalm, SingleCalm, QuickfindCalm, BranchCalm
  <2>5. QED  BY <1>1, <1>5, <2>2, <2>3, <2>4, SearchIsCalm DEF SearchCalm, SearchStates
<1>13. QED  BY <1>8, <1>9, <1>12 DEF Keeps

-----------------------------------------------------------------------------
(* The steps of kQuickfind, kQuickfindDiscovery and kFinished. *)

LEMMA QuickfindSendKeeps ==
  ASSUME CInv, QuickfindSend PROVE Keeps
<1>1. PICK u : u = sm.quick_find_uid
  OBVIOUS
<1>2. /\ sm.state = "kQuickfind" /\ At(sm) = "kQuickfind" /\ ~ sm.quick_find.is_command_running
      /\ UNCHANGED <<tod, env>> /\ At(sm) \in SearchStates /\ u \in Uids
      /\ "kQuickfindDiscovery" \in States \ {"kLateResponse"}
  BY <1>1, CounterTypes DEF QuickfindSend, At, SearchStates, States
<1>3. Tidy(sm) /\ Hand(sm)
  BY <1>2, Given DEF Hand, Unclaimed
<1>4. CASE sm.quick_find.counter = 0
  <2>1. sm' = NewState(sm, "kQuickfindDiscovery", FALSE) /\ UNCHANGED <<bus, env>>
    BY <1>2, <1>4 DEF QuickfindSend
  <2>2. At(sm') = "kQuickfindDiscovery" /\ sm'.state = "kQuickfindDiscovery" /\ SameMembers(sm', sm)
    BY <1>2, <2>1, Given, NewStateKeeps
  <2>3. Hand(sm')
    BY <2>2 DEF Hand, Unclaimed
  <2>4. Depth(sm')
    BY <1>3, <2>2, Given, DepthKept DEF SameMembers
  <2>5. Tidy(sm')
    BY <1>2, <1>3, <2>2 DEF Tidy, SameMembers
  <2>6. ASSUME Undisturbed' PROVE Calm'
    <3>1. /\ Undisturbed /\ SearchCalm /\ tod' = tod
          /\ devices' = devices /\ muted' = muted /\ Lost' = Lost
      BY <1>2, <2>1, <2>2, <2>6, QuietStep DEF SameMembers
    <3>2. u \notin muted \ Listed(tod)
      BY <1>1, <1>2, <1>4, <3>1 DEF SearchCalm, QuickfindCalm
    <3>3. Agreed'
      BY <1>1, <1>2, <2>2, <3>1, <3>2 DEF SearchCalm, Agreed, Pending
    <3>4. Covered'
      BY <1>3, <2>2, <2>3, <3>1 DEF SearchCalm, Covered, SameMembers
    <3>5. BranchCalm'
      <4>1. kQuikfindDiscoveryCounter \in Nat /\ Lost \in Nat
        BY Given, Ghosts, Members
      <4>2. /\ sm'.quick_find_discovery.counter = kQuikfindDiscoveryCounter
            /\ ~ sm'.quick_find_discovery.is_command_running
        BY <1>2, <1>3, <2>2, <4>1, Counts DEF Tidy, SameMembers
      <4>3. QED  BY <3>1, <4>1, <4>2 DEF BranchCalm, Left
    <3>6. DiscoveryCalm' /\ DubCalm' /\ SingleCalm' /\ QuickfindCalm'
      BY <2>2 DEF DiscoveryCalm, DubCalm, SingleCalm, QuickfindCalm
    <3>7. QED  BY <1>2, <2>2, <3>3, <3>4, <3>5, <3>6, SearchIsCalm DEF SearchCalm, SearchStates
  <2>7. QED  BY <2>4, <2>5, <2>6 DEF Keeps
<1>5. CASE sm.quick_find.counter # 0
  <2>1. /\ Transmit(MuteMsg(u))
        /\ sm' = [sm EXCEPT !.quick_find = [counter |-> kQuikfindCounter,
                                            is_command_running |-> TRUE]]
    BY <1>1, <1>5 DEF QuickfindSend
  <2>2. /\ sm'.state = sm.state /\ sm'.saved_state = sm.saved_state
        /\ sm'.stack = sm.stack /\ sm'.range = sm.range /\ sm'.do_incremental = sm.do_incremental
        /\ sm'.quick_find.counter = kQuikfindCounter /\ sm'.quick_find.is_command_running
        /\ sm'.quick_find_uid = u
        /\ sm'.discovery_single_device = sm.discovery_single_device
        /\ sm'.quick_find_discovery = sm.quick_find_discovery
    BY <1>1, <2>1, Given DEF SmType
  <2>3. At(sm') = At(sm) /\ Depth(sm)' /\ Tidy(sm)'
    BY <1>2, <1>3, <2>2, StaySearching
  <2>4. Hand(sm')
    BY <1>2, <2>3 DEF Hand, Unclaimed
  <2>5. ASSUME Undisturbed' PROVE Calm'
    <3>1. /\ Undisturbed /\ SearchCalm /\ devices' = devices /\ tod' = tod
          /\ noise' = 0 \/ delayed' = 0
      BY <1>2, <2>1, <2>2, <2>5, SendStep DEF MuteMsg
    <3>2. /\ muted \subseteq muted' /\ muted' \subseteq muted \cup ({u} \cap devices)
          /\ Lost' >= Lost /\ {Lost'} \subseteq Nat
          /\ u \in devices /\ line' = NoFrame => Lost' >= Lost + 1
          /\ noise' = 0 \/ delayed' = 0 => MuteSent(u)'
      BY <1>2, <2>1, Given, MuteSends
    <3>3. Agreed'
      BY <1>1, <1>2, <2>2, <2>3, <3>1, <3>2 DEF SearchCalm, Agreed, Pending
    <3>4. Covered'
      BY <1>3, <2>2, <2>4, <3>1 DEF SearchCalm, Covered
    <3>5. QuickfindCalm'
      <4>1. MuteSent(sm.quick_find_uid)'
        BY <2>2, <3>1, <3>2 DEF MuteSent
      <4>2. u \in devices /\ line' = NoFrame => Lost' >= 1
        BY <3>2, Given, Ghosts
      <4>3. QED  BY <2>2, <3>1, <4>1, <4>2 DEF QuickfindCalm
    <3>6. DiscoveryCalm' /\ DubCalm' /\ SingleCalm' /\ BranchCalm'
      BY <1>2, <2>3 DEF DiscoveryCalm, DubCalm, SingleCalm, BranchCalm
    <3>7. QED  BY <1>2, <2>3, <3>3, <3>4, <3>5, <3>6, SearchIsCalm DEF SearchCalm
  <2>6. QED  BY <2>3, <2>5 DEF Keeps
<1>6. QED  BY <1>4, <1>5

LEMMA AckIs ==
  ASSUME NEW f \in Frame, f.kind = "mute" PROVE f = MuteAck(f.uid) /\ f.uid \in Uids
BY DEF Frame, MuteAck

LEMMA QuickfindAnsweredKeeps ==
  ASSUME CInv, QuickfindAnswered
  PROVE  /\ Keeps
         /\ Undisturbed => Listed(tod') \ Listed(tod) \subseteq muted
<1> DEFINE s == [sm EXCEPT !.quick_find = NotRunning(kQuikfindCounter)]
<1>1. PICK u : u = sm.quick_find_uid
  OBVIOUS
<1>2. /\ sm.state = "kQuickfind" /\ At(sm) = "kQuickfind" /\ sm.quick_find.is_command_running
      /\ line # NoFrame /\ Receive(line) /\ UNCHANGED env
      /\ "kQuickfindDiscovery" \in States \ {"kLateResponse"} /\ At(sm) \in SearchStates
      /\ u \in Uids /\ line' = NoFrame
  BY <1>1, CounterTypes DEF QuickfindAnswered, Receive, At, States, SearchStates
<1>3. Tidy(sm) /\ Hand(sm)
  BY <1>2, Given DEF Hand, Unclaimed
<1>4. SearchCalm => MuteSent(u) /\ Agreed
  BY <1>1, <1>2 DEF SearchCalm, QuickfindCalm
<1>5. CASE line.kind = "mute"
  <2>1. /\ tod' = IF line.uid = u THEN TodAddUid(tod, u) ELSE tod
        /\ sm' = NewState(s, "kQuickfindDiscovery", FALSE)
    BY <1>1, <1>5 DEF QuickfindAnswered
  <2>2. /\ s \in SmType /\ s.stack = sm.stack /\ s.range = sm.range
        /\ s.do_incremental = sm.do_incremental
        /\ s.discovery_single_device = sm.discovery_single_device
        /\ s.quick_find = NotRunning(kQuikfindCounter)
        /\ s.quick_find_discovery = sm.quick_find_discovery
    BY Given, Members, Counts DEF SmType
  <2> HIDE DEF s
  <2>3. At(sm') = "kQuickfindDiscovery" /\ sm'.state = "kQuickfindDiscovery" /\ SameMembers(sm', s)
    BY <1>2, <2>1, <2>2, NewStateKeeps
  <2>4. /\ sm'.stack = sm.stack /\ sm'.range = sm.range
        /\ sm'.do_incremental = sm.do_incremental
        /\ sm'.discovery_single_device = sm.discovery_single_device
        /\ sm'.quick_find = NotRunning(kQuikfindCounter)
        /\ sm'.quick_find_discovery = sm.quick_find_discovery
    BY <2>2, <2>3 DEF SameMembers
  <2>5. Hand(sm')
    BY <2>3 DEF Hand, Unclaimed
  <2>6. Depth(sm')
    BY <1>3, <2>4, Given, DepthKept
  <2>7. Tidy(sm')
    <3>1. ~ NotRunning(kQuikfindCounter).is_command_running
      BY Given, Members, Counts
    <3>2. QED  BY <1>2, <1>3, <2>3, <2>4, <3>1 DEF Tidy
  <2>8. ASSUME Undisturbed, SearchCalm
        PROVE  /\ Listed(tod') \subseteq muted /\ Listed(tod) \subseteq Listed(tod')
               /\ muted \subseteq Listed(tod')
    <3>1. CASE line.uid = u
      <4>1. line = MuteAck(u)
        BY <1>5, <3>1, Given, AckIs
      <4>2. u \in devices /\ u \in muted /\ Listed(tod') = Listed(tod) \cup {u}
        BY <1>2, <1>4, <2>1, <2>8, <3>1, <4>1, AckListed
      <4>3. QED  BY <1>1, <1>2, <1>4, <2>8, <4>2 DEF Agreed, Pending
    <3>2. CASE line.uid # u
      <4>1. line # MuteAck(u)
        BY <3>2, FramesDiffer
      <4>2. u \notin muted
        BY <1>2, <1>4, <2>8, <4>1, Given DEF MuteSent
      <4>3. QED  BY <1>1, <1>2, <1>4, <2>1, <2>8, <3>2, <4>2 DEF Agreed, Pending
    <3>3. QED  BY <3>1, <3>2
  <2>9. ASSUME Undisturbed' PROVE Calm'
    <3>1. Undisturbed /\ SearchCalm /\ devices' = devices /\ muted' = muted /\ Lost' = Lost
      BY <1>2, <2>4, <2>9, ReceiveStep
    <3>2. Agreed'
      BY <2>8, <3>1 DEF Agreed
    <3>3. Covered'
      BY <1>3, <2>4, <2>5, <2>8, <3>1 DEF SearchCalm, Covered
    <3>4. BranchCalm'
      <4>1. kQuikfindDiscoveryCounter \in Nat /\ Lost \in Nat
        BY Given, Ghosts, Members
      <4>2. /\ sm'.quick_find_discovery.counter = kQuikfindDiscoveryCounter
            /\ ~ sm'.quick_find_discovery.is_command_running
        BY <1>2, <1>3, <2>4, <4>1, Counts DEF Tidy
      <4>3. QED  BY <3>1, <4>1, <4>2 DEF BranchCalm, Left
    <3>5. DiscoveryCalm' /\ DubCalm' /\ SingleCalm' /\ QuickfindCalm'
      BY <2>3 DEF DiscoveryCalm, DubCalm, SingleCalm, QuickfindCalm
    <3>6. QED  BY <1>2, <2>3, <3>2, <3>3, <3>4, <3>5, SearchIsCalm DEF SearchCalm, SearchStates
  <2>10. Undisturbed => Listed(tod') \ Listed(tod) \subseteq muted
    BY <1>2, <2>8, Given, SearchIsCalm
  <2>11. QED  BY <2>6, <2>7, <2>9, <2>10 DEF Keeps
<1>6. CASE line.kind # "mute"
  <2>1. tod' = tod /\ sm' = sm
    BY <1>6 DEF QuickfindAnswered
  <2>2. Depth(sm') /\ Tidy(sm') /\ At(sm') = At(sm)
    BY <1>3, <2>1, Given
  <2>3. ASSUME Undisturbed' PROVE Calm'
    <3>1. /\ Undisturbed /\ SearchCalm /\ devices' = devices /\ muted' = muted
          /\ late' = late /\ noise' = noise /\ delayed' = delayed
      BY <1>2, <2>1, <2>3, ReceiveStep
    <3>2. u \notin devices
      BY <1>2, <1>4, <1>6, <3>1, FramesDiffer DEF MuteSent
    <3>3. Agreed' /\ Covered'
      BY <2>1, <2>2, <3>1 DEF SearchCalm, Agreed, Covered, Pending
    <3>4. QuickfindCalm'
      BY <1>1, <1>2, <2>1, <3>1, <3>2, FramesDiffer DEF SearchCalm, QuickfindCalm, MuteSent
    <3>5. DiscoveryCalm' /\ DubCalm' /\ SingleCalm' /\ BranchCalm'
      BY <1>2, <2>2 DEF DiscoveryCalm, DubCalm, SingleCalm, BranchCalm
    <3>6. QED  BY <1>2, <2>2, <3>3, <3>4, <3>5, SearchIsCalm DEF SearchCalm
  <2>4. QED  BY <2>1, <2>2, <2>3 DEF Keeps
<1>7. QED  BY <1>5, <1>6

LEMMA QuickfindTimeOutKeeps ==
  ASSUME CInv, QuickfindTimeOut PROVE Keeps
<1>1. PICK u : u = sm.quick_find_uid
  OBVIOUS
<1>2. /\ sm.state = "kQuickfind" /\ At(sm) = "kQuickfind" /\ sm.quick_find.is_command_running
      /\ line = NoFrame /\ UNCHANGED <<tod, bus, env>>
      /\ sm' = [sm EXCEPT !.quick_find = NotRunning(@.counter - 1)]
      /\ At(sm) \in SearchStates /\ sm.quick_find.counter \in Nat
      /\ sm.quick_find.counter - 1 \in Nat
  BY CounterTypes, Given, Members DEF QuickfindTimeOut, TimedOut, At, SearchStates, States
<1>3. /\ sm'.state = sm.state /\ sm'.saved_state = sm.saved_state
      /\ sm'.stack = sm.stack /\ sm'.range = sm.range /\ sm'.do_incremental = sm.do_incremental
      /\ sm'.quick_find.counter = sm.quick_find.counter - 1
      /\ ~ sm'.quick_find.is_command_running /\ sm'.quick_find_uid = u
      /\ sm'.discovery_single_device = sm.discovery_single_device
      /\ sm'.quick_find_discovery = sm.quick_find_discovery
  BY <1>1, <1>2, Given, Counts DEF SmType
<1>4. Hand(sm)
  BY <1>2 DEF Hand, Unclaimed
<1>5. At(sm') = At(sm) /\ Depth(sm)' /\ Tidy(sm)'
  BY <1>2, <1>3, <1>4, StaySearching
<1>6. Hand(sm')
  BY <1>2, <1>5 DEF Hand, Unclaimed
<1>7. ASSUME Undisturbed' PROVE Calm'
  <2>1. /\ Undisturbed /\ SearchCalm /\ tod' = tod
        /\ devices' = devices /\ muted' = muted
    BY <1>2, <1>3, <1>7, QuietStep
  <2>2. Agreed'
    BY <1>1, <1>2, <1>3, <1>5, <2>1 DEF SearchCalm, Agreed, Pending
  <2>3. Covered'
    BY <1>3, <1>4, <1>6, <2>1 DEF SearchCalm, Covered
  <2>4. QuickfindCalm'
    <3>1. ASSUME u \in muted PROVE sm'.quick_find.counter # 0
      <4>1. u \in devices
        BY <3>1, Given
      <4>2. Lost >= 1 /\ sm.quick_find.counter = kQuikfindCounter
        BY <1>1, <1>2, <2>1, <4>1 DEF SearchCalm, QuickfindCalm
      <4>3. Lost \in Nat /\ kQuikfindCounter \in Nat /\ Lost < kQuikfindCounter
        BY <2>1, Given, UndisturbedFacts
      <4>4. QED  BY <1>3, <4>2, <4>3
    <3>2. QED  BY <1>3, <2>1, <3>1 DEF QuickfindCalm
  <2>5. DiscoveryCalm' /\ DubCalm' /\ SingleCalm' /\ BranchCalm'
    BY <1>2, <1>5 DEF DiscoveryCalm, DubCalm, SingleCalm, BranchCalm
  <2>6. QED  BY <1>2, <1>5, <2>2, <2>3, <2>4, <2>5, SearchIsCalm DEF SearchCalm
<1>8. QED  BY <1>5, <1>7 DEF Keeps

LEMMA QuickfindDiscoveryGiveUpKeeps ==
  ASSUME CInv, QuickfindDiscoveryGiveUp PROVE Keeps
<1> DEFINE s == [sm EXCEPT !.quick_find_discovery = NotRunning(kQuikfindDiscoveryCounter)]
<1>1. /\ At(sm) = "kQuickfindDiscovery" /\ sm.quick_find_discovery.counter = 0
      /\ sm' = NewState(s, "kDiscovery", TRUE) /\ UNCHANGED <<tod, bus, env>>
      /\ "kDiscovery" \in States \ {"kLateResponse"} /\ At(sm) \in SearchStates
  BY DEF QuickfindDiscoveryGiveUp, At, States, SearchStates
<1>2. Tidy(sm)
  BY <1>1, Given
<1>3. /\ s \in SmType /\ s.stack = sm.stack /\ s.range = sm.range
      /\ s.do_incremental = sm.do_incremental /\ s.discovery = sm.discovery
      /\ s.discovery_single_device = sm.discovery_single_device
      /\ s.quick_find = sm.quick_find
      /\ s.quick_find_discovery = NotRunning(kQuikfindDiscoveryCounter)
  BY Given, Members, Counts DEF SmType
<1> HIDE DEF s
<1>4. At(sm') = "kDiscovery" /\ SameMembers(sm', s)
  BY <1>1, <1>3, NewStateKeeps
<1>5. /\ sm'.stack = sm.stack /\ sm'.range = sm.range
      /\ sm'.do_incremental = sm.do_incremental /\ sm'.discovery = sm.discovery
      /\ sm'.discovery_single_device = sm.discovery_single_device
      /\ sm'.quick_find = sm.quick_find
      /\ sm'.quick_find_discovery = NotRunning(kQuikfindDiscoveryCounter)
  BY <1>3, <1>4 DEF SameMembers
<1>6. ~ sm.discovery.is_command_running /\ Hand(sm) /\ ~ Hand(sm')
  BY <1>1, <1>4, <1>5, Given, AtRest DEF Hand, Unclaimed
<1>7. Depth(sm')
  BY <1>5, <1>6, Given, DepthKept
<1>8. Tidy(sm')
  <2>1. ~ NotRunning(kQuikfindDiscoveryCounter).is_command_running
    BY Given, Members, Counts
  <2>2. QED  BY <1>1, <1>2, <1>4, <1>5, <1>6, <2>1, Given, AtRest DEF Tidy, Quiet
<1>9. ASSUME Undisturbed' PROVE Calm'
  <2>1. /\ Undisturbed /\ SearchCalm /\ tod' = tod
        /\ devices' = devices /\ muted' = muted /\ Lost' = Lost
    BY <1>1, <1>5, <1>9, QuietStep
  <2>2. Unmuted(sm.range) = {}
    <3>1. SUFFICES ASSUME Unmuted(sm.range) # {} PROVE FALSE
      OBVIOUS
    <3>2. Left(sm.quick_find_discovery, kQuikfindDiscoveryCounter)
      BY <1>1, <2>1, <3>1 DEF SearchCalm, BranchCalm
    <3>3. QED  BY <1>1, <2>1, <3>2, Given, UndisturbedFacts DEF Left
  <2>3. Agreed'
    BY <1>1, <1>4, <2>1 DEF SearchCalm, Agreed, Pending
  <2>4. \A u \in devices \ Listed(tod) : ~ Within(u, sm.range)
    BY <1>1, <2>1, <2>2 DEF SearchCalm, Unmuted, Agreed, Pending
  <2>5. Covered'
    BY <1>5, <2>1, <2>4 DEF SearchCalm, Covered
  <2>6. DiscoveryCalm' /\ DubCalm' /\ SingleCalm' /\ QuickfindCalm' /\ BranchCalm'
    BY <1>4, <1>5, <1>6 DEF DiscoveryCalm, DubCalm, SingleCalm, QuickfindCalm, BranchCalm
  <2>7. QED  BY <1>1, <1>4, <2>3, <2>5, <2>6, SearchIsCalm DEF SearchCalm, SearchStates
<1>10. QED  BY <1>7, <1>8, <1>9 DEF Keeps

LEMMA QuickfindDiscoverySendKeeps ==
  ASSUME CInv, QuickfindDiscoverySend PROVE Keeps
<1>1. PICK r : r = sm.range
  OBVIOUS
<1>2. /\ sm.state = "kQuickfindDiscovery" /\ At(sm) = "kQuickfindDiscovery"
      /\ ~ sm.quick_find_discovery.is_command_running /\ Transmit(BranchMsg(r))
      /\ sm' = [sm EXCEPT !.quick_find_discovery.is_command_running = TRUE]
      /\ UNCHANGED <<tod, env>> /\ At(sm) \in SearchStates
      /\ sm.quick_find_discovery.counter \in Nat
  BY <1>1, CounterTypes DEF QuickfindDiscoverySend, At, SearchStates, States
<1>3. /\ sm'.state = sm.state /\ sm'.saved_state = sm.saved_state
      /\ sm'.stack = sm.stack /\ sm'.range = r /\ sm'.do_incremental = sm.do_incremental
      /\ sm'.discovery_single_device = sm.discovery_single_device
      /\ sm'.quick_find = sm.quick_find
      /\ sm'.quick_find_discovery.counter = sm.quick_find_discovery.counter
      /\ sm'.quick_find_discovery.is_command_running
  BY <1>1, <1>2, Given DEF SmType, Counter
<1>4. Hand(sm)
  BY <1>2 DEF Hand, Unclaimed
<1>5. At(sm') = At(sm) /\ Depth(sm)' /\ Tidy(sm)'
  BY <1>1, <1>2, <1>3, <1>4, StaySearching
<1>6. Hand(sm')
  BY <1>2, <1>5 DEF Hand, Unclaimed
<1>7. ASSUME Undisturbed' PROVE Calm'
  <2>1. Undisturbed /\ SearchCalm /\ devices' = devices /\ tod' = tod
    BY <1>2, <1>3, <1>7, SendStep DEF BranchMsg
  <2>2. /\ muted' = muted /\ Lost' >= Lost /\ {Lost'} \subseteq Nat
        /\ Unmuted(r) # {} /\ line' = NoFrame => Lost' >= Lost + 1
    BY <1>2, Given, BranchSent
  <2>3. Agreed'
    BY <1>2, <1>5, <2>1, <2>2 DEF SearchCalm, Agreed, Pending
  <2>4. Covered'
    BY <1>1, <1>3, <1>4, <1>6, <2>1 DEF SearchCalm, Covered
  <2>5. ASSUME Unmuted(r) # {} PROVE Left(sm.quick_find_discovery, kQuikfindDiscoveryCounter)'
    <3>1. Lost \in Nat /\ kQuikfindDiscoveryCounter \in Nat
      BY Given, Ghosts, Members
    <3>2. sm.quick_find_discovery.counter + Lost >= kQuikfindDiscoveryCounter
      BY <1>1, <1>2, <2>1, <2>5, <3>1 DEF SearchCalm, BranchCalm, Left
    <3>3. QED  BY <1>2, <1>3, <2>2, <2>5, <3>1, <3>2 DEF Left
  <2>6. BranchCalm'
    BY <1>3, <2>1, <2>2, <2>5 DEF BranchCalm, Unmuted
  <2>7. DiscoveryCalm' /\ DubCalm' /\ SingleCalm' /\ QuickfindCalm'
    BY <1>2, <1>5 DEF DiscoveryCalm, DubCalm, SingleCalm, QuickfindCalm
  <2>8. QED  BY <1>2, <1>5, <2>3, <2>4, <2>6, <2>7, SearchIsCalm DEF SearchCalm
<1>8. QED  BY <1>5, <1>7 DEF Keeps

LEMMA QuickfindDiscoveryAnsweredKeeps ==
  ASSUME CInv, QuickfindDiscoveryAnswered PROVE Keeps
<1> DEFINE s == [sm EXCEPT !.quick_find_discovery = NotRunning(kQuikfindDiscoveryCounter)]
           q == [s EXCEPT !.quick_find_uid = line.uid]
           d == [s EXCEPT !.response = line]
<1>1. /\ At(sm) = "kQuickfindDiscovery" /\ line # NoFrame /\ Receive(line)
      /\ sm' \in {NewState(q, "kQuickfind", TRUE), NewState(d, "kDub", FALSE)}
      /\ UNCHANGED <<tod, env>> /\ At(sm) \in SearchStates
      /\ {"kQuickfind", "kDub"} \subseteq States \ {"kLateResponse"}
  BY DEF QuickfindDiscoveryAnswered, At, SearchStates, States
<1>2. Tidy(sm) /\ Hand(sm)
  BY <1>1, Given DEF Hand, Unclaimed
<1>3. /\ q \in SmType /\ q.stack = sm.stack /\ q.range = sm.range
      /\ q.do_incremental = sm.do_incremental
      /\ q.discovery_single_device = sm.discovery_single_device
      /\ q.quick_find = sm.quick_find
      /\ q.quick_find_discovery = NotRunning(kQuikfindDiscoveryCounter)
  BY Given, Members, Counts DEF SmType, Frame
<1>4. /\ d \in SmType /\ d.stack = sm.stack /\ d.range = sm.range
      /\ d.do_incremental = sm.do_incremental /\ d.response = line
      /\ d.discovery_single_device = sm.discovery_single_device
      /\ d.quick_find = sm.quick_find
      /\ d.quick_find_discovery = NotRunning(kQuikfindDiscoveryCounter)
  BY Given, Members, Counts DEF SmType
<1> HIDE DEF s, q, d
<1>5. \/ At(sm') = "kQuickfind" /\ SameMembers(sm', q)
      \/ At(sm') = "kDub" /\ sm'.state = "kDub" /\ SameMembers(sm', d)
  BY <1>1, <1>3, <1>4, NewStateKeeps
<1>6. /\ At(sm') \in {"kQuickfind", "kDub"}
      /\ sm'.stack = sm.stack /\ sm'.range = sm.range
      /\ sm'.do_incremental = sm.do_incremental
      /\ sm'.discovery_single_device = sm.discovery_single_device
      /\ sm'.quick_find = sm.quick_find
      /\ sm'.quick_find_discovery = NotRunning(kQuikfindDiscoveryCounter)
      /\ At(sm') = "kDub" => sm'.response = line /\ sm'.state = "kDub"
  BY <1>3, <1>4, <1>5 DEF SameMembers
<1>7. Hand(sm')
  BY <1>6 DEF Hand, Unclaimed
<1>8. Depth(sm')
  BY <1>2, <1>6, <1>7, Given, DepthKept
<1>9. Tidy(sm')
  <2>1. /\ ~ NotRunning(kQuikfindDiscoveryCounter).is_command_running
        /\ ~ sm.quick_find.is_command_running /\ ~ sm.discovery_single_device.is_command_running
    BY <1>1, Given, Members, Counts, AtRest
  <2>2. ~ sm'.discovery.is_command_running
    BY <1>1, <1>3, <1>4, <1>5, Given, AtRest DEF SameMembers, s, q, d, SmType
  <2>3. QED  BY <1>1, <1>2, <1>6, <2>1, <2>2 DEF Tidy, Quiet
<1>10. ASSUME Undisturbed' PROVE Calm'
  <2>1. Undisturbed /\ SearchCalm /\ devices' = devices /\ muted' = muted /\ tod' = tod
    BY <1>1, <1>6, <1>10, ReceiveStep
  <2>2. muted = Listed(tod)
    BY <1>1, <2>1 DEF SearchCalm, Agreed, Pending
  <2>3. Agreed'
    BY <2>1, <2>2 DEF Agreed
  <2>4. Covered'
    BY <1>2, <1>6, <1>7, <2>1 DEF SearchCalm, Covered
  <2>5. QuickfindCalm'
    BY <1>1, <1>6, <2>1, <2>2, Given, AtRest DEF QuickfindCalm
  <2>6. DubCalm'
    BY <1>1, <1>6 DEF DubCalm
  <2>7. DiscoveryCalm' /\ SingleCalm' /\ BranchCalm'
    BY <1>6 DEF DiscoveryCalm, SingleCalm, BranchCalm
  <2>8. QED  BY <1>1, <1>6, <2>3, <2>4, <2>5, <2>6, <2>7, SearchIsCalm DEF SearchCalm, SearchStates
<1>11. QED  BY <1>8, <1>9, <1>10 DEF Keeps

LEMMA QuickfindDiscoveryTimeOutKeeps ==
  ASSUME CInv, QuickfindDiscoveryTimeOut PROVE Keeps
<1>1. /\ sm.state = "kQuickfindDiscovery" /\ At(sm) = "kQuickfindDiscovery"
      /\ sm.quick_find_discovery.is_command_running /\ sm.quick_find_discovery.counter # 0
      /\ line = NoFrame /\ UNCHANGED <<tod, bus, env>>
      /\ sm' = [sm EXCEPT !.quick_find_discovery = NotRunning(@.counter - 1)]
      /\ At(sm) \in SearchStates /\ sm.quick_find_discovery.counter \in Nat
      /\ sm.quick_find_discovery.counter - 1 \in Nat
  BY CounterTypes DEF QuickfindDiscoveryTimeOut, TimedOut, At, SearchStates, States
<1>2. /\ sm'.state = sm.state /\ sm'.saved_state = sm.saved_state
      /\ sm'.stack = sm.stack /\ sm'.range = sm.range /\ sm'.do_incremental = sm.do_incremental
      /\ sm'.discovery_single_device = sm.discovery_single_device
      /\ sm'.quick_find = sm.quick_find
      /\ sm'.quick_find_discovery.counter = sm.quick_find_discovery.counter - 1
      /\ ~ sm'.quick_find_discovery.is_command_running
  BY <1>1, Given, Counts DEF SmType
<1>3. Hand(sm)
  BY <1>1 DEF Hand, Unclaimed
<1>4. At(sm') = At(sm) /\ Depth(sm)' /\ Tidy(sm)'
  BY <1>1, <1>2, <1>3, StaySearching
<1>5. Hand(sm')
  BY <1>1, <1>4 DEF Hand, Unclaimed
<1>6. ASSUME Undisturbed' PROVE Calm'
  <2>1. /\ Undisturbed /\ SearchCalm /\ tod' = tod
        /\ devices' = devices /\ muted' = muted /\ Lost' = Lost
    BY <1>1, <1>2, <1>6, QuietStep
  <2>2. Agreed' /\ Covered'
    BY <1>1, <1>2, <1>3, <1>4, <1>5, <2>1 DEF SearchCalm, Agreed, Covered, Pending
  <2>3. BranchCalm'
    <3>1. ASSUME Unmuted(sm.range) # {}
          PROVE  sm.quick_find_discovery.counter - 1 + Lost >= kQuikfindDiscoveryCounter
      <4>1. Lost \in Nat /\ kQuikfindDiscoveryCounter \in Nat
        BY Given, Ghosts, Members
      <4>2. sm.quick_find_discovery.counter + Lost >= kQuikfindDiscoveryCounter + 1
        BY <1>1, <2>1, <3>1, <4>1 DEF SearchCalm, BranchCalm, Left
      <4>3. QED  BY <1>1, <4>1, <4>2
    <3>2. kQuikfindDiscoveryCounter \in Nat
      BY Given, Members
    <3>3. QED  BY <1>2, <2>1, <3>1, <3>2 DEF BranchCalm, Left, Unmuted
  <2>4. DiscoveryCalm' /\ DubCalm' /\ SingleCalm' /\ QuickfindCalm'
    BY <1>1, <1>4 DEF DiscoveryCalm, DubCalm, SingleCalm, QuickfindCalm
  <2>5. QED  BY <1>1, <1>4, <2>2, <2>3, <2>4, SearchIsCalm DEF SearchCalm
<1>7. QED  BY <1>4, <1>6 DEF Keeps

\* What a step to kIdle has to keep up.
LEMMA IdleKeeps ==
  ASSUME CInv, At(sm') = "kIdle", sm'.stack = sm.stack PROVE Keeps
<1>1. ~ Hand(sm')
  BY DEF Hand, Unclaimed
<1>2. Depth(sm')
  BY <1>1, Given, DepthKept
<1>3. QED  BY <1>2 DEF Keeps, Calm

LEMMA FinishedKeeps ==
  ASSUME CInv, Finished PROVE Keeps /\ At(sm') = "kIdle" /\ sm'.is_finished /\ sm'.state = "kIdle"
<1> DEFINE s == [sm EXCEPT !.is_finished = TRUE]
<1>1. sm' = NewState(s, "kIdle", FALSE) /\ "kIdle" \in States \ {"kLateResponse"}
  BY DEF Finished, States
<1>2. s \in SmType /\ s.stack = sm.stack /\ s.is_finished
  BY Given DEF SmType
<1> HIDE DEF s
<1>3. At(sm') = "kIdle" /\ sm'.state = "kIdle" /\ SameMembers(sm', s)
  BY <1>1, <1>2, NewStateKeeps
<1>4. QED  BY <1>2, <1>3, IdleKeeps DEF SameMembers

-----------------------------------------------------------------------------
(* All the steps. *)

LEMMA ProcessKeeps ==
  ASSUME CInv, Process PROVE Keeps
BY LateResponseKeeps, UnmuteDoneKeeps, UnmuteSendKeeps, UnmuteTimeOutKeeps,
   MuteDoneKeeps, MuteGoneKeeps, MuteSendKeeps, MuteAnsweredKeeps, MuteTimeOutKeeps,
   DiscoveryReceiveKeeps, DiscoveryTimeOutKeeps, DiscoveryEmptyKeeps,
   DiscoveryPopSingleKeeps, DiscoveryPopBranchKeeps,
   SingleGiveUpKeeps, SingleSendKeeps, SingleAnsweredKeeps, SingleTimeOutKeeps,
   DubNoneKeeps, DubValidKeeps, DubCollisionKeeps,
   QuickfindSendKeeps, QuickfindAnsweredKeeps, QuickfindTimeOutKeeps,
   QuickfindDiscoveryGiveUpKeeps, QuickfindDiscoverySendKeeps,
   QuickfindDiscoveryAnsweredKeeps, QuickfindDiscoveryTimeOutKeeps, FinishedKeeps DEF Process

LEMMA QuietFrames ==
  ASSUME LineSound, FramesSound, UNCHANGED <<bus, env>>
  PROVE  /\ FramesSound'
         /\ {noise', delayed'} \subseteq Nat /\ noise <= noise' /\ delayed <= delayed'
BY Ghosts DEF FramesSound, Genuine, bus, env

\* Deleting keeps a table a set, whether the UID is listed or not.
LEMMA DeleteKeepsSet ==
  ASSUME NEW t \in TodType, TodIsSet(t), NEW uid PROVE TodIsSet(TodDelete(t, uid))
<1>1. CASE uid \notin Listed(t)
  BY <1>1 DEF TodDelete
<1>2. CASE uid \in Listed(t)
  <2>1. PICK e \in 0 .. t.entries - 1 : t.tod[e] = uid
    BY <1>2 DEF Listed
  <2>2. QED  BY <2>1, DeleteShifts
<1>3. QED  BY <1>1, <1>2

\* The table stays a set, no answer is made up, and no message lost is forgotten.
LEMMA ProcessFrames ==
  ASSUME CInv, Process
  PROVE  /\ TodIsSet(tod)' /\ FramesSound' /\ UNCHANGED env
         /\ {noise', delayed'} \subseteq Nat /\ noise <= noise' /\ delayed <= delayed'
<1>1. /\ LineSound /\ FramesSound /\ tod \in TodType /\ TodIsSet(tod) /\ line \in Frame
      /\ sm.range.lower_bound \in Uids
  BY Given, CounterTypes
<1>2. CASE UnmuteDone \/ MuteDone \/ DiscoveryEmpty \/ DiscoveryPopSingle \/ SingleGiveUp
           \/ DubNone \/ DubValid \/ DubCollision \/ QuickfindTimeOut
           \/ QuickfindDiscoveryGiveUp \/ QuickfindDiscoveryTimeOut \/ Finished
  <2>1. UNCHANGED <<tod, bus, env>>
    BY <1>2 DEF UnmuteDone, MuteDone, DiscoveryEmpty, DiscoveryPopSingle, SingleGiveUp,
                DubNone, DubValid, DubCollision, QuickfindTimeOut,
                QuickfindDiscoveryGiveUp, QuickfindDiscoveryTimeOut, Finished
  <2>2. QED  BY <1>1, <2>1, QuietFrames
<1>3. CASE MuteGone
  <2>1. tod' = TodDelete(tod, sm.mute_uid) /\ UNCHANGED <<bus, env>>
    BY <1>3 DEF MuteGone
  <2>2. QED  BY <1>1, <2>1, QuietFrames, DeleteKeepsSet
<1>4. CASE \/ UnmuteSend \/ MuteSend \/ MuteTimeOut \/ DiscoveryTimeOut \/ DiscoveryPopBranch
           \/ SingleSend \/ SingleTimeOut \/ QuickfindDiscoverySend
  <2>1. /\ UNCHANGED <<tod, env>>
        /\ \E m : Transmit(m) /\ m.pid \in {"DISC_UN_MUTE", "DISC_MUTE", "DISC_UNIQUE_BRANCH"}
    BY <1>4 DEF UnmuteSend, MuteSend, MuteTimeOut, DiscoveryTimeOut, DiscoveryPopBranch,
                SingleSend, SingleTimeOut, QuickfindDiscoverySend,
                UnMuteAllMsg, MuteMsg, BranchMsg
  <2>2. QED  BY <1>1, <2>1, TransmitFrames
<1>5. CASE QuickfindSend
  <2>1. /\ UNCHANGED <<tod, env>>
        /\ UNCHANGED bus \/ Transmit(MuteMsg(sm.quick_find_uid))
    BY <1>5 DEF QuickfindSend
  <2>2. MuteMsg(sm.quick_find_uid).pid = "DISC_MUTE"
    BY DEF MuteMsg
  <2>3. QED  BY <1>1, <2>1, <2>2, QuietFrames, TransmitFrames
<1>6. CASE \/ LateResponse \/ UnmuteTimeOut \/ MuteAnswered \/ DiscoveryReceive
           \/ QuickfindDiscoveryAnswered
  <2>1. UNCHANGED <<tod, env>> /\ \E frame : Receive(frame)
    BY <1>6 DEF LateResponse, UnmuteTimeOut, MuteAnswered, DiscoveryReceive,
                QuickfindDiscoveryAnswered
  <2>2. QED  BY <1>1, <2>1, ReceiveFrames
<1>7. CASE SingleAnswered
  <2>1. /\ UNCHANGED env /\ Receive(line)
        /\ tod' \in {tod, TodAddUid(tod, sm.range.lower_bound)}
    BY <1>7 DEF SingleAnswered
  <2>2. QED  BY <1>1, <2>1, ReceiveFrames, AddAppends
<1>8. CASE QuickfindAnswered
  <2>1. /\ UNCHANGED env /\ Receive(line)
        /\ tod' \in {tod, TodAddUid(tod, line.uid)}
    BY <1>8 DEF QuickfindAnswered
  <2>2. line.uid \in Uids
    BY <1>1 DEF Frame
  <2>3. QED  BY <1>1, <2>1, <2>2, ReceiveFrames, AddAppends
<1>9. QED  BY <1>2, <1>3, <1>4, <1>5, <1>6, <1>7, <1>8 DEF Process

LEMMA StartedFacts ==
  ASSUME CInv, sm.state = "kIdle", NEW incremental \in BOOLEAN
  PROVE  LET t == Started(incremental) IN
         /\ t \in SmType /\ t.state = "kUnmute" /\ t.stack = <<Everyone>>
         /\ t.do_incremental = incremental /\ ~ t.is_finished
         /\ t.unmute = NotRunning(kUnmuteCounter) /\ t.mute = NotRunning(kMuteCounter)
         /\ t.discovery_single_device = NotRunning(kMuteCounter)
         /\ ~ t.quick_find.is_command_running
         /\ t.quick_find_discovery = NotRunning(kQuikfindDiscoveryCounter)
<1> DEFINE s == [sm EXCEPT !.do_incremental = incremental,
               !.is_finished    = FALSE,
               !.unmute         = NotRunning(kUnmuteCounter),
               !.mute           = NotRunning(kMuteCounter),
               !.stack          = Push(<<>>, Everyone),
               !.discovery      = NotRunning(kDiscoveryCounter),
               !.discovery_single_device = NotRunning(kMuteCounter),
               !.quick_find              = NotRunning(kQuikfindCounter),
               !.quick_find_discovery    = NotRunning(kQuikfindDiscoveryCounter)]
           t == Started(incremental)
<1>1. Push(<<>>, Everyone) = <<Everyone>> /\ <<Everyone>> \in Seq(Branch)
  BY DiscoveryAssumption, EveryoneRange DEF Push
<1>2. /\ s \in SmType /\ s.stack = <<Everyone>>
      /\ s.do_incremental = incremental /\ ~ s.is_finished
      /\ s.unmute = NotRunning(kUnmuteCounter) /\ s.mute = NotRunning(kMuteCounter)
      /\ s.discovery_single_device = NotRunning(kMuteCounter)
      /\ ~ s.quick_find.is_command_running
      /\ s.quick_find_discovery = NotRunning(kQuikfindDiscoveryCounter)
  BY <1>1, Given, Members, Counts DEF SmType
<1>3. t = NewState(s, "kUnmute", FALSE) /\ "kUnmute" \in States \ {"kLateResponse"}
  BY DEF Started, States
<1> HIDE DEF s, t
<1>4. t.state = "kUnmute" /\ SameMembers(t, s) /\ t \in SmType
  BY <1>2, <1>3, NewStateKeeps, NewStateSound
<1>5. QED  BY <1>2, <1>4 DEF SameMembers, t

LEMMA StartKeeps ==
  ASSUME CInv, Full \/ Incremental
  PROVE  /\ Keeps /\ TodIsSet(tod)'
         /\ sm'.state = "kUnmute" /\ ~ sm'.is_finished
         /\ sm'.do_incremental \in BOOLEAN
         /\ Listed(tod') = IF sm'.do_incremental THEN Listed(tod) ELSE {}
<1> DEFINE inc == IF Full THEN FALSE ELSE TRUE
<1>1. PICK t : t = Started(inc)
  OBVIOUS
<1>2. /\ sm.state = "kIdle" /\ inc \in BOOLEAN /\ UNCHANGED <<bus, env>>
      /\ IF inc THEN sm' = [t EXCEPT !.tod_entries = tod.entries] /\ tod' = tod
                ELSE sm' = t /\ tod' = TodReset(tod)
  BY <1>1 DEF Full, Incremental
<1> HIDE DEF inc
<1>3. /\ t \in SmType /\ t.state = "kUnmute" /\ t.stack = <<Everyone>>
      /\ t.do_incremental = inc /\ ~ t.is_finished
      /\ t.unmute = NotRunning(kUnmuteCounter) /\ t.mute = NotRunning(kMuteCounter)
      /\ t.discovery_single_device = NotRunning(kMuteCounter)
      /\ ~ t.quick_find.is_command_running
      /\ t.quick_find_discovery = NotRunning(kQuikfindDiscoveryCounter)
  BY <1>1, <1>2, StartedFacts
<1>4. /\ sm'.state = "kUnmute" /\ sm'.stack = <<Everyone>>
      /\ sm'.do_incremental = inc /\ ~ sm'.is_finished
      /\ sm'.unmute = NotRunning(kUnmuteCounter) /\ sm'.mute = NotRunning(kMuteCounter)
      /\ sm'.discovery_single_device = NotRunning(kMuteCounter)
      /\ ~ sm'.quick_find.is_command_running
      /\ sm'.quick_find_discovery = NotRunning(kQuikfindDiscoveryCounter)
      /\ inc => sm'.tod_entries = tod.entries
  BY <1>2, <1>3 DEF SmType
<1>5. At(sm') = "kUnmute" /\ ~ Hand(sm')
  BY <1>4 DEF At, Hand, Unclaimed
<1>6. Depth(sm')
  BY <1>4, <1>5, DepthStarts
<1>7. Tidy(sm')
  BY <1>4, <1>5 DEF Tidy
<1>8. /\ TodIsSet(tod') /\ Listed(tod') = IF inc THEN Listed(tod) ELSE {}
      /\ ~ inc => tod'.entries = 0
  BY <1>2, Given, ResetEmpties
<1>9. UnmuteCalm'
  <2>1. /\ sm'.unmute.counter = kUnmuteCounter /\ ~ sm'.unmute.is_command_running
        /\ kUnmuteCounter \in Nat \ {0}
    BY <1>4, Given, Members, Counts
  <2>2. noise' = noise /\ noise \in Nat
    BY <1>2, Given, Ghosts DEF bus
  <2>3. kUnmuteCounter - kUnmuteCounter + 0 <= noise
    BY <2>1, <2>2
  <2>4. inc => tod' = tod
    BY <1>2
  <2>5. QED  BY <1>4, <1>8, <2>1, <2>2, <2>3, <2>4 DEF UnmuteCalm
<1>10. Calm'
  BY <1>5, <1>9 DEF Calm
<1>11. QED  BY <1>2, <1>4, <1>6, <1>7, <1>8, <1>10 DEF Keeps

LEMMA StopKeeps ==
  ASSUME CInv, Stop
  PROVE  /\ Keeps /\ At(sm') = "kIdle" /\ ~ sm'.is_finished
         /\ sm'.do_incremental = sm.do_incremental
<1> DEFINE s == [sm EXCEPT !.is_finished = FALSE]
<1>1. sm' = NewState(s, "kIdle", TRUE) /\ "kIdle" \in States \ {"kLateResponse"}
  BY DEF Stop, States
<1>2. s \in SmType /\ s.stack = sm.stack /\ ~ s.is_finished /\ s.do_incremental = sm.do_incremental
  BY Given DEF SmType
<1> HIDE DEF s
<1>3. At(sm') = "kIdle" /\ SameMembers(sm', s)
  BY <1>1, <1>2, NewStateKeeps
<1>4. QED  BY <1>2, <1>3, IdleKeeps DEF SameMembers

\* An answer that comes late is still the one to the request that runs.
LEMMA LateAnswerKeeps ==
  ASSUME CInv, LateAnswer PROVE Keeps /\ FramesSound'
<1>1. /\ late # NoFrame /\ line' = late /\ late' = NoFrame /\ sm' = sm /\ tod' = tod
      /\ devices' = devices /\ muted' = muted /\ noise' = noise /\ delayed' = delayed
      /\ unplugged' = unplugged /\ line = NoFrame
  BY DEF LateAnswer
<1>2. delayed # 0 /\ FramesSound'
  BY <1>1, Given, FramesDiffer DEF FramesSound, Genuine
<1>3. At(sm') = At(sm) /\ Depth(sm') /\ (At(sm') # "kIdle" => Tidy(sm')) /\ Lost' = Lost
      /\ (Hand(sm') <=> Hand(sm))
  BY <1>1, Given DEF Lost
<1>4. ASSUME Undisturbed' PROVE Calm'
  <2>1. Undisturbed
    BY <1>1, <1>4 DEF Undisturbed
  <2>2. Calm /\ noise = 0 /\ ~ sm.do_incremental
    BY <1>2, <2>1, Given, UndisturbedFacts
  <2>3. CASE At(sm) = "kIdle"
    BY <1>3, <2>3 DEF Calm
  <2>4. CASE At(sm) = "kUnmute"
    <3>1. UnmuteCalm
      BY <2>2, <2>4 DEF Calm
    <3>2. UnmuteCalm'
      BY <1>1, <3>1 DEF UnmuteCalm
    <3>3. QED  BY <1>3, <2>4, <3>2 DEF Calm
  <2>5. CASE At(sm) = "kMute"
    BY <2>2, <2>5, Given DEF Tidy
  <2>6. CASE At(sm) \notin {"kIdle", "kUnmute", "kMute"}
    <3>1. SearchCalm
      BY <2>2, <2>6 DEF Calm
    <3>2. Agreed' /\ Covered'
      BY <1>1, <1>3, <3>1 DEF SearchCalm, Agreed, Covered, Pending
    <3>3. \A c, n : Left(c, n) => c.counter + Lost >= n
                       + (IF c.is_command_running /\ line = NoFrame THEN 1 ELSE 0)
      BY DEF Left
    <3>4. ASSUME NEW c, c.counter \in Nat, NEW n \in Nat, Left(c, n)
          PROVE  c.counter + Lost' >= n + (IF c.is_command_running /\ line' = NoFrame THEN 1 ELSE 0)
      BY <1>1, <1>3, <3>3, <3>4, Given, Ghosts
    <3>5. /\ kDiscoveryCounter \in Nat /\ kMuteCounter \in Nat /\ kQuikfindDiscoveryCounter \in Nat
      BY Given, Members
    <3>6. ASSUME NEW u, MuteSent(u) PROVE MuteSent(u)'
      <4>1. late = MuteAck(u) => u \in devices
        BY <2>1, Given, UndisturbedFacts, FramesDiffer DEF FramesSound, Genuine
      <4>2. QED  BY <1>1, <1>2, <2>2, <3>6, <4>1 DEF MuteSent
    <3>7. DiscoveryCalm'
      BY <1>1, <1>3, <3>1, <3>4, <3>5, CounterTypes DEF SearchCalm, DiscoveryCalm, Unmuted, Left
    <3>8. DubCalm'
      BY <1>1, <1>3, <3>1 DEF SearchCalm, DubCalm, Unmuted
    <3>9. SingleCalm'
      <4>1. SUFFICES ASSUME At(sm) = "kDiscoverySingleDevice"
                     PROVE  SingleCalm'
        BY <1>3 DEF SingleCalm
      <4>2. sm.discovery_single_device.is_command_running => MuteSent(sm.range.lower_bound)'
        BY <3>1, <3>6, <4>1, <1>1 DEF SearchCalm, SingleCalm, MuteSent
      <4>3. sm.range.lower_bound \in devices =>
              \E n \in {kMuteCounter, kQuikfindDiscoveryCounter} :
                sm.discovery_single_device.counter + Lost' >= n
                  + (IF sm.discovery_single_device.is_command_running /\ line' = NoFrame THEN 1 ELSE 0)
        BY <3>1, <3>4, <3>5, <4>1, CounterTypes DEF SearchCalm, SingleCalm
      <4>4. QED  BY <1>1, <4>2, <4>3 DEF SingleCalm, Left
    <3>10. QuickfindCalm'
      <4>1. SUFFICES ASSUME At(sm) = "kQuickfind"
                     PROVE  QuickfindCalm'
        BY <1>3 DEF QuickfindCalm
      <4>2. sm.quick_find.is_command_running => MuteSent(sm.quick_find_uid)'
        BY <3>1, <3>6, <4>1, <1>1 DEF SearchCalm, QuickfindCalm, MuteSent
      <4>3. QED  BY <1>1, <3>1, <4>1, <4>2 DEF SearchCalm, QuickfindCalm
    <3>11. BranchCalm'
      BY <1>1, <1>3, <3>1, <3>4, <3>5, CounterTypes DEF SearchCalm, BranchCalm, Unmuted, Left
    <3>12. SearchCalm'
      BY <3>2, <3>7, <3>8, <3>9, <3>10, <3>11 DEF SearchCalm
    <3>13. QED  BY <1>3, <2>6, <3>12 DEF Calm
  <2>7. QED  BY <2>3, <2>4, <2>5, <2>6
<1>5. QED  BY <1>2, <1>3, <1>4 DEF Keeps

-----------------------------------------------------------------------------
(* What an undisturbed discovery finds. *)

LEMMA InitCalm == Init => CInv
<1> SUFFICES ASSUME Init PROVE CInv
  OBVIOUS
<1>1. IInv /\ LineSound
  BY InitSound DEF IInv
<1>2. At(sm) = "kIdle" /\ sm.stack = <<>> /\ ~ Hand(sm)
  BY DEF Init, At, Hand, Unclaimed
<1>3. Len(sm.stack) <= kDiscoveryStackSize /\ Len(sm.stack) = 0
  BY <1>2, DiscoveryAssumption
<1>4. Depth(sm)
  BY <1>2, <1>3 DEF Depth
<1>5. TodIsSet(tod)
  <2>1. tod.entries = 0
    BY DEF Init, EmptyTod
  <2>2. 0 .. tod.entries - 1 = {}
    BY <2>1
  <2>3. QED  BY <2>2 DEF TodIsSet, Listed
<1>6. FramesSound
  BY FramesDiffer DEF Init, FramesSound, Genuine
<1>7. QED  BY <1>1, <1>2, <1>4, <1>5, <1>6 DEF CInv, Calm

LEMMA StepCalm == CInv /\ [Next]_vars => CInv'
<1> SUFFICES ASSUME CInv, [Next]_vars PROVE CInv'
  OBVIOUS
<1>1. IInv'
  BY StepSound DEF CInv
<1>2. LineSound /\ FramesSound /\ TodIsSet(tod) /\ unplugged \in Nat
  BY Given, Ghosts
<1>3. CASE Full \/ Incremental
  <2>1. UNCHANGED <<bus, env>>
    BY <1>3 DEF Full, Incremental
  <2>2. QED  BY <1>1, <1>2, <1>3, <2>1, StartKeeps, QuietFrames DEF CInv, Keeps
<1>4. CASE Stop
  <2>1. UNCHANGED <<tod, bus, env>>
    BY <1>4 DEF Stop
  <2>2. QED  BY <1>1, <1>2, <1>4, <2>1, StopKeeps, QuietFrames DEF CInv, Keeps
<1>5. CASE Process
  BY <1>1, <1>5, ProcessKeeps, ProcessFrames DEF CInv, Keeps
<1>6. CASE LateAnswer
  <2>1. tod' = tod
    BY <1>6 DEF LateAnswer
  <2>2. QED  BY <1>1, <1>2, <1>6, <2>1, LateAnswerKeeps DEF CInv, Keeps
<1>7. CASE Replug
  <2>1. sm' = sm /\ tod' = tod /\ At(sm) = "kIdle"
    BY <1>7 DEF Replug, At
  <2>2. FramesSound'
    BY <1>7, FramesDiffer DEF Replug, FramesSound, Genuine
  <2>3. QED  BY <1>1, <1>2, <2>1, <2>2, IdleKeeps DEF CInv, Keeps
<1>8. CASE \E u \in devices : Unplug(u)
  <2>1. /\ sm' = sm /\ tod' = tod /\ line' = line /\ late' = late /\ delayed' = delayed
        /\ unplugged' = unplugged + 1
    BY <1>8 DEF Unplug
  <2>2. ~ Undisturbed' /\ FramesSound'
    BY <1>2, <2>1 DEF Undisturbed, FramesSound
  <2>3. Depth(sm') /\ (At(sm') # "kIdle" => Tidy(sm')) /\ TodIsSet(tod')
    BY <2>1, Given
  <2>4. QED  BY <1>1, <2>2, <2>3 DEF CInv
<1>9. CASE UNCHANGED vars
  <2>1. /\ sm' = sm /\ tod' = tod /\ devices' = devices /\ muted' = muted /\ line' = line
        /\ late' = late /\ noise' = noise /\ delayed' = delayed /\ unplugged' = unplugged
    BY <1>9 DEF vars
  <2>2. Depth(sm') /\ (At(sm') # "kIdle" => Tidy(sm')) /\ TodIsSet(tod')
    BY <2>1, Given
  <2>3. FramesSound'
    BY <1>2, <2>1 DEF FramesSound, Genuine
  <2>4. (Undisturbed => Calm)'
    BY <2>1, Given DEF Undisturbed, Calm, UnmuteCalm, MuteCalm, SearchCalm, Agreed, Pending,
                       Covered, DiscoveryCalm, DubCalm, SingleCalm, QuickfindCalm, BranchCalm,
                       MuteSent, Left, Lost, Unmuted
  <2>5. QED  BY <1>1, <2>2, <2>3, <2>4 DEF CInv
<1>10. QED  BY <1>3, <1>4, <1>5, <1>6, <1>7, <1>8, <1>9 DEF Next

LEMMA AlwaysCalm == Spec => []CInv
BY InitCalm, StepCalm, PTL DEF Spec

LEMMA FinishedIsComplete == CInv => Complete
<1> SUFFICES ASSUME CInv, sm.state = "kFinished", Undisturbed
             PROVE  Listed(tod) = devices /\ TodIsSet(tod) /\ devices \subseteq muted
  BY DEF Complete
<1>1. At(sm) = "kFinished" /\ At(sm) \in SearchStates /\ ~ Hand(sm)
  BY DEF At, SearchStates, States, Hand, Unclaimed
<1>2. SearchCalm /\ sm.stack = <<>> /\ muted \subseteq devices /\ TodIsSet(tod)
  BY <1>1, Given, SearchIsCalm DEF Tidy
<1>3. Listed(tod) = muted
  BY <1>1, <1>2 DEF SearchCalm, Agreed, Pending
<1>4. devices \subseteq Listed(tod)
  BY <1>1, <1>2 DEF SearchCalm, Covered
<1>5. QED  BY <1>2, <1>3, <1>4

\* An undisturbed discovery that ends has the devices on the line in the table, all of
\* them, no other and each once, and has muted them.
THEOREM FindsAll == Spec => []Complete
BY AlwaysCalm, FinishedIsComplete, PTL

\* The steps that can put a device in the table.
LEMMA TableSteps ==
  ASSUME CInv, [Next]_vars
  PROVE  SingleAnswered \/ QuickfindAnswered \/ Listed(tod') \subseteq Listed(tod)
<1>1. CASE MuteGone
  <2>1. CASE sm.mute_uid \in Listed(tod)
    <3>1. PICK e \in 0 .. tod.entries - 1 : tod.tod[e] = sm.mute_uid
      BY <2>1 DEF Listed
    <3>2. Listed(TodDelete(tod, sm.mute_uid)) = Listed(tod) \ {sm.mute_uid}
      BY <3>1, Given, DeleteShifts
    <3>3. QED  BY <1>1, <3>2 DEF MuteGone
  <2>2. CASE sm.mute_uid \notin Listed(tod)
    BY <1>1, <2>2 DEF MuteGone, TodDelete
  <2>3. QED  BY <2>1, <2>2
<1>2. CASE Full
  BY <1>2, Given, ResetEmpties DEF Full
<1>3. CASE Process /\ ~ (MuteGone \/ SingleAnswered \/ QuickfindAnswered)
  <2>1. tod' = tod
    BY <1>3 DEF Process, LateResponse, UnmuteDone, UnmuteSend, UnmuteTimeOut,
      MuteDone, MuteSend, MuteAnswered, MuteTimeOut, DiscoveryReceive, DiscoveryTimeOut,
      DiscoveryEmpty, DiscoveryPopSingle, DiscoveryPopBranch, SingleGiveUp, SingleSend,
      SingleTimeOut, DubNone, DubValid, DubCollision, QuickfindSend, QuickfindTimeOut,
      QuickfindDiscoveryGiveUp, QuickfindDiscoverySend, QuickfindDiscoveryAnswered,
      QuickfindDiscoveryTimeOut, Finished
  <2>2. QED  BY <2>1
<1>4. CASE \/ Incremental \/ Stop \/ LateAnswer \/ Replug \/ (\E u \in devices : Unplug(u))
           \/ UNCHANGED vars
  <2>1. tod' = tod
    BY <1>4 DEF Incremental, Stop, LateAnswer, Replug, Unplug, vars
  <2>2. QED  BY <2>1
<1>5. QED  BY <1>1, <1>2, <1>3, <1>4 DEF Next

\* A device is put in the table only after it has been muted: it cannot answer a
\* later DISC_UNIQUE_BRANCH and hide another one.
THEOREM OnlyMutedListed == Spec => ListedWhenMuted
<1>1. CInv /\ [Next]_vars => [Undisturbed => Listed(tod') \ Listed(tod) \subseteq muted]_vars
  BY TableSteps, SingleAnsweredKeeps, QuickfindAnsweredKeeps
<1>2. QED  BY <1>1, AlwaysCalm, PTL DEF Spec, ListedWhenMuted

-----------------------------------------------------------------------------
(* The promise. *)

LEMMA Phases ==
  ASSUME CInv
  PROVE  /\ Phase \in {"idle", "stopping"} <=> At(sm) = "kIdle"
         /\ Phase = "idle" <=> sm.state = "kIdle"
         /\ Phase \in {"idle", "stopping", "running"}
BY Given, Members DEF Phase, At

\* Going on to another state of the same discovery.
GoesOn == /\ sm'.is_finished = sm.is_finished /\ sm'.do_incremental = sm.do_incremental
          /\ At(sm') # "kIdle"

LEMMA NewStateGoesOn ==
  ASSUME NEW s \in SmType, NEW new \in States \ {"kLateResponse", "kIdle"},
         NEW late_too \in BOOLEAN, s.is_finished = sm.is_finished,
         s.do_incremental = sm.do_incremental, sm' = NewState(s, new, late_too)
  PROVE  GoesOn
BY NewStateKeeps DEF SameMembers, GoesOn

LEMMA StayGoesOn ==
  ASSUME sm \in SmType, sm.state \notin {"kIdle", "kLateResponse"}, sm'.state = sm.state,
         sm'.is_finished = sm.is_finished, sm'.do_incremental = sm.do_incremental
  PROVE  GoesOn
BY DEF GoesOn, At

LEMMA ProcessGoesOn ==
  ASSUME CInv, Process, ~ Finished, At(sm) # "kIdle" PROVE GoesOn
<1> USE Given
<1>0. /\ {"kMute", "kDiscovery", "kDub", "kFinished", "kDiscoverySingleDevice", "kQuickfind",
          "kQuickfindDiscovery"} \subseteq States \ {"kLateResponse", "kIdle"}
  BY DEF States
<1>1. CASE LateResponse
  BY <1>1, Members DEF LateResponse, At, SmType, GoesOn
<1>2. CASE UnmuteSend \/ UnmuteTimeOut \/ MuteGone \/ MuteSend \/ MuteAnswered \/ MuteTimeOut
  BY <1>2, StayGoesOn DEF UnmuteSend, UnmuteTimeOut, MuteGone, MuteSend, MuteAnswered,
                          MuteTimeOut, SmType
<1>3. CASE \/ DiscoveryTimeOut \/ DiscoveryPopBranch \/ SingleSend \/ SingleTimeOut
           \/ QuickfindTimeOut \/ QuickfindDiscoverySend \/ QuickfindDiscoveryTimeOut
  BY <1>3, StayGoesOn DEF DiscoveryTimeOut, DiscoveryPopBranch, SingleSend, SingleTimeOut,
       QuickfindTimeOut, QuickfindDiscoverySend, QuickfindDiscoveryTimeOut, SmType
<1>4. CASE UnmuteDone
  <2> DEFINE s == [sm EXCEPT !.unmute = NotRunning(kUnmuteCounter)]
  <2>1. s \in SmType /\ s.is_finished = sm.is_finished /\ s.do_incremental = sm.do_incremental
    BY Members, Counts DEF SmType
  <2>2. \E new \in {"kMute", "kDiscovery"} : sm' = NewState(s, new, FALSE)
    BY <1>4 DEF UnmuteDone
  <2> HIDE DEF s
  <2>3. QED  BY <1>0, <2>1, <2>2, NewStateGoesOn
<1>5. CASE MuteDone
  <2> DEFINE s == [sm EXCEPT !.mute.is_command_running = FALSE]
  <2>1. s \in SmType /\ s.is_finished = sm.is_finished /\ s.do_incremental = sm.do_incremental
    BY DEF SmType, Counter
  <2>2. sm' = NewState(s, "kDiscovery", FALSE)
    BY <1>5 DEF MuteDone
  <2> HIDE DEF s
  <2>3. QED  BY <1>0, <2>1, <2>2, NewStateGoesOn
<1>6. CASE DiscoveryReceive
  <2>1. PICK frame \in {line, NoFrame} :
          sm' = NewState([sm EXCEPT !.discovery.is_command_running = FALSE,
                                    !.response = frame], "kDub", FALSE)
    BY <1>6 DEF DiscoveryReceive
  <2> DEFINE s == [sm EXCEPT !.discovery.is_command_running = FALSE, !.response = frame]
  <2>2. s \in SmType /\ s.is_finished = sm.is_finished /\ s.do_incremental = sm.do_incremental
    BY FrameFacts DEF SmType, Counter
  <2>3. sm' = NewState(s, "kDub", FALSE)
    BY <2>1
  <2> HIDE DEF s
  <2>4. QED  BY <1>0, <2>2, <2>3, NewStateGoesOn
<1>7. CASE DiscoveryEmpty \/ DubNone
  <2>1. \E new \in {"kFinished", "kDiscovery"}, late_too \in BOOLEAN : sm' = NewState(sm, new, late_too)
    BY <1>7 DEF DiscoveryEmpty, DubNone
  <2>2. QED  BY <1>0, <2>1, NewStateGoesOn
<1>8. CASE DiscoveryPopSingle
  <2> DEFINE s == [sm EXCEPT !.stack = PopStack, !.range = Top,
                             !.quick_find_discovery.is_command_running = FALSE]
  <2>1. PopStack \in Seq(Branch) /\ Top \in Branch
    BY <1>8, PopAscends DEF Sound, Searching, DiscoveryPopSingle
  <2>2. s \in SmType /\ s.is_finished = sm.is_finished /\ s.do_incremental = sm.do_incremental
    BY <2>1 DEF SmType, Counter
  <2>3. sm' = NewState(s, "kDiscoverySingleDevice", TRUE)
    BY <1>8 DEF DiscoveryPopSingle
  <2> HIDE DEF s
  <2>4. QED  BY <1>0, <2>2, <2>3, NewStateGoesOn
<1>9. CASE SingleGiveUp \/ SingleAnswered
  <2> DEFINE s == [sm EXCEPT !.discovery_single_device = NotRunning(kQuikfindDiscoveryCounter)]
  <2>1. s \in SmType /\ s.is_finished = sm.is_finished /\ s.do_incremental = sm.do_incremental
    BY Members, Counts DEF SmType
  <2>2. sm' = sm \/ \E late_too \in BOOLEAN : sm' = NewState(s, "kDiscovery", late_too)
    BY <1>9 DEF SingleGiveUp, SingleAnswered
  <2> HIDE DEF s
  <2>3. sm' = sm => GoesOn
    BY DEF GoesOn
  <2>4. QED  BY <1>0, <2>1, <2>2, <2>3, NewStateGoesOn
<1>10. CASE DubValid
  <2> DEFINE s == [sm EXCEPT !.quick_find_uid = sm.response.uid]
  <2>1. s \in SmType /\ s.is_finished = sm.is_finished /\ s.do_incremental = sm.do_incremental
    BY DEF SmType, Frame
  <2>2. sm' = NewState(s, "kQuickfind", TRUE)
    BY <1>10 DEF DubValid
  <2> HIDE DEF s
  <2>3. QED  BY <1>0, <2>1, <2>2, NewStateGoesOn
<1>11. CASE DubCollision
  <2> DEFINE halved == Push(Push(sm.stack, LowerHalf(sm.range)), UpperHalf(sm.range))
             s == [sm EXCEPT !.stack = halved]
  <2>1. Above(sm.range, sm.stack) /\ Wide(sm.range) /\ Ascending(sm.stack)
    BY <1>11 DEF Sound, Searching, Hand, Unclaimed, DubCollision, At
  <2>2. halved \in Seq(Branch)
    BY <2>1, CounterTypes, Halves, PushAscends
  <2>3. sm' = NewState(s, "kDiscovery", TRUE)
    BY <1>11 DEF DubCollision
  <2> HIDE DEF halved
  <2>4. s \in SmType /\ s.is_finished = sm.is_finished /\ s.do_incremental = sm.do_incremental
    BY <2>2 DEF SmType
  <2> HIDE DEF s
  <2>5. QED  BY <1>0, <2>3, <2>4, NewStateGoesOn
<1>12. CASE QuickfindSend
  <2>1. CASE sm.quick_find.counter = 0
    <3>1. sm' = NewState(sm, "kQuickfindDiscovery", FALSE)
      BY <1>12, <2>1 DEF QuickfindSend
    <3>2. QED  BY <1>0, <3>1, NewStateGoesOn
  <2>2. CASE sm.quick_find.counter # 0
    BY <1>12, <2>2, StayGoesOn DEF QuickfindSend, SmType
  <2>3. QED  BY <2>1, <2>2
<1>13. CASE QuickfindAnswered
  <2> DEFINE s == [sm EXCEPT !.quick_find = NotRunning(kQuikfindCounter)]
  <2>1. s \in SmType /\ s.is_finished = sm.is_finished /\ s.do_incremental = sm.do_incremental
    BY Members, Counts DEF SmType
  <2>2. sm' = sm \/ sm' = NewState(s, "kQuickfindDiscovery", FALSE)
    BY <1>13 DEF QuickfindAnswered
  <2> HIDE DEF s
  <2>3. sm' = sm => GoesOn
    BY DEF GoesOn
  <2>4. QED  BY <1>0, <2>1, <2>2, <2>3, NewStateGoesOn
<1>14. CASE QuickfindDiscoveryGiveUp
  <2> DEFINE s == [sm EXCEPT !.quick_find_discovery = NotRunning(kQuikfindDiscoveryCounter)]
  <2>1. s \in SmType /\ s.is_finished = sm.is_finished /\ s.do_incremental = sm.do_incremental
    BY Members, Counts DEF SmType
  <2>2. sm' = NewState(s, "kDiscovery", TRUE)
    BY <1>14 DEF QuickfindDiscoveryGiveUp
  <2> HIDE DEF s
  <2>3. QED  BY <1>0, <2>1, <2>2, NewStateGoesOn
<1>15. CASE QuickfindDiscoveryAnswered
  <2> DEFINE s == [sm EXCEPT !.quick_find_discovery = NotRunning(kQuikfindDiscoveryCounter)]
             q == [s EXCEPT !.quick_find_uid = line.uid]
             d == [s EXCEPT !.response = line]
  <2>1. sm' \in {NewState(q, "kQuickfind", TRUE), NewState(d, "kDub", FALSE)}
    BY <1>15 DEF QuickfindDiscoveryAnswered
  <2>2. q \in SmType /\ q.is_finished = sm.is_finished /\ q.do_incremental = sm.do_incremental
    BY Members, Counts DEF SmType, Frame
  <2>3. d \in SmType /\ d.is_finished = sm.is_finished /\ d.do_incremental = sm.do_incremental
    BY Members, Counts DEF SmType
  <2> HIDE DEF s, q, d
  <2>4. QED  BY <1>0, <2>1, <2>2, <2>3, NewStateGoesOn
<1>16. QED
  BY <1>1, <1>2, <1>3, <1>4, <1>5, <1>6, <1>7, <1>8, <1>9, <1>10, <1>11, <1>12, <1>13,
     <1>14, <1>15 DEF Process

\* Process only waits for the late response when the discovery has been stopped.
LEMMA ProcessStopping ==
  ASSUME CInv, Process, At(sm) = "kIdle"
  PROVE  /\ Phase = "stopping" /\ Phase' = "idle"
         /\ sm'.is_finished = sm.is_finished /\ sm'.do_incremental = sm.do_incremental
         /\ tod' = tod /\ devices' = devices
<1>1. LateResponse
  BY DEF At, Process, LateResponse, UnmuteDone, UnmuteSend, UnmuteTimeOut,
      MuteDone, MuteGone, MuteSend, MuteAnswered, MuteTimeOut, DiscoveryReceive, DiscoveryTimeOut,
      DiscoveryEmpty, DiscoveryPopSingle, DiscoveryPopBranch, SingleGiveUp, SingleSend,
      SingleAnswered, SingleTimeOut, DubNone, DubValid, DubCollision, QuickfindSend,
      QuickfindAnswered, QuickfindTimeOut,
      QuickfindDiscoveryGiveUp, QuickfindDiscoverySend, QuickfindDiscoveryAnswered,
      QuickfindDiscoveryTimeOut, Finished
<1>2. sm.state = "kLateResponse" /\ sm.saved_state = "kIdle"
  BY <1>1 DEF LateResponse, At
<1>3. /\ sm'.state = "kIdle" /\ sm'.is_finished = sm.is_finished
      /\ sm'.do_incremental = sm.do_incremental /\ tod' = tod /\ devices' = devices
  BY <1>1, <1>2, Given DEF LateResponse, SmType, env
<1>4. QED  BY <1>2, <1>3 DEF Phase

LEMMA RunningAfter == At(sm') # "kIdle" => Phase' = "running"
BY DEF Phase, At

\* A device that is acknowledged is added, if it is not listed already.
LEMMA AnsweredAdds ==
  ASSUME CInv, SingleAnswered \/ QuickfindAnswered
  PROVE  \E u \in Uids : Listed(tod') \in {Listed(tod), Listed(tod) \cup {u}}
<1>1. PICK u \in Uids : tod' \in {tod, TodAddUid(tod, u)}
  BY Given, CounterTypes DEF SingleAnswered, QuickfindAnswered, Frame
<1>2. QED  BY <1>1, Given, AddAppends

LEMMA PhasesAllowed ==
  ASSUME CInv, [Next]_vars
  PROVE  /\ <<Phase, Phase'>> \notin {<<"idle", "stopping">>, <<"stopping", "running">>}
         /\ sm'.is_finished /\ ~ sm.is_finished => Phase = "running" /\ Phase' = "idle"
<1>1. CASE Full \/ Incremental
  <2>1. Phase = "idle"
    BY <1>1 DEF Full, Incremental, Phase
  <2>2. Phase' = "running" /\ ~ sm'.is_finished
    BY <1>1, StartKeeps DEF Phase
  <2>3. QED  BY <2>1, <2>2
<1>2. CASE Stop
  <2>1. Phase # "idle" /\ At(sm') = "kIdle" /\ ~ sm'.is_finished
    BY <1>2, Given, Phases, StopKeeps DEF Stop
  <2>2. Phase' \in {"idle", "stopping"}
    BY <2>1 DEF Phase, At
  <2>3. QED  BY <2>1, <2>2
<1>3. CASE Process
  <2>1. CASE At(sm) = "kIdle"
    BY <1>3, <2>1, ProcessStopping
  <2>2. CASE At(sm) # "kIdle" /\ ~ Finished
    BY <1>3, <2>2, Phases, ProcessGoesOn, RunningAfter DEF GoesOn
  <2>3. CASE Finished
    <3>1. Phase = "running"
      BY <2>3 DEF Finished, Phase
    <3>2. Phase' = "idle"
      BY <2>3, FinishedKeeps DEF Phase
    <3>3. QED  BY <3>1, <3>2
  <2>4. QED  BY <2>1, <2>2, <2>3
<1>4. CASE LateAnswer \/ Replug \/ (\E u \in devices : Unplug(u)) \/ UNCHANGED vars
  <2>1. sm' = sm
    BY <1>4 DEF LateAnswer, Replug, Unplug, vars
  <2>2. QED  BY <2>1 DEF Phase
<1>5. QED  BY <1>1, <1>2, <1>3, <1>4 DEF Next

\* The steps of an undisturbed discovery.
LEMMA ProcessPromised ==
  ASSUME CInv, Process, Undisturbed' PROVE [Promise!Next]_(Promise!vars)
<1>1. /\ devices' = devices /\ UNCHANGED env
      /\ {noise', delayed'} \subseteq Nat /\ noise <= noise' /\ delayed <= delayed'
  BY ProcessFrames DEF env
<1>2. CASE At(sm) = "kIdle"
  BY <1>2, ProcessStopping DEF Promise!Next, Promise!StopEnds
<1>3. CASE Finished
  <2>1. /\ sm.state = "kFinished" /\ Phase = "running" /\ tod' = tod
        /\ sm'.state = "kIdle" /\ sm'.is_finished /\ sm'.do_incremental = sm.do_incremental
    BY <1>3, FinishedKeeps, Given DEF Finished, Phase, NewState, SmType
  <2>2. Undisturbed
    BY <1>1, <2>1, Given, StaysDisturbed
  <2>3. Listed(tod) = devices
    BY <2>1, <2>2, FinishedIsComplete DEF Complete
  <2>4. Phase' = "idle"
    BY <2>1 DEF Phase
  <2>5. QED  BY <1>1, <2>1, <2>3, <2>4 DEF Promise!Next, Promise!Finish
<1>4. CASE At(sm) # "kIdle" /\ ~ Finished
  <2>1. GoesOn
    BY <1>4, ProcessGoesOn
  <2>2. /\ Phase = "running" /\ Phase' = "running"
        /\ sm'.is_finished = sm.is_finished /\ sm'.do_incremental = sm.do_incremental
    BY <1>4, <2>1, Phases, RunningAfter DEF GoesOn
  <2>3. Undisturbed
    BY <1>1, <2>2, Given, StaysDisturbed
  <2>4. CASE SingleAnswered \/ QuickfindAnswered
    <3>1. PICK u \in Uids : Listed(tod') \in {Listed(tod), Listed(tod) \cup {u}}
      BY <2>4, AnsweredAdds
    <3>2. Listed(tod') \ Listed(tod) \subseteq devices
      BY <2>3, <2>4, SingleAnsweredKeeps, QuickfindAnsweredKeeps, Given
    <3>3. CASE Listed(tod') = Listed(tod)
      BY <1>1, <2>2, <2>3, <3>3 DEF Promise!vars
    <3>4. CASE Listed(tod') # Listed(tod)
      <4>1. u \in devices /\ Listed(tod') = Listed(tod) \cup {u}
        BY <3>1, <3>2, <3>4
      <4>2. QED  BY <1>1, <2>2, <4>1 DEF Promise!Next, Promise!Found
    <3>5. QED  BY <3>3, <3>4
  <2>5. CASE MuteGone
    <3>1. sm.mute_uid \in Listed(tod) \ devices /\ Listed(tod') = Listed(tod) \ {sm.mute_uid}
      BY <2>5, MuteGoneKeeps
    <3>2. sm.do_incremental
      BY <2>5, Given DEF MuteGone, At, Tidy
    <3>3. QED  BY <1>1, <2>2, <3>1, <3>2 DEF Promise!Next, Promise!Gone
  <2>6. CASE ~ (SingleAnswered \/ QuickfindAnswered \/ MuteGone)
    <3>1. tod' = tod
      BY <1>4, <2>6 DEF Process, LateResponse, UnmuteDone, UnmuteSend, UnmuteTimeOut,
        MuteDone, MuteSend, MuteAnswered, MuteTimeOut, DiscoveryReceive, DiscoveryTimeOut,
        DiscoveryEmpty, DiscoveryPopSingle, DiscoveryPopBranch, SingleGiveUp, SingleSend,
        SingleTimeOut, DubNone, DubValid, DubCollision, QuickfindSend, QuickfindTimeOut,
        QuickfindDiscoveryGiveUp, QuickfindDiscoverySend, QuickfindDiscoveryAnswered,
        QuickfindDiscoveryTimeOut
    <3>2. QED  BY <1>1, <2>2, <2>3, <3>1 DEF Promise!vars
  <2>7. QED  BY <2>4, <2>5, <2>6
<1>5. QED  BY <1>2, <1>3, <1>4

LEMMA StepPromised == CInv /\ [Next]_vars => [Promise!Next]_(Promise!vars)
<1> SUFFICES ASSUME CInv, [Next]_vars PROVE [Promise!Next]_(Promise!vars)
  OBVIOUS
<1>1. CASE ~ Undisturbed'
  BY <1>1, PhasesAllowed DEF Promise!Next, Promise!Disturbance
<1>2. CASE Process /\ Undisturbed'
  BY <1>2, ProcessPromised
<1>3. CASE Full \/ Incremental
  <2>1. Phase = "idle" /\ devices' = devices
    BY <1>3 DEF Full, Incremental, Phase, env
  <2>2. /\ Phase' = "running" /\ ~ sm'.is_finished /\ sm'.do_incremental \in BOOLEAN
        /\ Listed(tod') = IF sm'.do_incremental THEN Listed(tod) ELSE {}
    BY <1>3, StartKeeps DEF Phase
  <2>3. QED  BY <2>1, <2>2 DEF Promise!Next, Promise!Start
<1>4. CASE Stop
  <2>1. /\ Phase \in {"running", "stopping"} /\ devices' = devices /\ tod' = tod
        /\ ~ sm'.is_finished /\ sm'.do_incremental = sm.do_incremental /\ At(sm') = "kIdle"
    BY <1>4, Phases, StopKeeps DEF Stop, env
  <2>2. Phase' \in {"stopping", "idle"}
    BY <2>1 DEF Phase, At
  <2>3. QED  BY <2>1, <2>2 DEF Promise!Next, Promise!Stop
<1>5. CASE LateAnswer \/ UNCHANGED vars
  <2>1. /\ sm' = sm /\ tod' = tod /\ devices' = devices /\ noise' = noise
        /\ delayed' = delayed /\ unplugged' = unplugged
    BY <1>5 DEF LateAnswer, vars
  <2>2. Undisturbed' <=> Undisturbed
    BY <2>1 DEF Undisturbed
  <2>3. Phase' = Phase
    BY <2>1 DEF Phase
  <2>4. QED  BY <2>1, <2>2, <2>3 DEF Promise!vars
<1>6. CASE Replug
  <2>1. sm' = sm /\ tod' = tod /\ Phase = "idle"
    BY <1>6 DEF Replug, Phase
  <2>2. Phase' = Phase
    BY <2>1 DEF Phase
  <2>3. QED  BY <2>1, <2>2 DEF Promise!Next, Promise!Replug
<1>7. CASE \E u \in devices : Unplug(u)
  <2>1. unplugged' # 0
    BY <1>7, Given, Ghosts DEF Unplug
  <2>2. QED  BY <1>1, <2>1 DEF Undisturbed
<1>8. QED  BY <1>1, <1>2, <1>3, <1>4, <1>5, <1>6, <1>7 DEF Next

LEMMA InitPromised == Init => Promise!Init
<1> SUFFICES ASSUME Init PROVE Promise!Init
  OBVIOUS
<1>1. Phase = "idle" /\ ~ sm.do_incremental /\ ~ sm.is_finished
  BY DEF Init, Phase
<1>2. Listed(tod) = {}
  <2>1. tod.entries = 0
    BY DEF Init, EmptyTod
  <2>2. 0 .. tod.entries - 1 = {}
    BY <2>1
  <2>3. QED  BY <2>2 DEF Listed
<1>3. (~ Undisturbed) \in BOOLEAN
  OBVIOUS
<1>4. QED  BY <1>1, <1>2, <1>3 DEF Promise!Init

\* The state machine keeps the promise its scheduler relies on: what it starts ends with
\* the devices on the line or is stopped, and only a disturbed line is an excuse.
THEOREM KeepsPromise == Spec => Implements
BY InitPromised, StepPromised, AlwaysCalm, PTL DEF Spec, Implements, Promise!Spec
=============================================================================
