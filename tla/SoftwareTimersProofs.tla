------------------------ MODULE SoftwareTimersProofs ------------------------
(***************************************************************************)
(* The pool of software timers stays well-formed for every pool size, any  *)
(* periods, any width of the clock and callbacks that perform any of the   *)
(* pool's operations.                                                      *)
(***************************************************************************)
EXTENDS SoftwareTimers, TLAPS

IInv == TypeOK /\ HandlesUnique

\* Constants in the form the arithmetic backends can use.
LEMMA Facts ==
  /\ kSoftwareTimersMax \in Nat /\ kSoftwareTimersMax > 0
  /\ MaxId \in Nat /\ MaxId > 0
  /\ ClockMod \in Nat /\ ClockMod > 0
  /\ \A n \in Int : n % ClockMod \in Clock
  /\ \A iv \in Intervals : iv \in Nat
<1>1. ClockMod \in Nat /\ ClockMod > 0
  BY PoolAssumption
<1>2. \A n \in Int : n % ClockMod \in 0 .. ClockMod - 1
  BY <1>1
<1> QED
  BY <1>1, <1>2, PoolAssumption DEF Clock

\* A deadline computed from a clock value and a period is a clock value.
LEMMA DeadlineInClock ==
  ASSUME NEW now \in Clock, NEW iv \in Intervals \cup {0}
  PROVE  (now + iv) % ClockMod \in Clock
<1>1. now + iv \in Int
  BY Facts DEF Clock
<1> QED
  BY <1>1, Facts

\* The slot a live handle is looked up in is in use and holds that handle.
LEMMA SlotOfAlive ==
  ASSUME NEW p \in PoolType, NEW h \in Alive(p)
  PROVE  /\ SlotOf(p, h) \in Used(p)
         /\ p.timers[SlotOf(p, h)].id = h
         /\ Used(p) \subseteq Slots
<1>1. \E i \in Used(p) : p.timers[i].id = h
  BY DEF Alive
<1>2. Used(p) \subseteq Slots
  BY Facts DEF PoolType, Used, Slots
<1> QED
  BY <1>1, <1>2 DEF SlotOf

\* Adding a timer keeps the pool sound: its handle is fresh.
LEMMA AddSound ==
  ASSUME NEW p \in PoolType, Sound(p), p.next_id < MaxId,
         NEW now \in Clock, NEW iv \in Intervals
  PROVE  /\ SoftwareTimerAdd(p, now, iv) \in PoolType
         /\ Sound(SoftwareTimerAdd(p, now, iv))
<1> DEFINE q == SoftwareTimerAdd(p, now, iv)
           t == [expire_time     |-> (now + iv) % ClockMod,
                 interval_millis |-> iv,
                 id              |-> p.next_id]
<1>1. CASE p.count >= kSoftwareTimersMax
  BY <1>1 DEF SoftwareTimerAdd
<1>2. CASE ~ (p.count >= kSoftwareTimersMax)
  <2>1. t \in Timer
    BY DeadlineInClock, Facts DEF Timer, Ids, PoolType
  <2>2. p.count \in Slots
    BY <1>2, Facts DEF PoolType, Slots
  <2>3. q = [timers  |-> [p.timers EXCEPT ![p.count] = t],
             count   |-> p.count + 1,
             next_id |-> p.next_id + 1,
             current |-> p.current]
    BY <1>2 DEF SoftwareTimerAdd, PoolType
  <2>4. q \in PoolType
    <3>1. [p.timers EXCEPT ![p.count] = t] \in [Slots -> Timer]
      BY <2>1 DEF PoolType
    <3>2. p.count + 1 \in 0 .. kSoftwareTimersMax /\ p.next_id + 1 \in 0 .. MaxId
      BY <1>2, Facts DEF PoolType
    <3> QED
      BY <2>3, <3>1, <3>2 DEF PoolType
  <2>5. \A i \in Used(q) : \/ i = p.count /\ q.timers[i].id = p.next_id
                           \/ i \in Used(p) /\ q.timers[i] = p.timers[i]
    BY <2>2, <2>3, Facts DEF Used, PoolType, Slots
  <2>6. Sound(q)
    <3>1. \A i, j \in Used(q) : q.timers[i].id = q.timers[j].id => i = j
      BY <2>5 DEF Sound, PoolType
    <3>2. \A i \in Used(q) : q.timers[i].id < q.next_id
      <4> SUFFICES ASSUME NEW i \in Used(q) PROVE q.timers[i].id < q.next_id
        OBVIOUS
      <4>1. CASE i = p.count /\ q.timers[i].id = p.next_id
        BY <4>1, <2>3 DEF PoolType
      <4>2. CASE i \in Used(p) /\ q.timers[i] = p.timers[i]
        <5>1. p.timers[i].id \in Int /\ p.timers[i].id < p.next_id
          BY <4>2, Facts DEF Sound, PoolType, Used, Slots, Timer, Ids
        <5> QED
          BY <4>2, <5>1, <2>3 DEF PoolType
      <4> QED
        BY <4>1, <4>2, <2>5
    <3>3. q.current = 0 \/ q.current < q.count
      BY <2>3, Facts DEF Sound, PoolType, Slots
    <3> QED
      BY <3>1, <3>2, <3>3 DEF Sound
  <2> QED
    BY <2>4, <2>6
<1> QED
  BY <1>1, <1>2

\* Deleting a timer keeps the pool sound: the last timer is moved, not copied,
\* and the cursor stays within the timers that are left.
LEMMA DeleteSound ==
  ASSUME NEW p \in PoolType, Sound(p), NEW h
  PROVE  /\ SoftwareTimerDelete(p, h) \in PoolType
         /\ Sound(SoftwareTimerDelete(p, h))
<1> DEFINE q == SoftwareTimerDelete(p, h)
           s == SlotOf(p, h)
<1>1. CASE h \notin Alive(p)
  BY <1>1 DEF SoftwareTimerDelete
<1>2. CASE h \in Alive(p)
  <2>1. s \in Used(p) /\ p.timers[s].id = h /\ Used(p) \subseteq Slots
    BY <1>2, SlotOfAlive
  <2>2. p.count \in Nat /\ p.count > 0 /\ p.count - 1 \in Used(p)
    BY <2>1 DEF Used, PoolType
  <2>3. q = [timers  |-> [p.timers EXCEPT ![s] = p.timers[p.count - 1]],
             count   |-> p.count - 1,
             next_id |-> p.next_id,
             current |-> IF p.current >= p.count - 1 THEN 0 ELSE p.current]
    BY <1>2 DEF SoftwareTimerDelete, PoolType
  <2>4. q \in PoolType
    <3>1. [p.timers EXCEPT ![s] = p.timers[p.count - 1]] \in [Slots -> Timer]
      BY <2>1, <2>2 DEF PoolType
    <3>2. p.count - 1 \in 0 .. kSoftwareTimersMax /\ 0 \in Slots
      BY <2>2, Facts DEF PoolType, Slots
    <3> QED
      BY <2>3, <3>1, <3>2 DEF PoolType
  <2>5. \A i \in Used(q) : \/ i = s /\ q.timers[i] = p.timers[p.count - 1]
                           \/ i # s /\ q.timers[i] = p.timers[i]
    <3> SUFFICES ASSUME NEW i \in Used(q)
                 PROVE  q.timers[i] = IF i = s THEN p.timers[p.count - 1]
                                               ELSE p.timers[i]
      OBVIOUS
    <3>1. i \in Slots
      BY <2>1, <2>2, <2>3 DEF Used
    <3>2. q.timers = [p.timers EXCEPT ![s] = p.timers[p.count - 1]]
      BY <2>3
    <3> QED
      BY <3>1, <3>2 DEF PoolType
  <2>6. \A i \in Used(q) : i \in Used(p) /\ i # p.count - 1
    BY <2>2, <2>3 DEF Used
  <2>7. \A i, j \in Used(q) : q.timers[i].id = q.timers[j].id => i = j
    BY <2>2, <2>5, <2>6 DEF Sound
  <2>8. \A i \in Used(q) : q.timers[i].id < q.next_id
    BY <2>2, <2>3, <2>5, <2>6 DEF Sound
  <2>9. q.current = 0 \/ q.current < q.count
    BY <2>2, <2>3 DEF PoolType, Slots
  <2> QED
    BY <2>4, <2>7, <2>8, <2>9 DEF Sound
<1> QED
  BY <1>1, <1>2

\* Replacing one timer by one with the same handle keeps the pool sound.
LEMMA UpdateSound ==
  ASSUME NEW p \in PoolType, Sound(p), NEW s \in Slots,
         NEW t \in Timer, t.id = p.timers[s].id,
         NEW q, q = [p EXCEPT !.timers[s] = t]
  PROVE  q \in PoolType /\ Sound(q)
<1>1. q = [timers  |-> [p.timers EXCEPT ![s] = t], count |-> p.count,
           next_id |-> p.next_id, current |-> p.current]
  BY DEF PoolType
<1>2. q \in PoolType
  BY <1>1 DEF PoolType
<1>3. \A i \in Slots : q.timers[i].id = p.timers[i].id
  BY <1>1 DEF PoolType
<1>4. Used(q) = Used(p) /\ Used(p) \subseteq Slots
  BY <1>1, Facts DEF Used, PoolType, Slots
<1> QED
  BY <1>1, <1>2, <1>3, <1>4 DEF Sound

LEMMA ChangeSound ==
  ASSUME NEW p \in PoolType, Sound(p), NEW now \in Clock, NEW h,
         NEW iv \in Intervals
  PROVE  /\ SoftwareTimerChange(p, now, h, iv) \in PoolType
         /\ Sound(SoftwareTimerChange(p, now, h, iv))
<1>1. CASE h \notin Alive(p)
  BY <1>1 DEF SoftwareTimerChange
<1>2. CASE h \in Alive(p)
  <2> DEFINE s == SlotOf(p, h)
             e == (now + iv) % ClockMod
             t == [p.timers[s] EXCEPT !.expire_time = e, !.interval_millis = iv]
  <2>1. s \in Slots
    BY <1>2, SlotOfAlive
  <2>2. p.timers[s] \in Timer
    BY <2>1 DEF PoolType
  <2>3. e \in Clock
    BY DeadlineInClock
  <2>4. \A u \in Timer, d \in Clock :
          LET v == [u EXCEPT !.expire_time = d, !.interval_millis = iv]
          IN  v \in Timer /\ v.id = u.id
    BY DEF Timer
  <2>5. SoftwareTimerChange(p, now, h, iv) = [p EXCEPT !.timers[s] = t]
    BY <1>2 DEF SoftwareTimerChange
  <2> HIDE DEF s, e
  <2> QED
    BY <2>1, <2>2, <2>3, <2>4, <2>5, UpdateSound
<1> QED
  BY <1>1, <1>2

LEMMA RescheduleSound ==
  ASSUME NEW p \in PoolType, Sound(p), NEW now \in Clock,
         NEW iv \in Intervals \cup {0}
  PROVE  Reschedule(p, now, iv) \in PoolType /\ Sound(Reschedule(p, now, iv))
<1> DEFINE s == p.current
           t == [p.timers[s] EXCEPT !.expire_time = (now + iv) % ClockMod]
<1>1. s \in Slots /\ p.timers[s] \in Timer
  BY DEF PoolType
<1>2. t \in Timer /\ t.id = p.timers[s].id
  BY <1>1, DeadlineInClock DEF Timer
<1>3. Reschedule(p, now, iv) = [p EXCEPT !.timers[s] = t]
  BY DEF Reschedule
<1> QED
  BY <1>1, <1>2, <1>3, UpdateSound

LEMMA AdvanceSound ==
  ASSUME NEW p \in PoolType, Sound(p)
  PROVE  AdvanceCursor(p) \in PoolType /\ Sound(AdvanceCursor(p))
<1> DEFINE c == IF p.current + 1 >= p.count THEN 0 ELSE p.current + 1
           q == AdvanceCursor(p)
<1>1. q = [timers |-> p.timers, count |-> p.count, next_id |-> p.next_id,
           current |-> c]
  BY DEF AdvanceCursor, PoolType
<1>2. c \in Slots /\ (c = 0 \/ c < p.count)
  BY Facts DEF PoolType, Slots
<1>3. q \in PoolType
  BY <1>1, <1>2 DEF PoolType
<1>4. Used(q) = Used(p)
  BY <1>1 DEF Used
<1> QED
  BY <1>1, <1>2, <1>3, <1>4 DEF Sound

\* Whatever a callback does to the pool leaves it sound.
LEMMA CallbackSound ==
  ASSUME NEW p \in PoolType, Sound(p), NEW now \in Clock, NEW h,
         NEW q \in AfterCallback(p, now, h)
  PROVE  q \in PoolType /\ Sound(q)
<1>1. CASE q = p
  BY <1>1
<1>2. CASE p.next_id < MaxId /\ \E iv \in Intervals : q = SoftwareTimerAdd(p, now, iv)
  BY <1>2, AddSound
<1>3. CASE \E iv \in Intervals : q = SoftwareTimerChange(p, now, h, iv)
  BY <1>3, ChangeSound
<1>4. CASE \E o : q = SoftwareTimerDelete(p, o)
  BY <1>4, DeleteSound
<1> QED
  BY <1>1, <1>2, <1>3, <1>4 DEF AfterCallback

\* The ghost clock keeps its type.
LEMMA AgeType ==
  ASSUME TypeOK, NEW q, NEW f
  PROVE  AgeAfter(q, f) \in [Ids -> 0 .. MaxAge]
<1>1. 0 \in 0 .. MaxAge
  BY PoolAssumption
<1> QED
  BY <1>1 DEF AgeAfter, TypeOK

LEMMA InitIInv == Init => IInv
<1> SUFFICES ASSUME Init PROVE IInv
  OBVIOUS
<1> DEFINE t == [expire_time |-> 0, interval_millis |-> 0, id |-> 0]
<1>1. t \in Timer
  BY Facts DEF Timer, Clock, Ids
<1>2. pool \in PoolType
  <2>1. [i \in Slots |-> t] \in [Slots -> Timer]
    BY <1>1
  <2>2. 0 \in Slots /\ 0 \in 0 .. kSoftwareTimersMax /\ 0 \in 0 .. MaxId
    BY Facts DEF Slots
  <2> QED
    BY <2>1, <2>2 DEF Init, PoolType
<1>3. TypeOK
  <2>1. meddled \in BOOLEAN
    BY Zenon DEF Init
  <2>2. millis \in Clock /\ lag \in 0 .. MaxLag /\ fired \in Ids \cup {kTimerIdNone}
    BY Facts, PoolAssumption DEF Init, Clock, Ids, kTimerIdNone
  <2>3. age \in [Ids -> 0 .. MaxAge]
    BY PoolAssumption DEF Init
  <2> QED
    BY <1>2, <2>1, <2>2, <2>3, Zenon DEF TypeOK
<1>4. HandlesUnique
  BY DEF Init, HandlesUnique, Sound, Used
<1> QED
  BY <1>3, <1>4 DEF IInv

\* The ghost flag stays a Boolean.
LEMMA NextMeddled == ASSUME TypeOK, [Next]_vars PROVE meddled' \in BOOLEAN
<1>1. meddled \in BOOLEAN
  BY Zenon DEF TypeOK
<1>2. CASE UNCHANGED meddled
  BY <1>1, <1>2
<1>3. CASE RunExpired
  BY <1>3, Zenon DEF RunExpired
<1> QED
  BY <1>2, <1>3, Zenon DEF Next, vars, Add, Delete, Change, SoftwareTimerRun,
     RunEmpty, RunNotExpired, Tick

LEMMA NextIInv == IInv /\ [Next]_vars => IInv'
<1> SUFFICES ASSUME IInv, [Next]_vars PROVE IInv'
  OBVIOUS
<1> USE DEF IInv
<1>1. pool \in PoolType /\ Sound(pool) /\ millis \in Clock
  BY DEF TypeOK, HandlesUnique
<1>2. ASSUME pool' \in PoolType, Sound(pool)',
             millis' = millis, lag' \in {0, lag},
             fired' \in Ids \cup {kTimerIdNone},
             age' \in [Ids -> 0 .. MaxAge]
      PROVE  IInv'
  <2>1. millis' \in Clock /\ lag' \in 0 .. MaxLag
    BY <1>2, PoolAssumption DEF TypeOK
  <2>2. meddled' \in BOOLEAN
    BY NextMeddled
  <2> QED
    BY <1>2, <2>1, <2>2, Zenon DEF TypeOK, HandlesUnique
<1>3. ASSUME NEW iv \in Intervals, Add(iv) PROVE IInv'
  <2>1. pool' \in PoolType /\ Sound(pool')
    BY <1>1, <1>3, AddSound DEF Add
  <2>2. age' \in [Ids -> 0 .. MaxAge]
    BY <1>3, AgeType DEF Add
  <2> QED
    BY <1>2, <1>3, <2>1, <2>2 DEF Add, Sound, Used
<1>4. ASSUME NEW h \in Ids, Delete(h) PROVE IInv'
  <2>1. pool' \in PoolType /\ Sound(pool')
    BY <1>1, <1>4, DeleteSound DEF Delete
  <2>2. age' \in [Ids -> 0 .. MaxAge]
    BY <1>4, AgeType DEF Delete
  <2> QED
    BY <1>2, <1>4, <2>1, <2>2 DEF Delete, Sound, Used
<1>5. ASSUME NEW h \in Ids, NEW iv \in Intervals, Change(h, iv) PROVE IInv'
  <2>1. pool' \in PoolType /\ Sound(pool')
    BY <1>1, <1>5, ChangeSound DEF Change
  <2>2. age' \in [Ids -> 0 .. MaxAge]
    BY <1>5, AgeType DEF Change
  <2> QED
    BY <1>2, <1>5, <2>1, <2>2 DEF Change, Sound, Used
<1>6. CASE RunEmpty
  BY <1>2, <1>6, <1>1 DEF RunEmpty, TypeOK, Sound, Used
<1>7. CASE RunNotExpired
  <2>1. pool' \in PoolType /\ Sound(pool')
    BY <1>1, <1>7, AdvanceSound DEF RunNotExpired
  <2> QED
    BY <1>2, <1>7, <2>1 DEF RunNotExpired, TypeOK, Sound, Used
<1>8. CASE RunExpired
  <2> DEFINE timer == pool.timers[pool.current]
  <2>1. timer \in Timer
    BY <1>1 DEF PoolType
  <2>2. PICK p \in AfterCallback(pool, millis, timer.id) :
          pool' = AdvanceCursor(Reschedule(p, millis, timer.interval_millis))
    BY <1>8 DEF RunExpired
  <2>3. p \in PoolType /\ Sound(p)
    BY <1>1, <2>2, CallbackSound
  <2>4. timer.interval_millis \in Intervals \cup {0}
    BY <2>1 DEF Timer
  <2>5. /\ Reschedule(p, millis, timer.interval_millis) \in PoolType
        /\ Sound(Reschedule(p, millis, timer.interval_millis))
    BY <1>1, <2>3, <2>4, RescheduleSound
  <2>6. pool' \in PoolType /\ Sound(pool')
    BY <2>2, <2>5, AdvanceSound
  <2>7. age' \in [Ids -> 0 .. MaxAge] /\ fired' \in Ids
    <3>1. [h \in Ids |-> 0] \in [Ids -> 0 .. MaxAge]
      BY PoolAssumption
    <3>2. age' = Ages(pool', timer.id) /\ fired' = timer.id
      BY <1>8 DEF RunExpired
    <3>3. AgeAfter(pool', timer.id) \in [Ids -> 0 .. MaxAge]
      BY AgeType
    <3> QED
      BY <2>1, <3>1, <3>2, <3>3 DEF Ages, Timer
  <2> QED
    BY <1>2, <1>8, <2>6, <2>7 DEF RunExpired, Sound, Used
<1>9. CASE Tick
  <2>1. millis' \in Clock
    BY <1>9, <1>1, Facts DEF Tick, Clock
  <2>2. age' \in [Ids -> 0 .. MaxAge]
    BY <1>9, PoolAssumption DEF Tick, TypeOK
  <2>3. lag' \in 0 .. MaxLag
    BY <1>9, PoolAssumption DEF Tick, TypeOK
  <2> QED
    BY <1>9, <1>1, <2>1, <2>2, <2>3 DEF Tick, TypeOK, HandlesUnique, Sound, Used
<1>10. CASE UNCHANGED vars
  BY <1>10 DEF vars, TypeOK, HandlesUnique, Sound, Used
<1> QED
  BY <1>3, <1>4, <1>5, <1>6, <1>7, <1>8, <1>9, <1>10 DEF Next, SoftwareTimerRun

\* The pool is well-typed in every reachable state: the count, the cursor and
\* the writes to the array stay within it, whatever callbacks do.
THEOREM PoolTypeCorrect == Spec => []TypeOK
<1>1. IInv => TypeOK
  BY DEF IInv
<1> QED
  BY InitIInv, NextIInv, <1>1, PTL DEF Spec

\* Handles stay unique and the cursor stays on a timer in use, whatever
\* callers and callbacks add, move and delete.
THEOREM HandlesStayUnique == Spec => []HandlesUnique
<1>1. IInv => HandlesUnique
  BY DEF IInv
<1> QED
  BY InitIInv, NextIInv, <1>1, PTL DEF Spec

-----------------------------------------------------------------------------
(* Arithmetic of the clock. *)

LEMMA DivMod ==
  ASSUME NEW m \in Nat \ {0}, NEW x \in Int
  PROVE  x = (x \div m) * m + (x % m) /\ x % m \in 0 .. m - 1 /\ x \div m \in Int
OBVIOUS

LEMMA ModUnique ==
  ASSUME NEW m \in Nat \ {0}, NEW q \in Int, NEW r \in 0 .. m - 1
  PROVE  (q * m + r) % m = r
OBVIOUS

\* A sum may be reduced before it is added to.
LEMMA ModPlus ==
  ASSUME NEW m \in Nat \ {0}, NEW x \in Int, NEW y \in Int
  PROVE  ((x % m) + y) % m = (x + y) % m
<1> DEFINE q == x \div m
           s == (x % m) + y
           k == s \div m
           r == s % m
<1>1. x = q * m + (x % m) /\ q \in Int /\ x % m \in Int
  BY DivMod
<1>2. s \in Int
  BY <1>1
<1>3. s = k * m + r /\ k \in Int /\ r \in 0 .. m - 1
  BY <1>2, DivMod
<1> HIDE DEF q, s, k, r
<1>4. x + y = (q + k) * m + r
  BY <1>1, <1>3 DEF s
<1>5. ((q + k) * m + r) % m = r
  BY <1>1, <1>3, ModUnique
<1> QED
  BY <1>4, <1>5 DEF r, s

LEMMA Times ==
  ASSUME NEW m \in Nat, NEW x \in Int, NEW y \in Int, x <= y
  PROVE  m * x <= m * y /\ m * (x + 1) = m * x + m /\ m * x \in Int /\ m * y \in Int
OBVIOUS

\* A clock value that is a milliseconds after the start of the period iv shows
\* whether the period is over.
LEMMA ExpiredMeans ==
  ASSUME NEW now \in Clock, NEW a \in Nat, NEW iv \in Intervals, a <= iv + Slack,
         NEW t, t.expire_time = ((now - a) + iv) % ClockMod
  PROVE  Expired(now, t) <=> a >= iv
<1>1. ClockMod \in Nat \ {0} /\ now \in Nat /\ iv \in Nat /\ Slack \in Int
  <2>1. kSoftwareTimersMax * (kSoftwareTimersMax - 1) + 1 \in Int /\ MaxLag \in Int
    BY PoolAssumption, Facts
  <2> QED
    BY <2>1, Facts, PoolAssumption, Times DEF Clock, Slack
<1>2. 2 * Slack < ClockMod /\ 2 * iv <= ClockMod
  BY TimingAssumption
<1> DEFINE x == (now - a) + iv
           q == x \div ClockMod
           e == x % ClockMod
<1>3. x \in Int /\ x = q * ClockMod + e /\ e \in 0 .. ClockMod - 1 /\ q \in Int
  <2>1. x \in Int
    BY <1>1
  <2> QED
    BY <1>1, <2>1, DivMod
<1> HIDE DEF q, e
<1>4. now - e = q * ClockMod + (a - iv)
  BY <1>1, <1>3
<1>5. CASE a >= iv
  <2>1. a - iv \in 0 .. ClockMod - 1 /\ 2 * (a - iv) < ClockMod
    BY <1>1, <1>2, <1>5
  <2>2. (now - e) % ClockMod = a - iv
    BY <1>1, <1>3, <1>4, <2>1, ModUnique
  <2> QED
    BY <1>5, <2>1, <2>2 DEF Expired, e
<1>6. CASE a < iv
  <2>1. (a - iv) + ClockMod \in 0 .. ClockMod - 1 /\ ~ (2 * ((a - iv) + ClockMod) < ClockMod)
    BY <1>1, <1>2, <1>6
  <2>2. now - e = (q - 1) * ClockMod + ((a - iv) + ClockMod) /\ q - 1 \in Int
    BY <1>1, <1>3, <1>4
  <2>3. (now - e) % ClockMod = (a - iv) + ClockMod
    BY <1>1, <2>1, <2>2, ModUnique
  <2> QED
    BY <1>1, <1>6, <2>1, <2>3 DEF Expired, e
<1> QED
  BY <1>1, <1>5, <1>6

-----------------------------------------------------------------------------
(* How far the cursor is from a slot. *)

\* More passes than this never go by before the cursor has come to the timer in
\* slot i, whatever callers add and delete meanwhile.  A delete can only move the
\* timer to a lower slot, and behind the cursor at most: what is gained by the
\* lower slot is more than one round.
Rank(p, i) ==
  ((kSoftwareTimersMax * i) + 1 - p.current) + (IF p.current > i THEN kSoftwareTimersMax ELSE 0)

MaxRank == kSoftwareTimersMax * (kSoftwareTimersMax - 1) + 1

LEMMA RankBounds ==
  ASSUME NEW p \in PoolType, Sound(p), NEW i \in Used(p)
  PROVE  Rank(p, i) \in 1 .. MaxRank
<1> DEFINE K == kSoftwareTimersMax
<1>1. /\ K \in Nat \ {0} /\ i \in 0 .. K - 1 /\ p.current \in 0 .. K - 1
      /\ p.count \in 0 .. K
  BY Facts DEF PoolType, Used, Slots
<1>2. K * i \in Int /\ K * (K - 1) \in Int
  BY <1>1, Times
<1>3. CASE p.current > i
  <2>1. i <= (K - 1) - 1 /\ K * i <= K * ((K - 1) - 1) /\ K * (K - 1) = K * ((K - 1) - 1) + K
    <3>1. i <= (K - 1) - 1 /\ (K - 1) - 1 \in Int /\ ((K - 1) - 1) + 1 = K - 1
      BY <1>1, <1>3
    <3>2. K * i <= K * ((K - 1) - 1)
      BY <1>1, <3>1, Times
    <3>3. K * (((K - 1) - 1) + 1) = K * ((K - 1) - 1) + K
      BY <1>1, <3>1, Times
    <3> QED
      BY <3>1, <3>2, <3>3
  <2>2. 0 <= K * i
    BY <1>1, Times
  <2>3. Rank(p, i) = ((K * i) + 1 - p.current) + K
    BY <1>3 DEF Rank
  <2> HIDE DEF K
  <2> QED
    BY <1>1, <1>2, <1>3, <2>1, <2>2, <2>3 DEF MaxRank, K
<1>4. CASE p.current <= i
  <2>1. K * i <= K * (K - 1) /\ i <= K * i
    BY <1>1, Times
  <2>2. Rank(p, i) = ((K * i) + 1 - p.current) + 0
    BY <1>1, <1>4 DEF Rank
  <2> HIDE DEF K
  <2> QED
    BY <1>1, <1>2, <1>4, <2>1, <2>2 DEF MaxRank, K
<1> QED
  BY <1>1, <1>3, <1>4

\* A pass that does not come to the slot brings the cursor nearer to it, also when
\* the callback has added a timer.
LEMMA AdvanceNearer ==
  ASSUME NEW p \in PoolType, Sound(p), NEW i \in Used(p), i # p.current,
         NEW q, q.current = IF p.current + 1 >= p.count THEN 0 ELSE p.current + 1
  PROVE  Rank(q, i) <= Rank(p, i) - 1
<1> DEFINE K == kSoftwareTimersMax
<1>1. /\ K \in Nat \ {0} /\ i \in 0 .. K - 1 /\ p.current \in 0 .. K - 1
      /\ p.count \in 0 .. K /\ i <= p.count - 1
  BY Facts DEF PoolType, Used, Slots
<1>2. K * i \in Int
  BY <1>1, Times
<1> QED
  BY <1>1, <1>2 DEF Rank

\* What a delete moves or keeps is not farther from the cursor than it was.
LEMMA MoveNotFarther ==
  ASSUME NEW p \in PoolType, Sound(p), NEW i \in Used(p), NEW j \in Used(p),
         j <= p.count - 2,
         i = j \/ i = p.count - 1,
         NEW q, q.current = IF p.current >= p.count - 1 THEN 0 ELSE p.current
  PROVE  Rank(q, j) <= Rank(p, i)
<1> DEFINE K == kSoftwareTimersMax
<1>1. /\ K \in Nat \ {0} /\ i \in 0 .. K - 1 /\ j \in 0 .. K - 1 /\ p.current \in 0 .. K - 1
      /\ p.count \in 0 .. K /\ i <= p.count - 1 /\ p.current <= p.count - 1
  BY Facts DEF PoolType, Used, Slots, Sound
<1>2. K * i \in Int /\ K * j \in Int
  BY <1>1, Times
<1>3. CASE i = j
  BY <1>1, <1>2, <1>3 DEF Rank
<1>4. CASE i # j
  <2>1. j <= i - 1 /\ i - 1 \in Int /\ (i - 1) + 1 = i
    BY <1>1, <1>4
  <2>2. K * j <= K * (i - 1) /\ K * ((i - 1) + 1) = K * (i - 1) + K
    BY <1>1, <2>1, Times
  <2>3. K * j + K <= K * i
    <3>1. K * (i - 1) \in Int /\ K \in Int
      BY <1>1, <2>1, Times
    <3>2. K * i = K * (i - 1) + K
      BY <2>1, <2>2
    <3> HIDE DEF K
    <3> QED
      BY <1>2, <2>2, <3>1, <3>2
  <2> QED
    BY <1>1, <1>2, <1>4, <2>1, <2>3 DEF Rank
<1> QED
  BY <1>3, <1>4

-----------------------------------------------------------------------------
(* The timers are on time. *)

\* A timer that was started, changed or fired a milliseconds ago: its deadline says
\* so, and if it is overdue then by no more than the passes behind it and the
\* milliseconds l since the last one.
Waits(t, a, now, l, rank) ==
  /\ t.interval_millis \in Intervals
  /\ t.expire_time = ((now - a) + t.interval_millis) % ClockMod
  /\ a <= (t.interval_millis + l) + MaxLag * (MaxRank - rank)

OnTime(p, ages, now, l) ==
  \A i \in Used(p) : Waits(p.timers[i], ages[p.timers[i].id], now, l, Rank(p, i))

TInv == IInv /\ (~ meddled => OnTime(pool, age, millis, lag))

LEMMA Sizes ==
  /\ MaxLag \in Nat /\ MaxAge \in Nat /\ MaxRank \in Int /\ Slack = MaxLag * MaxRank
  /\ Slack \in Int
<1>1. MaxRank \in Int
  BY Facts, Times DEF MaxRank
<1> QED
  BY <1>1, PoolAssumption, Times DEF MaxRank, Slack

\* Nobody waits less for a cursor that has not moved away.
LEMMA WaitsNearer ==
  ASSUME NEW t, NEW a \in Nat, NEW now, NEW l \in Nat,
         NEW r \in Int, NEW s \in Int, s <= r, Waits(t, a, now, l, r)
  PROVE  Waits(t, a, now, l, s)
<1>1. MaxRank - r \in Int /\ MaxRank - s \in Int /\ MaxRank - r <= MaxRank - s
  BY Sizes
<1>2. /\ MaxLag * (MaxRank - r) <= MaxLag * (MaxRank - s)
      /\ MaxLag * (MaxRank - r) \in Int /\ MaxLag * (MaxRank - s) \in Int
  BY <1>1, Sizes, Times
<1>3. t.interval_millis \in Nat
  BY Facts DEF Waits
<1> QED
  BY <1>2, <1>3 DEF Waits

\* The milliseconds since the last pass are paid for by the one that is made.
LEMMA WaitsPass ==
  ASSUME NEW t, NEW a \in Nat, NEW now, NEW l \in 0 .. MaxLag,
         NEW r \in Int, NEW s \in Int, s <= r - 1, Waits(t, a, now, l, r)
  PROVE  Waits(t, a, now, 0, s)
<1>1. MaxRank - r \in Int /\ MaxRank - s \in Int /\ (MaxRank - r) + 1 <= MaxRank - s
  BY Sizes
<1>2. /\ MaxLag * ((MaxRank - r) + 1) <= MaxLag * (MaxRank - s)
      /\ MaxLag * (MaxRank - r) \in Int /\ MaxLag * (MaxRank - s) \in Int
      /\ MaxLag * ((MaxRank - r) + 1) = MaxLag * (MaxRank - r) + MaxLag
  BY <1>1, Sizes, Times
<1>3. t.interval_millis \in Nat /\ MaxLag \in Nat
  BY Facts, Sizes DEF Waits
<1> QED
  BY <1>2, <1>3 DEF Waits

\* A period that starts now.
LEMMA WaitsFresh ==
  ASSUME NEW t, NEW iv \in Intervals, NEW now \in Clock, NEW l \in Nat, NEW r \in 1 .. MaxRank,
         t.interval_millis = iv, t.expire_time = (now + iv) % ClockMod
  PROVE  Waits(t, 0, now, l, r)
<1>1. MaxRank - r \in Nat
  BY Sizes
<1>2. MaxLag * 0 <= MaxLag * (MaxRank - r) /\ MaxLag * (MaxRank - r) \in Int /\ MaxLag * 0 = 0
  BY <1>1, Sizes, Times
<1>3. iv \in Nat /\ now \in Int /\ now - 0 = now
  BY Facts DEF Clock
<1>4. 0 <= (iv + l) + MaxLag * (MaxRank - r)
  BY <1>2, <1>3
<1> QED
  BY <1>3, <1>4 DEF Waits

\* Nobody is overdue by more than the slack.
LEMMA WaitsBounded ==
  ASSUME NEW t, NEW a \in Nat, NEW now, NEW l \in 0 .. MaxLag, NEW r \in 1 .. MaxRank,
         Waits(t, a, now, l, r)
  PROVE  a <= t.interval_millis + Slack
<1>1. MaxRank - r \in Int /\ MaxRank - 1 \in Int /\ MaxRank - r <= MaxRank - 1
      /\ (MaxRank - 1) + 1 = MaxRank
  BY Sizes
<1>2. /\ MaxLag * (MaxRank - r) <= MaxLag * (MaxRank - 1)
      /\ MaxLag * (MaxRank - r) \in Int /\ MaxLag * (MaxRank - 1) \in Int
      /\ MaxLag * ((MaxRank - 1) + 1) = MaxLag * (MaxRank - 1) + MaxLag
  BY <1>1, Sizes, Times
<1>3. Slack = MaxLag * (MaxRank - 1) + MaxLag
  BY <1>1, <1>2, Sizes
<1>4. t.interval_millis \in Nat /\ MaxLag \in Nat /\ Slack \in Int
  BY Facts, Sizes DEF Waits
<1> QED
  BY <1>2, <1>3, <1>4 DEF Waits

\* The slots of a pool to which a timer has been added.
LEMMA AddCases ==
  ASSUME NEW p \in PoolType, Sound(p), NEW now, NEW iv, NEW q, q = SoftwareTimerAdd(p, now, iv)
  PROVE  /\ q.current = p.current /\ q.count >= p.count /\ q.count \in Int
         /\ \A j \in Used(q) :
              \/ j \in Used(p) /\ q.timers[j] = p.timers[j]
              \/ /\ j \notin Used(p)
                 /\ q.timers[j] = [expire_time |-> (now + iv) % ClockMod,
                                   interval_millis |-> iv, id |-> p.next_id]
<1>1. CASE p.count >= kSoftwareTimersMax
  BY <1>1 DEF SoftwareTimerAdd, PoolType
<1>2. CASE ~ (p.count >= kSoftwareTimersMax)
  <2> DEFINE t == [expire_time |-> (now + iv) % ClockMod, interval_millis |-> iv, id |-> p.next_id]
  <2>1. /\ q.timers = [p.timers EXCEPT ![p.count] = t] /\ q.count = p.count + 1
        /\ q.current = p.current
    BY <1>2 DEF SoftwareTimerAdd, PoolType
  <2>2. p.timers \in [Slots -> Timer] /\ p.count \in Nat /\ p.count < kSoftwareTimersMax
    BY <1>2, Facts DEF PoolType
  <2> HIDE DEF t
  <2>3. p.count \in Slots /\ Used(p) \subseteq Slots
    BY <2>2, Facts DEF Slots, Used
  <2>4. \A j \in Used(q) : j = p.count \/ (j \in Used(p) /\ j # p.count)
    BY <2>1, <2>2 DEF Used
  <2>5. p.count \notin Used(p)
    BY <2>2 DEF Used
  <2> QED
    BY <2>1, <2>2, <2>3, <2>4, <2>5 DEF t
<1> QED
  BY <1>1, <1>2

\* The slots of a pool from which a timer has been deleted.
LEMMA DeleteCases ==
  ASSUME NEW p \in PoolType, NEW h \in Alive(p), NEW q, q = SoftwareTimerDelete(p, h)
  PROVE  /\ q.current = IF p.current >= p.count - 1 THEN 0 ELSE p.current
         /\ \A j \in Used(q) : /\ j \in Used(p) /\ j <= p.count - 2
                               /\ \E i \in Used(p) : /\ i = j \/ i = p.count - 1
                                                     /\ q.timers[j] = p.timers[i]
<1> DEFINE s == SlotOf(p, h)
<1>1. s \in Used(p) /\ Used(p) \subseteq Slots
  BY SlotOfAlive
<1>2. /\ q.timers = [p.timers EXCEPT ![s] = p.timers[p.count - 1]] /\ q.count = p.count - 1
      /\ q.current = IF p.current >= p.count - 1 THEN 0 ELSE p.current
  BY DEF SoftwareTimerDelete, PoolType
<1> HIDE DEF s
<1>3. p.count \in Nat /\ p.count > 0 /\ p.count - 1 \in Used(p) /\ p.timers \in [Slots -> Timer]
  BY <1>1 DEF Used, PoolType
<1>4. \A j \in Used(q) : j \in Used(p) /\ j <= p.count - 2
  BY <1>2, <1>3 DEF Used
<1>5. \A j \in Used(q) : q.timers[j] = IF j = s THEN p.timers[p.count - 1] ELSE p.timers[j]
  BY <1>1, <1>2, <1>3, <1>4
<1> QED
  BY <1>2, <1>3, <1>4, <1>5

\* The slots of a pool in which a timer has been changed.
LEMMA ChangeCases ==
  ASSUME NEW p \in PoolType, Sound(p), NEW now, NEW iv, NEW h \in Alive(p),
         NEW q, q = SoftwareTimerChange(p, now, h, iv)
  PROVE  /\ q.current = p.current /\ Used(q) = Used(p)
         /\ \A j \in Used(p) :
              IF p.timers[j].id = h
                THEN /\ q.timers[j].id = h /\ q.timers[j].interval_millis = iv
                     /\ q.timers[j].expire_time = (now + iv) % ClockMod
                ELSE q.timers[j] = p.timers[j]
<1> DEFINE s == SlotOf(p, h)
           t == [p.timers[s] EXCEPT !.expire_time = (now + iv) % ClockMod, !.interval_millis = iv]
<1>1. s \in Used(p) /\ p.timers[s].id = h /\ Used(p) \subseteq Slots
  BY SlotOfAlive
<1>2. q.timers = [p.timers EXCEPT ![s] = t] /\ q.count = p.count /\ q.current = p.current
  BY DEF SoftwareTimerChange, PoolType
<1>3. p.timers \in [Slots -> Timer] /\ p.timers[s] \in Timer
  BY <1>1 DEF PoolType
<1>4. t.id = h /\ t.interval_millis = iv /\ t.expire_time = (now + iv) % ClockMod
  BY <1>1, <1>3 DEF Timer
<1> HIDE DEF s, t
<1>5. Used(q) = Used(p)
  BY <1>2 DEF Used
<1>6. \A j \in Used(p) : p.timers[j].id = h <=> j = s
  BY <1>1 DEF Sound
<1>7. \A j \in Used(p) : q.timers[j] = IF j = s THEN t ELSE p.timers[j]
  BY <1>1, <1>2, <1>3
<1> QED
  BY <1>2, <1>4, <1>5, <1>6, <1>7

\* The ids in the slots in use, and what they index.
LEMMA UsedIds ==
  ASSUME NEW p \in PoolType, NEW i \in Used(p)
  PROVE  p.timers[i].id \in Ids /\ p.timers[i].id \in Alive(p) /\ p.timers[i] \in Timer
<1>1. Used(p) \subseteq Slots
  BY Facts DEF PoolType, Used, Slots
<1> QED
  BY <1>1 DEF PoolType, Timer, Alive

LEMMA AgeCases ==
  ASSUME NEW q, NEW f, NEW h \in Ids
  PROVE  AgeAfter(q, f)[h] = IF h # f /\ h \in Alive(pool) /\ h \in Alive(q) THEN age[h] ELSE 0
BY DEF AgeAfter

LEMMA Typed ==
  ASSUME TInv
  PROVE  /\ pool \in PoolType /\ Sound(pool) /\ millis \in Clock /\ lag \in 0 .. MaxLag
         /\ \A h \in Ids : age[h] \in Nat
         /\ lag \in Nat /\ 0 \in 0 .. MaxLag
<1>1. MaxLag \in Nat /\ MaxAge \in Nat
  BY PoolAssumption
<1> QED
  BY <1>1 DEF TInv, IInv, TypeOK, HandlesUnique

\* A timer that is left alone goes on waiting, in a slot that is not farther from
\* the cursor, also under another index.
LEMMA StillWaits ==
  ASSUME TInv, ~ meddled, NEW q \in PoolType, Sound(q), NEW f, NEW j \in Used(q),
         NEW i \in Used(pool), q.timers[j] = pool.timers[i], q.timers[j].id # f,
         Rank(q, j) <= Rank(pool, i)
  PROVE  Waits(q.timers[j], AgeAfter(q, f)[q.timers[j].id], millis, lag, Rank(q, j))
<1> DEFINE h == q.timers[j].id
<1>1. h \in Ids /\ h \in Alive(pool) /\ h \in Alive(q)
  BY UsedIds, Typed
<1>2. AgeAfter(q, f)[h] = age[h]
  BY <1>1, AgeCases
<1>3. Waits(q.timers[j], age[h], millis, lag, Rank(pool, i))
  BY DEF TInv, OnTime
<1>4. Rank(q, j) \in Int /\ Rank(pool, i) \in Int
  BY RankBounds, Typed
<1> HIDE DEF h
<1>5. Waits(q.timers[j], age[h], millis, lag, Rank(q, j))
  BY <1>1, <1>3, <1>4, Typed, WaitsNearer
<1> QED
  BY <1>2, <1>5 DEF h

LEMMA AddOnTime ==
  ASSUME TInv, ~ meddled, IInv', NEW iv \in Intervals, Add(iv)
  PROVE  OnTime(pool', age', millis', lag')
<1> SUFFICES ASSUME NEW j \in Used(pool')
             PROVE  Waits(pool'.timers[j], age'[pool'.timers[j].id], millis, lag, Rank(pool', j))
  BY DEF Add, OnTime
<1>1. /\ pool' \in PoolType /\ Sound(pool') /\ age' = AgeAfter(pool', kTimerIdNone)
      /\ pool' = SoftwareTimerAdd(pool, millis, iv)
  BY DEF Add, IInv, TypeOK, HandlesUnique, Sound, Used
<1>2. pool'.timers[j].id # kTimerIdNone
  BY <1>1, UsedIds DEF Ids, kTimerIdNone
<1>3. CASE j \in Used(pool) /\ pool'.timers[j] = pool.timers[j]
  <2>1. Rank(pool', j) <= Rank(pool, j)
    <3>1. pool'.current = pool.current
      BY <1>1 DEF SoftwareTimerAdd, PoolType
    <3>2. Rank(pool, j) \in Int
      BY <1>3, RankBounds, Typed
    <3> QED
      BY <3>1, <3>2 DEF Rank
  <2> QED
    BY <1>1, <1>2, <1>3, <2>1, StillWaits
<1>4. CASE pool'.timers[j] = [expire_time |-> (millis + iv) % ClockMod,
                              interval_millis |-> iv, id |-> pool.next_id]
  <2>1. pool.next_id \notin Alive(pool)
    <3>1. \A i \in Used(pool) : pool.timers[i].id < pool.next_id /\ pool.next_id \in Int
      BY Typed DEF Sound, PoolType
    <3> QED
      BY <3>1 DEF Alive
  <2>2. pool.next_id \in Ids
    BY <1>1, <1>4, UsedIds
  <2>3. age'[pool'.timers[j].id] = 0
    BY <1>1, <1>4, <2>1, <2>2, AgeCases
  <2> QED
    BY <1>1, <1>4, <2>3, WaitsFresh, RankBounds, Typed
<1> QED
  BY <1>1, <1>3, <1>4, AddCases, Typed

LEMMA DeleteOnTime ==
  ASSUME TInv, ~ meddled, IInv', NEW h \in Ids, Delete(h)
  PROVE  OnTime(pool', age', millis', lag')
<1> SUFFICES ASSUME NEW j \in Used(pool')
             PROVE  Waits(pool'.timers[j], age'[pool'.timers[j].id], millis, lag, Rank(pool', j))
  BY DEF Delete, OnTime
<1>1. /\ pool' \in PoolType /\ Sound(pool') /\ age' = AgeAfter(pool', kTimerIdNone)
      /\ pool' = SoftwareTimerDelete(pool, h)
  BY DEF Delete, IInv, TypeOK, HandlesUnique, Sound, Used
<1>2. pool'.timers[j].id # kTimerIdNone
  BY <1>1, UsedIds DEF Ids, kTimerIdNone
<1>3. CASE h \notin Alive(pool)
  <2>1. pool' = pool /\ Rank(pool, j) \in Int
    BY <1>1, <1>3, RankBounds DEF SoftwareTimerDelete
  <2> QED
    BY <1>1, <1>2, <2>1, StillWaits
<1>4. CASE h \in Alive(pool)
  <2>1. /\ pool'.current = IF pool.current >= pool.count - 1 THEN 0 ELSE pool.current
        /\ j \in Used(pool) /\ j <= pool.count - 2
    BY <1>1, <1>4, DeleteCases, Typed
  <2>2. PICK i \in Used(pool) : (i = j \/ i = pool.count - 1) /\ pool'.timers[j] = pool.timers[i]
    BY <1>1, <1>4, DeleteCases, Typed
  <2>3. Rank(pool', j) <= Rank(pool, i)
    BY <2>1, <2>2, MoveNotFarther, Typed
  <2> QED
    BY <1>1, <1>2, <2>2, <2>3, StillWaits
<1> QED
  BY <1>3, <1>4

LEMMA ChangeOnTime ==
  ASSUME TInv, ~ meddled, IInv', NEW h \in Ids, NEW iv \in Intervals, Change(h, iv)
  PROVE  OnTime(pool', age', millis', lag')
<1> SUFFICES ASSUME NEW j \in Used(pool')
             PROVE  Waits(pool'.timers[j], age'[pool'.timers[j].id], millis, lag, Rank(pool', j))
  BY DEF Change, OnTime
<1>1. /\ pool' \in PoolType /\ Sound(pool') /\ age' = AgeAfter(pool', h)
      /\ pool' = SoftwareTimerChange(pool, millis, h, iv) /\ h \in Alive(pool)
  BY DEF Change, IInv, TypeOK, HandlesUnique, Sound, Used
<1>2. /\ pool'.current = pool.current /\ j \in Used(pool)
      /\ IF pool.timers[j].id = h
           THEN /\ pool'.timers[j].id = h /\ pool'.timers[j].interval_millis = iv
                /\ pool'.timers[j].expire_time = (millis + iv) % ClockMod
           ELSE pool'.timers[j] = pool.timers[j]
  BY <1>1, ChangeCases, Typed
<1>3. CASE pool.timers[j].id = h
  <2>1. age'[h] = 0
    BY <1>1, AgeCases
  <2> QED
    BY <1>1, <1>2, <1>3, <2>1, WaitsFresh, RankBounds, Typed
<1>4. CASE pool.timers[j].id # h
  <2>1. Rank(pool', j) <= Rank(pool, j)
    <3>1. Rank(pool, j) \in Int
      BY <1>2, RankBounds, Typed
    <3> QED
      BY <1>2, <3>1 DEF Rank
  <2> QED
    BY <1>1, <1>2, <1>4, <2>1, StillWaits
<1> QED
  BY <1>3, <1>4

\* The timer under the cursor is due or its callback runs.
LEMMA CursorUsed ==
  ASSUME TInv, pool.count > 0
  PROVE  pool.current \in Used(pool) /\ pool.current \in Slots
BY Typed, Facts DEF Sound, PoolType, Used, Slots

\* The deadline of a timer in use says how long it has waited.
LEMMA DeadlineMeans ==
  ASSUME TInv, ~ meddled, NEW i \in Used(pool)
  PROVE  LET t == pool.timers[i] IN
         /\ t.interval_millis \in Intervals
         /\ age[t.id] \in Nat /\ age[t.id] <= t.interval_millis + Slack
         /\ Expired(millis, t) <=> age[t.id] >= t.interval_millis
<1> DEFINE t == pool.timers[i]
<1>1. Waits(t, age[t.id], millis, lag, Rank(pool, i)) /\ age[t.id] \in Nat
  BY Typed, UsedIds DEF TInv, OnTime
<1>2. Rank(pool, i) \in 1 .. MaxRank
  BY Typed, RankBounds
<1> HIDE DEF t
<1>3. age[t.id] <= t.interval_millis + Slack
  BY <1>1, <1>2, Typed, WaitsBounded
<1>4. Expired(millis, t) <=> age[t.id] >= t.interval_millis
  BY <1>1, <1>3, Typed, ExpiredMeans DEF Waits
<1> QED
  BY <1>1, <1>3, <1>4 DEF t, Waits

LEMMA NotExpiredOnTime ==
  ASSUME TInv, ~ meddled, IInv', RunNotExpired
  PROVE  OnTime(pool', age', millis', lag')
<1> SUFFICES ASSUME NEW j \in Used(pool')
             PROVE  Waits(pool'.timers[j], age[pool'.timers[j].id], millis, 0, Rank(pool', j))
  BY DEF RunNotExpired, OnTime
<1>1. /\ pool' \in PoolType /\ Sound(pool') /\ pool' = AdvanceCursor(pool) /\ pool.count > 0
      /\ ~ Expired(millis, pool.timers[pool.current])
  BY DEF RunNotExpired, IInv, TypeOK, HandlesUnique, Sound, Used
<1>2. /\ pool'.timers = pool.timers /\ Used(pool') = Used(pool)
      /\ pool'.current = IF pool.current + 1 >= pool.count THEN 0 ELSE pool.current + 1
  BY <1>1, Typed DEF AdvanceCursor, PoolType, Used
<1> DEFINE t == pool.timers[j]
<1>3. Waits(t, age[t.id], millis, lag, Rank(pool, j)) /\ age[t.id] \in Nat
  BY <1>2, Typed, UsedIds DEF TInv, OnTime
<1>4. Rank(pool, j) \in 1 .. MaxRank /\ Rank(pool', j) \in 1 .. MaxRank
  BY <1>1, <1>2, Typed, RankBounds
<1> HIDE DEF t
<1>5. CASE j = pool.current
  <2>1. age[t.id] < t.interval_millis /\ t.interval_millis \in Nat
    BY <1>1, <1>2, <1>3, <1>5, DeadlineMeans, Facts DEF t
  <2>2. MaxRank - Rank(pool', j) \in Nat
    BY <1>4, Sizes
  <2>3. MaxLag * 0 <= MaxLag * (MaxRank - Rank(pool', j)) /\ MaxLag * 0 = 0
        /\ MaxLag * (MaxRank - Rank(pool', j)) \in Int
    BY <2>2, Sizes, Times
  <2>4. age[t.id] <= (t.interval_millis + 0) + MaxLag * (MaxRank - Rank(pool', j))
    BY <1>3, <2>1, <2>3
  <2>5. Waits(t, age[t.id], millis, 0, Rank(pool', j))
    BY <1>3, <2>4 DEF Waits
  <2> QED
    BY <1>2, <2>5 DEF t
<1>6. CASE j # pool.current
  <2>1. Rank(pool', j) <= Rank(pool, j) - 1
    BY <1>2, <1>6, Typed, AdvanceNearer
  <2>2. Waits(t, age[t.id], millis, 0, Rank(pool', j))
    BY <1>3, <1>4, <2>1, Typed, WaitsPass
  <2> QED
    BY <1>2, <2>2 DEF t
<1> QED
  BY <1>5, <1>6

\* A callback runs for the timer under the cursor, and may add another one.
LEMMA ExpiredOnTime ==
  ASSUME TInv, ~ meddled, ~ meddled', IInv', RunExpired
  PROVE  OnTime(pool', age', millis', lag')
<1> DEFINE timer == pool.timers[pool.current]
<1>1. PICK p \in AfterCallback(pool, millis, timer.id) :
        /\ pool' = AdvanceCursor(Reschedule(p, millis, timer.interval_millis))
        /\ meddled' = (meddled \/ ~ LeavesTimersAlone(pool, millis, p))
  BY DEF RunExpired
<1>2. /\ pool' \in PoolType /\ Sound(pool') /\ pool.count > 0
      /\ age' = AgeAfter(pool', timer.id) /\ millis' = millis /\ lag' = 0
  BY DEF RunExpired, Ages, IInv, TypeOK, HandlesUnique, Sound, Used
<1>3. p \in PoolType /\ Sound(p)
  BY <1>1, CallbackSound, Typed
<1>4. /\ p.current = pool.current /\ p.count >= pool.count /\ p.count \in Int
      /\ \A j \in Used(p) :
           \/ j \in Used(pool) /\ p.timers[j] = pool.timers[j]
           \/ /\ j \notin Used(pool)
              /\ \E iv \in Intervals :
                   p.timers[j] = [expire_time |-> (millis + iv) % ClockMod,
                                  interval_millis |-> iv, id |-> pool.next_id]
  <2>1. CASE p = pool
    BY <2>1, Typed DEF PoolType
  <2>2. CASE \E iv \in Intervals : p = SoftwareTimerAdd(pool, millis, iv)
    <3>1. PICK iv \in Intervals : p = SoftwareTimerAdd(pool, millis, iv)
      BY <2>2
    <3>2. /\ p.current = pool.current /\ p.count >= pool.count /\ p.count \in Int
          /\ \A j \in Used(p) :
               \/ j \in Used(pool) /\ p.timers[j] = pool.timers[j]
               \/ /\ j \notin Used(pool)
                  /\ p.timers[j] = [expire_time |-> (millis + iv) % ClockMod,
                                    interval_millis |-> iv, id |-> pool.next_id]
      BY <3>1, AddCases, Typed
    <3> QED
      BY <3>2
  <2> QED
    BY <1>1, <2>1, <2>2 DEF LeavesTimersAlone
<1>5. pool.current \in Used(pool) /\ pool.current \in Slots /\ timer \in Timer
  BY <1>2, CursorUsed, UsedIds, Typed
<1> DEFINE c == pool.current
           e == (millis + timer.interval_millis) % ClockMod
           cursor == IF c + 1 >= p.count THEN 0 ELSE c + 1
<1>6. /\ pool'.timers = [p.timers EXCEPT ![c] = [p.timers[c] EXCEPT !.expire_time = e]]
      /\ pool'.count = p.count /\ pool'.current = cursor
  <2>1. p = [timers |-> p.timers, count |-> p.count, next_id |-> p.next_id, current |-> c]
    BY <1>3, <1>4 DEF PoolType
  <2>2. Reschedule(p, millis, timer.interval_millis)
          = [timers |-> [p.timers EXCEPT ![c] = [p.timers[c] EXCEPT !.expire_time = e]],
             count |-> p.count, next_id |-> p.next_id, current |-> c]
    BY <2>1 DEF Reschedule
  <2> HIDE DEF c, e
  <2> QED
    BY <1>1, <2>2 DEF AdvanceCursor
<1>7. Used(pool') = Used(p) /\ p.timers \in [Slots -> Timer] /\ Used(p) \subseteq Slots
  <2>1. Used(pool') = Used(p)
    BY <1>6 DEF Used
  <2>2. p.timers \in [Slots -> Timer] /\ p.count \in 0 .. kSoftwareTimersMax
    BY <1>3 DEF PoolType
  <2>3. Used(p) \subseteq Slots
    BY <2>2, Facts DEF Used, Slots
  <2> QED
    BY <2>1, <2>2, <2>3
<1> SUFFICES ASSUME NEW j \in Used(p)
             PROVE  Waits(pool'.timers[j], age'[pool'.timers[j].id], millis, 0, Rank(pool', j))
  BY <1>2, <1>7 DEF OnTime
<1>8. Rank(pool', j) \in 1 .. MaxRank
  BY <1>2, <1>7, RankBounds
<1>9. CASE j = c
  <2>1. j \in Used(pool) /\ p.timers[j] = timer
    BY <1>4, <1>5, <1>9
  <2>2. pool'.timers[j] = [timer EXCEPT !.expire_time = e]
    BY <1>6, <1>7, <1>9, <2>1
  <2>3. /\ pool'.timers[j].id = timer.id /\ pool'.timers[j].expire_time = e
        /\ pool'.timers[j].interval_millis = timer.interval_millis
    BY <1>5, <2>2 DEF Timer
  <2>4. timer.interval_millis \in Intervals /\ timer.id \in Ids
    BY <1>5, DeadlineMeans DEF Timer
  <2>5. age'[timer.id] = 0
    BY <1>2, <2>4, AgeCases
  <2>6. 0 \in Nat /\ millis \in Clock
    BY Typed
  <2> HIDE DEF timer, e
  <2>7. Waits(pool'.timers[j], 0, millis, 0, Rank(pool', j))
    BY <1>8, <2>3, <2>4, <2>6, WaitsFresh DEF e
  <2> QED
    BY <2>3, <2>5, <2>7
<1>10. CASE j # c /\ j \in Used(pool) /\ p.timers[j] = pool.timers[j]
  <2> DEFINE t == pool.timers[j]
  <2>1. pool'.timers[j] = t
    BY <1>6, <1>7, <1>10
  <2>2. t.id \in Ids /\ t.id \in Alive(pool) /\ t.id \in Alive(pool') /\ t.id # timer.id
    <3>1. t.id \in Ids /\ t.id \in Alive(pool)
      BY <1>10, UsedIds, Typed
    <3>2. t.id \in Alive(pool')
      BY <1>7, <2>1 DEF Alive
    <3>3. t.id # timer.id
      BY <1>5, <1>10, Typed DEF Sound
    <3> QED
      BY <3>1, <3>2, <3>3
  <2>3. age'[t.id] = age[t.id] /\ age[t.id] \in Nat
    BY <1>2, <2>2, AgeCases, Typed
  <2>4. Waits(t, age[t.id], millis, lag, Rank(pool, j))
    BY <1>10 DEF TInv, OnTime
  <2>5. Rank(pool', j) <= Rank(pool, j) - 1 /\ Rank(pool, j) \in Int
    <3>1. Rank(p, j) = Rank(pool, j)
      BY <1>4 DEF Rank
    <3>2. Rank(pool', j) <= Rank(p, j) - 1
      BY <1>3, <1>4, <1>6, <1>10, AdvanceNearer
    <3> QED
      BY <1>10, <3>1, <3>2, RankBounds, Typed
  <2> HIDE DEF t
  <2>6. Waits(t, age[t.id], millis, 0, Rank(pool', j))
    BY <1>8, <2>3, <2>4, <2>5, Typed, WaitsPass
  <2> QED
    BY <2>1, <2>3, <2>6
<1>11. CASE j \notin Used(pool)
  <2>1. PICK iv \in Intervals : p.timers[j] = [expire_time |-> (millis + iv) % ClockMod,
                                               interval_millis |-> iv, id |-> pool.next_id]
    BY <1>4, <1>11
  <2>2. j # c
    BY <1>5, <1>11
  <2>3. pool'.timers[j] = p.timers[j]
    BY <1>6, <1>7, <2>2
  <2>4. pool.next_id \notin Alive(pool)
    <3>1. \A i \in Used(pool) : pool.timers[i].id < pool.next_id /\ pool.next_id \in Int
      BY Typed DEF Sound, PoolType
    <3> QED
      BY <3>1 DEF Alive
  <2>5. pool.next_id \in Ids
    BY <1>3, <2>1, UsedIds
  <2>6. age'[pool.next_id] = 0
    BY <1>2, <2>4, <2>5, AgeCases
  <2>7. Waits(pool'.timers[j], 0, millis, 0, Rank(pool', j))
    BY <1>8, <2>1, <2>3, Typed, WaitsFresh
  <2> QED
    BY <2>1, <2>3, <2>6, <2>7
<1> QED
  BY <1>4, <1>9, <1>10, <1>11

LEMMA TickOnTime ==
  ASSUME TInv, ~ meddled, IInv', Tick
  PROVE  OnTime(pool', age', millis', lag')
<1> SUFFICES ASSUME NEW j \in Used(pool)
             PROVE  Waits(pool.timers[j], age'[pool.timers[j].id], millis', lag', Rank(pool, j))
  BY DEF Tick, OnTime
<1> DEFINE t == pool.timers[j]
           a == age[t.id]
<1>1. t.id \in Ids /\ t.id \in Alive(pool) /\ a \in Nat /\ millis \in Int /\ lag \in Nat
  BY UsedIds, Typed DEF Clock
<1>2. /\ t.interval_millis \in Intervals /\ a <= t.interval_millis + Slack
      /\ Waits(t, a, millis, lag, Rank(pool, j))
  BY DeadlineMeans DEF TInv, OnTime
<1>3. t.interval_millis \in Nat /\ Slack \in Int /\ t.interval_millis + Slack < MaxAge /\ MaxAge \in Nat
  BY <1>2, Facts, Sizes, TimingAssumption
<1>4. age'[t.id] = a + 1
  BY <1>1, <1>2, <1>3 DEF Tick
<1>5. millis' = (millis + 1) % ClockMod /\ lag' = lag + 1
  BY DEF Tick
<1>6. ((millis' - (a + 1)) + t.interval_millis) % ClockMod = ((millis - a) + t.interval_millis) % ClockMod
  <2> DEFINE d == t.interval_millis - (a + 1)
  <2>1. d \in Int /\ millis + 1 \in Int /\ ClockMod \in Nat \ {0}
    BY <1>1, <1>3, Facts
  <2>2. ((millis + 1) % ClockMod) \in Int
    BY <2>1, DivMod
  <2>3. (((millis + 1) % ClockMod) + d) % ClockMod = ((millis + 1) + d) % ClockMod
    BY <2>1, ModPlus
  <2>4. /\ ((millis + 1) % ClockMod) + d = (millis' - (a + 1)) + t.interval_millis
        /\ (millis + 1) + d = (millis - a) + t.interval_millis
    BY <1>1, <1>3, <1>5, <2>2
  <2> QED
    BY <2>3, <2>4
<1>7. MaxLag * (MaxRank - Rank(pool, j)) \in Int
  BY RankBounds, Typed, Sizes, Times
<1> HIDE DEF a, t
<1> QED
  BY <1>1, <1>2, <1>3, <1>4, <1>5, <1>6, <1>7 DEF Waits, t, a

LEMMA NextOnTime == TInv /\ [Next]_vars => TInv'
<1> SUFFICES ASSUME TInv, [Next]_vars PROVE TInv'
  OBVIOUS
<1>1. IInv'
  BY NextIInv DEF TInv
<1> SUFFICES ASSUME ~ meddled' PROVE OnTime(pool', age', millis', lag')
  BY <1>1 DEF TInv, OnTime, Used, Waits, Rank
<1>2. ~ meddled
  BY DEF Next, vars, Add, Delete, Change, SoftwareTimerRun, RunEmpty, RunNotExpired, RunExpired, Tick
<1>3. CASE RunEmpty
  BY <1>3 DEF RunEmpty, OnTime, Used
<1>4. CASE UNCHANGED vars
  BY <1>2, <1>4 DEF vars, TInv
<1> QED
  BY <1>1, <1>2, <1>3, <1>4, AddOnTime, DeleteOnTime, ChangeOnTime, NotExpiredOnTime,
     ExpiredOnTime, TickOnTime DEF Next, SoftwareTimerRun

LEMMA InitOnTime == Init => TInv
<1> SUFFICES ASSUME Init PROVE TInv
  OBVIOUS
<1>1. Used(pool) = {}
  BY DEF Init, Used
<1> QED
  BY <1>1, InitIInv DEF TInv, OnTime

\* No timer is overdue by more than the slack, for every size of the pool, whatever
\* services add, change and delete between the passes and across the wrap of the
\* clock.
THEOREM ServicedOnTime == Spec => []Punctual
<1>1. TInv => Punctual
  <2> SUFFICES ASSUME TInv, ~ meddled, NEW i \in Used(pool)
               PROVE  age[pool.timers[i].id] <= pool.timers[i].interval_millis + Slack
    BY DEF Punctual
  <2> QED
    BY DeadlineMeans
<1> QED
  BY <1>1, InitOnTime, NextOnTime, PTL DEF Spec

\* No callback runs before its period is over, across the wrap of the clock.
THEOREM FiresNotEarly == Spec => NeverEarly
<1> DEFINE Late == fired' # kTimerIdNone /\ ~ meddled' =>
                     age[fired'] >= pool.timers[SlotOf(pool, fired')].interval_millis
<1>1. TInv /\ [Next]_vars => [Late]_vars
  <2> SUFFICES ASSUME TInv, Next, fired' # kTimerIdNone, ~ meddled'
               PROVE  age[fired'] >= pool.timers[SlotOf(pool, fired')].interval_millis
    OBVIOUS
  <2>1. RunExpired
    BY DEF Next, Add, Delete, Change, SoftwareTimerRun, RunEmpty, RunNotExpired, Tick
  <2>2. /\ pool.count > 0 /\ fired' = pool.timers[pool.current].id
        /\ Expired(millis, pool.timers[pool.current])
    BY <2>1 DEF RunExpired
  <2>3. ~ meddled
    BY <2>1 DEF RunExpired
  <2>4. pool.current \in Used(pool)
    BY <2>2, CursorUsed
  <2>5. fired' \in Alive(pool)
    BY <2>2, <2>4 DEF Alive
  <2>6. SlotOf(pool, fired') = pool.current
    <3>1. SlotOf(pool, fired') \in Used(pool) /\ pool.timers[SlotOf(pool, fired')].id = fired'
      BY <2>5, SlotOfAlive, Typed
    <3> QED
      BY <2>2, <2>4, <3>1, Typed DEF Sound
  <2> QED
    BY <2>2, <2>3, <2>4, <2>6, DeadlineMeans
<1> QED
  BY <1>1, InitOnTime, NextOnTime, PTL DEF Spec, NeverEarly
=============================================================================
