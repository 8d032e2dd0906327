--------------------------- MODULE SoftwareTimers ---------------------------
(***************************************************************************)
(* The software-timer pool of the super loop (lib-superloop).              *)
(*                                                                         *)
(* A fixed array of periodic timers is serviced one slot per call of       *)
(* SoftwareTimerRun by a round-robin cursor.  A callback runs inside that  *)
(* call and may itself add, change or delete timers, its own included:     *)
(* ConfigStore::Timer and the display's SleepTimer delete themselves, and  *)
(* ConfigStore::Timer changes its own period.  Millis() is a counter that  *)
(* wraps at 2^32; here it wraps at ClockMod.                               *)
(***************************************************************************)
EXTENDS Integers

CONSTANTS
  kSoftwareTimersMax, \* size of the pool
  Intervals,          \* the periods callers ask for, in milliseconds
  ClockMod,           \* Millis() counts modulo this (2^32 in the source)
  MaxId,              \* bound: how many timers are ever added
  MaxLag,             \* bound: the most milliseconds between two loop passes
  MaxAge,             \* bound: saturation of the ghost clock "age"
  CallbackOps         \* what callbacks do to the pool while they run

kTimerIdNone == -1
Slots    == 0 .. kSoftwareTimersMax - 1
Ids      == 0 .. MaxId - 1
Clock    == 0 .. ClockMod - 1
Timer    == [expire_time : Clock, interval_millis : Intervals \cup {0}, id : Ids]
PoolType == [timers : [Slots -> Timer], count : 0 .. kSoftwareTimersMax,
             next_id : 0 .. MaxId, current : Slots]
AllOps   == {"none", "add", "changeSelf", "deleteSelf", "deleteOther"}

ASSUME PoolAssumption ==
  /\ kSoftwareTimersMax \in Nat \ {0}
  /\ MaxId \in Nat \ {0}
  /\ ClockMod \in Nat \ {0}
  /\ MaxLag \in Nat
  /\ MaxAge \in Nat
  /\ Intervals \subseteq Nat
  /\ Intervals # {}
  /\ CallbackOps \subseteq AllOps

VARIABLES
  pool,   \* [timers, count, next_id, current]: s_timers, s_timers_count, ...
  millis, \* timing::Millis()
  lag,    \* ghost: milliseconds since the last SoftwareTimerRun
  fired,  \* ghost: the timer whose callback the last step ran
  age,    \* ghost: milliseconds since a timer was started, changed or fired
  meddled \* ghost: a callback has changed or deleted a timer

vars == <<pool, millis, lag, fired, age, meddled>>

Used(p)      == 0 .. p.count - 1
Alive(p)     == {p.timers[i].id : i \in Used(p)}
SlotOf(p, h) == CHOOSE i \in Used(p) : p.timers[i].id = h

(***************************************************************************)
(* The operations, as functions from a pool to a pool, so that a callback  *)
(* can perform them in the middle of SoftwareTimerRun.                     *)
(***************************************************************************)
SoftwareTimerAddIdIsCount(p, now, interval) == \* mutant: ids reused after a delete
  IF p.count >= kSoftwareTimersMax
    THEN p
    ELSE [p EXCEPT
            !.timers[p.count] = [expire_time     |-> (now + interval) % ClockMod,
                                 interval_millis |-> interval,
                                 id              |-> p.count],
            !.count   = @ + 1,
            !.next_id = @ + 1]

SoftwareTimerAdd(p, now, interval) ==
  IF p.count >= kSoftwareTimersMax
    THEN p
    ELSE [p EXCEPT
            !.timers[p.count] = [expire_time     |-> (now + interval) % ClockMod,
                                 interval_millis |-> interval,
                                 id              |-> p.next_id],
            !.count   = @ + 1,
            !.next_id = @ + 1]

SoftwareTimerDeleteCursorKept(p, h) == \* mutant: no post-delete normalization
  IF h \notin Alive(p)
    THEN p
    ELSE [p EXCEPT !.timers[SlotOf(p, h)] = p.timers[p.count - 1], !.count = @ - 1]

\* The last timer takes the freed slot; the cursor is kept within bounds.
SoftwareTimerDelete(p, h) ==
  IF h \notin Alive(p)
    THEN p
    ELSE [p EXCEPT
            !.timers[SlotOf(p, h)] = p.timers[p.count - 1],
            !.count   = @ - 1,
            !.current = IF @ >= p.count - 1 THEN 0 ELSE @]

SoftwareTimerChange(p, now, h, interval) ==
  IF h \notin Alive(p)
    THEN p
    ELSE [p EXCEPT !.timers[SlotOf(p, h)] =
            [@ EXCEPT !.expire_time     = (now + interval) % ClockMod,
                      !.interval_millis = interval]]

ExpiredPlain(now, t) == now >= t.expire_time \* mutant: not wrap-around safe

\* static_cast<int32_t>(now - expire) >= 0, at the width of the clock.
Expired(now, t) == 2 * ((now - t.expire_time) % ClockMod) < ClockMod

(***************************************************************************)
(* What a callback of timer h can leave behind.                            *)
(***************************************************************************)
AfterCallback(p, now, h) ==
  (IF "none" \in CallbackOps THEN {p} ELSE {})
  \cup (IF "add" \in CallbackOps /\ p.next_id < MaxId
          THEN {SoftwareTimerAdd(p, now, iv) : iv \in Intervals} ELSE {})
  \cup (IF "changeSelf" \in CallbackOps
          THEN {SoftwareTimerChange(p, now, h, iv) : iv \in Intervals} ELSE {})
  \cup (IF "deleteSelf" \in CallbackOps
          THEN {SoftwareTimerDelete(p, h)} ELSE {})
  \cup (IF "deleteOther" \in CallbackOps
          THEN {SoftwareTimerDelete(p, o) : o \in Alive(p) \ {h}} ELSE {})

\* A callback that leaves the timers there are alone: it may add one.
LeavesTimersAlone(p, now, q) ==
  q = p \/ \E iv \in Intervals : q = SoftwareTimerAdd(p, now, iv)

\* s_timers[s_timer_current].expire_time = kNow + kInterval: the interval was
\* read before the callback, the cursor is read after it.
Reschedule(p, now, interval) ==
  [p EXCEPT !.timers[p.current].expire_time = (now + interval) % ClockMod]

AdvanceCursorLate(p) == \* mutant: wraps one slot too late
  [p EXCEPT !.current = IF @ + 1 > p.count THEN 0 ELSE @ + 1]

AdvanceCursorStuck(p) == \* mutant: the cursor is checked but never advanced
  [p EXCEPT !.current = IF @ >= p.count THEN 0 ELSE @]

AdvanceCursor(p) ==
  [p EXCEPT !.current = IF @ + 1 >= p.count THEN 0 ELSE @ + 1]

\* The ghost clock restarts for a timer that is added, changed or fired.
AgeAfter(q, f) ==
  [h \in Ids |-> IF h # f /\ h \in Alive(pool) \cap Alive(q) THEN age[h] ELSE 0]

\* Once a callback has meddled, the ghost clocks are of no more use and stop.
Ages(q, f) == IF meddled' THEN [h \in Ids |-> 0] ELSE AgeAfter(q, f)

-----------------------------------------------------------------------------
Init ==
  /\ pool = [timers  |-> [i \in Slots |->
                            [expire_time |-> 0, interval_millis |-> 0, id |-> 0]],
             count   |-> 0,
             next_id |-> 0,
             current |-> 0]
  /\ millis \in {0, ClockMod - 1}
  /\ lag = 0
  /\ fired = kTimerIdNone
  /\ age = [h \in Ids |-> 0]
  /\ meddled = FALSE

\* A caller in the super loop adds, changes or deletes a timer.
Add(interval) ==
  /\ pool.next_id < MaxId
  /\ pool' = SoftwareTimerAdd(pool, millis, interval)
  /\ fired' = kTimerIdNone
  /\ age' = AgeAfter(pool', kTimerIdNone)
  /\ UNCHANGED <<millis, lag, meddled>>

Delete(h) ==
  /\ pool' = SoftwareTimerDelete(pool, h)
  /\ fired' = kTimerIdNone
  /\ age' = AgeAfter(pool', kTimerIdNone)
  /\ UNCHANGED <<millis, lag, meddled>>

Change(h, interval) ==
  /\ h \in Alive(pool)
  /\ pool' = SoftwareTimerChange(pool, millis, h, interval)
  /\ fired' = kTimerIdNone
  /\ age' = AgeAfter(pool', h)
  /\ UNCHANGED <<millis, lag, meddled>>

RunEmpty ==
  /\ pool.count = 0
  /\ fired' = kTimerIdNone
  /\ lag' = 0
  /\ UNCHANGED <<pool, millis, age, meddled>>

RunNotExpired ==
  /\ pool.count > 0
  /\ ~ Expired(millis, pool.timers[pool.current])
  /\ pool' = AdvanceCursor(pool)
  /\ fired' = kTimerIdNone
  /\ lag' = 0
  /\ UNCHANGED <<millis, age, meddled>>

RunExpired ==
  /\ pool.count > 0
  /\ LET timer == pool.timers[pool.current]
     IN  /\ Expired(millis, timer)
         /\ \E p \in AfterCallback(pool, millis, timer.id) :
              /\ pool' = AdvanceCursor(Reschedule(p, millis, timer.interval_millis))
              /\ meddled' = (meddled \/ ~ LeavesTimersAlone(pool, millis, p))
         /\ fired' = timer.id
         /\ age' = Ages(pool', timer.id)
  /\ lag' = 0
  /\ UNCHANGED millis

SoftwareTimerRun == RunEmpty \/ RunNotExpired \/ RunExpired

\* One millisecond passes.  The super loop comes round within MaxLag of them.
Tick ==
  /\ lag < MaxLag
  /\ millis' = (millis + 1) % ClockMod
  /\ lag' = lag + 1
  /\ fired' = kTimerIdNone
  /\ age' = [h \in Ids |-> IF ~ meddled /\ h \in Alive(pool) /\ age[h] < MaxAge
                             THEN age[h] + 1 ELSE age[h]]
  /\ UNCHANGED <<pool, meddled>>

Next ==
  \/ \E iv \in Intervals : Add(iv)
  \/ \E h \in Ids : Delete(h)
  \/ \E h \in Ids, iv \in Intervals : Change(h, iv)
  \/ SoftwareTimerRun
  \/ Tick

Spec == Init /\ [][Next]_vars

-----------------------------------------------------------------------------
(* Properties. *)

TypeOK ==
  /\ pool \in PoolType
  /\ millis \in Clock
  /\ lag \in 0 .. MaxLag
  /\ fired \in Ids \cup {kTimerIdNone}
  /\ age \in [Ids -> 0 .. MaxAge]
  /\ meddled \in BOOLEAN

\* A handle names one timer: whatever callers and callbacks delete, move or
\* add, no two slots in use carry the same id, ids given out later are fresh,
\* and the cursor that the next SoftwareTimerRun dereferences is in use.
Sound(p) ==
  /\ \A i, j \in Used(p) : p.timers[i].id = p.timers[j].id => i = j
  /\ \A i \in Used(p) : p.timers[i].id < p.next_id
  /\ p.current = 0 \/ p.current < p.count

HandlesUnique == Sound(pool)

\* How long the cursor may take to come round to a timer.  One round is not
\* enough: when a caller deletes a timer the last one moves to its slot, which the
\* cursor may have passed, and that can happen once for every slot below.
Slack == MaxLag * (kSoftwareTimersMax * (kSoftwareTimersMax - 1) + 1)

\* The periods and the slack are short against the range of the clock, so that
\* Expired tells before from after, and the ghost clocks of the timers in the
\* pool never saturate.
ASSUME TimingAssumption ==
  /\ 2 * Slack < ClockMod
  /\ \A iv \in Intervals : 2 * iv <= ClockMod /\ iv + Slack < MaxAge

\* A timer is serviced on time: it is never overdue by more than the slack, as
\* long as no callback has changed or deleted timers under the run that called it.
Punctual ==
  ~ meddled =>
    \A i \in Used(pool) :
      age[pool.timers[i].id] <= pool.timers[i].interval_millis + Slack

\* A callback never runs before a full period has passed since the timer was
\* started, changed or last fired (again without such callbacks).
NeverEarly ==
  [][ fired' # kTimerIdNone /\ ~ meddled' =>
        age[fired'] >= pool.timers[SlotOf(pool, fired')].interval_millis ]_vars
=============================================================================
