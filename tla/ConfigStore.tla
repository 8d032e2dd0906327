----------------------------- MODULE ConfigStore -----------------------------
(***************************************************************************)
(* The configuration store (lib-configstore) on the on-chip flash, with    *)
(* the others that use the flash or end its work: the scene recorder of    *)
(* the DMX node, board::Reboot, and a loss of power.  The timer always     *)
(* gets a slot and is serviced some time later: SoftwareTimers is about    *)
(* the pool.                                                               *)
(*                                                                         *)
(* Everything runs in one super loop.  The store saves itself step by step *)
(* from a timer, while the scene recorder and Reboot loop until they are   *)
(* done; mode tells who has the processor.  Word 0 of the store is the     *)
(* magic number and the version, the words after it are fields, and        *)
(* together they are an array as well.                                     *)
(***************************************************************************)
EXTENDS FlashCode

CONSTANTS
  kMagic,      \* the magic number and the version
  Values,      \* what a field can hold
  kStoreWords, \* sizeof(ConfigurationStore)
  kSceneWords, \* the DMX data recorded
  MaxUpdates,  \* bound: changes of the configuration
  MaxRecords,  \* bound: scenes recorded
  MaxLosses    \* bound: losses of power

Zero  == 0
Cells == Values \cup {kMagic, Erased, Torn}
ASSUME ConfigStoreAssumption ==
  /\ Zero \in Values
  /\ {kMagic, Erased, Torn} \cap Values = {} /\ kMagic \notin {Erased, Torn}
  /\ kStoreWords \in 2 .. kSectorWords
  /\ kSceneWords \in 1 .. kSectorWords
  /\ {MaxUpdates, MaxRecords, MaxLosses} \subseteq Nat

StoreWords == 0 .. kStoreWords - 1
SceneWords == 0 .. kSceneWords - 1
Fields     == 1 .. kStoreWords - 1
States     == {"kIdle", "kChanged", "kChangedWaiting", "kErasing",
               "kErasedWaiting", "kErased", "kWriting"}

VARIABLES
  s_store, s_state,
  s_timer_id,  \* the handle is not kTimerIdNone
  timer,       \* the timer is in the pool
  mode,        \* "loop", "reboot", "scene_erase" or "scene_write"
  scene,       \* the DMX data that is recorded
  image,       \* ghost: the configuration whose header was written last
  updates, records, losses \* ghosts: for the bounds

timers == <<s_timer_id, timer>>
ghosts == <<image, updates, records, losses>>
vars   == <<flashVars, s_store, s_state, timers, mode, scene, ghosts>>

memory == [store |-> s_store, scene |-> scene]
SavedWord(i) == flash[kConfigOffset + i]
Defaults == [i \in StoreWords |-> IF i = 0 THEN kMagic ELSE Zero]

-----------------------------------------------------------------------------
(* Changing the configuration. *)

TimerStart ==
  IF s_timer_id THEN UNCHANGED timers
                ELSE s_timer_id' = TRUE /\ timer' = TRUE

TimerStopKeepsHandle == \* mutant: the handle is not cleared
  timer' = FALSE /\ UNCHANGED s_timer_id
TimerStop ==
  IF s_timer_id THEN s_timer_id' = FALSE /\ timer' = FALSE
                ELSE UNCHANGED timers

SetStatusChangedOnce == \* mutant: a save under way is not started again
  /\ s_state' = IF s_state = "kIdle" THEN "kChanged" ELSE s_state
  /\ TimerStart
SetStatusChanged ==
  /\ s_state' = "kChanged"
  /\ TimerStart

Changed(store) ==
  /\ mode = "loop"
  /\ updates < MaxUpdates
  /\ updates' = updates + 1
  /\ s_store' = store
  /\ SetStatusChanged
  /\ UNCHANGED <<flashVars, mode, scene, image, records, losses>>

Update(field, value) ==
  /\ s_store[field] # value
  /\ Changed([s_store EXCEPT ![field] = value])

\* Only the words that are given are compared; when one differs the words
\* after them are cleared.
UpdateArray(src) ==
  /\ \E i \in DOMAIN src : s_store[i] # src[i]
  /\ Changed([i \in StoreWords |-> CASE i \in DOMAIN src -> src[i]
                                     [] i = 0            -> s_store[0]
                                     [] OTHER            -> Zero])

\* HandleFactory: Reset, then Reboot.
Factory ==
  /\ mode = "loop"
  /\ s_store' = [i \in StoreWords |-> Zero]
  /\ SetStatusChanged
  /\ mode' = "reboot"
  /\ UNCHANGED <<flashVars, scene, ghosts>>

Reboot ==
  /\ mode = "loop"
  /\ mode' = "reboot"
  /\ UNCHANGED <<flashVars, s_store, s_state, timers, scene, ghosts>>

-----------------------------------------------------------------------------
(* Flash, which Commit calls: one step of saving.  more is its result. *)

FlashIdle ==
  /\ s_state = "kIdle"
  /\ UNCHANGED <<flashVars, s_state, image>>

NextState == [kChanged |-> "kChangedWaiting", kChangedWaiting |-> "kErasing",
              kErasedWaiting |-> "kErased", kErased |-> "kWriting"]

\* kErased also sets the period of the timer to 0.
FlashWaiting ==
  /\ s_state \in DOMAIN NextState
  /\ s_state' = NextState[s_state]
  /\ UNCHANGED <<flashVars, image>>

FlashErasing ==
  /\ s_state = "kErasing"
  /\ \E done \in BOOLEAN :
       /\ Erase(kConfigOffset, kSectorWords, done)
       /\ s_state' = IF done THEN "kErasedWaiting" ELSE s_state
  /\ UNCHANGED image

FlashWritingStep(done) ==
  /\ s_state = "kWriting"
  /\ Write(kConfigOffset, kStoreWords, "store", memory, done)
  /\ image' = IF fc.state = "WRITE_PROGRAM" /\ fc.at = 0 THEN s_store ELSE image

FlashWrittenUnnoticed == \* mutant: the state is not left when all is written
  FlashWritingStep(TRUE) /\ UNCHANGED s_state

FlashWriting == FlashWritingStep(FALSE) /\ UNCHANGED s_state
FlashWritten == FlashWritingStep(TRUE) /\ s_state' = "kIdle"

Commit(more) ==
  \/ more /\ (FlashWaiting \/ FlashErasing \/ FlashWriting)
  \/ ~ more /\ (FlashIdle \/ FlashWritten)

\* The callback of the timer.
Timer ==
  /\ mode = "loop" /\ timer
  /\ \E more \in BOOLEAN :
       /\ Commit(more)
       /\ IF more THEN UNCHANGED timers ELSE TimerStop
  /\ UNCHANGED <<s_store, mode, scene, updates, records, losses>>

\* ConfigstoreCommit: Commit for as long as there is more to do.
ConfigstoreCommit ==
  /\ mode = "reboot" /\ s_state # "kIdle"
  /\ \E more \in BOOLEAN : Commit(more)
  /\ UNCHANGED <<s_store, timers, mode, scene, updates, records, losses>>

-----------------------------------------------------------------------------
(* Start-up, after a reboot or a loss of power. *)

Boot ==
  LET read    == [i \in StoreWords |-> SavedWord(i)]
      isValid == read[0] = kMagic
  IN  /\ fc' = FcReset
      /\ pending' = None
      /\ s_store'    = IF isValid THEN read ELSE Defaults
      /\ s_state'    = IF isValid THEN "kIdle" ELSE "kChanged"
      /\ s_timer_id' = ~ isValid
      /\ timer'      = ~ isValid
      /\ mode' = "loop"
      /\ UNCHANGED <<flash, scene, image, updates, records>>

Rebooted ==
  /\ mode = "reboot" /\ s_state = "kIdle"
  /\ Boot
  /\ UNCHANGED losses

PowerLoss ==
  /\ losses < MaxLosses
  /\ losses' = losses + 1
  /\ Boot

-----------------------------------------------------------------------------
(* FailSafeRecord: WriteStart erases, Write writes, each in a loop. *)

FailSafeRecord(data) ==
  /\ mode = "loop" /\ records < MaxRecords
  /\ records' = records + 1
  /\ scene' = data
  /\ mode' = "scene_erase"
  /\ UNCHANGED <<flashVars, s_store, s_state, timers, image, updates, losses>>

SceneWriteStart ==
  /\ mode = "scene_erase"
  /\ \E done \in BOOLEAN :
       /\ Erase(kSceneOffset, kSectorWords, done)
       /\ mode' = IF done THEN "scene_write" ELSE mode
  /\ UNCHANGED <<s_store, s_state, timers, scene, ghosts>>

SceneWrite ==
  /\ mode = "scene_write"
  /\ \E done \in BOOLEAN :
       /\ Write(kSceneOffset, kSceneWords, "scene", memory, done)
       /\ mode' = IF done THEN "loop" ELSE mode
  /\ UNCHANGED <<s_store, s_state, timers, scene, ghosts>>

Fmc ==
  /\ FmcDone
  /\ UNCHANGED <<s_store, s_state, timers, mode, scene, ghosts>>

Scenes == [SceneWords -> Values]

\* A device that has a configuration and a recorded scene.
Init ==
  /\ flash = [w \in FlashWords |-> CASE w = kConfigOffset -> kMagic
                                     [] w - kConfigOffset \in Fields -> Zero
                                     [] w - kSceneOffset \in SceneWords -> Zero
                                     [] OTHER -> Erased]
  /\ fc = FcReset /\ pending = None
  /\ s_store = Defaults /\ s_state = "kIdle"
  /\ s_timer_id = FALSE /\ timer = FALSE
  /\ mode = "loop"
  /\ scene = [i \in SceneWords |-> Zero]
  /\ image = Defaults
  /\ updates = 0 /\ records = 0 /\ losses = 0

Next ==
  \/ \E i \in Fields, v \in Values : Update(i, v)
  \/ \E n \in Fields : \E src \in [1 .. n -> Values] : UpdateArray(src)
  \/ Factory \/ Reboot
  \/ Timer \/ ConfigstoreCommit
  \/ Rebooted \/ PowerLoss
  \/ \E data \in Scenes : FailSafeRecord(data)
  \/ SceneWriteStart \/ SceneWrite
  \/ Fmc

Spec == Init /\ [][Next]_vars

\* The super loop services the timer for ever, loops that are entered are run
\* to their end, and the flash controller completes what it is told.
FairSpec ==
  /\ Spec
  /\ WF_vars(Timer) /\ WF_vars(ConfigstoreCommit) /\ WF_vars(Rebooted)
  /\ WF_vars(SceneWriteStart) /\ WF_vars(SceneWrite)
  /\ WF_vars(Fmc)

-----------------------------------------------------------------------------
(* Properties. *)

TypeOK ==
  /\ fc \in FcType
  /\ flash \in [FlashWords -> Cells]
  /\ DOMAIN pending \subseteq FlashWords
  /\ \A w \in DOMAIN pending : pending[w] \in Cells
  /\ {s_store, image} \subseteq [StoreWords -> Cells]
  /\ s_state \in States
  /\ {s_timer_id, timer} \subseteq BOOLEAN
  /\ mode \in {"loop", "reboot", "scene_erase", "scene_write"}
  /\ scene \in Scenes
  /\ updates \in 0 .. MaxUpdates /\ records \in 0 .. MaxRecords
  /\ losses \in 0 .. MaxLosses

\* When the store says it is idle the flash holds the configuration in memory,
\* word for word: no change that came between the steps of a save, no scene
\* recorded in its middle and no loss of power leaves an older word behind.
IdleMeansSaved ==
  s_state = "kIdle" => \A i \in StoreWords : SavedWord(i) = s_store[i]

\* A change that is not saved yet has a timer that will save it.
SaveScheduled == s_state # "kIdle" => timer

\* The flash never holds a configuration mixed of two: behind a valid header
\* every word is that of the configuration the header was written for, or was
\* not written (completely).
OneImage ==
  SavedWord(0) = kMagic =>
    \A i \in Fields : SavedWord(i) \in {image[i], Erased, Torn}

\* Without a scene recorded in between, only erased words are programmed.
ProgramsErasedWords ==
  [][ fc.state = "WRITE_PROGRAM" /\ fc'.state = "WRITE_BUSY" /\ records = 0
        => flash[fc.address] = Erased ]_vars

\* A change is saved in the end.
Settles == (s_state # "kIdle") ~> (s_state = "kIdle")

\* "record current output as failsafe scene": when the recorder is done the
\* flash holds what was recorded.
SceneRecorded ==
  [][ mode = "scene_write" /\ mode' = "loop" /\ losses' = losses
        => \A i \in SceneWords : flash[kSceneOffset + i] = scene[i] ]_vars
=============================================================================
