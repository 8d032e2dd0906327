------------------------- MODULE ConfigStoreProofs --------------------------
(***************************************************************************)
(* For every size of the flash and of the configuration, and any number of *)
(* changes, scenes and losses of power: an idle store is saved, a change   *)
(* has a timer that will save it, and the flash never holds a mixture.     *)
(*                                                                         *)
(* The invariant is in three parts.  FlashSound is about the driver and    *)
(* the controller by themselves; Owner says for whom the driver works, as  *)
(* far as the loop that has the processor and the state of the store tell; *)
(* StoreSound says what the sector of the configuration holds.  Its words  *)
(* are described by Eff, what a word holds once the controller is done: a  *)
(* step of the driver changes that of the words it erases or programs, and *)
(* the controller changes none.                                            *)
(***************************************************************************)
EXTENDS ConfigStore, TLAPS

Eff(w) == IF w \in DOMAIN pending THEN pending[w] ELSE flash[w]

Erasing == fc.state \in {"ERASE_BUSY", "ERASE_PROGRAM"}
Writing == fc.state \in {"WRITE_BUSY", "WRITE_PROGRAM"}
Pages(n) == \E k \in 0 .. kSectorPages : n = k * kPageWords
Config(i) == kConfigOffset + i

\* What is being erased is a rest of the one sector or the other, what is being
\* written the rest of the one buffer or the other.
ErasesScene  == fc.page + fc.length = kSectorWords
ErasesConfig == fc.page + fc.length = 2 * kSectorWords
WritesScene ==
  fc.buffer = "scene" /\ fc.address = fc.at /\ fc.at + fc.length = kSceneWords
WritesStore ==
  fc.buffer = "store" /\ fc.address = Config(fc.at) /\ fc.at + fc.length = kStoreWords

FlashSound ==
  /\ fc \in FcType
  /\ flash \in [FlashWords -> Cells]
  /\ DOMAIN pending \subseteq FlashWords
  /\ \A w \in DOMAIN pending : pending[w] \in Cells /\ flash[w] = Torn
  /\ fc.state \in {"ERASE_PROGRAM", "WRITE_PROGRAM"} => pending = None /\ fc.length > 0
  /\ Erasing => Pages(fc.length) /\ (ErasesScene \/ ErasesConfig)
  /\ Writing => WritesScene \/ WritesStore

\* The memory, the timer and the bounds have their types, and a change that is not
\* saved has a timer.
MemorySound ==
  /\ {s_store, image} \subseteq [StoreWords -> Cells]
  /\ s_state \in States
  /\ s_timer_id \in BOOLEAN /\ timer = s_timer_id
  /\ s_state # "kIdle" => timer
  /\ mode \in {"loop", "reboot", "scene_erase", "scene_write"}
  /\ scene \in Scenes
  /\ updates \in 0 .. MaxUpdates /\ records \in 0 .. MaxRecords
  /\ losses \in 0 .. MaxLosses

BeforeErase == {"kChanged", "kChangedWaiting", "kErasing"}

Owner ==
  /\ mode \in {"loop", "reboot"} =>
       /\ Erasing => ErasesConfig /\ s_state \in BeforeErase
       /\ Writing => WritesStore /\ s_state \in BeforeErase \cup {"kWriting"}
  /\ mode = "scene_erase" /\ Erasing => ErasesScene \/ s_state \in BeforeErase
  /\ mode = "scene_write" => ~ Erasing /\ (Writing => WritesScene)

StoreSound ==
  /\ s_state = "kIdle" =>
       \A i \in StoreWords : Config(i) \notin DOMAIN pending /\ flash[Config(i)] = s_store[i]
  /\ Erasing /\ ErasesConfig => \A w \in kConfigOffset .. fc.page - 1 : Eff(w) = Erased
  /\ s_state \in {"kErasedWaiting", "kErased", "kWriting"} =>
       \A i \in StoreWords : Eff(Config(i)) \in {Erased, s_store[i]}
  /\ s_state = "kWriting" /\ Writing /\ WritesStore =>
       /\ \A i \in StoreWords : i < fc.at => Eff(Config(i)) = s_store[i]
       /\ fc.at > 0 => image = s_store
  /\ Eff(Config(0)) = kMagic =>
       \A i \in Fields : Eff(Config(i)) \in {image[i], Erased, Torn}

IInv == FlashSound /\ MemorySound /\ Owner /\ StoreSound

-----------------------------------------------------------------------------
(* Sizes. *)

LEMMA Sizes ==
  /\ kPageWords \in Nat \ {0} /\ kSectorWords \in Nat \ {0}
  /\ Pages(kSectorWords) /\ Pages(0)
<1>1. kPageWords \in Nat \ {0} /\ kSectorPages \in Nat \ {0}
  BY FlashCodeAssumption
<1>2. kSectorPages * kPageWords > 0
  BY <1>1
<1>3. 0 = 0 * kPageWords
  BY <1>1
<1> QED
  BY <1>1, <1>2, <1>3 DEF kSectorWords, Pages

\* One page less of a length that is not zero.
LEMMA PageLess ==
  ASSUME NEW n \in Nat, Pages(n), n > 0
  PROVE  n - kPageWords \in Nat /\ Pages(n - kPageWords)
<1>1. kPageWords \in Nat \ {0} /\ kSectorPages \in Nat \ {0}
  BY FlashCodeAssumption
<1>2. PICK k \in 0 .. kSectorPages : n = k * kPageWords
  BY DEF Pages
<1>3. k - 1 \in 0 .. kSectorPages
  BY <1>1, <1>2
<1>4. (k - 1) * kPageWords = n - kPageWords
  BY <1>1, <1>2
<1>5. (k - 1) * kPageWords >= 0
  BY <1>1, <1>3
<1> QED
  BY <1>1, <1>3, <1>4, <1>5 DEF Pages

LEMMA Words ==
  /\ kStoreWords \in Nat /\ kStoreWords >= 2 /\ kStoreWords <= kSectorWords
  /\ kSceneWords \in Nat /\ kSceneWords <= kSectorWords
  /\ 0 \in StoreWords /\ Fields \subseteq StoreWords
  /\ \A i \in StoreWords : i \in Nat /\ Config(i) \in FlashWords /\ Config(i) >= kSectorWords
BY Sizes, ConfigStoreAssumption DEF StoreWords, Fields, Config, kConfigOffset, FlashWords

LEMMA CellFacts ==
  /\ {kMagic, Erased, Torn} \subseteq Cells /\ Values \subseteq Cells
  /\ kMagic # Erased /\ kMagic # Torn /\ Erased # Torn /\ Zero \in Values
BY ConfigStoreAssumption, FlashCodeAssumption DEF Cells

LEMMA NoneEmpty == DOMAIN None = {}
BY DEF None

-----------------------------------------------------------------------------
(* The controller and the steps of the driver. *)

\* The controller changes no word but that it is done with it.
LEMMA FmcDoneSound ==
  ASSUME FlashSound, FmcDone
  PROVE  FlashSound' /\ UNCHANGED fc /\ pending' = None
         /\ \A w \in FlashWords : /\ Eff(w)' = Eff(w)
                                  /\ w \notin DOMAIN pending => flash'[w] = flash[w]
<1>1. /\ pending' = None /\ DOMAIN pending' = {} /\ fc' = fc
      /\ flash' = [w \in FlashWords |-> IF w \in DOMAIN pending THEN pending[w] ELSE flash[w]]
  BY NoneEmpty DEF FmcDone
<1>2. \A w \in FlashWords : Eff(w)' = Eff(w)
  BY <1>1 DEF Eff
<1>3. flash' \in [FlashWords -> Cells]
  BY <1>1 DEF FlashSound
<1> QED
  BY <1>1, <1>2, <1>3 DEF FlashSound, Erasing, Writing, ErasesScene, ErasesConfig,
     WritesScene, WritesStore

\* A page is erased: the words of the page, which are of the sector being erased.
LEMMA EraseProgramSound ==
  ASSUME FlashSound, EraseProgram
  PROVE  LET words == fc.page .. fc.page + kPageWords - 1
         IN  /\ FlashSound'
             /\ words \subseteq FlashWords
             /\ Erasing /\ Erasing' /\ ~ Writing'
             /\ fc'.page = fc.page + kPageWords
             /\ ErasesScene => ErasesScene' /\ \A w \in words : w < kSectorWords
             /\ ErasesConfig => ErasesConfig'
             /\ DOMAIN pending' = words
             /\ \A w \in FlashWords : Eff(w)' = IF w \in words THEN Erased ELSE Eff(w)
             /\ \A w \in FlashWords : w \notin words => flash'[w] = flash[w]
<1> DEFINE words == fc.page .. fc.page + kPageWords - 1
<1>1. /\ fc.state = "ERASE_PROGRAM" /\ fc \in FcType /\ Erasing
      /\ pending = None /\ fc.length > 0 /\ Pages(fc.length)
      /\ ErasesScene \/ ErasesConfig
  BY DEF EraseProgram, FlashSound, Erasing
<1>2. /\ fc.page \in Nat /\ fc.length \in Nat /\ fc.length <= kSectorWords
  BY <1>1, Sizes DEF FcType
<1>3. fc.length - kPageWords \in Nat /\ Pages(fc.length - kPageWords)
  BY <1>1, <1>2, PageLess
<1>4. fc.page + kPageWords + (fc.length - kPageWords) = fc.page + fc.length
  BY <1>2, Sizes
<1>5. fc' = [fc EXCEPT !.state = "ERASE_BUSY", !.length = fc.length - kPageWords,
                       !.page = fc.page + kPageWords]
  BY DEF EraseProgram
<1>6. /\ fc'.state = "ERASE_BUSY" /\ fc'.length = fc.length - kPageWords
      /\ fc'.page = fc.page + kPageWords
  BY <1>1, <1>5 DEF FcType
<1>7. fc.page + kPageWords \in 0 .. 2 * kSectorWords /\ words \subseteq FlashWords
  BY <1>1, <1>2, <1>3, Sizes DEF ErasesScene, ErasesConfig, FlashWords
<1>8. ErasesScene => \A w \in words : w < kSectorWords
  BY <1>1, <1>2, <1>3, Sizes DEF ErasesScene
<1>9. fc' \in FcType
  <2>1. fc.length - kPageWords \in 0 .. kSectorWords
    BY <1>2, <1>3, Sizes
  <2> QED
    BY <1>1, <1>5, <1>7, <2>1 DEF FcType, FcStates
<1>10. /\ flash' = [w \in FlashWords |-> IF w \in words THEN Torn ELSE flash[w]]
       /\ pending' = [w \in words |-> Erased] /\ DOMAIN pending' = words
  BY DEF EraseProgram, ErasePage
<1>11. flash' \in [FlashWords -> Cells]
  BY <1>10, CellFacts DEF FlashSound
<1>12. \A w \in FlashWords : Eff(w)' = IF w \in words THEN Erased ELSE Eff(w)
  BY <1>1, <1>10, NoneEmpty DEF Eff
<1>13. ErasesScene' = ErasesScene /\ ErasesConfig' = ErasesConfig
  BY <1>4, <1>6 DEF ErasesScene, ErasesConfig
<1>14. Erasing' /\ ~ Writing'
  BY <1>6 DEF Erasing, Writing
<1>15. \A w \in words : pending'[w] = Erased /\ flash'[w] = Torn
  BY <1>7, <1>10
<1>16. FlashSound'
  BY <1>1, <1>3, <1>6, <1>7, <1>9, <1>10, <1>11, <1>13, <1>14, <1>15, CellFacts DEF FlashSound
<1> QED
  BY <1>1, <1>6, <1>7, <1>8, <1>10, <1>12, <1>13, <1>14, <1>16

\* A word is programmed: it takes the value of the buffer when it was erased, or
\* holds that value already.
LEMMA WriteProgramSound ==
  ASSUME FlashSound, MemorySound, WriteProgram(memory)
  PROVE  LET value == memory[fc.buffer][fc.at]
         IN  /\ FlashSound'
             /\ Writing /\ Writing' /\ ~ Erasing'
             /\ fc.state = "WRITE_PROGRAM"
             /\ fc'.at = fc.at + 1 /\ fc'.buffer = fc.buffer
             /\ WritesStore => WritesStore' /\ fc.at \in StoreWords
             /\ WritesScene => WritesScene' /\ fc.at \in SceneWords
             /\ DOMAIN pending' \subseteq {fc.address}
             /\ \A w \in FlashWords : w # fc.address => Eff(w)' = Eff(w) /\ flash'[w] = flash[w]
             /\ \A w \in FlashWords :
                  w = fc.address /\ Eff(w) \in {Erased, value} => Eff(w)' = value
<1> DEFINE value == memory[fc.buffer][fc.at]
<1> PICK a : a = fc.address
  OBVIOUS
<1>1. /\ fc.state = "WRITE_PROGRAM" /\ fc \in FcType /\ Writing
      /\ pending = None /\ DOMAIN pending = {} /\ fc.length > 0
      /\ WritesScene \/ WritesStore
  BY NoneEmpty DEF WriteProgram, FlashSound, Writing
<1>2. /\ fc.at \in Nat /\ fc.length \in Nat /\ fc.address \in Nat
  BY <1>1, Sizes DEF FcType
<1>3. /\ WritesStore => fc.at \in StoreWords /\ fc.at + 1 \in 0 .. kSectorWords
      /\ WritesScene => fc.at \in SceneWords /\ fc.at + 1 \in 0 .. kSectorWords
  <2>1. kStoreWords \in Nat /\ kSceneWords \in Nat /\ kSectorWords \in Nat
        /\ kStoreWords <= kSectorWords /\ kSceneWords <= kSectorWords
    BY Words, Sizes
  <2> QED
    BY <1>1, <1>2, <2>1 DEF WritesStore, WritesScene, StoreWords, SceneWords
<1>4. a \in FlashWords /\ a + 1 \in 0 .. 2 * kSectorWords
  BY <1>1, <1>2, <1>3, Sizes, Words
     DEF WritesStore, WritesScene, FlashWords, Config, kConfigOffset
<1>5. fc.length - 1 \in 0 .. kSectorWords
  BY <1>1, <1>2, Sizes DEF FcType
<1>6. fc' = [fc EXCEPT !.state = "WRITE_BUSY", !.address = fc.address + 1, !.at = fc.at + 1,
                       !.length = fc.length - 1]
  BY DEF WriteProgram
<1>7. /\ fc'.state = "WRITE_BUSY" /\ fc'.address = a + 1 /\ fc'.at = fc.at + 1
      /\ fc'.length = fc.length - 1 /\ fc'.buffer = fc.buffer
  BY <1>1, <1>6 DEF FcType
<1>8. fc' \in FcType
  BY <1>1, <1>3, <1>4, <1>5, <1>6 DEF FcType, FcStates
<1>9. (WritesStore => WritesStore') /\ (WritesScene => WritesScene')
  BY <1>2, <1>7, Sizes DEF WritesStore, WritesScene, Config, kConfigOffset
<1>10. Writing' /\ ~ Erasing'
  BY <1>7 DEF Writing, Erasing
<1>11. value \in Cells
  <2>1. WritesStore => value \in Cells
    BY <1>3 DEF WritesStore, memory, MemorySound
  <2>2. WritesScene => value \in Cells
    BY <1>3, CellFacts DEF WritesScene, memory, MemorySound, Scenes
  <2> QED
    BY <1>1, <2>1, <2>2
<1> HIDE DEF value
<1>12. Program(a, value)
  BY DEF WriteProgram, value
<1>13. flash \in [FlashWords -> Cells]
  BY DEF FlashSound
<1>14. CASE flash[a] = Erased
  <2>1. flash' = [flash EXCEPT ![a] = Torn] /\ pending' = [w \in {a} |-> value]
    BY <1>12, <1>14 DEF Program
  <2>2. flash' \in [FlashWords -> Cells] /\ DOMAIN pending' = {a}
        /\ pending'[a] = value /\ flash'[a] = Torn
    BY <1>4, <1>13, <2>1, CellFacts
  <2>3. \A w \in FlashWords : w # a => flash'[w] = flash[w]
    BY <1>13, <2>1
  <2>4. Eff(a)' = value /\ \A w \in FlashWords : w # a => Eff(w)' = Eff(w)
    BY <1>1, <2>2, <2>3 DEF Eff
  <2>5. FlashSound'
    BY <1>1, <1>4, <1>7, <1>8, <1>9, <1>10, <1>11, <2>2 DEF FlashSound
  <2> QED
    BY <1>1, <1>3, <1>7, <1>9, <1>10, <2>2, <2>3, <2>4, <2>5 DEF value
<1>15. CASE flash[a] # Erased
  <2>1. flash' = [flash EXCEPT ![a] = IF @ = value THEN value ELSE Torn] /\ pending' = pending
    BY <1>12, <1>15 DEF Program
  <2>2. flash' \in [FlashWords -> Cells] /\ DOMAIN pending' = {}
    BY <1>1, <1>4, <1>11, <1>13, <2>1, CellFacts
  <2>3. \A w \in FlashWords : w # a => flash'[w] = flash[w]
    BY <1>13, <2>1
  <2>4. \A w \in FlashWords : w # a => Eff(w)' = Eff(w)
    BY <1>1, <2>2, <2>3 DEF Eff
  <2>5. Eff(a) = flash[a] /\ Eff(a)' = flash'[a]
    BY <1>1, <2>2 DEF Eff
  <2>6. Eff(a) \in {Erased, value} => Eff(a)' = value
    BY <1>4, <1>13, <1>15, <2>1, <2>5
  <2>7. FlashSound'
    BY <1>1, <1>7, <1>8, <1>9, <1>10, <2>2 DEF FlashSound
  <2> QED
    BY <1>1, <1>3, <1>7, <1>9, <1>10, <2>2, <2>3, <2>4, <2>6, <2>7 DEF value
<1> QED
  BY <1>14, <1>15

\* A step of the driver that leaves the flash alone.
LEMMA SameFlash ==
  ASSUME FlashSound, UNCHANGED <<flash, pending>>, fc' \in FcType,
         fc'.state \in {"ERASE_PROGRAM", "WRITE_PROGRAM"} => pending = None /\ fc'.length > 0,
         Erasing' => Pages(fc'.length) /\ (ErasesScene' \/ ErasesConfig'),
         Writing' => WritesScene' \/ WritesStore'
  PROVE  FlashSound' /\ \A w : Eff(w)' = Eff(w)
BY DEF FlashSound, Eff

\* One call of Erase that does not erase a page.
LEMMA EraseQuiet ==
  ASSUME FlashSound, NEW offset \in {kSceneOffset, kConfigOffset}, NEW done,
         Erase(offset, kSectorWords, done), ~ EraseProgram
  PROVE  /\ FlashSound' /\ ~ Writing'
         /\ UNCHANGED <<flash, pending>> /\ \A w : Eff(w)' = Eff(w)
         /\ Erasing' =>
              \/ Erasing /\ fc'.page = fc.page /\ fc'.length = fc.length
              \/ fc.state = "IDLE" /\ fc'.page = offset /\ fc'.length = kSectorWords
         /\ done => ~ Erasing' /\ Erasing /\ fc.length = 0
<1>1. fc \in FcType
  BY DEF FlashSound
<1>2. CASE EraseStart(offset, kSectorWords) /\ ~ done
  <2>1. offset \in {0, kSectorWords} /\ offset \in 0 .. 2 * kSectorWords
        /\ kSectorWords \in 0 .. kSectorWords
    BY Sizes DEF kSceneOffset, kConfigOffset
  <2>2. /\ fc' = [fc EXCEPT !.state = "ERASE_BUSY", !.page = offset, !.length = kSectorWords]
        /\ fc.state = "IDLE" /\ UNCHANGED <<flash, pending>>
    BY <1>2 DEF EraseStart
  <2>3. fc' \in FcType
    BY <1>1, <2>1, <2>2 DEF FcType, FcStates
  <2>4. fc'.state = "ERASE_BUSY" /\ fc'.page = offset /\ fc'.length = kSectorWords
    BY <1>1, <2>2 DEF FcType
  <2>5. ErasesScene' \/ ErasesConfig'
    BY <2>1, <2>4, Sizes DEF ErasesScene, ErasesConfig
  <2>6. Erasing' /\ ~ Writing'
    BY <2>4 DEF Erasing, Writing
  <2> QED
    BY <1>2, <2>2, <2>3, <2>4, <2>5, <2>6, SameFlash, Sizes
<1>3. CASE EraseBusy /\ ~ done
  <2>1. UNCHANGED <<fc, flash, pending>> /\ fc.state = "ERASE_BUSY"
    BY <1>3 DEF EraseBusy, flashVars
  <2>2. Erasing /\ ~ Writing' /\ ErasesScene' = ErasesScene /\ ErasesConfig' = ErasesConfig
    BY <2>1 DEF Erasing, Writing, ErasesScene, ErasesConfig
  <2> QED
    BY <1>1, <1>3, <2>1, <2>2, SameFlash DEF FlashSound
<1>4. CASE EraseMore /\ ~ done
  <2>1. /\ UNCHANGED <<flash, pending>> /\ fc.state = "ERASE_BUSY"
        /\ fc' = [fc EXCEPT !.state = "ERASE_PROGRAM"] /\ pending = None /\ fc.length > 0
    BY <1>4 DEF EraseMore, Enter, fmc_busy
  <2>2. fc' \in FcType /\ fc'.state = "ERASE_PROGRAM"
        /\ fc'.page = fc.page /\ fc'.length = fc.length
    BY <1>1, <2>1 DEF FcType, FcStates
  <2>3. /\ Erasing /\ ~ Writing'
        /\ ErasesScene' = ErasesScene /\ ErasesConfig' = ErasesConfig
    BY <2>1, <2>2 DEF Erasing, Writing, ErasesScene, ErasesConfig
  <2> QED
    BY <1>4, <2>1, <2>2, <2>3, SameFlash DEF FlashSound
<1>5. CASE EraseAbortsWrite \/ EraseDone
  <2>1. /\ UNCHANGED <<flash, pending>>
        /\ fc' = [fc EXCEPT !.state = "IDLE"]
        /\ EraseDone => Erasing /\ fc.length = 0
    BY <1>5 DEF EraseAbortsWrite, EraseDone, Enter, Erasing
  <2>2. fc' \in FcType /\ fc'.state = "IDLE"
    BY <1>1, <2>1 DEF FcType, FcStates
  <2>3. ~ Erasing' /\ ~ Writing'
    BY <2>2 DEF Erasing, Writing
  <2>4. FlashSound' /\ \A w : Eff(w)' = Eff(w)
    BY <2>1, <2>2, <2>3, SameFlash
  <2>5. done => EraseDone
    BY DEF Erase
  <2> QED
    BY <2>1, <2>3, <2>4, <2>5
<1> QED
  BY <1>2, <1>3, <1>4, <1>5 DEF Erase

\* One call of Write that does not program a word.
LEMMA WriteQuiet ==
  ASSUME FlashSound, NEW offset, NEW length, NEW buffer, NEW done,
         \/ offset = kSceneOffset /\ length = kSceneWords /\ buffer = "scene"
         \/ offset = kConfigOffset /\ length = kStoreWords /\ buffer = "store",
         Write(offset, length, buffer, memory, done), ~ WriteProgram(memory)
  PROVE  /\ FlashSound' /\ ~ Erasing'
         /\ UNCHANGED <<flash, pending>> /\ \A w : Eff(w)' = Eff(w)
         /\ Writing' =>
              \/ /\ Writing /\ fc'.at = fc.at
                 /\ WritesScene' = WritesScene /\ WritesStore' = WritesStore
              \/ /\ fc.state = "IDLE" /\ fc'.at = 0
                 /\ IF buffer = "store" THEN WritesStore' ELSE WritesScene'
         /\ done => ~ Writing' /\ Writing /\ fc.length = 0 /\ pending = None
<1>1. fc \in FcType
  BY DEF FlashSound
<1>2. CASE WriteStart(offset, length, buffer) /\ ~ done
  <2>1. /\ fc' = [fc EXCEPT !.state = "WRITE_BUSY", !.address = offset, !.length = length,
                            !.buffer = buffer, !.at = 0]
        /\ fc.state = "IDLE" /\ UNCHANGED <<flash, pending>>
    BY <1>2 DEF WriteStart
  <2>2. /\ offset \in 0 .. 2 * kSectorWords /\ length \in 0 .. kSectorWords
        /\ buffer \in {"store", "scene"} /\ 0 \in 0 .. kSectorWords
    BY Sizes, Words DEF kSceneOffset, kConfigOffset
  <2>3. fc' \in FcType
    BY <1>1, <2>1, <2>2 DEF FcType, FcStates
  <2>4. /\ fc'.state = "WRITE_BUSY" /\ fc'.address = offset /\ fc'.length = length
        /\ fc'.buffer = buffer /\ fc'.at = 0
    BY <1>1, <2>1 DEF FcType
  <2>5. ~ Erasing' /\ IF buffer = "store" THEN WritesStore' ELSE WritesScene'
    BY <2>4, Words, Sizes
       DEF Erasing, WritesStore, WritesScene, Config, kSceneOffset, kConfigOffset
  <2> QED
    BY <1>2, <2>1, <2>3, <2>4, <2>5, SameFlash
<1>3. CASE WriteBusy /\ ~ done
  <2>1. UNCHANGED <<fc, flash, pending>> /\ fc.state = "WRITE_BUSY"
    BY <1>3 DEF WriteBusy, flashVars
  <2>2. Writing /\ ~ Erasing' /\ WritesScene' = WritesScene /\ WritesStore' = WritesStore
    BY <2>1 DEF Erasing, Writing, WritesScene, WritesStore
  <2> QED
    BY <1>1, <1>3, <2>1, <2>2, SameFlash DEF FlashSound
<1>4. CASE WriteMore /\ ~ done
  <2>1. /\ UNCHANGED <<flash, pending>> /\ fc.state = "WRITE_BUSY"
        /\ fc' = [fc EXCEPT !.state = "WRITE_PROGRAM"] /\ pending = None /\ fc.length > 0
    BY <1>4 DEF WriteMore, Enter, fmc_busy
  <2>2. /\ fc' \in FcType /\ fc'.state = "WRITE_PROGRAM"
        /\ fc'.at = fc.at /\ fc'.length = fc.length /\ fc'.address = fc.address
        /\ fc'.buffer = fc.buffer
    BY <1>1, <2>1 DEF FcType, FcStates
  <2>3. /\ Writing /\ ~ Erasing'
        /\ WritesScene' = WritesScene /\ WritesStore' = WritesStore
    BY <2>1, <2>2 DEF Erasing, Writing, WritesScene, WritesStore
  <2> QED
    BY <1>4, <2>1, <2>2, <2>3, SameFlash DEF FlashSound
<1>5. CASE WriteAbortsErase \/ WriteDone
  <2>1. /\ UNCHANGED <<flash, pending>>
        /\ fc' = [fc EXCEPT !.state = "IDLE"]
        /\ WriteDone => Writing /\ fc.length = 0 /\ pending = None
    BY <1>5 DEF WriteAbortsErase, WriteDone, Enter, Writing, fmc_busy
  <2>2. fc' \in FcType /\ fc'.state = "IDLE"
    BY <1>1, <2>1 DEF FcType, FcStates
  <2>3. ~ Erasing' /\ ~ Writing'
    BY <2>2 DEF Erasing, Writing
  <2>4. FlashSound' /\ \A w : Eff(w)' = Eff(w)
    BY <2>1, <2>2, <2>3, SameFlash
  <2>5. done => WriteDone
    BY DEF Write
  <2> QED
    BY <2>1, <2>3, <2>4, <2>5
<1> QED
  BY <1>2, <1>3, <1>4, <1>5 DEF Write

-----------------------------------------------------------------------------
(* The memory and the timer. *)

LEMMA CommitState ==
  ASSUME MemorySound, NEW more \in BOOLEAN, Commit(more)
  PROVE  /\ s_state' \in States
         /\ more => s_state # "kIdle"
         /\ ~ more => s_state' = "kIdle"
         /\ image' \in [StoreWords -> Cells]
<1>1. CASE FlashIdle /\ ~ more
  BY <1>1 DEF FlashIdle, MemorySound
<1>2. CASE FlashWaiting /\ more
  BY <1>2 DEF FlashWaiting, NextState, States, MemorySound
<1>3. CASE FlashErasing /\ more
  BY <1>3 DEF FlashErasing, States, MemorySound
<1>4. CASE FlashWriting /\ more
  BY <1>4 DEF FlashWriting, FlashWritingStep, MemorySound
<1>5. CASE FlashWritten /\ ~ more
  BY <1>5 DEF FlashWritten, FlashWritingStep, MemorySound, States
<1> QED
  BY <1>1, <1>2, <1>3, <1>4, <1>5 DEF Commit

LEMMA BootMemory ==
  ASSUME FlashSound, MemorySound, Boot, losses' \in 0 .. MaxLosses
  PROVE  MemorySound'
<1>1. Defaults \in [StoreWords -> Cells]
  BY CellFacts DEF Defaults
<1> DEFINE read == [i \in StoreWords |-> SavedWord(i)]
<1>2. read \in [StoreWords -> Cells]
  BY Words DEF FlashSound, SavedWord, Config
<1>3. CASE read[0] = kMagic
  BY <1>2, <1>3 DEF Boot, MemorySound, States
<1>4. CASE read[0] # kMagic
  BY <1>1, <1>4 DEF Boot, MemorySound, States
<1> QED
  BY <1>3, <1>4

LEMMA ChangedMemory ==
  ASSUME MemorySound, NEW store \in [StoreWords -> Cells], Changed(store)
  PROVE  MemorySound'
<1>1. updates' \in 0 .. MaxUpdates
  BY ConfigStoreAssumption DEF Changed, MemorySound
<1>2. s_timer_id' \in BOOLEAN /\ timer' = s_timer_id' /\ timer'
  BY Zenon DEF Changed, SetStatusChanged, TimerStart, timers, MemorySound
<1> QED
  BY <1>1, <1>2 DEF Changed, SetStatusChanged, MemorySound, States

LEMMA MemorySteps == ASSUME FlashSound, MemorySound, [Next]_vars PROVE MemorySound'
<1>1. ASSUME NEW f \in Fields, NEW v \in Values, Update(f, v) PROVE MemorySound'
  <2>1. [s_store EXCEPT ![f] = v] \in [StoreWords -> Cells]
    BY Words, CellFacts DEF MemorySound
  <2> QED
    BY <1>1, <2>1, ChangedMemory DEF Update
<1>2. ASSUME NEW n \in Fields, NEW src \in [1 .. n -> Values], UpdateArray(src)
      PROVE  MemorySound'
  <2> DEFINE store == [i \in StoreWords |-> CASE i \in DOMAIN src -> src[i]
                                              [] i = 0            -> s_store[0]
                                              [] OTHER            -> Zero]
  <2>1. s_store[0] \in Cells
    BY Words DEF MemorySound
  <2>2. ASSUME NEW i \in StoreWords PROVE store[i] \in Cells
    <3>1. CASE i \in DOMAIN src
      <4>1. i # 0 /\ src[i] \in Values
        BY <3>1
      <4> QED
        BY <3>1, <4>1, CellFacts
    <3>2. CASE i \notin DOMAIN src
      BY <2>1, <3>2, CellFacts
    <3> QED
      BY <3>1, <3>2
  <2>3. store \in [StoreWords -> Cells]
    BY <2>2
  <2> QED
    BY <1>2, <2>3, ChangedMemory DEF UpdateArray
<1>3. CASE Factory
  <2>1. s_timer_id' \in BOOLEAN /\ timer' = s_timer_id' /\ timer'
    BY <1>3, Zenon DEF Factory, SetStatusChanged, TimerStart, timers, MemorySound
  <2>2. s_store' \in [StoreWords -> Cells]
    BY <1>3, CellFacts DEF Factory
  <2> QED
    BY <1>3, <2>1, <2>2 DEF Factory, SetStatusChanged, MemorySound, States, ghosts
<1>4. CASE Reboot
  BY <1>4 DEF Reboot, MemorySound, timers, ghosts
<1>5. CASE Timer
  <2>1. PICK more \in BOOLEAN : Commit(more) /\ IF more THEN UNCHANGED timers ELSE TimerStop
    BY <1>5 DEF Timer
  <2>2. /\ s_state' \in States /\ (more => s_state # "kIdle") /\ (~ more => s_state' = "kIdle")
        /\ image' \in [StoreWords -> Cells]
    BY <2>1, CommitState
  <2>3. timer /\ UNCHANGED <<s_store, mode, scene, updates, records, losses>>
    BY <1>5 DEF Timer
  <2>4. s_timer_id' \in BOOLEAN /\ timer' = s_timer_id' /\ (s_state' # "kIdle" => timer')
    BY <2>1, <2>2, <2>3, Zenon DEF TimerStop, timers, MemorySound
  <2> QED
    BY <2>2, <2>3, <2>4 DEF MemorySound
<1>6. CASE ConfigstoreCommit
  <2>1. PICK more \in BOOLEAN : Commit(more)
    BY <1>6 DEF ConfigstoreCommit
  <2>2. s_state' \in States /\ image' \in [StoreWords -> Cells]
    BY <2>1, CommitState
  <2> QED
    BY <1>6, <2>2 DEF ConfigstoreCommit, MemorySound, timers
<1>7. CASE Rebooted
  BY <1>7, BootMemory DEF Rebooted, MemorySound
<1>8. CASE PowerLoss
  <2>1. losses' \in 0 .. MaxLosses
    BY <1>8, ConfigStoreAssumption DEF PowerLoss, MemorySound
  <2> QED
    BY <1>8, <2>1, BootMemory DEF PowerLoss
<1>9. ASSUME NEW d \in Scenes, FailSafeRecord(d) PROVE MemorySound'
  <2>1. records' \in 0 .. MaxRecords
    BY <1>9, ConfigStoreAssumption DEF FailSafeRecord, MemorySound
  <2> QED
    BY <1>9, <2>1 DEF FailSafeRecord, MemorySound, timers
<1>10. CASE SceneWriteStart \/ SceneWrite \/ Fmc
  BY <1>10 DEF SceneWriteStart, SceneWrite, Fmc, MemorySound, timers, ghosts
<1>11. CASE UNCHANGED vars
  BY <1>11 DEF vars, MemorySound, timers, ghosts
<1> QED
  BY <1>1, <1>2, <1>3, <1>4, <1>5, <1>6, <1>7, <1>8, <1>9, <1>10, <1>11 DEF Next

-----------------------------------------------------------------------------
(* The driver in the hands of the store. *)

DriverSound == FlashSound /\ Owner /\ StoreSound

LEMMA Unmoved ==
  ASSUME UNCHANGED flashVars
  PROVE  /\ FlashSound' = FlashSound /\ Erasing' = Erasing /\ Writing' = Writing
         /\ ErasesScene' = ErasesScene /\ ErasesConfig' = ErasesConfig
         /\ WritesScene' = WritesScene /\ WritesStore' = WritesStore
         /\ \A w : Eff(w)' = Eff(w)
BY DEF flashVars, FlashSound, Erasing, Writing, ErasesScene, ErasesConfig, WritesScene,
   WritesStore, Eff

\* The configuration changes, or is reset: whatever was under way will be begun anew.
LEMMA ChangedSound ==
  ASSUME IInv, UNCHANGED <<flashVars, image>>, s_state' = "kChanged",
         mode = "loop", mode' \in {"loop", "reboot"}
  PROVE  DriverSound'
<1>1. FlashSound'
  BY Unmoved DEF IInv
<1>2. Owner'
  BY Unmoved DEF IInv, Owner, BeforeErase
<1>3. StoreSound'
  BY Unmoved DEF IInv, StoreSound, flashVars
<1> QED
  BY <1>1, <1>2, <1>3 DEF DriverSound

AllErased == \A i \in StoreWords : Eff(Config(i)) = Erased

\* The sector of the configuration is erased, one call.
LEMMA FlashErasingSound ==
  ASSUME IInv, mode \in {"loop", "reboot"}, UNCHANGED <<mode, s_store>>, FlashErasing
  PROVE  /\ DriverSound'
         /\ s_state' = "kErasing" \/ (s_state' = "kErasedWaiting" /\ AllErased')
<1>1. PICK done \in BOOLEAN : /\ Erase(kConfigOffset, kSectorWords, done)
                              /\ s_state' = IF done THEN "kErasedWaiting" ELSE s_state
  BY DEF FlashErasing
<1>2. s_state = "kErasing" /\ image' = image
  BY DEF FlashErasing
<1>3. FlashSound /\ (Erasing => ErasesConfig)
  BY DEF IInv, Owner
<1>4. kSectorWords \in Nat \ {0} /\ kPageWords \in Nat \ {0} /\ fc.page \in Nat /\ fc.length \in Nat
  BY <1>3, Sizes DEF FlashSound, FcType
<1>5. CASE EraseProgram
  <2> DEFINE words == fc.page .. fc.page + kPageWords - 1
  <2>1. /\ FlashSound' /\ words \subseteq FlashWords
        /\ Erasing /\ Erasing' /\ ~ Writing' /\ fc'.page = fc.page + kPageWords
        /\ ErasesConfig => ErasesConfig'
        /\ \A w \in FlashWords : Eff(w)' = IF w \in words THEN Erased ELSE Eff(w)
    BY <1>3, <1>5, EraseProgramSound
  <2>2. ~ done
    BY <1>1, <1>5 DEF Erase, EraseDone, EraseProgram
  <2>3. s_state' = "kErasing"
    BY <1>1, <1>2, <2>2
  <2>4. ErasesConfig' /\ ErasesConfig
    BY <1>3, <2>1
  <2>5. Owner'
    BY <2>1, <2>3, <2>4 DEF Owner, BeforeErase
  <2>6. \A w \in kConfigOffset .. fc'.page - 1 : Eff(w)' = Erased
    <3> SUFFICES ASSUME NEW w \in kConfigOffset .. fc'.page - 1 PROVE Eff(w)' = Erased
      OBVIOUS
    <3>1. w \in FlashWords
      <4>1. fc' \in FcType
        BY <2>1 DEF FlashSound
      <4> QED
        BY <1>4, <4>1 DEF FcType, FlashWords, kConfigOffset
    <3>2. CASE w \in words
      BY <2>1, <3>1, <3>2
    <3>3. CASE w \notin words
      <4>1. w \in kConfigOffset .. fc.page - 1
        BY <1>4, <2>1, <3>3 DEF kConfigOffset
      <4> QED
        BY <2>1, <2>4, <3>1, <3>3, <4>1 DEF IInv, StoreSound
    <3> QED
      BY <3>2, <3>3
  <2>7. Eff(Config(0))' = kMagic =>
          \A i \in Fields : Eff(Config(i))' \in {image'[i], Erased, Torn}
    <3>1. \A i \in StoreWords : Config(i)' = Config(i) /\ Config(i) \in FlashWords
      BY Words DEF Config
    <3>2. \A i \in StoreWords : Eff(Config(i))' \in {Eff(Config(i)), Erased}
      BY <2>1, <3>1 DEF Config
    <3>3. Eff(Config(0))' = kMagic => Eff(Config(0)) = kMagic
      BY <3>2, Words, CellFacts
    <3> QED
      BY <1>2, <3>2, <3>3, Words DEF IInv, StoreSound
  <2>8. StoreSound'
    BY <2>1, <2>3, <2>6, <2>7 DEF StoreSound
  <2> QED
    BY <2>1, <2>3, <2>5, <2>8 DEF DriverSound
<1>6. CASE ~ EraseProgram
  <2>1. /\ FlashSound' /\ ~ Writing' /\ UNCHANGED <<flash, pending>> /\ \A w : Eff(w)' = Eff(w)
        /\ Erasing' => \/ Erasing /\ fc'.page = fc.page /\ fc'.length = fc.length
                       \/ fc'.page = kConfigOffset /\ fc'.length = kSectorWords
        /\ done => ~ Erasing' /\ Erasing /\ fc.length = 0
    BY <1>1, <1>3, <1>6, EraseQuiet
  <2>2. Erasing' => ErasesConfig'
    BY <1>3, <1>4, <2>1 DEF ErasesConfig, kConfigOffset
  <2>3. Erasing' => ~ done
    BY <2>1
  <2>4. Owner'
    BY <1>1, <1>2, <2>1, <2>2, <2>3 DEF Owner, BeforeErase
  <2>5. Erasing' => \A w \in kConfigOffset .. fc'.page - 1 : Eff(w)' = Erased
    <3>1. CASE Erasing /\ fc'.page = fc.page /\ fc'.length = fc.length
      BY <1>3, <2>1, <3>1 DEF IInv, StoreSound
    <3>2. CASE fc'.page = kConfigOffset
      BY <1>4, <3>2 DEF kConfigOffset
    <3> QED
      BY <2>1, <3>1, <3>2
  <2>6. done => \A i \in StoreWords : Eff(Config(i))' = Erased
    <3> SUFFICES ASSUME done, NEW i \in StoreWords PROVE Eff(Config(i))' = Erased
      OBVIOUS
    <3>1. fc.page = 2 * kSectorWords
      BY <1>3, <1>4, <2>1 DEF ErasesConfig
    <3>2. Config(i) \in kConfigOffset .. fc.page - 1
      BY <1>4, <3>1, Words DEF StoreWords, Config, kConfigOffset
    <3>3. Eff(Config(i)) = Erased
      BY <1>3, <2>1, <3>2 DEF IInv, StoreSound
    <3> QED
      BY <2>1, <3>3
  <2>7. StoreSound'
    BY <1>1, <1>2, <2>1, <2>5, <2>6 DEF IInv, StoreSound
  <2>8. done => AllErased'
    BY <2>6 DEF AllErased
  <2> QED
    BY <1>1, <1>2, <2>1, <2>4, <2>7, <2>8 DEF DriverSound
<1> QED
  BY <1>5, <1>6

\* The configuration is written, one call; s_state is left when all is written.
LEMMA FlashWritingSound ==
  ASSUME IInv, mode \in {"loop", "reboot"}, UNCHANGED <<mode, s_store>>,
         FlashWriting \/ FlashWritten
  PROVE  DriverSound'
<1>1. PICK done \in BOOLEAN :
        /\ FlashWritingStep(done)
        /\ s_state' = IF done THEN "kIdle" ELSE "kWriting"
  BY DEF FlashWriting, FlashWritten, FlashWritingStep
<1>2. /\ s_state = "kWriting"
      /\ Write(kConfigOffset, kStoreWords, "store", memory, done)
      /\ image' = IF fc.state = "WRITE_PROGRAM" /\ fc.at = 0 THEN s_store ELSE image
  BY <1>1 DEF FlashWritingStep
<1>3. FlashSound /\ MemorySound /\ ~ Erasing /\ (Writing => WritesStore)
  BY <1>2 DEF IInv, Owner, BeforeErase
<1>4. \A i \in StoreWords : Eff(Config(i)) \in {Erased, s_store[i]}
  BY <1>2 DEF IInv, StoreSound
<1>5. CASE WriteProgram(memory)
  <2> DEFINE value == memory[fc.buffer][fc.at]
  <2>1. /\ FlashSound' /\ Writing /\ Writing' /\ ~ Erasing' /\ fc.state = "WRITE_PROGRAM"
        /\ fc'.at = fc.at + 1
        /\ WritesStore => WritesStore' /\ fc.at \in StoreWords
        /\ \A w \in FlashWords : w # fc.address => Eff(w)' = Eff(w)
        /\ \A w \in FlashWords :
             w = fc.address /\ Eff(w) \in {Erased, value} => Eff(w)' = value
    BY <1>3, <1>5, WriteProgramSound
  <2>2. WritesStore /\ WritesStore' /\ fc.at \in StoreWords
        /\ fc.address = Config(fc.at) /\ value = s_store[fc.at]
    BY <1>3, <2>1 DEF WritesStore, memory
  <2>3. ~ done
    BY <1>2, <1>5 DEF Write, WriteDone, WriteProgram
  <2>4. s_state' = "kWriting"
    BY <1>1, <2>3
  <2>5. Owner'
    BY <1>3, <2>1, <2>2, <2>4 DEF Owner
  <2>6. ASSUME NEW i \in StoreWords
        PROVE  /\ i = fc.at => Eff(Config(i))' = s_store[i]
               /\ i # fc.at => Eff(Config(i))' = Eff(Config(i))
    <3>1. Config(i) \in FlashWords
      BY Words
    <3>2. i # fc.at => Config(i) # fc.address
      BY <2>2, Words, Sizes DEF Config, kConfigOffset
    <3> QED
      BY <1>4, <2>1, <2>2, <3>1, <3>2
  <2>7. \A i \in StoreWords : Eff(Config(i))' \in {Erased, s_store[i]}
    BY <1>4, <2>6
  <2>8. ASSUME NEW i \in StoreWords, i < fc'.at PROVE Eff(Config(i))' = s_store[i]
    <3>1. i = fc.at \/ i < fc.at
      BY <2>1, <2>2, <2>8, Words
    <3>2. i < fc.at => Eff(Config(i)) = s_store[i] /\ i # fc.at
      BY <1>2, <2>1, <2>2, Words DEF IInv, StoreSound
    <3> QED
      BY <2>6, <3>1, <3>2
  <2>9. image' = s_store
    <3>1. fc.at = 0 \/ fc.at > 0
      BY <2>2, Words
    <3> QED
      BY <1>2, <2>1, <2>2, <3>1 DEF IInv, StoreSound
  <2>10. StoreSound'
    BY <2>1, <2>4, <2>7, <2>8, <2>9, Words DEF StoreSound
  <2> QED
    BY <2>1, <2>5, <2>10 DEF DriverSound
<1>6. CASE ~ WriteProgram(memory)
  <2>1. /\ FlashSound' /\ ~ Erasing' /\ UNCHANGED <<flash, pending>> /\ \A w : Eff(w)' = Eff(w)
        /\ Writing' => \/ Writing /\ fc'.at = fc.at /\ WritesStore' = WritesStore
                       \/ fc'.at = 0 /\ WritesStore'
        /\ done => ~ Writing' /\ Writing /\ fc.length = 0 /\ pending = None
    BY <1>2, <1>3, <1>6, WriteQuiet
  <2>2. Writing' => WritesStore' /\ ~ done
    BY <1>3, <2>1
  <2>3. Owner'
    BY <1>1, <1>3, <2>1, <2>2 DEF Owner, BeforeErase
  <2>4. Writing' => /\ \A i \in StoreWords : i < fc'.at => Eff(Config(i))' = s_store[i]
                    /\ fc'.at > 0 => image = s_store
    <3>1. CASE Writing /\ fc'.at = fc.at
      BY <1>2, <1>3, <2>1, <3>1 DEF IInv, StoreSound
    <3>2. CASE fc'.at = 0
      BY <3>2, Words
    <3> QED
      BY <2>1, <3>1, <3>2
  <2>5. done => \A i \in StoreWords :
                  Config(i) \notin DOMAIN pending' /\ flash'[Config(i)] = s_store[i]
    <3> SUFFICES ASSUME done, NEW i \in StoreWords
                 PROVE  Config(i) \notin DOMAIN pending' /\ flash'[Config(i)] = s_store[i]
      OBVIOUS
    <3>1. WritesStore /\ fc.length = 0 /\ pending = None
      BY <1>3, <2>1
    <3>2. fc.at \in Int
      BY <1>3, Sizes DEF FlashSound, FcType
    <3>3. i < fc.at
      BY <3>1, <3>2, Words DEF WritesStore, StoreWords
    <3>4. Eff(Config(i)) = s_store[i]
      BY <1>2, <2>1, <3>1, <3>3 DEF IInv, StoreSound
    <3> QED
      BY <2>1, <3>1, <3>4, NoneEmpty DEF Eff
  <2>6. image' = image \/ (image' = s_store /\ \A i \in StoreWords : Eff(Config(i)) \in {Erased, s_store[i]})
    BY <1>2, <1>4
  <2>7. Eff(Config(0))' = kMagic =>
          \A i \in Fields : Eff(Config(i))' \in {image'[i], Erased, Torn}
    BY <2>1, <2>6, Words DEF IInv, StoreSound
  <2>8. Writing' /\ fc'.at > 0 => image' = s_store
    BY <1>2, <2>4
  <2>9. StoreSound'
    BY <1>1, <1>4, <2>1, <2>4, <2>5, <2>7, <2>8 DEF StoreSound
  <2> QED
    BY <2>1, <2>3, <2>9 DEF DriverSound
<1> QED
  BY <1>5, <1>6

LEMMA CommitSound ==
  ASSUME IInv, mode \in {"loop", "reboot"}, UNCHANGED <<mode, s_store>>,
         NEW more \in BOOLEAN, Commit(more)
  PROVE  DriverSound'
<1>1. CASE FlashIdle
  <2>1. UNCHANGED <<flashVars, s_state, image>>
    BY <1>1 DEF FlashIdle
  <2> QED
    BY <2>1, Unmoved DEF IInv, DriverSound, Owner, StoreSound, flashVars
<1>2. CASE FlashWaiting
  <2>1. UNCHANGED <<flashVars, image>> /\ s_state' = NextState[s_state]
        /\ s_state \in DOMAIN NextState
    BY <1>2 DEF FlashWaiting
  <2>2. /\ s_state # "kIdle" /\ s_state' # "kIdle"
        /\ s_state' \in BeforeErase <=> s_state \in BeforeErase
        /\ s_state' \in {"kErasedWaiting", "kErased", "kWriting"} =>
             s_state \in {"kErasedWaiting", "kErased"}
        /\ s_state' = "kWriting" => s_state = "kErased"
        /\ s_state # "kWriting"
    BY <2>1 DEF NextState, BeforeErase
  <2>3. Owner'
    BY <2>1, <2>2, Unmoved DEF IInv, Owner
  <2>4. s_state' = "kWriting" => ~ Writing'
    BY <2>1, <2>2, Unmoved DEF IInv, Owner, BeforeErase
  <2>5. StoreSound'
    BY <2>1, <2>2, <2>4, Unmoved DEF IInv, StoreSound, flashVars
  <2> QED
    BY <2>1, <2>3, <2>5, Unmoved DEF IInv, DriverSound
<1> QED
  BY <1>1, <1>2, FlashErasingSound, FlashWritingSound DEF Commit

-----------------------------------------------------------------------------
(* The driver in the hands of the others. *)

\* The words of the configuration are as they were, and the store has not moved.
LEMMA ConfigUntouched ==
  ASSUME IInv, UNCHANGED <<s_state, s_store, image>>,
         \A w \in FlashWords : w >= kSectorWords =>
            /\ Eff(w)' = Eff(w)
            /\ w \notin DOMAIN pending => w \notin DOMAIN pending' /\ flash'[w] = flash[w],
         Erasing' /\ ErasesConfig' =>
           \A w \in kConfigOffset .. fc'.page - 1 : Eff(w)' = Erased,
         ~ (s_state = "kWriting" /\ Writing' /\ WritesStore')
  PROVE  StoreSound'
<1>1. \A i \in StoreWords : Config(i) \in FlashWords /\ Config(i) >= kSectorWords
  BY Words
<1> QED
  BY <1>1, Words DEF IInv, StoreSound

LEMMA SceneEraseSound == ASSUME IInv, SceneWriteStart PROVE DriverSound'
<1>1. PICK done \in BOOLEAN : /\ Erase(kSceneOffset, kSectorWords, done)
                              /\ mode' = IF done THEN "scene_write" ELSE mode
  BY DEF SceneWriteStart
<1>2. mode = "scene_erase" /\ UNCHANGED <<s_state, s_store, image>>
  BY DEF SceneWriteStart, ghosts
<1>3. FlashSound /\ (Erasing => ErasesScene \/ s_state \in BeforeErase)
  BY <1>2 DEF IInv, Owner
<1>4. kSectorWords \in Nat \ {0} /\ kPageWords \in Nat \ {0} /\ fc.page \in Nat /\ fc.length \in Nat
  BY <1>3, Sizes DEF FlashSound, FcType
<1>5. CASE EraseProgram
  <2> DEFINE words == fc.page .. fc.page + kPageWords - 1
  <2>1. /\ FlashSound' /\ words \subseteq FlashWords
        /\ Erasing /\ Erasing' /\ ~ Writing' /\ fc'.page = fc.page + kPageWords
        /\ ErasesScene => ErasesScene' /\ \A w \in words : w < kSectorWords
        /\ ErasesConfig => ErasesConfig'
        /\ DOMAIN pending' = words
        /\ \A w \in FlashWords : Eff(w)' = IF w \in words THEN Erased ELSE Eff(w)
        /\ \A w \in FlashWords : w \notin words => flash'[w] = flash[w]
    BY <1>3, <1>5, EraseProgramSound
  <2>2. mode' = "scene_erase"
    BY <1>1, <1>2, <1>5 DEF Erase, EraseDone, EraseProgram
  <2>3. Owner'
    BY <1>2, <1>3, <2>1, <2>2 DEF Owner
  <2>4. CASE ErasesScene
    <3>1. ~ ErasesConfig'
      BY <1>4, <2>1, <2>4, Sizes DEF ErasesScene, ErasesConfig
    <3>2. \A w \in FlashWords : w >= kSectorWords => w \notin words
      BY <1>4, <2>1, <2>4 DEF FlashWords
    <3>3. StoreSound'
      BY <1>2, <2>1, <3>1, <3>2, ConfigUntouched
    <3> QED
      BY <2>1, <2>3, <3>3 DEF DriverSound
  <2>5. CASE ~ ErasesScene
    <3>1. ErasesConfig /\ ErasesConfig' /\ s_state \in BeforeErase
      BY <1>3, <2>1, <2>5 DEF FlashSound
    <3>2. \A w \in kConfigOffset .. fc'.page - 1 : Eff(w)' = Erased
      <4> SUFFICES ASSUME NEW w \in kConfigOffset .. fc'.page - 1 PROVE Eff(w)' = Erased
        OBVIOUS
      <4>1. fc' \in FcType
        BY <2>1 DEF FlashSound
      <4>2. w \in FlashWords
        BY <1>4, <4>1 DEF FcType, FlashWords, kConfigOffset
      <4>3. w \in words \/ w \in kConfigOffset .. fc.page - 1
        BY <1>4, <2>1 DEF kConfigOffset
      <4> QED
        BY <2>1, <3>1, <4>2, <4>3 DEF IInv, StoreSound
    <3>3. \A i \in StoreWords : Eff(Config(i))' \in {Eff(Config(i)), Erased}
      BY <2>1, Words
    <3>4. StoreSound'
      BY <1>2, <2>1, <3>1, <3>2, <3>3, Words, CellFacts DEF IInv, StoreSound, BeforeErase
    <3> QED
      BY <2>1, <2>3, <3>4 DEF DriverSound
  <2> QED
    BY <2>4, <2>5
<1>6. CASE ~ EraseProgram
  <2>1. /\ FlashSound' /\ ~ Writing' /\ UNCHANGED <<flash, pending>> /\ \A w : Eff(w)' = Eff(w)
        /\ Erasing' => \/ Erasing /\ fc'.page = fc.page /\ fc'.length = fc.length
                       \/ fc'.page = kSceneOffset /\ fc'.length = kSectorWords
        /\ done => ~ Erasing' /\ Erasing /\ fc.length = 0
    BY <1>1, <1>3, <1>6, EraseQuiet
  <2>2. Erasing' => \/ Erasing /\ ErasesScene' = ErasesScene /\ ErasesConfig' = ErasesConfig
                                /\ fc'.page = fc.page
                    \/ ErasesScene' /\ ~ ErasesConfig'
    BY <1>4, <2>1 DEF ErasesScene, ErasesConfig, kSceneOffset
  <2>3. Owner'
    BY <1>1, <1>2, <1>3, <2>1, <2>2 DEF Owner
  <2>4. Erasing' /\ ErasesConfig' =>
          \A w \in kConfigOffset .. fc'.page - 1 : Eff(w)' = Erased
    BY <2>1, <2>2 DEF IInv, StoreSound
  <2>5. StoreSound'
    BY <1>2, <2>1, <2>4, ConfigUntouched
  <2> QED
    BY <2>1, <2>3, <2>5 DEF DriverSound
<1> QED
  BY <1>5, <1>6

LEMMA SceneWriteSound == ASSUME IInv, SceneWrite PROVE DriverSound'
<1>1. PICK done \in BOOLEAN : /\ Write(kSceneOffset, kSceneWords, "scene", memory, done)
                              /\ mode' = IF done THEN "loop" ELSE mode
  BY DEF SceneWrite
<1>2. mode = "scene_write" /\ UNCHANGED <<s_state, s_store, image>>
  BY DEF SceneWrite, ghosts
<1>3. FlashSound /\ MemorySound /\ ~ Erasing /\ (Writing => WritesScene)
  BY <1>2 DEF IInv, Owner
<1>4. ~ (WritesScene' /\ WritesStore')
  BY DEF WritesScene, WritesStore
<1>5. CASE WriteProgram(memory)
  <2>1. /\ FlashSound' /\ Writing /\ Writing' /\ ~ Erasing'
        /\ WritesScene => WritesScene' /\ fc.at \in SceneWords
        /\ DOMAIN pending' \subseteq {fc.address}
        /\ \A w \in FlashWords : w # fc.address => Eff(w)' = Eff(w) /\ flash'[w] = flash[w]
    BY <1>3, <1>5, WriteProgramSound
  <2>2. WritesScene' /\ WritesScene /\ fc.at \in SceneWords
    BY <1>3, <2>1
  <2>3. fc.address < kSectorWords
    BY <2>2, Words, Sizes DEF WritesScene, SceneWords
  <2>4. \A w \in FlashWords : w >= kSectorWords => w # fc.address
    BY <2>2, <2>3, Sizes DEF FlashWords, WritesScene, SceneWords
  <2>5. mode' = "scene_write"
    BY <1>1, <1>2, <1>5 DEF Write, WriteDone, WriteProgram
  <2>6. Owner'
    BY <2>1, <2>2, <2>5 DEF Owner
  <2>7. StoreSound'
    BY <1>2, <1>4, <2>1, <2>2, <2>4, ConfigUntouched
  <2> QED
    BY <2>1, <2>6, <2>7 DEF DriverSound
<1>6. CASE ~ WriteProgram(memory)
  <2>1. /\ FlashSound' /\ ~ Erasing' /\ UNCHANGED <<flash, pending>> /\ \A w : Eff(w)' = Eff(w)
        /\ Writing' => \/ Writing /\ WritesScene' = WritesScene
                       \/ WritesScene'
        /\ done => ~ Writing'
    BY <1>1, <1>3, <1>6, WriteQuiet
  <2>2. Writing' => WritesScene'
    BY <1>3, <2>1
  <2>3. Owner'
    BY <1>1, <1>2, <2>1, <2>2 DEF Owner
  <2>4. StoreSound'
    BY <1>2, <1>4, <2>1, <2>2, ConfigUntouched
  <2> QED
    BY <2>1, <2>3, <2>4 DEF DriverSound
<1> QED
  BY <1>5, <1>6

LEMMA FmcSound == ASSUME IInv, Fmc PROVE DriverSound'
<1>1. /\ FlashSound' /\ UNCHANGED fc /\ pending' = None
      /\ \A w \in FlashWords : Eff(w)' = Eff(w) /\ (w \notin DOMAIN pending => flash'[w] = flash[w])
  BY FmcDoneSound DEF IInv, Fmc
<1>2. UNCHANGED <<s_state, s_store, mode, image>>
  BY DEF Fmc, ghosts
<1>3. /\ Erasing' = Erasing /\ Writing' = Writing
      /\ ErasesScene' = ErasesScene /\ ErasesConfig' = ErasesConfig
      /\ WritesScene' = WritesScene /\ WritesStore' = WritesStore
  BY <1>1 DEF Erasing, Writing, ErasesScene, ErasesConfig, WritesScene, WritesStore
<1>4. Owner'
  BY <1>2, <1>3 DEF IInv, Owner
<1>5. \A i \in StoreWords : Eff(Config(i))' = Eff(Config(i))
  BY <1>1, Words
<1>6. ASSUME Erasing, ErasesConfig, NEW w \in kConfigOffset .. fc.page - 1
      PROVE  Eff(w)' = Erased
  <2>1. w \in FlashWords
    <3>1. fc.page \in 0 .. 2 * kSectorWords
      BY DEF IInv, FlashSound, FcType
    <3> QED
      BY <3>1, Sizes DEF kConfigOffset, FlashWords
  <2> QED
    BY <1>1, <1>6, <2>1 DEF IInv, StoreSound
<1>7. s_state = "kIdle" =>
        \A i \in StoreWords : Config(i) \notin DOMAIN pending' /\ flash'[Config(i)] = s_store[i]
  BY <1>1, Words, NoneEmpty DEF IInv, StoreSound
<1>8. StoreSound'
  BY <1>1, <1>2, <1>3, <1>5, <1>6, <1>7, Words DEF IInv, StoreSound
<1> QED
  BY <1>1, <1>4, <1>8 DEF DriverSound

\* After a start the driver is at rest; what was being erased or programmed is torn.
LEMMA BootSound == ASSUME IInv, Boot PROVE DriverSound'
<1>1. /\ fc' = FcReset /\ pending' = None /\ DOMAIN pending' = {} /\ flash' = flash
      /\ mode' = "loop" /\ image' = image
      /\ SavedWord(0) = kMagic =>
           s_state' = "kIdle" /\ s_store' = [i \in StoreWords |-> SavedWord(i)]
      /\ SavedWord(0) # kMagic => s_state' = "kChanged"
  BY NoneEmpty, Words DEF Boot
<1>2. fc' \in FcType /\ fc'.state = "IDLE"
  BY <1>1, Sizes DEF FcReset, FcType, FcStates
<1>3. ~ Erasing' /\ ~ Writing'
  BY <1>2 DEF Erasing, Writing
<1>4. FlashSound'
  BY <1>1, <1>2, <1>3 DEF IInv, FlashSound
<1>5. Owner'
  BY <1>3 DEF Owner
<1>6. \A w : Eff(w)' = flash[w]
  BY <1>1 DEF Eff
<1>7. \A w \in FlashWords : flash[w] \in {Eff(w), Torn}
  BY DEF IInv, FlashSound, Eff
<1>8. flash[Config(0)] = kMagic =>
        \A i \in Fields : flash[Config(i)] \in {image[i], Erased, Torn}
  <2>1. flash[Config(0)] = kMagic => Eff(Config(0)) = kMagic
    BY <1>7, Words, CellFacts
  <2> QED
    BY <1>7, <2>1, Words DEF IInv, StoreSound
<1>9. \A i \in StoreWords : SavedWord(i) = flash[Config(i)]
  BY DEF SavedWord, Config
<1>10. StoreSound'
  BY <1>1, <1>3, <1>6, <1>8, <1>9, Words DEF StoreSound
<1> QED
  BY <1>4, <1>5, <1>10 DEF DriverSound

LEMMA DriverSteps == ASSUME IInv, [Next]_vars PROVE DriverSound'
<1>1. ASSUME NEW store, Changed(store) PROVE DriverSound'
  BY <1>1, ChangedSound DEF Changed, SetStatusChanged
<1>2. CASE Factory
  BY <1>2, ChangedSound DEF Factory, SetStatusChanged, ghosts
<1>3. CASE Reboot \/ \E d \in Scenes : FailSafeRecord(d)
  <2>1. UNCHANGED <<flashVars, s_state, s_store, image>> /\ mode = "loop"
        /\ mode' \in {"reboot", "scene_erase"}
    BY <1>3 DEF Reboot, FailSafeRecord, ghosts
  <2>2. Owner'
    BY <2>1, Unmoved DEF IInv, Owner
  <2>3. StoreSound'
    BY <2>1, Unmoved DEF IInv, StoreSound, flashVars
  <2> QED
    BY <2>1, <2>2, <2>3, Unmoved DEF IInv, DriverSound
<1>4. CASE Timer \/ ConfigstoreCommit
  BY <1>4, CommitSound DEF Timer, ConfigstoreCommit
<1>5. CASE Rebooted \/ PowerLoss
  BY <1>5, BootSound DEF Rebooted, PowerLoss
<1>6. CASE UNCHANGED vars
  BY <1>6, Unmoved DEF vars, ghosts, IInv, DriverSound, Owner, StoreSound, flashVars
<1> QED
  BY <1>1, <1>2, <1>3, <1>4, <1>5, <1>6, SceneEraseSound, SceneWriteSound, FmcSound
     DEF Next, Update, UpdateArray

-----------------------------------------------------------------------------
(* Theorems. *)

LEMMA InitSound == Init => IInv
<1> SUFFICES ASSUME Init PROVE IInv
  OBVIOUS
<1>1. DOMAIN pending = {} /\ pending = None /\ fc = FcReset
  BY NoneEmpty DEF Init
<1>2. fc \in FcType /\ fc.state = "IDLE"
  BY <1>1, Sizes DEF FcReset, FcType, FcStates
<1>3. ~ Erasing /\ ~ Writing
  BY <1>2 DEF Erasing, Writing
<1>4. Defaults \in [StoreWords -> Cells] /\ scene \in Scenes
  BY CellFacts DEF Defaults, Init, Scenes
<1>5. flash \in [FlashWords -> Cells]
  BY CellFacts DEF Init
<1>6. FlashSound
  BY <1>1, <1>2, <1>3, <1>5 DEF FlashSound
<1>7. MemorySound
  <2>1. 0 \in 0 .. MaxUpdates /\ 0 \in 0 .. MaxRecords /\ 0 \in 0 .. MaxLosses
    BY ConfigStoreAssumption
  <2>2. s_timer_id \in BOOLEAN /\ timer = s_timer_id
    BY DEF Init
  <2> QED
    BY <1>4, <2>1, <2>2 DEF Init, MemorySound, States
<1>8. Owner
  BY <1>3 DEF Owner
<1>9. \A i \in StoreWords : flash[Config(i)] = Defaults[i]
  <2> SUFFICES ASSUME NEW i \in StoreWords PROVE flash[Config(i)] = Defaults[i]
    OBVIOUS
  <2>1. Config(i) \in FlashWords /\ i \in Nat /\ kConfigOffset \in Int
    BY Words, Sizes DEF kConfigOffset
  <2>2. CASE i = 0
    <3>1. Config(i) = kConfigOffset
      BY <2>1, <2>2 DEF Config
    <3>2. flash[kConfigOffset] = kMagic
      <4>1. kConfigOffset - kConfigOffset \notin Fields
            /\ kConfigOffset - kSceneOffset \notin SceneWords
        BY Words, Sizes DEF Fields, SceneWords, kConfigOffset, kSceneOffset
      <4> QED
        BY <2>1, <3>1, <4>1 DEF Init
    <3>3. Defaults[i] = kMagic
      BY <2>2 DEF Defaults
    <3> QED
      BY <3>1, <3>2, <3>3
  <2>3. CASE i # 0
    <3>1. i \in Fields /\ Config(i) # kConfigOffset /\ Config(i) - kConfigOffset = i
      BY <2>1, <2>3 DEF StoreWords, Fields, Config
    <3> QED
      BY <2>1, <2>3, <3>1 DEF Init, Defaults
  <2> QED
    BY <2>2, <2>3
<1>10. StoreSound
  BY <1>1, <1>3, <1>9, Words DEF Init, StoreSound, Eff
<1> QED
  BY <1>6, <1>7, <1>8, <1>10 DEF IInv

THEOREM Always == Spec => []IInv
<1>1. IInv /\ [Next]_vars => IInv'
  BY MemorySteps, DriverSteps DEF IInv, DriverSound
<1> QED
  BY InitSound, <1>1, PTL DEF Spec

\* The driver, the flash and the store keep their types: no erase or write goes past
\* its sector, whoever gives up whose operation.
THEOREM TypeCorrect == Spec => []TypeOK
<1>1. IInv => TypeOK
  BY DEF IInv, FlashSound, MemorySound, TypeOK
<1> QED
  BY Always, <1>1, PTL

\* When the store says it is idle the flash holds the configuration in memory, after
\* changes, scenes and losses of power at any moment of a save.
THEOREM IdleIsSaved == Spec => []IdleMeansSaved
<1>1. IInv => IdleMeansSaved
  BY DEF IInv, StoreSound, IdleMeansSaved, SavedWord, Config
<1> QED
  BY Always, <1>1, PTL

\* A change that is not saved has a timer that will save it (SetStatusChanged, Timer).
THEOREM SaveIsScheduled == Spec => []SaveScheduled
<1>1. IInv => SaveScheduled
  BY DEF IInv, MemorySound, SaveScheduled
<1> QED
  BY Always, <1>1, PTL

\* The flash never holds a configuration mixed of two.
THEOREM NeverMixed == Spec => []OneImage
<1>1. IInv => OneImage
  <2> SUFFICES ASSUME IInv, SavedWord(0) = kMagic, NEW i \in Fields
               PROVE  SavedWord(i) \in {image[i], Erased, Torn}
    BY DEF OneImage
  <2>1. \A w \in FlashWords : flash[w] \in {Eff(w), Torn}
    BY DEF IInv, FlashSound, Eff
  <2>2. SavedWord(0) = flash[Config(0)] /\ SavedWord(i) = flash[Config(i)]
    BY DEF SavedWord, Config
  <2>3. Eff(Config(0)) = kMagic
    BY <2>1, <2>2, Words, CellFacts
  <2>4. Eff(Config(i)) \in {image[i], Erased, Torn}
    BY <2>3 DEF IInv, StoreSound
  <2> QED
    BY <2>1, <2>2, <2>4, Words
<1> QED
  BY Always, <1>1, PTL

-----------------------------------------------------------------------------
(* As long as no scene has been recorded, what is still to be written is erased. *)

Fresh ==
  records = 0 =>
    /\ mode \in {"loop", "reboot"}
    /\ s_state \in {"kErasedWaiting", "kErased"} => AllErased
    /\ s_state = "kWriting" =>
         \A i \in StoreWords : (Writing => i >= fc.at) => Eff(Config(i)) = Erased

LEMMA FreshWriting ==
  ASSUME IInv, Fresh, records = 0, FlashWriting, UNCHANGED mode
  PROVE  /\ s_state' = "kWriting"
         /\ \A i \in StoreWords : (Writing' => i >= fc'.at) => Eff(Config(i))' = Erased
<1>1. /\ s_state = "kWriting" /\ s_state' = "kWriting" /\ mode \in {"loop", "reboot"}
      /\ Write(kConfigOffset, kStoreWords, "store", memory, FALSE)
  BY DEF FlashWriting, FlashWritingStep, Fresh
<1>2. FlashSound /\ MemorySound /\ ~ Erasing /\ (Writing => WritesStore)
  BY <1>1 DEF IInv, Owner, BeforeErase
<1>3. fc.at \in Int
  BY <1>2, Sizes DEF FlashSound, FcType
<1>4. \A i \in StoreWords : (Writing => i >= fc.at) => Eff(Config(i)) = Erased
  BY <1>1 DEF Fresh
<1>5. CASE WriteProgram(memory)
  <2>1. /\ Writing /\ Writing' /\ fc'.at = fc.at + 1 /\ WritesStore
        /\ \A w \in FlashWords : w # fc.address => Eff(w)' = Eff(w)
    BY <1>2, <1>5, WriteProgramSound
  <2>2. ASSUME NEW i \in StoreWords, i >= fc'.at PROVE Eff(Config(i))' = Erased
    <3>1. i >= fc.at /\ Config(i) # fc.address /\ Config(i) \in FlashWords
      BY <1>3, <2>1, <2>2, Words, Sizes DEF WritesStore, Config, kConfigOffset
    <3> QED
      BY <1>4, <2>1, <3>1
  <2> QED
    BY <1>1, <2>1, <2>2
<1>6. CASE ~ WriteProgram(memory)
  <2>1. /\ \A w : Eff(w)' = Eff(w)
        /\ Writing' => (Writing /\ fc'.at = fc.at) \/ (fc.state = "IDLE" /\ fc'.at = 0)
        /\ UNCHANGED <<flash, pending>> /\ ~ Erasing'
    BY <1>1, <1>2, <1>6, WriteQuiet
  <2>2. fc.state = "IDLE" => ~ Writing
    BY DEF Writing
  <2>3. Writing /\ ~ Writing' => FALSE
    BY <1>1, <1>6 DEF Writing, Write, WriteStart, WriteBusy, WriteMore, WriteAbortsErase, Enter,
       flashVars, IInv, FlashSound, FcType
  <2> QED
    BY <1>1, <1>4, <2>1, <2>2, <2>3
<1> QED
  BY <1>5, <1>6

LEMMA FreshCommit ==
  ASSUME IInv, Fresh, records = 0, UNCHANGED <<mode, s_store>>,
         NEW more \in BOOLEAN, Commit(more)
  PROVE  Fresh'
<1>1. mode \in {"loop", "reboot"} /\ mode' \in {"loop", "reboot"}
  BY DEF Fresh
<1>2. CASE FlashIdle
  BY <1>1, <1>2, Unmoved DEF FlashIdle, Fresh
<1>3. CASE FlashWaiting
  <2>1. UNCHANGED flashVars /\ s_state' = NextState[s_state] /\ s_state \in DOMAIN NextState
    BY <1>3 DEF FlashWaiting
  <2>2. /\ s_state' \in {"kErasedWaiting", "kErased"} => s_state = "kErasedWaiting"
        /\ s_state' = "kWriting" => s_state = "kErased"
    BY <2>1 DEF NextState
  <2>3. AllErased' = AllErased
    BY <2>1, Unmoved DEF AllErased
  <2> QED
    BY <1>1, <2>2, <2>3 DEF Fresh, AllErased
<1>4. CASE FlashErasing
  BY <1>1, <1>4, FlashErasingSound DEF Fresh
<1>5. CASE FlashWriting
  BY <1>1, <1>5, FreshWriting DEF Fresh
<1>6. CASE FlashWritten
  BY <1>1, <1>6 DEF FlashWritten, Fresh
<1> QED
  BY <1>2, <1>3, <1>4, <1>5, <1>6 DEF Commit

LEMMA FreshSteps == ASSUME IInv, Fresh, [Next]_vars PROVE Fresh'
<1> SUFFICES ASSUME records' = 0 PROVE Fresh'
  BY DEF Fresh
<1>1. records \in Nat
  BY ConfigStoreAssumption DEF IInv, MemorySound
<1>2. CASE \E d \in Scenes : FailSafeRecord(d)
  BY <1>1, <1>2 DEF FailSafeRecord
<1>3. CASE ~ \E d \in Scenes : FailSafeRecord(d)
  <2>1. records = 0
    BY <1>3 DEF Next, Update, UpdateArray, Changed, Factory, Reboot, Timer, ConfigstoreCommit,
       Rebooted, PowerLoss, Boot, SceneWriteStart, SceneWrite, Fmc, ghosts, vars
  <2>2. mode \in {"loop", "reboot"}
    BY <2>1 DEF Fresh
  <2>3. ASSUME mode' \in {"loop", "reboot"}, s_state' \in {"kIdle", "kChanged"} PROVE Fresh'
    BY <2>3 DEF Fresh
  <2>4. ASSUME NEW store, Changed(store) PROVE Fresh'
    BY <2>2, <2>3, <2>4 DEF Changed, SetStatusChanged
  <2>5. CASE Factory
    BY <2>3, <2>5 DEF Factory, SetStatusChanged
  <2>6. CASE Reboot \/ UNCHANGED vars
    <3>1. UNCHANGED <<flashVars, s_state>> /\ mode' \in {"loop", "reboot"}
      BY <2>2, <2>6 DEF Reboot, vars
    <3>2. AllErased' = AllErased
      BY <3>1, Unmoved DEF AllErased
    <3>3. fc' = fc
      BY <3>1 DEF flashVars
    <3> QED
      BY <2>1, <3>1, <3>2, <3>3, Unmoved DEF Fresh
  <2>7. CASE Timer \/ ConfigstoreCommit
    BY <2>1, <2>7, FreshCommit DEF Timer, ConfigstoreCommit
  <2>8. CASE Rebooted \/ PowerLoss
    BY <2>3, <2>8, Zenon DEF Rebooted, PowerLoss, Boot
  <2>9. CASE SceneWriteStart \/ SceneWrite
    BY <2>2, <2>9 DEF SceneWriteStart, SceneWrite
  <2>10. CASE Fmc
    <3>1. /\ UNCHANGED <<fc, s_state, mode>>
          /\ \A w \in FlashWords : Eff(w)' = Eff(w)
      BY <2>10, FmcDoneSound DEF Fmc, IInv
    <3>2. \A i \in StoreWords : Eff(Config(i))' = Eff(Config(i))
      BY <3>1, Words
    <3>3. Writing' = Writing
      BY <3>1 DEF Writing
    <3> QED
      BY <2>1, <3>1, <3>2, <3>3 DEF Fresh, AllErased
  <2> QED
    BY <1>3, <2>4, <2>5, <2>6, <2>7, <2>8, <2>9, <2>10 DEF Next, Update, UpdateArray
<1> QED
  BY <1>2, <1>3

\* A step that programs a word while no scene has been recorded.
LEMMA ProgramStep ==
  ASSUME IInv, Fresh, [Next]_vars, fc.state = "WRITE_PROGRAM", fc'.state = "WRITE_BUSY",
         records = 0
  PROVE  flash[fc.address] = Erased
<1>1. mode \in {"loop", "reboot"} /\ Writing /\ fc \in FcType /\ pending = None /\ fc.length > 0
  BY DEF Fresh, IInv, FlashSound, Writing
<1>2. WritesStore /\ s_state \in BeforeErase \cup {"kWriting"}
  BY <1>1 DEF IInv, Owner
<1>3. fc.at \in StoreWords /\ fc.address = Config(fc.at)
  BY <1>1, <1>2, Words DEF WritesStore, FcType, StoreWords
<1>4. s_state = "kWriting"
  <2>1. ~ UNCHANGED fc
    OBVIOUS
  <2>2. \E more \in BOOLEAN : Commit(more)
    <3>1. ~ (Rebooted \/ PowerLoss)
      BY DEF Rebooted, PowerLoss, Boot, FcReset
    <3>2. ~ (SceneWriteStart \/ SceneWrite)
      BY <1>1 DEF SceneWriteStart, SceneWrite
    <3> QED
      BY <2>1, <3>1, <3>2 DEF Next, Update, UpdateArray, Changed, Factory, Reboot, Timer,
         ConfigstoreCommit, FailSafeRecord, Fmc, FmcDone, flashVars, vars
  <2>3. FlashErasing => fc'.state = "IDLE"
    BY <1>1 DEF FlashErasing, Erase, EraseStart, EraseBusy, EraseMore, EraseProgram, EraseDone,
       EraseAbortsWrite, Enter, FcType
  <2> QED
    BY <2>1, <2>2, <2>3 DEF Commit, FlashIdle, FlashWaiting, FlashWriting, FlashWritten,
       FlashWritingStep, flashVars
<1>5. fc.at >= fc.at
  BY <1>3, Words
<1>6. Eff(Config(fc.at)) = Erased
  BY <1>3, <1>4, <1>5 DEF Fresh
<1> QED
  BY <1>1, <1>3, <1>6, NoneEmpty DEF Eff

\* As long as no scene is recorded in the middle of a save, a word is programmed only
\* when it is erased: a write that was given up is followed by an erase.
THEOREM ProgramsOnlyErased == Spec => ProgramsErasedWords
<1>1. Init => Fresh
  BY DEF Init, Fresh
<1>2. IInv /\ Fresh /\ [Next]_vars => Fresh'
  BY FreshSteps
<1>3. IInv /\ Fresh /\ [Next]_vars =>
        [ fc.state = "WRITE_PROGRAM" /\ fc'.state = "WRITE_BUSY" /\ records = 0
            => flash[fc.address] = Erased ]_vars
  BY ProgramStep
<1> QED
  BY Always, <1>1, <1>2, <1>3, PTL DEF Spec, ProgramsErasedWords
=============================================================================
