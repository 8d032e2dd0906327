------------------------------ MODULE FlashCode ------------------------------
(***************************************************************************)
(* The driver of the on-chip flash, FlashCode (lib-flashcode, gd32/fmc),   *)
(* and the flash controller it drives.                                     *)
(*                                                                         *)
(* Erase and Write do one step of an operation per call and say whether it *)
(* is done.  What an operation remembers is static: all callers share it.  *)
(* Lengths and addresses are in words; every length is a whole number of   *)
(* words, and an erased length a whole number of pages.                    *)
(***************************************************************************)
EXTENDS Integers

CONSTANTS
  kPageWords,   \* the flash page: kBanK0FlashPage or kBanK1FlashPage
  kSectorPages, \* kFlashSectorSize in pages
  Erased,       \* what an erased word holds
  Torn          \* a word whose erasing or programming was cut short

ASSUME FlashCodeAssumption ==
  /\ {kPageWords, kSectorPages} \subseteq Nat \ {0}
  /\ Erased # Torn

kSectorWords  == kSectorPages * kPageWords
kSceneOffset  == 0            \* the sector of the recorded scene
kConfigOffset == kSectorWords \* the last sector, of the configuration
FlashWords    == 0 .. 2 * kSectorWords - 1

VARIABLES
  fc,      \* s_state, s_page, s_address, s_length, and s_data as a reference
  flash,   \* the words in the flash
  pending  \* the words the controller works on, with what they will hold

flashVars == <<fc, flash, pending>>

FcStates == {"IDLE", "ERASE_BUSY", "ERASE_PROGRAM", "WRITE_BUSY", "WRITE_PROGRAM"}
FcType ==
  [state : FcStates, page : 0 .. 2 * kSectorWords, address : 0 .. 2 * kSectorWords,
   length : 0 .. kSectorWords, buffer : {"store", "scene"}, at : 0 .. kSectorWords]
FcReset == [state |-> "IDLE", page |-> 0, address |-> 0, length |-> 0,
            buffer |-> "store", at |-> 0]

None  == [w \in {} |-> Erased]
fmc_busy == pending # None
Enter(state) == fc' = [fc EXCEPT !.state = state]

\* The controller completes what it was told to do.
FmcDone ==
  /\ fmc_busy
  /\ flash' = [w \in FlashWords |-> IF w \in DOMAIN pending THEN pending[w] ELSE flash[w]]
  /\ pending' = None
  /\ UNCHANGED fc

ErasePage(page) ==
  LET words == page .. page + kPageWords - 1
  IN  /\ flash' = [w \in FlashWords |-> IF w \in words THEN Torn ELSE flash[w]]
      /\ pending' = [w \in words |-> Erased]

\* A word that is not erased cannot take another value.
Program(address, value) ==
  \/ /\ flash[address] = Erased
     /\ flash' = [flash EXCEPT ![address] = Torn]
     /\ pending' = [w \in {address} |-> value]
  \/ /\ flash[address] # Erased
     /\ flash' = [flash EXCEPT ![address] = IF @ = value THEN value ELSE Torn]
     /\ UNCHANGED pending

-----------------------------------------------------------------------------
(* One call of Erase. *)

EraseStart(offset, length) ==
  /\ fc.state = "IDLE"
  /\ fc' = [fc EXCEPT !.state = "ERASE_BUSY", !.page = offset, !.length = length]
  /\ UNCHANGED <<flash, pending>>

EraseBusy ==
  /\ fc.state = "ERASE_BUSY" /\ fmc_busy
  /\ UNCHANGED flashVars

EraseMore ==
  /\ fc.state = "ERASE_BUSY" /\ ~ fmc_busy /\ fc.length > 0
  /\ Enter("ERASE_PROGRAM")
  /\ UNCHANGED <<flash, pending>>

EraseDone ==
  /\ fc.state = "ERASE_BUSY" /\ ~ fmc_busy /\ fc.length = 0
  /\ Enter("IDLE")
  /\ UNCHANGED <<flash, pending>>

EraseProgramCountsDown == \* mutant: the page does not advance
  /\ fc.state = "ERASE_PROGRAM"
  /\ ErasePage(fc.page)
  /\ fc' = [fc EXCEPT !.state = "ERASE_BUSY", !.length = @ - kPageWords]

EraseProgramRunsOn == \* mutant: the length is not counted down
  /\ fc.state = "ERASE_PROGRAM"
  /\ ErasePage(fc.page)
  /\ fc' = [fc EXCEPT !.state = "ERASE_BUSY", !.page = @ + kPageWords]

EraseProgram ==
  /\ fc.state = "ERASE_PROGRAM"
  /\ ErasePage(fc.page)
  /\ fc' = [fc EXCEPT !.state  = "ERASE_BUSY",
                      !.length = @ - kPageWords,
                      !.page   = @ + kPageWords]

\* A write that was under way is given up; the erase starts in the next call.
EraseAbortsWrite ==
  /\ fc.state \in {"WRITE_BUSY", "WRITE_PROGRAM"}
  /\ Enter("IDLE")
  /\ UNCHANGED <<flash, pending>>

EraseTrustsWrite(offset, length, done) == \* mutant: an aborted write needs no erase
  \/ ~ done /\ (EraseStart(offset, length) \/ EraseBusy \/ EraseMore \/ EraseProgram)
  \/ done /\ (EraseDone \/ EraseAbortsWrite)

Erase(offset, length, done) ==
  \/ ~ done /\ \/ EraseStart(offset, length)
               \/ EraseBusy \/ EraseMore \/ EraseProgram \/ EraseAbortsWrite
  \/ done /\ EraseDone

-----------------------------------------------------------------------------
(* One call of Write; memory is what the buffers hold now. *)

WriteStart(offset, length, buffer) ==
  /\ fc.state = "IDLE"
  /\ fc' = [fc EXCEPT !.state = "WRITE_BUSY", !.address = offset, !.length = length,
                      !.buffer = buffer, !.at = 0]
  /\ UNCHANGED <<flash, pending>>

WriteBusy ==
  /\ fc.state = "WRITE_BUSY" /\ fmc_busy
  /\ UNCHANGED flashVars

WriteMore ==
  /\ fc.state = "WRITE_BUSY" /\ ~ fmc_busy /\ fc.length > 0
  /\ Enter("WRITE_PROGRAM")
  /\ UNCHANGED <<flash, pending>>

WriteDone ==
  /\ fc.state = "WRITE_BUSY" /\ ~ fmc_busy /\ fc.length = 0
  /\ Enter("IDLE")
  /\ UNCHANGED <<flash, pending>>

WriteProgram(memory) ==
  /\ fc.state = "WRITE_PROGRAM"
  /\ Program(fc.address, memory[fc.buffer][fc.at])
  /\ fc' = [fc EXCEPT !.state   = "WRITE_BUSY",
                      !.address = @ + 1, !.at = @ + 1, !.length = @ - 1]

\* An erase that was under way is given up.
WriteAbortsErase ==
  /\ fc.state \in {"ERASE_BUSY", "ERASE_PROGRAM"}
  /\ Enter("IDLE")
  /\ UNCHANGED <<flash, pending>>

Write(offset, length, buffer, memory, done) ==
  \/ ~ done /\ \/ WriteStart(offset, length, buffer)
               \/ WriteBusy \/ WriteMore \/ WriteProgram(memory) \/ WriteAbortsErase
  \/ done /\ WriteDone
=============================================================================
