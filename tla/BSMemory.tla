------------------------------ MODULE BSMemory ------------------------------
(***************************************************************************)
(* The BS Memory flash cartridge (src/higan/sfc/slot/bsmemory): the game   *)
(* on the CPU writes commands byte by byte, and a thread of the chip does  *)
(* the erasing, which takes so long that the game goes on meanwhile.       *)
(*                                                                         *)
(* Of each block's 64 KiB the model keeps one bit.  Of a byte it keeps     *)
(* which command it is when it comes first, and otherwise whether it is    *)
(* the confirmation $d0 and what it has for that bit: $d0 has 0, and $ff,  *)
(* the command to read the flash, has 1.  Time passes in units of the      *)
(* chip's idle step; thousands of bytes can be written in one.             *)
(***************************************************************************)
EXTENDS Integers, Sequences, FiniteSets

CONSTANTS
  Blocks,      \* BlockInformation::count()
  IDs,         \* the values of Block::id; 16 in the code
  Command,     \* the commands the game uses
  EraseTime,   \* 300 ms, in idle steps of 10 ms
  MaxErased,   \* bound on erase counts
  MaxLead,     \* bound on `lead' of a chip that does not yield
  MaxCount,    \* bound on the further blocks that a page write reaches
  Noise,       \* the bits the page buffers may hold when the cartridge is connected
  IdleYields   \* FALSE: main() as it is.  TRUE: its last line is step(10'000)

Block == 0 .. Blocks - 1
None == -1

\* The bytes of each command.  Several stand for more than one: writeByte for $10 and
\* $40, unsupported for $80, $f0 and unknown ones, unsupported2 for $96.
Length == [
  pageToFlash |-> 3, writeByte |-> 2, writeWord |-> 3, eraseBlock |-> 2, eraseAll |-> 2,
  lockBlock |-> 2, uploadLocks |-> 2, clearStatus |-> 1, readStatus |-> 1,
  readExtended |-> 1, readPage |-> 1, readIdentifiers |-> 1, readFlash |-> 1,
  swapPage |-> 1, loadPage |-> 2, loadPages |-> 4, writeSignature |-> 2,
  uploadDevice |-> 2, suspend |-> 2, unsupported |-> 1, unsupported2 |-> 2]

\* Commands whose second byte is $d0, or they fail.
Confirmed ==
  {"eraseBlock", "eraseAll", "lockBlock", "uploadLocks", "writeSignature", "uploadDevice",
   "suspend"}

ASSUME BSMemoryAssumption ==
  /\ Blocks \in Nat \ {0} /\ IDs \in Nat \ {0} /\ EraseTime \in Nat \ {0, 1}
  /\ Command \subseteq DOMAIN Length
  /\ Noise \subseteq {0, 1} /\ Noise # {}
  /\ MaxErased \in Nat \ {0} /\ MaxCount \in Nat /\ MaxLead \in Nat /\ MaxLead > EraseTime

VARIABLES
  memory,   \* memory[i]: the bit kept of the i-th 64 KiB
  erased,   \* erased[b]: how often block b was erased
  locked,   \* locked[b]: its lock bit
  erasing,  \* erasing[b]: an erase was requested and has not ended
  status,   \* status[b]: its status register
  chip,     \* the registers of the chip: those of compatible and global status are
            \* assigned together
  page,     \* page[n]: the bit of the page buffers
  queue,    \* the bytes of a command that is not complete
  writable, \* the pin the cartridge board controls
  slot,     \* "out", or with the cartridge connected and the power "off" or "on"
  disk,     \* program.flash and flash.bml
  turn,     \* who runs, "cpu" or "chip"
  lead,     \* how far the chip's clock is ahead of the CPU's
  at        \* the block in whose erase() the thread is, or None

contents == <<memory, erased, locked>>
registers == <<status, chip, page>>
vars == <<memory, erased, locked, erasing, status, chip, page, queue, writable, slot,
          disk, turn, lead, at>>

Status == [failed : BOOLEAN, locked : BOOLEAN, ready : BOOLEAN]
ChipStatus ==
  [failed : BOOLEAN, ready : BOOLEAN, page : {0, 1},
   mode : {"flash", "chip", "page", "compatible", "extended"}]
Disk == [memory : [Block -> {0, 1}], erased : [Block -> 1 .. MaxErased],
         locked : [Block -> BOOLEAN]]

Bit(byte) == IF byte = "readFlash" THEN 1 ELSE 0

\* Mutant: the lock bit itself is asked.
NotLocked(b) == writable \/ ~locked[b]
\* What Block::write and erase ask: the status bit, which power sets.
Writable(b) == writable \/ ~status[b].locked

\* Mutant: the identifier has half the values it needs.
TooFewIDs(b) == b % (IDs \div 2)
\* Block::read, write and erase use id, which has four bits.
Physical(b) == b % IDs

-----------------------------------------------------------------------------
(* Commands *)

\* BSMemoryCartridge::failed
FailIf(failure) == chip.failed \/ failure

Mode(m) == [chip EXCEPT !.mode = m]

\* Mutant: a written bit replaces the one that was there.
Replaced(old, bit) == bit
\* "writes to flash can only clear bits"
Cleared(old, bit) == IF bit = 0 THEN 0 ELSE old

\* Block::write in every block of B, after which page buffer n is in use
WriteBlocks(B, bit, n) ==
  LET refused == {b \in B : ~Writable(b)}
      cells == {Physical(b) : b \in B \ refused}
  IN  /\ memory' = [i \in Block |-> IF i \in cells THEN Cleared(memory[i], bit) ELSE memory[i]]
      /\ status' = [b \in Block |->
                      IF b \in refused THEN [status[b] EXCEPT !.failed = TRUE] ELSE status[b]]
      /\ chip' = [chip EXCEPT !.mode = "compatible", !.page = n,
                              !.failed = FailIf(refused # {})]
      /\ UNCHANGED <<erased, locked, erasing, page>>

\* What an erase request does to the status of the chip
NotReady == [chip EXCEPT !.ready = FALSE]

\* Block::erase called by the CPU, for every block of B
RequestErase(B) ==
  /\ \A b \in B : erased[b] < MaxErased
  /\ erasing' = [b \in Block |-> b \in B \/ erasing[b]]
  /\ status' = [b \in Block |->
                  IF b \in B THEN [status[b] EXCEPT !.ready = FALSE] ELSE status[b]]
  /\ chip' = [NotReady EXCEPT !.mode = "compatible"]
  /\ UNCHANGED <<contents, page>>

\* Block::lock
LockBlock(b) ==
  /\ locked' = [locked EXCEPT ![b] = @ \/ writable]
  /\ status' = [status EXCEPT ![b].locked = @ \/ writable, ![b].failed = @ \/ ~writable]
  /\ chip' = [chip EXCEPT !.failed = FailIf(~writable)]
  /\ UNCHANGED <<memory, erased, erasing, page>>

\* "clear status register"
ClearStatus ==
  /\ status' = [b \in Block |-> [status[b] EXCEPT !.failed = FALSE]]
  /\ chip' = [chip EXCEPT !.failed = FALSE]
  /\ UNCHANGED <<contents, erasing, page>>

\* "upload lock status bits"
UploadLocks ==
  /\ status' = [b \in Block |-> [status[b] EXCEPT !.locked = locked[b]]]
  /\ UNCHANGED <<contents, erasing, chip, page>>

\* Commands that select what reads return
ReadMode ==
  [readStatus |-> "compatible", suspend |-> "compatible", readExtended |-> "extended",
   readPage |-> "page", readIdentifiers |-> "chip", readFlash |-> "flash"]
Select(command) ==
  /\ command \in DOMAIN ReadMode
  /\ chip' = Mode(ReadMode[command])
  /\ UNCHANGED <<contents, erasing, status, page>>

\* Commands that write into the page buffer and those that swap it
LoadPage(bits) ==
  /\ \E bit \in bits : page' = [page EXCEPT ![chip.page] = bit]
  /\ UNCHANGED <<contents, erasing, status, chip>>
SwapPage(bits) ==
  /\ \E bit \in bits : page' = [page EXCEPT ![chip.page] = bit]
  /\ chip' = [chip EXCEPT !.page = 1 - @]
  /\ UNCHANGED <<contents, erasing, status>>

\* "write page to flash": the address goes on into the next blocks.
PageToFlash(b) ==
  \E count \in 0 .. MaxCount :
    WriteBlocks({(b + n) % Blocks : n \in 0 .. count}, page[chip.page], 1 - chip.page)

Fail ==
  /\ chip' = [chip EXCEPT !.failed = FailIf(TRUE)]
  /\ UNCHANGED <<contents, erasing, status, page>>

\* The command q[1].data is complete.
Execute(q) ==
  LET command == q[1].data
      last == q[Len(q)]
      bits == {Bit(q[n].data) : n \in 2 .. Len(q)}
  IN  IF command \in Confirmed /\ last.data # "d0"
      THEN Fail
      ELSE \/ command = "pageToFlash" /\ PageToFlash(last.block)
           \/ command = "writeByte" /\ WriteBlocks({last.block}, Bit(last.data), chip.page)
           \/ command = "writeWord" /\ \E bit \in bits : WriteBlocks({last.block}, bit, chip.page)
           \/ command = "eraseBlock" /\ RequestErase({last.block})
           \/ command = "eraseAll" /\ RequestErase(Block)
           \/ command = "lockBlock" /\ LockBlock(last.block)
           \/ command = "uploadLocks" /\ UploadLocks
           \/ command = "clearStatus" /\ ClearStatus
           \/ command = "swapPage" /\ SwapPage({page[chip.page]})
           \/ command \in {"writeSignature", "uploadDevice"} /\ SwapPage({0, 1})
           \/ command \in {"loadPage", "loadPages"} /\ LoadPage({Bit(last.data), page[chip.page]})
           \/ Select(command)
           \/ /\ command \in {"unsupported", "unsupported2"}
              /\ UNCHANGED <<contents, erasing, registers>>

\* Mutant: nothing is taken out.
Kept(q) == q
\* Queue::pop: "hack to avoid needing a 65539-entry queue"
Popped(q) == SubSeq(q, 1, Len(q) - 1)

\* loadPages waits for the next byte unless it was the last.
QueueAfter(q) == IF q[1].data = "loadPages" THEN {<<>>, Popped(q)} ELSE {<<>>}

\* Queue::push, which drops a fifth byte
Push(b, byte) == IF Len(queue) < 4 THEN Append(queue, [block |-> b, data |-> byte]) ELSE queue

\* The bytes the game may write: what is looked at of them depends on their place.
Byte == IF queue = <<>> THEN Command ELSE {"d0", "readFlash"}

\* Where a byte goes matters when it completes a command, and what it is when it comes
\* first or is a part of a word; otherwise one byte stands for all.
Unused(b, byte) ==
  /\ b = 0
  /\ byte \in IF queue = <<>> \/ queue[1].data = "writeWord" THEN Byte ELSE {"d0"}

CpuRuns == slot = "on" /\ turn = "cpu"

\* BSMemoryCartridge::write
Write(b, byte) ==
  LET q == Push(b, byte)
  IN  /\ CpuRuns
      /\ byte \in Byte
      /\ Len(q) < Length[q[1].data] => Unused(b, byte)
      /\ IF Len(q) < Length[q[1].data]
         THEN queue' = q /\ UNCHANGED <<contents, erasing, registers>>
         ELSE queue' \in QueueAfter(q) /\ Execute(q)
      /\ UNCHANGED <<writable, slot, disk, turn, lead, at>>

\* BSMemoryCartridge::writable, by MCC::commit
SetWritable ==
  /\ CpuRuns
  /\ writable' = ~writable
  /\ UNCHANGED <<contents, erasing, registers, queue, slot, disk, turn, lead, at>>

-----------------------------------------------------------------------------
(* Threads *)

\* CPU::step: Thread::synchronize(*coprocessor)
CpuStep ==
  /\ CpuRuns
  /\ lead' = lead - 1
  /\ turn' = IF lead' < 0 THEN "chip" ELSE "cpu"
  /\ UNCHANGED <<contents, erasing, registers, queue, writable, slot, disk, at>>

ChipRuns == slot = "on" /\ turn = "chip"

\* Thread::synchronize(cpu)
YieldIfAhead == turn' = IF lead' > 0 THEN "cpu" ELSE "chip"

\* Mutant: the first block is not looked at.
ErasesAfterFirst == {b \in Block \ {0} : erasing[b]}
\* The erases that main() finds
Erases == {b \in Block : erasing[b]}

Ready(B) ==
  status' = [b \in Block |-> IF b \in B THEN [status[b] EXCEPT !.ready = TRUE] ELSE status[b]]

\* BSMemoryCartridge::main with an erase requested: Block::erase begins.
BeginErase ==
  \E b \in Erases :
    /\ ChipRuns /\ at = None
    /\ \A c \in Erases : b <= c
    /\ at' = b
    /\ Ready(0 .. b - 1)
    /\ lead' = lead + EraseTime
    /\ YieldIfAhead
    /\ UNCHANGED <<contents, erasing, chip, page, queue, writable, slot, disk>>

\* Mutant: the request stays.
NotDone(b) == erasing
\* The requests that are left when block b was erased
Done(b) == [erasing EXCEPT ![b] = FALSE]

\* Block::erase after 300 milliseconds
EndErase ==
  /\ ChipRuns /\ at # None
  /\ erasing' = Done(at)
  /\ IF Writable(at)
     THEN /\ memory' = [memory EXCEPT ![Physical(at)] = 1]
          /\ erased' = [erased EXCEPT ![at] = @ + 1]
          /\ locked' = [locked EXCEPT ![at] = FALSE]
          /\ status' = [status EXCEPT ![at].locked = FALSE]
     ELSE UNCHANGED <<contents, status>>
  /\ at' = None
  /\ UNCHANGED <<chip, page, queue, writable, slot, disk, turn, lead>>

\* Mutant: Thread::step, which the code calls, does not synchronize.
NeverYields == FALSE
\* The chip synchronizes when it is idle.
YieldsWhenIdle == IdleYields

\* BSMemoryCartridge::main without one
Idle ==
  /\ ChipRuns /\ at = None /\ Erases = {}
  /\ Ready(Block)
  /\ chip' = [chip EXCEPT !.ready = TRUE]
  /\ lead' = IF lead < MaxLead THEN lead + 1 ELSE lead
  /\ IF YieldsWhenIdle THEN YieldIfAhead ELSE UNCHANGED turn
  /\ UNCHANGED <<contents, erasing, page, queue, writable, slot, disk, at>>

-----------------------------------------------------------------------------
(* The cartridge in its slot *)

\* BSMemoryCartridge::power, for the thread and the registers
Reset ==
  /\ erasing' = [b \in Block |-> FALSE]
  /\ status' = [b \in Block |-> [failed |-> FALSE, locked |-> TRUE, ready |-> TRUE]]
  /\ chip' = [failed |-> FALSE, ready |-> TRUE, page |-> 0, mode |-> "flash"]
  /\ queue' = <<>>
  /\ turn' = "cpu" /\ lead' = 0 /\ at' = None

\* BSMemoryCartridge::connect; the page buffers hold noise.
Connect ==
  /\ slot = "out"
  /\ slot' = "off"
  /\ memory' = disk.memory /\ erased' = disk.erased /\ locked' = disk.locked
  /\ page' \in [{0, 1} -> Noise]
  /\ Reset
  /\ UNCHANGED <<writable, disk>>

\* System::power: MCC::power withdraws the pin, then the cartridge is powered.
Power ==
  /\ slot # "out" /\ turn = "cpu"
  /\ slot' = "on"
  /\ writable' = FALSE
  /\ Reset
  /\ UNCHANGED <<contents, page, disk>>

\* Emulator::power(false)
PowerOff ==
  /\ CpuRuns
  /\ slot' = "off"
  /\ UNCHANGED <<contents, erasing, registers, queue, writable, disk, turn, lead, at>>

\* BSMemoryCartridge::disconnect writes flash.bml, and releases the memory.
Disconnect(program) ==
  /\ slot' = "out"
  /\ disk' = [memory |-> program, erased |-> erased, locked |-> locked]
  /\ UNCHANGED <<contents, erasing, registers, queue, writable, turn, lead, at>>

\* Mutant: unload() forgets to save.
NotSaved == disk.memory
\* program.flash as BSMemoryCartridge::save writes it
Saved == memory

\* Emulator::unload: System::unload saves, then empties the slots.
Unload == (slot = "off" \/ CpuRuns) /\ Disconnect(Saved)

\* Port::disconnect, chosen in the port connector, when the power is off
Eject == slot = "off" /\ Disconnect(disk.memory)

Init ==
  /\ disk \in [memory : [Block -> {0, 1}], erased : {[b \in Block |-> 1]},
               locked : {[b \in Block |-> TRUE]}]
  /\ memory = disk.memory /\ erased = disk.erased /\ locked = disk.locked
  /\ erasing = [b \in Block |-> FALSE]
  /\ status = [b \in Block |-> [failed |-> FALSE, locked |-> TRUE, ready |-> TRUE]]
  /\ chip = [failed |-> FALSE, ready |-> TRUE, page |-> 0, mode |-> "flash"]
  /\ page = [n \in {0, 1} |-> 0]
  /\ queue = <<>>
  /\ writable = FALSE
  /\ slot = "out"
  /\ turn = "cpu" /\ lead = 0 /\ at = None

Chip == BeginErase \/ EndErase \/ Idle

Next ==
  \/ \E b \in Block, byte \in Command \cup {"d0", "readFlash"} : Write(b, byte)
  \/ SetWritable \/ CpuStep
  \/ Chip
  \/ Connect \/ Power \/ PowerOff \/ Unload \/ Eject

Spec == Init /\ [][Next]_vars

\* While the power is on, the emulator runs whoever's turn it is.
FairSpec == Spec /\ WF_vars(CpuStep) /\ WF_vars(Chip)

-----------------------------------------------------------------------------
\* Every variable has the type of what it stands for.
FlashTypeOK ==
  /\ memory \in [Block -> {0, 1}]
  /\ erased \in [Block -> 1 .. MaxErased] /\ locked \in [Block -> BOOLEAN]
  /\ erasing \in [Block -> BOOLEAN] /\ status \in [Block -> Status]
  /\ chip \in ChipStatus /\ page \in [{0, 1} -> {0, 1}]
  /\ queue \in Seq([block : Block, data : Command \cup {"d0", "readFlash"}])
  /\ writable \in BOOLEAN /\ slot \in {"out", "off", "on"}
  /\ disk \in Disk
  /\ turn \in {"cpu", "chip"} /\ lead \in -1 .. MaxLead /\ at \in Block \cup {None}

\* A game that polls the status registers never reads that a block, or the chip, is ready
\* while an erase is outstanding, wherever in main() the thread is and however many
\* requests came meanwhile; and the registers agree.
ReadyMeansIdle ==
  /\ \A b \in Block : erasing[b] => ~status[b].ready /\ ~chip.ready
  /\ CpuRuns => (chip.ready <=> \A b \in Block : status[b].ready)

\* A block that is locked when the change happens, and not when it was requested, keeps
\* its contents.
ProtectedKept ==
  [][slot = "on" =>
       \A b \in Block : memory'[b] # memory[b] => writable \/ ~status[b].locked]_vars

\* Only erasing sets bits, and every erase that sets them is counted.
ErasesCounted ==
  [][slot = "on" =>
       \A b \in Block : memory'[b] > memory[b] => erased'[b] = erased[b] + 1]_vars

\* "8mbit = 16; 16mbit = 32; 32mbit = 64" (bsmemory.hpp:104): each block is a part of the
\* memory of its own, so that erasing block b empties it.  It takes IDs >= Blocks.
ErasedIsEmpty ==
  [][slot = "on" =>
       \A b \in Block : erased'[b] = erased[b] + 1 => memory'[b] = 1]_vars

\* No byte of a command is dropped: there is always room for the next one, also in a
\* sequential load of any length.
QueueHasRoom == Len(queue) < 4

\* When the system is unloaded, at any moment of an erase, flash.bml and program.flash
\* are saved together: the erases the one counts are those the other has had.
SavedTogether ==
  [][slot' = "out" /\ ~Eject => disk'.memory = memory /\ disk'.erased = erased]_vars

\* "ensure the specified thread(s) are caught up the current thread before proceeding"
\* (thread.cpp:77): the CPU, waiting for the chip, does proceed.
CpuProceeds == turn = "chip" ~> turn = "cpu"

RequestsErase == \E b \in Block : ~erasing[b] /\ erasing'[b]
\* When the game stops requesting erases, or writing at all, every block becomes ready,
\* if the cartridge stays powered.
ErasesEnd ==
  <>[][~RequestsErase /\ slot' = "on"]_vars /\ <>[](slot = "on") => <>[]chip.ready
=============================================================================
