---------------------------- MODULE FlashProofs ----------------------------
(***************************************************************************)
(* What holds of the flash cartridge for any number of blocks, any bounds  *)
(* and any commands: what the status registers tell the game, and that     *)
(* protected blocks are left alone.                                        *)
(***************************************************************************)
EXTENDS BSMemory, TLAPS

Bytes == Command \cup {"d0", "readFlash"}
Pushed == [block : Block, data : Bytes]

\* The types that the status registers depend on.
RegisterTypes ==
  /\ locked \in [Block -> BOOLEAN] /\ erasing \in [Block -> BOOLEAN]
  /\ status \in [Block -> Status]
  /\ chip \in ChipStatus
  /\ page \in [{0, 1} -> {0, 1}]
  /\ queue \in Seq(Pushed)
  /\ at \in Block \cup {None}
  /\ writable \in BOOLEAN /\ disk.locked \in [Block -> BOOLEAN]

\* The registers agree at any time, and not only when the game may read them; in the
\* middle of main() it takes that an erase is found before any later block is looked at.
RegistersAgree ==
  /\ \A b \in Block : erasing[b] => ~status[b].ready
  /\ chip.ready <=> \A b \in Block : status[b].ready

FlashInv == RegisterTypes /\ RegistersAgree

LEMMA BlockFacts == 0 \in Block /\ None \notin Block
BY BSMemoryAssumption DEF Block, None

\* Addresses wrap at the end of the chip.
LEMMA Wraps == \A i \in Nat : i % Blocks \in Block
BY BSMemoryAssumption DEF Block

\* Status registers whose `ready' bits, with that of the chip, stay what they are.
SameReady ==
  /\ \A b \in Block : status'[b].ready = status[b].ready
  /\ chip'.ready = chip.ready

LEMMA SameReadyKeeps ==
  ASSUME FlashInv, RegisterTypes', SameReady, erasing' = erasing
  PROVE  FlashInv'
BY DEF FlashInv, RegistersAgree, SameReady

\* The byte that completes a command is a byte, of a block.
LEMMA PushType ==
  ASSUME queue \in Seq(Pushed), NEW b \in Block, NEW byte \in Bytes
  PROVE  /\ Push(b, byte) \in Seq(Pushed) /\ Push(b, byte) # <<>>
         /\ Push(b, byte)[Len(Push(b, byte))] \in Pushed
         /\ \A q \in QueueAfter(Push(b, byte)) : q \in Seq(Pushed)
<1>1. [block |-> b, data |-> byte] \in Pushed
  BY DEF Pushed
<1>2. Push(b, byte) \in Seq(Pushed) /\ Push(b, byte) # <<>>
  BY <1>1 DEF Push
<1>3. Len(Push(b, byte)) \in 1 .. Len(Push(b, byte))
  BY <1>2
<1>4. Push(b, byte)[Len(Push(b, byte))] \in Pushed
  BY <1>2, <1>3
<1>5. Popped(Push(b, byte)) \in Seq(Pushed)
  BY <1>2, <1>3 DEF Popped
<1>6. \A q \in QueueAfter(Push(b, byte)) : q = <<>> \/ q = Popped(Push(b, byte))
  BY DEF QueueAfter
<1>7. <<>> \in Seq(Pushed)
  OBVIOUS
<1> QED
  BY <1>2, <1>4, <1>5, <1>6, <1>7

\* Every command, when it is complete.
LEMMA ExecuteKeeps ==
  ASSUME FlashInv, NEW q \in Seq(Pushed), q # <<>>, Execute(q),
         queue' \in Seq(Pushed), UNCHANGED <<at, writable, disk>>
  PROVE  FlashInv'
<1> USE DEF FlashInv
<1> DEFINE last == q[Len(q)]
           bits == {Bit(q[n].data) : n \in 2 .. Len(q)}
<1>1. last \in Pushed /\ last.block \in Block
  <2>1. Len(q) \in 1 .. Len(q)
    OBVIOUS
  <2>2. last \in Pushed
    BY <2>1
  <2> QED
    BY <2>2 DEF Pushed
<1>2. \A x : Bit(x) \in {0, 1}
  BY DEF Bit
<1>3. ASSUME NEW B \in SUBSET Block, NEW bit, NEW n \in {0, 1}, WriteBlocks(B, bit, n)
      PROVE  FlashInv'
  <2>1. \A b \in Block : status'[b] \in Status /\ status'[b].ready = status[b].ready
    BY <1>3 DEF WriteBlocks, RegisterTypes, Status
  <2>2. status' \in [Block -> Status]
    BY <1>3, <2>1 DEF WriteBlocks
  <2>3. chip' \in ChipStatus /\ chip'.ready = chip.ready
    BY <1>3 DEF WriteBlocks, FailIf, RegisterTypes, ChipStatus
  <2> QED
    BY <1>3, <2>1, <2>2, <2>3, SameReadyKeeps DEF WriteBlocks, RegisterTypes, SameReady
<1>4. ASSUME NEW B \in SUBSET Block, B # {}, RequestErase(B) PROVE FlashInv'
  <2>1. /\ erasing' = [b \in Block |-> b \in B \/ erasing[b]]
        /\ status' = [b \in Block |->
                        IF b \in B THEN [status[b] EXCEPT !.ready = FALSE] ELSE status[b]]
        /\ chip' = [[chip EXCEPT !.ready = FALSE] EXCEPT !.mode = "compatible"]
        /\ page' = page /\ locked' = locked
    BY <1>4 DEF RequestErase, NotReady, contents
  <2>2. RegisterTypes'
    BY <2>1 DEF RegisterTypes, Status, ChipStatus
  <2>3. ~chip'.ready /\ \A b \in B : ~status'[b].ready
    BY <2>1 DEF RegisterTypes, Status, ChipStatus
  <2>4. \A b \in Block : erasing'[b] => ~status'[b].ready
    BY <2>1, <2>3 DEF RegistersAgree
  <2> QED
    BY <1>4, <2>2, <2>3, <2>4 DEF RegistersAgree
<1>5. ASSUME NEW b \in Block, LockBlock(b) PROVE FlashInv'
  <2>1. status' \in [Block -> Status] /\ \A c \in Block : status'[c].ready = status[c].ready
    BY <1>5 DEF LockBlock, RegisterTypes, Status
  <2>2. chip' \in ChipStatus /\ chip'.ready = chip.ready
    BY <1>5 DEF LockBlock, FailIf, RegisterTypes, ChipStatus
  <2> QED
    BY <1>5, <2>1, <2>2, SameReadyKeeps DEF LockBlock, RegisterTypes, SameReady
<1>6. CASE Fail \/ ClearStatus \/ UploadLocks
  <2>1. status' \in [Block -> Status] /\ \A c \in Block : status'[c].ready = status[c].ready
    <3>1. CASE Fail
      BY <3>1 DEF Fail, RegisterTypes
    <3>2. CASE ClearStatus
      BY <3>2 DEF ClearStatus, RegisterTypes, Status
    <3>3. CASE UploadLocks
      <4>1. \A c \in Block : locked[c] \in BOOLEAN
        BY DEF RegisterTypes
      <4> QED
        BY <3>3, <4>1 DEF UploadLocks, RegisterTypes, Status
    <3> QED
      BY <1>6, <3>1, <3>2, <3>3
  <2>2. chip' \in ChipStatus /\ chip'.ready = chip.ready
    BY <1>6 DEF Fail, ClearStatus, UploadLocks, FailIf, RegisterTypes, ChipStatus
  <2> QED
    BY <1>6, <2>1, <2>2, SameReadyKeeps
       DEF Fail, ClearStatus, UploadLocks, contents, RegisterTypes, SameReady
<1>6a. ASSUME NEW bs \in SUBSET {0, 1}, LoadPage(bs) \/ SwapPage(bs) PROVE FlashInv'
  <2>1. page' \in [{0, 1} -> {0, 1}]
    BY <1>6a DEF LoadPage, SwapPage, RegisterTypes, ChipStatus
  <2>2. chip' \in ChipStatus /\ chip'.ready = chip.ready
    BY <1>6a DEF LoadPage, SwapPage, RegisterTypes, ChipStatus
  <2> QED
    BY <1>6a, <2>1, <2>2, SameReadyKeeps DEF LoadPage, SwapPage, contents, RegisterTypes, SameReady
<1>7. CASE Select(q[1].data)
  <2>1. \A c \in DOMAIN ReadMode :
          ReadMode[c] \in {"flash", "chip", "page", "compatible", "extended"}
    BY DEF ReadMode
  <2>2. chip' = [chip EXCEPT !.mode = ReadMode[q[1].data]] /\ q[1].data \in DOMAIN ReadMode
    BY <1>7 DEF Select, Mode
  <2>3. chip' \in ChipStatus /\ chip'.ready = chip.ready
    BY <2>1, <2>2 DEF RegisterTypes, ChipStatus
  <2> QED
    BY <1>7, <2>3, SameReadyKeeps DEF Select, contents, RegisterTypes, SameReady
<1>8. CASE PageToFlash(last.block)
  <2>1. PICK count \in 0 .. MaxCount :
          WriteBlocks({(last.block + n) % Blocks : n \in 0 .. count},
                      page[chip.page], 1 - chip.page)
    BY <1>8 DEF PageToFlash
  <2>2. \A n \in 0 .. count : (last.block + n) % Blocks \in Block
    <3>1. last.block \in Nat
      BY <1>1, BSMemoryAssumption DEF Block
    <3>2. \A n \in 0 .. count : last.block + n \in Nat
      BY <2>1, <3>1, BSMemoryAssumption
    <3> QED
      BY <3>2, Wraps
  <2>3. 1 - chip.page \in {0, 1}
    BY DEF RegisterTypes, ChipStatus
  <2> QED
    BY <1>3, <2>1, <2>2, <2>3
<1>9. CASE UNCHANGED <<contents, erasing, registers>>
  BY <1>9, SameReadyKeeps DEF contents, registers, RegisterTypes, SameReady
<1>10. bits \in SUBSET {0, 1} /\ {0, 1} \in SUBSET {0, 1}
  BY <1>2
<1>11. {page[chip.page]} \in SUBSET {0, 1} /\ {Bit(last.data), page[chip.page]} \in SUBSET {0, 1}
  BY <1>2 DEF RegisterTypes, ChipStatus
<1>12. chip.page \in {0, 1}
  BY DEF RegisterTypes, ChipStatus
<1>13. {last.block} \in SUBSET Block /\ {last.block} # {} /\ Block # {}
  BY <1>1, BlockFacts
<1> QED
  <2>1. \/ Fail
        \/ PageToFlash(last.block)
        \/ WriteBlocks({last.block}, Bit(last.data), chip.page)
        \/ \E bit \in bits : WriteBlocks({last.block}, bit, chip.page)
        \/ RequestErase({last.block}) \/ RequestErase(Block)
        \/ LockBlock(last.block) \/ UploadLocks \/ ClearStatus
        \/ SwapPage({page[chip.page]}) \/ SwapPage({0, 1})
        \/ LoadPage({Bit(last.data), page[chip.page]})
        \/ Select(q[1].data)
        \/ UNCHANGED <<contents, erasing, registers>>
    BY Zenon DEF Execute
  <2> QED
    BY <1>1, <1>3, <1>4, <1>5, <1>6, <1>6a, <1>7, <1>8, <1>9, <1>10, <1>11, <1>12, <1>13, <2>1

LEMMA FlashInvInit == Init => FlashInv
<1> SUFFICES ASSUME Init PROVE FlashInv
  OBVIOUS
<1>1. RegisterTypes
  <2>1. disk.locked = [b \in Block |-> TRUE]
    BY DEF Init
  <2>2. locked \in [Block -> BOOLEAN] /\ disk.locked \in [Block -> BOOLEAN]
    BY <2>1 DEF Init
  <2>3. erasing \in [Block -> BOOLEAN] /\ status \in [Block -> Status]
    BY DEF Init, Status
  <2>4. chip \in ChipStatus /\ page \in [{0, 1} -> {0, 1}] /\ writable \in BOOLEAN
    BY DEF Init, ChipStatus
  <2>5. queue \in Seq(Pushed) /\ at \in Block \cup {None}
    BY DEF Init
  <2> QED
    BY <2>2, <2>3, <2>4, <2>5 DEF RegisterTypes
<1>2. RegistersAgree
  BY DEF Init, RegistersAgree
<1> QED
  BY <1>1, <1>2 DEF FlashInv

\* Power and connect set every register.
LEMMA ResetKeeps ==
  ASSUME Reset, page' \in [{0, 1} -> {0, 1}], locked' \in [Block -> BOOLEAN],
         writable' \in BOOLEAN, disk'.locked \in [Block -> BOOLEAN]
  PROVE  FlashInv'
<1>1. RegisterTypes'
  BY DEF Reset, RegisterTypes, Status, ChipStatus
<1>2. RegistersAgree'
  BY DEF Reset, RegistersAgree
<1> QED
  BY <1>1, <1>2 DEF FlashInv

LEMMA FlashInvStep == FlashInv /\ [Next]_vars => FlashInv'
<1> SUFFICES ASSUME FlashInv, [Next]_vars PROVE FlashInv'
  OBVIOUS
<1> USE DEF FlashInv
<1>1. ASSUME NEW b \in Block, NEW byte \in Bytes, Write(b, byte) PROVE FlashInv'
  <2> DEFINE q == Push(b, byte)
  <2>1. q \in Seq(Pushed) /\ q # <<>> /\ \A r \in QueueAfter(q) : r \in Seq(Pushed)
    BY PushType DEF RegisterTypes
  <2>2. CASE queue' = q /\ UNCHANGED <<contents, erasing, registers>>
    BY <1>1, <2>1, <2>2, SameReadyKeeps
       DEF Write, contents, registers, RegisterTypes, SameReady
  <2>3. CASE queue' \in QueueAfter(q) /\ Execute(q)
    <3>1. UNCHANGED <<at, writable, disk>>
      BY <1>1 DEF Write
    <3> QED
      BY <2>1, <2>3, <3>1, ExecuteKeeps
  <2> QED
    BY <1>1, <2>2, <2>3 DEF Write
<1>2. CASE SetWritable \/ CpuStep \/ PowerOff \/ UNCHANGED vars
  BY <1>2, SameReadyKeeps DEF SetWritable, CpuStep, PowerOff, vars, contents, registers,
                              RegisterTypes, SameReady
<1>3. CASE BeginErase
  <2>1. PICK b \in Erases : /\ at' = b
                            /\ \A c \in Erases : b <= c
                            /\ Ready(0 .. b - 1)
                            /\ UNCHANGED <<contents, erasing, chip, page, queue, writable, disk>>
    BY <1>3 DEF BeginErase
  <2>2. b \in Block /\ erasing[b]
    BY DEF Erases
  <2>3. status' = [c \in Block |-> IF c \in 0 .. b - 1 THEN [status[c] EXCEPT !.ready = TRUE]
                                  ELSE status[c]]
    BY <2>1 DEF Ready
  <2>4. RegisterTypes'
    BY <2>1, <2>2, <2>3 DEF RegisterTypes, contents, Status
  <2>5. \A c \in Block : erasing[c] => b <= c
    BY <2>1 DEF Erases
  <2>6. \A c \in Block : erasing'[c] => status'[c] = status[c] /\ ~status'[c].ready
    BY <2>1, <2>2, <2>3, <2>5, BSMemoryAssumption DEF RegistersAgree, Block
  <2>7. ~chip'.ready /\ ~status'[b].ready
    BY <2>1, <2>2, <2>6 DEF RegistersAgree
  <2> QED
    BY <2>2, <2>4, <2>6, <2>7 DEF RegistersAgree
<1>4. CASE EndErase
  <2>1. at \in Block
    BY <1>4 DEF EndErase, RegisterTypes
  <2>2. RegisterTypes'
    BY <1>4, <2>1 DEF EndErase, Done, contents, RegisterTypes, Status
  <2>3. /\ chip' = chip
        /\ \A c \in Block : erasing'[c] => erasing[c]
        /\ \A c \in Block : status'[c].ready <=> status[c].ready
    BY <1>4, <2>1 DEF EndErase, Done, RegisterTypes, Status
  <2>4. \A b \in Block : erasing'[b] => ~status'[b].ready
    BY <2>3 DEF RegistersAgree
  <2>5. chip'.ready <=> \A b \in Block : status'[b].ready
    BY <2>3 DEF RegistersAgree
  <2> QED
    BY <2>2, <2>4, <2>5 DEF RegistersAgree
<1>5. CASE Idle
  <2>1. \A b \in Block : ~erasing[b]
    BY <1>5 DEF Idle, Erases
  <2>2. /\ status' = [b \in Block |-> IF b \in Block THEN [status[b] EXCEPT !.ready = TRUE]
                                     ELSE status[b]]
        /\ chip' = [chip EXCEPT !.ready = TRUE]
        /\ UNCHANGED <<contents, erasing, page, queue, writable, disk, at>>
    BY <1>5 DEF Idle, Ready
  <2>3. RegisterTypes'
    BY <2>2 DEF RegisterTypes, contents, Status, ChipStatus
  <2>4. RegistersAgree'
    BY <2>1, <2>2 DEF RegistersAgree, RegisterTypes, Status, ChipStatus
  <2> QED
    BY <2>3, <2>4
<1>6. CASE Connect
  <2>1. page' \in [{0, 1} -> {0, 1}]
    BY <1>6, BSMemoryAssumption DEF Connect
  <2> QED
    BY <1>6, <2>1, ResetKeeps DEF Connect, RegisterTypes
<1>7. CASE Power
  BY <1>7, ResetKeeps DEF Power, contents, RegisterTypes
<1>8. ASSUME NEW program, Disconnect(program) PROVE FlashInv'
  <2>1. UNCHANGED <<contents, erasing, registers, queue, writable, at>>
    BY <1>8 DEF Disconnect
  <2>2. disk'.locked = locked
    BY <1>8 DEF Disconnect
  <2> QED
    BY <2>1, <2>2, SameReadyKeeps DEF contents, registers, RegisterTypes, SameReady
<1> QED
  BY <1>1, <1>2, <1>3, <1>4, <1>5, <1>6, <1>7, <1>8 DEF Next, Chip, Unload, Eject, Bytes

LEMMA FlashInvAlways == Spec => []FlashInv
BY FlashInvInit, FlashInvStep, PTL DEF Spec

\* No status register says that a block or the chip is ready while an erase of it is
\* outstanding, and block status and chip status agree.
THEOREM ReadyMeansIdleAlways == Spec => []ReadyMeansIdle
<1>1. FlashInv => ReadyMeansIdle
  BY DEF FlashInv, RegistersAgree, ReadyMeansIdle
<1> QED
  BY <1>1, FlashInvAlways, PTL
-----------------------------------------------------------------------------
(***************************************************************************)
(* Contents.  Where identifiers suffice (Blocks <= IDs), each block is a    *)
(* part of the memory of its own, and only two things change it: a write,   *)
(* which clears bits, and the end of an erase, which is counted.           *)
(***************************************************************************)
MemoryTypes ==
  /\ memory \in [Block -> {0, 1}] /\ erased \in [Block -> Nat]
  /\ disk.memory \in [Block -> {0, 1}] /\ disk.erased \in [Block -> Nat]

LEMMA OwnPart == ASSUME Blocks <= IDs PROVE \A b \in Block : Physical(b) = b
BY BSMemoryAssumption DEF Block, Physical

\* What a step may do to the contents: nothing, write, or end an erase.
Untouched == UNCHANGED <<memory, erased>>
Writes ==
  /\ erased' = erased
  /\ memory' \in [Block -> {0, 1}]
  /\ \A b \in Block : memory'[b] # memory[b] => memory'[b] = 0 /\ Writable(b)
EndsErase ==
  /\ at \in Block /\ Writable(at)
  /\ memory' = [memory EXCEPT ![at] = 1]
  /\ erased' = [erased EXCEPT ![at] = @ + 1]

LEMMA WriteBlocksWrites ==
  ASSUME MemoryTypes, Blocks <= IDs,
         NEW B \in SUBSET Block, NEW bit, NEW n, WriteBlocks(B, bit, n)
  PROVE  Writes
<1> DEFINE cells == {Physical(b) : b \in B \ {b \in B : ~Writable(b)}}
<1>1. memory' = [i \in Block |-> IF i \in cells THEN Cleared(memory[i], bit) ELSE memory[i]]
  BY DEF WriteBlocks
<1>2. cells = {b \in B : Writable(b)}
  BY OwnPart
<1>3. \A i \in Block : Cleared(memory[i], bit) \in {0, memory[i]}
  BY DEF Cleared
<1>4. memory' \in [Block -> {0, 1}]
  BY <1>1, <1>3 DEF MemoryTypes
<1>5. ASSUME NEW b \in Block, memory'[b] # memory[b] PROVE memory'[b] = 0 /\ Writable(b)
  BY <1>1, <1>2, <1>3, <1>5
<1> QED
  BY <1>4, <1>5 DEF Writes, WriteBlocks

LEMMA ExecuteWrites ==
  ASSUME MemoryTypes, RegisterTypes, Blocks <= IDs,
         NEW q \in Seq(Pushed), q # <<>>, Execute(q)
  PROVE  Untouched \/ Writes
<1> DEFINE last == q[Len(q)]
           bits == {Bit(q[n].data) : n \in 2 .. Len(q)}
<1>1. last.block \in Block
  <2>1. Len(q) \in 1 .. Len(q)
    OBVIOUS
  <2>2. last \in Pushed
    BY <2>1
  <2> QED
    BY <2>2 DEF Pushed
<1>2. CASE PageToFlash(last.block)
  <2>1. PICK count \in 0 .. MaxCount :
          WriteBlocks({(last.block + n) % Blocks : n \in 0 .. count},
                      page[chip.page], 1 - chip.page)
    BY <1>2 DEF PageToFlash
  <2>2. last.block \in Nat
    BY <1>1, BSMemoryAssumption DEF Block
  <2>3. \A n \in 0 .. count : last.block + n \in Nat
    BY <2>1, <2>2, BSMemoryAssumption
  <2> QED
    BY <2>1, <2>3, Wraps, WriteBlocksWrites
<1>3. CASE \E bit : WriteBlocks({last.block}, bit, chip.page)
  BY <1>1, <1>3, WriteBlocksWrites
<1>4. CASE UNCHANGED contents \/ LockBlock(last.block)
  BY <1>4 DEF contents, LockBlock, Untouched
<1>5. \/ PageToFlash(last.block)
      \/ \E bit : WriteBlocks({last.block}, bit, chip.page)
      \/ UNCHANGED contents \/ LockBlock(last.block)
  <2>1. \/ Fail \/ PageToFlash(last.block)
        \/ \E bit : WriteBlocks({last.block}, bit, chip.page)
        \/ RequestErase({last.block}) \/ RequestErase(Block)
        \/ LockBlock(last.block) \/ UploadLocks \/ ClearStatus
        \/ SwapPage({page[chip.page]}) \/ SwapPage({0, 1})
        \/ LoadPage({Bit(last.data), page[chip.page]})
        \/ Select(q[1].data)
        \/ UNCHANGED <<contents, erasing, registers>>
    BY Zenon DEF Execute
  <2> QED
    BY <2>1 DEF Fail, RequestErase, UploadLocks, ClearStatus, SwapPage, LoadPage, Select
<1> QED
  BY <1>2, <1>3, <1>4, <1>5

\* While the power is on, the contents change in these ways, and the types are kept.
LEMMA ContentsStep ==
  ASSUME FlashInv, MemoryTypes, Blocks <= IDs, [Next]_vars
  PROVE  MemoryTypes' /\ (slot = "on" => Untouched \/ Writes \/ EndsErase)
<1> USE DEF FlashInv
<1>1. ASSUME NEW b \in Block, NEW byte \in Bytes, Write(b, byte)
      PROVE  disk' = disk /\ (Untouched \/ Writes)
  <2> DEFINE q == Push(b, byte)
  <2>1. q \in Seq(Pushed) /\ q # <<>>
    BY PushType DEF RegisterTypes
  <2>2. CASE UNCHANGED <<contents, erasing, registers>>
    BY <1>1, <2>2 DEF Write, contents, Untouched
  <2>3. CASE Execute(q)
    BY <1>1, <2>1, <2>3, ExecuteWrites DEF Write
  <2> QED
    BY <1>1, <2>2, <2>3 DEF Write
<1>2. ASSUME EndErase PROVE disk' = disk /\ (Untouched \/ EndsErase)
  <2>1. at \in Block /\ Physical(at) = at
    BY <1>2, OwnPart DEF EndErase, RegisterTypes
  <2> QED
    BY <1>2, <2>1 DEF EndErase, EndsErase, Untouched, contents
<1>3. ASSUME SetWritable \/ CpuStep \/ BeginErase \/ Idle \/ Power \/ PowerOff \/ UNCHANGED vars
      PROVE  disk' = disk /\ Untouched
  BY <1>3 DEF SetWritable, CpuStep, BeginErase, Idle, Power, PowerOff, vars, contents, Untouched
<1>4. CASE Connect
  BY <1>4 DEF Connect, MemoryTypes
<1>5. CASE Unload \/ Eject
  <2>1. PICK program \in {memory, disk.memory} : Disconnect(program)
    BY <1>5 DEF Unload, Eject, Saved
  <2>2. /\ UNCHANGED contents
        /\ disk' = [memory |-> program, erased |-> erased, locked |-> locked]
    BY <2>1 DEF Disconnect
  <2> QED
    BY <2>1, <2>2 DEF contents, MemoryTypes, Untouched
<1>6. ASSUME disk' = disk, Untouched \/ Writes \/ EndsErase PROVE MemoryTypes'
  BY <1>6 DEF MemoryTypes, Untouched, Writes, EndsErase
<1> QED
  BY <1>1, <1>2, <1>3, <1>4, <1>5, <1>6 DEF Next, Chip, Bytes

LEMMA ContentsInvAlways == ASSUME Blocks <= IDs PROVE Spec => [](FlashInv /\ MemoryTypes)
<1>1. Init => MemoryTypes
  <2> SUFFICES ASSUME Init PROVE MemoryTypes
    OBVIOUS
  <2>1. disk.memory \in [Block -> {0, 1}] /\ disk.erased = [b \in Block |-> 1]
    BY DEF Init
  <2> QED
    BY <2>1 DEF Init, MemoryTypes
<1>2. FlashInv /\ MemoryTypes /\ [Next]_vars => MemoryTypes'
  BY ContentsStep
<1> QED
  BY <1>1, <1>2, FlashInvInit, FlashInvStep, PTL DEF Spec

\* A block that is locked when the change would happen keeps its contents, whatever was
\* requested before it was locked (Block::write and Block::erase).
THEOREM ProtectedAlwaysKept == ASSUME Blocks <= IDs PROVE Spec => ProtectedKept
<1>1. ASSUME FlashInv, MemoryTypes, [Next]_vars, slot = "on",
             NEW b \in Block, memory'[b] # memory[b]
      PROVE  writable \/ ~status[b].locked
  <2>1. Untouched \/ Writes \/ EndsErase
    BY <1>1, ContentsStep
  <2>2. Writable(b)
    BY <1>1, <2>1 DEF Untouched, Writes, EndsErase, MemoryTypes
  <2> QED
    BY <2>2 DEF Writable
<1>2. FlashInv /\ MemoryTypes /\ [Next]_vars
      => [slot = "on" => \A b \in Block : memory'[b] # memory[b] => writable \/ ~status[b].locked]_vars
  BY <1>1
<1> QED
  BY <1>2, ContentsInvAlways, PTL DEF ProtectedKept, Spec

\* Bits are set by erases only, and no erase that set any goes uncounted.
THEOREM ErasesAlwaysCounted == ASSUME Blocks <= IDs PROVE Spec => ErasesCounted
<1>1. ASSUME FlashInv, MemoryTypes, [Next]_vars, slot = "on",
             NEW b \in Block, memory'[b] > memory[b]
      PROVE  erased'[b] = erased[b] + 1
  <2>1. Untouched \/ Writes \/ EndsErase
    BY <1>1, ContentsStep
  <2>2. memory[b] \in {0, 1}
    BY <1>1 DEF MemoryTypes
  <2> QED
    BY <1>1, <2>1, <2>2 DEF Untouched, Writes, EndsErase, MemoryTypes
<1>2. FlashInv /\ MemoryTypes /\ [Next]_vars
      => [slot = "on" => \A b \in Block : memory'[b] > memory[b] => erased'[b] = erased[b] + 1]_vars
  BY <1>1
<1> QED
  BY <1>2, ContentsInvAlways, PTL DEF ErasesCounted, Spec
\* An erase empties the block whose erase count it raises, and no other one.
THEOREM ErasedAlwaysEmpty == ASSUME Blocks <= IDs PROVE Spec => ErasedIsEmpty
<1>1. ASSUME FlashInv, MemoryTypes, [Next]_vars, slot = "on",
             NEW b \in Block, erased'[b] = erased[b] + 1
      PROVE  memory'[b] = 1
  <2>1. Untouched \/ Writes \/ EndsErase
    BY <1>1, ContentsStep
  <2>2. erased[b] \in Nat
    BY <1>1 DEF MemoryTypes
  <2> QED
    BY <1>1, <2>1, <2>2 DEF Untouched, Writes, EndsErase, MemoryTypes
<1>2. FlashInv /\ MemoryTypes /\ [Next]_vars
      => [slot = "on" => \A b \in Block : erased'[b] = erased[b] + 1 => memory'[b] = 1]_vars
  BY <1>1
<1> QED
  BY <1>2, ContentsInvAlways, PTL DEF ErasedIsEmpty, Spec
-----------------------------------------------------------------------------
(***************************************************************************)
(* Types, for chips of any size.  A requested erase is still uncounted, a   *)
(* chip that is waited for is behind unless it has nothing to do, and a     *)
(* command in the queue is not complete.                                    *)
(***************************************************************************)
CountsBounded ==
  /\ \A b \in Block : erasing[b] => erased[b] < MaxErased
  /\ at # None => erasing[at]

LeadBounded ==
  /\ lead \in -1 .. MaxLead
  /\ turn = "cpu" => lead >= 0
  /\ turn = "chip" /\ (Erases # {} \/ at # None) => lead <= 0

QueueShape ==
  queue # <<>> => queue[1].data \in Command /\ Len(queue) < Length[queue[1].data]

ContentTypes ==
  /\ memory \in [Block -> {0, 1}] /\ erased \in [Block -> 1 .. MaxErased]
  /\ disk \in Disk
  /\ slot \in {"out", "off", "on"} /\ turn \in {"cpu", "chip"}

ChipInv == FlashInv /\ ContentTypes /\ CountsBounded /\ LeadBounded /\ QueueShape

LEMMA PhysicalExists == \A b \in Block : Physical(b) \in Block
<1>1. TAKE b \in Block
<1>2. b \in Nat /\ b < Blocks /\ IDs \in Nat \ {0}
  BY BSMemoryAssumption DEF Block
<1>3. b % IDs \in Nat /\ b % IDs <= b
  BY <1>2
<1>4. QED BY <1>2, <1>3, BSMemoryAssumption DEF Physical, Block

LEMMA Lengths == \A c \in DOMAIN Length : Length[c] \in 1 .. 4
BY DEF Length

\* A command that was executed changed neither threads nor what is on disk; the counts of
\* the erases it requested are below the bound.
LEMMA ExecuteTypes ==
  ASSUME FlashInv, ContentTypes, CountsBounded,
         NEW q \in Seq(Pushed), q # <<>>, Execute(q), UNCHANGED <<slot, disk, turn, at>>
  PROVE  ContentTypes' /\ CountsBounded'
<1> DEFINE last == q[Len(q)]
           bits == {Bit(q[n].data) : n \in 2 .. Len(q)}
<1>1. last.block \in Block
  <2>1. Len(q) \in 1 .. Len(q)
    OBVIOUS
  <2>2. last \in Pushed
    BY <2>1
  <2>3. QED BY <2>2 DEF Pushed
<1>2. ASSUME NEW B, NEW bit, NEW n, WriteBlocks(B, bit, n)
      PROVE  ContentTypes' /\ CountsBounded'
  <2>1. \A i \in Block : Cleared(memory[i], bit) \in {0, 1}
    BY DEF Cleared, ContentTypes
  <2>2. memory' \in [Block -> {0, 1}] /\ erased' = erased /\ erasing' = erasing
    BY <1>2, <2>1 DEF WriteBlocks, ContentTypes
  <2>3. QED BY <2>2 DEF ContentTypes, CountsBounded
<1>3. ASSUME NEW B \in SUBSET Block, RequestErase(B) PROVE ContentTypes' /\ CountsBounded'
  <2>1. /\ \A b \in B : erased[b] < MaxErased
        /\ erasing' = [b \in Block |-> b \in B \/ erasing[b]]
        /\ memory' = memory /\ erased' = erased
    BY <1>3 DEF RequestErase, contents
  <2>2. at # None => at \in Block
    BY DEF FlashInv, RegisterTypes
  <2>3. QED BY <2>1, <2>2 DEF ContentTypes, CountsBounded
<1>4. CASE UNCHANGED <<memory, erased, erasing>>
  BY <1>4 DEF ContentTypes, CountsBounded
<1>5. QED
  <2>1. \/ Fail \/ PageToFlash(last.block)
        \/ \E bit : WriteBlocks({last.block}, bit, chip.page)
        \/ RequestErase({last.block}) \/ RequestErase(Block)
        \/ LockBlock(last.block) \/ UploadLocks \/ ClearStatus
        \/ SwapPage({page[chip.page]}) \/ SwapPage({0, 1})
        \/ LoadPage({Bit(last.data), page[chip.page]})
        \/ Select(q[1].data)
        \/ UNCHANGED <<contents, erasing, registers>>
    BY Zenon DEF Execute
  <2>2. CASE \/ Fail \/ LockBlock(last.block) \/ UploadLocks \/ ClearStatus
             \/ SwapPage({page[chip.page]}) \/ SwapPage({0, 1})
             \/ LoadPage({Bit(last.data), page[chip.page]})
             \/ Select(q[1].data)
             \/ UNCHANGED <<contents, erasing, registers>>
    BY <1>4, <2>2 DEF Fail, LockBlock, UploadLocks, ClearStatus, SwapPage, LoadPage,
                      Select, contents
  <2>3. CASE PageToFlash(last.block)
    BY <1>2, <2>3 DEF PageToFlash
  <2>4. CASE \E bit : WriteBlocks({last.block}, bit, chip.page)
    BY <1>2, <2>4
  <2>5. CASE RequestErase({last.block}) \/ RequestErase(Block)
    BY <1>1, <1>3, <2>5
  <2>6. QED BY <2>1, <2>2, <2>3, <2>4, <2>5

\* A byte makes a command longer or completes it, and one that is complete is taken out,
\* but for a load that goes on, which leaves room for one byte.
LEMMA PushShape ==
  ASSUME queue \in Seq(Pushed), QueueShape, NEW b \in Block, NEW byte \in Byte,
         LET q == Push(b, byte)
         IN  IF Len(q) < Length[q[1].data] THEN queue' = q ELSE queue' \in QueueAfter(q)
  PROVE  QueueShape'
<1> DEFINE q == Push(b, byte)
           first == q[1].data
<1>1. Len(queue) < 4
  BY Lengths, BSMemoryAssumption DEF QueueShape
<1>2. q = Append(queue, [block |-> b, data |-> byte])
  BY <1>1 DEF Push
<1>3. Len(q) = Len(queue) + 1 /\ q \in Seq(Pushed \cup {[block |-> b, data |-> byte]})
  BY <1>2
<1>4. first \in Command
  <2>1. CASE queue = <<>>
    BY <2>1, <1>2 DEF Byte
  <2>2. CASE queue # <<>>
    <3>1. Len(queue) >= 1
      BY <2>2
    <3>2. q[1] = queue[1]
      BY <3>1, <1>2
    <3>3. QED BY <2>2, <3>2 DEF QueueShape
  <2>3. QED BY <2>1, <2>2
<1>5. CASE Len(q) < Length[first]
  BY <1>4, <1>5 DEF QueueShape
<1>6. CASE ~(Len(q) < Length[first])
  <2>1. queue' = <<>> \/ (first = "loadPages" /\ queue' = Popped(q))
    BY <1>6 DEF QueueAfter
  <2>2. CASE queue' = <<>>
    BY <2>2 DEF QueueShape
  <2>3. CASE first = "loadPages" /\ queue' = Popped(q)
    <3>1. Length["loadPages"] = 4
      BY DEF Length
    <3>2. Len(q) = 4
      BY <1>1, <1>3, <1>6, <2>3, <3>1
    <3>3. Popped(q)[1] = q[1] /\ Len(Popped(q)) = 3
      <4>1. Popped(q) = SubSeq(q, 1, 3)
        BY <3>2 DEF Popped
      <4>2. \A X : \A r \in Seq(X) : Len(r) = 4 => SubSeq(r, 1, 3)[1] = r[1] /\ Len(SubSeq(r, 1, 3)) = 3
        OBVIOUS
      <4>3. HIDE DEF q
      <4>4. QED BY <1>3, <3>2, <4>1, <4>2
    <3>4. QED BY <1>4, <2>3, <3>1, <3>3 DEF QueueShape
  <2>4. QED BY <2>1, <2>2, <2>3
<1>7. QED BY <1>5, <1>6

LEMMA ChipInvInit == Init => ChipInv
<1>1. SUFFICES ASSUME Init PROVE ChipInv
  OBVIOUS
<1>2. FlashInv
  BY <1>1, FlashInvInit
<1>3. 1 \in 1 .. MaxErased /\ 0 \in -1 .. MaxLead
  BY BSMemoryAssumption
<1>4. disk \in Disk /\ erased = [b \in Block |-> 1] /\ memory = disk.memory
  BY <1>1, <1>3 DEF Init, Disk
<1>5. ContentTypes
  BY <1>1, <1>3, <1>4 DEF Init, ContentTypes, Disk
<1>6. CountsBounded /\ LeadBounded /\ QueueShape
  BY <1>1, <1>3 DEF Init, CountsBounded, LeadBounded, QueueShape
<1>7. QED BY <1>2, <1>5, <1>6 DEF ChipInv

\* A reset leaves nothing to do.
LEMMA ResetTypes == Reset => CountsBounded' /\ LeadBounded' /\ QueueShape'
<1>1. 0 \in -1 .. MaxLead
  BY BSMemoryAssumption
<1>2. QED BY <1>1 DEF Reset, CountsBounded, LeadBounded, QueueShape

LEMMA ChipInvStep == ChipInv /\ [Next]_vars => ChipInv'
<1> SUFFICES ASSUME ChipInv, [Next]_vars PROVE ChipInv'
  OBVIOUS
<1>1. FlashInv /\ FlashInv'
  BY FlashInvStep DEF ChipInv
<1>2. ContentTypes /\ CountsBounded /\ LeadBounded /\ QueueShape
  BY DEF ChipInv
<1>3. SUFFICES ContentTypes' /\ CountsBounded' /\ LeadBounded' /\ QueueShape'
  BY <1>1 DEF ChipInv
<1>4. /\ EraseTime \in Nat /\ MaxLead \in Nat /\ EraseTime < MaxLead
      /\ MaxErased \in Nat
  BY BSMemoryAssumption
<1>5. ASSUME NEW b \in Block, NEW byte \in Bytes, Write(b, byte)
      PROVE  ContentTypes' /\ CountsBounded' /\ LeadBounded' /\ QueueShape'
  <2> DEFINE q == Push(b, byte)
  <2>1. q \in Seq(Pushed) /\ q # <<>> /\ queue \in Seq(Pushed)
    BY <1>1, PushType DEF FlashInv, RegisterTypes
  <2>2. UNCHANGED <<slot, disk, turn, lead, at>> /\ turn = "cpu" /\ byte \in Byte
    BY <1>5 DEF Write, CpuRuns
  <2>3. IF Len(q) < Length[q[1].data]
        THEN queue' = q /\ UNCHANGED <<contents, erasing, registers>>
        ELSE queue' \in QueueAfter(q) /\ Execute(q)
    BY <1>5 DEF Write
  <2>4. QueueShape'
    BY <1>2, <2>1, <2>2, <2>3, PushShape
  <2>5. ContentTypes' /\ CountsBounded'
    <3>1. CASE UNCHANGED <<contents, erasing, registers>>
      BY <1>2, <2>2, <3>1 DEF contents, ContentTypes, CountsBounded
    <3>2. CASE Execute(q)
      BY <1>1, <1>2, <2>1, <2>2, <3>2, ExecuteTypes
    <3>3. QED BY <2>3, <3>1, <3>2
  <2>6. LeadBounded'
    BY <1>2, <2>2 DEF LeadBounded
  <2>7. QED BY <2>4, <2>5, <2>6
<1>6. CASE SetWritable \/ PowerOff \/ UNCHANGED vars
  BY <1>2, <1>6 DEF SetWritable, PowerOff, vars, contents, registers, CpuRuns, Erases,
                    ContentTypes, CountsBounded, LeadBounded, QueueShape
<1>7. CASE CpuStep
  <2>1. /\ UNCHANGED <<contents, erasing, queue, slot, disk, at>>
        /\ turn = "cpu" /\ lead' = lead - 1
        /\ turn' = IF lead' < 0 THEN "chip" ELSE "cpu"
    BY <1>7 DEF CpuStep, CpuRuns
  <2>2. LeadBounded'
    BY <1>2, <1>4, <2>1 DEF LeadBounded
  <2>3. QED BY <1>2, <2>1, <2>2 DEF contents, ContentTypes, CountsBounded, QueueShape
<1>8. CASE BeginErase
  <2>1. PICK b \in Erases : /\ turn = "chip" /\ at' = b
                            /\ lead' = lead + EraseTime /\ YieldIfAhead
                            /\ UNCHANGED <<contents, erasing, queue, slot, disk>>
    BY <1>8 DEF BeginErase, ChipRuns
  <2>2. b \in Block /\ erasing[b]
    BY <2>1 DEF Erases
  <2>3. lead \in -1 .. MaxLead /\ lead <= 0
    BY <1>2, <2>1 DEF LeadBounded
  <2>4. LeadBounded'
    BY <1>4, <2>1, <2>3 DEF LeadBounded, YieldIfAhead
  <2>5. turn' \in {"cpu", "chip"}
    BY <2>1 DEF YieldIfAhead
  <2>6. QED BY <1>2, <2>1, <2>2, <2>4, <2>5
               DEF contents, ContentTypes, CountsBounded, QueueShape
<1>9. CASE EndErase
  <2>1. at \in Block /\ erasing[at] /\ at' = None
    BY <1>1, <1>2, <1>9 DEF EndErase, FlashInv, RegisterTypes, CountsBounded
  <2>2. /\ erasing' = [erasing EXCEPT ![at] = FALSE]
        /\ UNCHANGED <<queue, slot, disk, turn, lead>> /\ turn = "chip"
    BY <1>9 DEF EndErase, Done, ChipRuns
  <2>3. \/ UNCHANGED <<memory, erased>>
        \/ /\ memory' = [memory EXCEPT ![Physical(at)] = 1]
           /\ erased' = [erased EXCEPT ![at] = erased[at] + 1]
    BY <1>9 DEF EndErase, contents
  <2>4. erased[at] \in 1 .. MaxErased /\ erased[at] < MaxErased
    BY <1>2, <2>1 DEF ContentTypes, CountsBounded
  <2>5. erased[at] + 1 \in 1 .. MaxErased
    BY <1>4, <2>4
  <2>6. memory' \in [Block -> {0, 1}] /\ erased' \in [Block -> 1 .. MaxErased]
    BY <1>2, <2>3, <2>5 DEF ContentTypes
  <2>7. \A b \in Block : erasing'[b] => b # at /\ erasing[b]
    BY <1>1, <2>2 DEF FlashInv, RegisterTypes
  <2>8. \A b \in Block \ {at} : erased'[b] = erased[b]
    BY <1>2, <2>3 DEF ContentTypes
  <2>9. CountsBounded'
    BY <1>2, <2>1, <2>7, <2>8 DEF CountsBounded
  <2>10. LeadBounded'
    BY <1>2, <2>1, <2>2, BlockFacts DEF LeadBounded
  <2>11. QED BY <1>2, <2>2, <2>6, <2>9, <2>10 DEF ContentTypes, QueueShape
<1>10. CASE Idle
  <2>1. /\ UNCHANGED <<contents, erasing, queue, slot, disk, at>>
        /\ at = None /\ Erases = {} /\ turn = "chip"
        /\ lead' = IF lead < MaxLead THEN lead + 1 ELSE lead
    BY <1>10 DEF Idle, ChipRuns
  <2>2. turn' = "chip" \/ (turn' = "cpu" /\ lead' > 0)
    BY <1>10, <2>1 DEF Idle, YieldIfAhead
  <2>3. LeadBounded'
    BY <1>2, <1>4, <2>1, <2>2 DEF LeadBounded, Erases
  <2>4. QED BY <1>2, <2>1, <2>2, <2>3 DEF contents, ContentTypes, CountsBounded, QueueShape
<1>11. CASE Connect
  <2>1. /\ Reset /\ slot' = "off" /\ disk' = disk
        /\ memory' = disk.memory /\ erased' = disk.erased
    BY <1>11 DEF Connect
  <2>2. ContentTypes'
    BY <1>2, <2>1 DEF ContentTypes, Disk, Reset
  <2>3. QED BY <2>1, <2>2, ResetTypes
<1>12. CASE Power
  <2>1. Reset /\ slot' = "on" /\ UNCHANGED <<contents, disk>>
    BY <1>12 DEF Power
  <2>2. ContentTypes'
    BY <1>2, <2>1 DEF ContentTypes, contents, Reset
  <2>3. QED BY <2>1, <2>2, ResetTypes
<1>13. CASE Unload \/ Eject
  <2>1. PICK program \in {memory, disk.memory} : Disconnect(program)
    BY <1>13 DEF Unload, Eject, Saved
  <2>2. /\ UNCHANGED <<contents, erasing, queue, turn, lead, at>> /\ slot' = "out"
        /\ disk' = [memory |-> program, erased |-> erased, locked |-> locked]
    BY <2>1 DEF Disconnect
  <2>3. disk' \in Disk
    BY <1>1, <1>2, <2>2 DEF Disk, ContentTypes, FlashInv, RegisterTypes
  <2>4. QED BY <1>2, <2>2, <2>3 DEF contents, Erases, ContentTypes, CountsBounded,
                                    LeadBounded, QueueShape
<1>14. QED
  BY <1>5, <1>6, <1>7, <1>8, <1>9, <1>10, <1>11, <1>12, <1>13 DEF Next, Chip, Bytes

LEMMA ChipInvAlways == Spec => []ChipInv
BY ChipInvInit, ChipInvStep, PTL DEF Spec

\* Every variable has its type, for chips of any size; in particular no erase is counted
\* that was not requested, and the chip runs ahead of the CPU by one erase at most.
THEOREM FlashTypes == Spec => []FlashTypeOK
<1>1. ChipInv => FlashTypeOK
  <2>1. SUFFICES ASSUME ChipInv PROVE FlashTypeOK
    OBVIOUS
  <2>2. RegisterTypes /\ ContentTypes /\ lead \in -1 .. MaxLead
    BY <2>1 DEF ChipInv, FlashInv, LeadBounded
  <2>3. queue \in Seq([block : Block, data : Command \cup {"d0", "readFlash"}])
    BY <2>2 DEF RegisterTypes, Pushed, Bytes
  <2>4. QED BY <2>2, <2>3 DEF RegisterTypes, ContentTypes, FlashTypeOK
<1>2. QED BY <1>1, ChipInvAlways, PTL

\* No byte of a command is dropped, however long a sequential load goes on.
THEOREM QueueAlwaysHasRoom == Spec => []QueueHasRoom
<1>1. ChipInv => QueueHasRoom
  <2>1. SUFFICES ASSUME ChipInv PROVE Len(queue) < 4
    BY DEF QueueHasRoom
  <2>2. queue \in Seq(Pushed) /\ QueueShape
    BY <2>1 DEF ChipInv, FlashInv, RegisterTypes
  <2>3. QED BY <2>2, Lengths, BSMemoryAssumption DEF QueueShape
<1>2. QED BY <1>1, ChipInvAlways, PTL

\* Unloading the system saves the contents and the counts of the same moment.
THEOREM UnloadSavesTogether == Spec => SavedTogether
<1>1. ASSUME [Next]_vars, ~UNCHANGED vars, slot' = "out", ~Eject
      PROVE  disk'.memory = memory /\ disk'.erased = erased
  <2>1. CASE Unload
    BY <2>1 DEF Unload, Disconnect, Saved
  <2>2. ~(\E b \in Block, byte \in Bytes : Write(b, byte)) /\ ~SetWritable /\ ~CpuStep /\ ~Chip
    BY <1>1 DEF Write, SetWritable, CpuStep, Chip, BeginErase, EndErase, Idle, CpuRuns, ChipRuns
  <2>3. ~Connect /\ ~Power /\ ~PowerOff
    BY <1>1 DEF Connect, Power, PowerOff
  <2>4. QED BY <1>1, <2>1, <2>2, <2>3 DEF Next, Bytes
<1>2. [Next]_vars => [slot' = "out" /\ ~Eject => disk'.memory = memory /\ disk'.erased = erased]_vars
  BY <1>1
<1>3. QED BY <1>2, PTL DEF SavedTogether, Spec
=============================================================================
