--------------------------------- MODULE Dma ---------------------------------
(***************************************************************************)
(* DMA and HDMA of the Super Famicom (src/higan/sfc/cpu): the channels     *)
(* that take the bus away from the CPU, DMA when the game asks for it and  *)
(* HDMA on every line of the picture, also in the middle of a DMA.         *)
(*                                                                         *)
(* The code decides at the edges, the calls of dmaEdge(): before a cycle   *)
(* of the CPU, when a DMA begins, when a channel begins, after each byte.  *)
(* An action goes from one edge to the next.  The picture's counters, which*)
(* step() advances, trigger HDMA between two edges, but never while one is *)
(* pending or runs: the triggers are over a thousand clocks apart and HDMA *)
(* takes less than five hundred.                                           *)
(***************************************************************************)
EXTENDS Integers

CONSTANTS
  Channels,  \* how many there are; 8 in the code
  Bytes,     \* values of transferSize, of which 0 is for Bytes many; 65536 in the code
  Lines,     \* values of the line counter without its top bit; 128 in the code
  Pokes      \* the game writes the size and line registers of channels, too

ASSUME DmaAssumption ==
  Channels \in Nat \ {0} /\ Bytes \in Nat \ {0, 1} /\ Lines \in Nat \ {0} /\ Pokes \in BOOLEAN

Channel == 0 .. Channels - 1
Size == 0 .. Bytes - 1
Entry == 0 .. 2 * Lines - 1   \* the first byte of an entry of an HDMA table

VARIABLES
  channel,      \* CPU::channels
  dmaActive, dmaPending, hdmaPending, hdmaMode,   \* of CPU::status
  pc,           \* the edge that comes next, or "cycle" in a cycle of the CPU
  at,           \* the channel whose dmaRun() it is in
  asked,        \* asked[c]: history, the bytes of the last DMA of c not yet transferred
  told,         \* told[c]: history, what is left to do of the entry of c's table
  late          \* history: DMA bytes and CPU cycles since HDMA is pending

status == <<dmaActive, dmaPending, hdmaPending, hdmaMode>>
vars == <<channel, status, pc, at, asked, told, late>>

ChannelRecord ==
  [dma : BOOLEAN, hdma : BOOLEAN, size : Size, line : Entry, completed : BOOLEAN,
   transfer : BOOLEAN]
\* lines: how many, 0 for none loaded.  now: it transfers on the next.  again: on all.
Told == [lines : 0 .. Lines, now : BOOLEAN, again : BOOLEAN]
Nothing == [lines |-> 0, now |-> FALSE, again |-> FALSE]

\* dmaEnable(), hdmaEnable() and hdmaActive()
AnyDma(k) == \E c \in Channel : k[c].dma
AnyHdma(k) == \E c \in Channel : k[c].hdma
Active(k, c) == k[c].hdma /\ ~k[c].completed

-----------------------------------------------------------------------------
(* HDMA.  The next bytes of the tables are `entry'; `size' is what an indirect *)
(* channel reads into indirectAddress, the same register as transferSize.     *)

\* (uint7)lineCounter
Low(line) == IF line < Lines THEN line ELSE line - Lines

\* Channel::hdmaReload
Reload(k, entry, size) ==
  IF Low(k.line) # 0 THEN k
  ELSE [k EXCEPT !.line = entry, !.completed = entry = 0, !.transfer = entry # 0,
                 !.size = size]

\* Mutant: DMA goes on in the channels that HDMA uses.
Continues(k) == k
\* "HDMA will stop active DMA mid-transfer"
Stops(k) == [k EXCEPT !.dma = FALSE]

\* CPU::hdmaSetup
SetUp(k, entry, size) ==
  [c \in Channel |->
     LET started == [k[c] EXCEPT !.transfer = TRUE]
     IN  IF k[c].hdma THEN Reload([Stops(started) EXCEPT !.line = 0], entry[c], size)
         ELSE started]

\* Mutant: the top bit is looked at before the counter is decremented.
Repeats(line) == line >= Lines
\* "lineCounter--"
LineAfter(line) == IF line = 0 THEN 2 * Lines - 1 ELSE line - 1
\* "hdmaDoTransfer = lineCounter.bit(7)"
RepeatsAfter(line) == LineAfter(line) >= Lines

\* CPU::hdmaRun: hdmaTransfer and hdmaAdvance of every channel
Run(k, entry, size) ==
  [c \in Channel |->
     IF ~Active(k, c) THEN k[c]
     ELSE Reload([Stops(k[c]) EXCEPT !.line = LineAfter(@),
                                     !.transfer = RepeatsAfter(k[c].line)],
                 entry[c], size)]

\* Mutant: no edge after a byte.
LooksOutside == dmaActive /\ pc # "byte"
\* dmaEdge() looks at what is pending only if H/DMA is active.
Looks == dmaActive

\* The channels whose tables this HDMA reads
Served == {c \in Channel : IF hdmaMode = 0 THEN channel[c].hdma ELSE Active(channel, c)}

\* The channels after the HDMA of this edge, if there is one
HdmaRuns == Looks /\ hdmaPending /\ AnyHdma(channel)
AfterHdma ==
  IF ~HdmaRuns THEN {channel}
  ELSE {IF hdmaMode = 0 THEN SetUp(channel, entry, size) ELSE Run(channel, entry, size) :
          entry \in [Served -> Entry], size \in Size}

\* What the byte at the head of an entry says: the entry is for so many lines, the most
\* there can be for 0, and transfers on the first of them, or on each if the top bit is
\* set, too.  A zero ends the table.
Says(entry) ==
  IF entry = 0 THEN Nothing
  ELSE [lines |-> IF Low(entry) = 0 THEN Lines ELSE Low(entry),
        now |-> TRUE, again |-> entry > Lines]
ToldAfter(k) ==
  [c \in Channel |->
     IF hdmaMode = 0 THEN IF c \in Served THEN Says(k[c].line) ELSE Nothing
     ELSE IF c \notin Served \/ told[c].lines = 0 THEN told[c]
     ELSE IF told[c].lines = 1 THEN Says(k[c].line)
     ELSE [told[c] EXCEPT !.lines = @ - 1, !.now = FALSE]]
AskedAfter ==
  [c \in Channel |-> IF HdmaRuns /\ c \in Served THEN 0 ELSE asked[c]]

\* CPU::dmaEdge, but for the DMA: it leaves the channels k.
Edge(k) ==
  /\ dmaActive' = IF Looks THEN ~HdmaRuns \/ AnyDma(k)
                  ELSE dmaActive \/ dmaPending \/ hdmaPending
  /\ hdmaPending' = (hdmaPending /\ ~Looks)
  /\ told' = IF HdmaRuns THEN ToldAfter(k) ELSE told
  /\ late' = IF hdmaPending' THEN late + 1 ELSE 0
  /\ UNCHANGED hdmaMode

-----------------------------------------------------------------------------
(* The CPU *)

\* CPU::idle, read and write call dmaEdge() first.
CpuEdge ==
  /\ pc = "edge"
  /\ \E k \in AfterHdma :
       /\ Edge(k)
       /\ channel' = k
       /\ pc' = IF Looks /\ dmaPending /\ AnyDma(k) THEN "dma" ELSE "cycle"
  /\ dmaPending' = (dmaPending /\ ~Looks)
  /\ asked' = AskedAfter
  /\ UNCHANGED at

Total(size) == IF size = 0 THEN Bytes ELSE size

\* Then there is at most one access to a register.
Cycle ==
  /\ pc = "cycle"
  /\ pc' = "edge"
  /\ UNCHANGED <<dmaActive, hdmaPending, hdmaMode, at, late>>

NoAccess == Cycle /\ UNCHANGED <<channel, dmaPending, asked, told>>

\* $420b
WriteDMAEN ==
  \E enabled \in SUBSET Channel :
    /\ Cycle
    /\ channel' = [c \in Channel |-> [channel[c] EXCEPT !.dma = c \in enabled]]
    /\ dmaPending' = (dmaPending \/ enabled # {})
    /\ asked' = [c \in Channel |-> IF c \in enabled THEN Total(channel[c].size) ELSE 0]
    /\ UNCHANGED told

\* $420c
WriteHDMAEN ==
  \E enabled \in SUBSET Channel :
    /\ Cycle
    /\ channel' = [c \in Channel |-> [channel[c] EXCEPT !.hdma = c \in enabled]]
    /\ UNCHANGED <<dmaPending, asked, told>>

\* $43x5 and $43x6, $43xa
WriteSize ==
  \E c \in Channel, size \in Size :
    /\ Pokes /\ Cycle
    /\ channel' = [channel EXCEPT ![c].size = size]
    /\ asked' = [asked EXCEPT ![c] = IF channel[c].dma THEN Total(size) ELSE 0]
    /\ UNCHANGED <<dmaPending, told>>
WriteLine ==
  \E c \in Channel, line \in Entry :
    /\ Pokes /\ Cycle
    /\ channel' = [channel EXCEPT ![c].line = line]
    /\ told' = [told EXCEPT ![c] = Nothing]
    /\ UNCHANGED <<dmaPending, asked>>

-----------------------------------------------------------------------------
(* DMA *)

\* Mutant: the first one is left out.
Later(c) == {d \in Channel : d > c}
\* The channels from c on
From(c) == {d \in Channel : d >= c}

\* The loop over the channels goes on with c: the first one from there on that is
\* enabled begins its dmaRun(), or CPU::dmaRun() ends.
GoOn(k, c) ==
  LET enabled == {d \in From(c) : k[d].dma}
  IN  IF enabled = {} THEN pc' = "end" /\ at' = 0
      ELSE pc' = "channel" /\ at' \in enabled /\ \A d \in enabled : at' <= d

\* The edge at the start of CPU::dmaRun
DmaEdge ==
  /\ pc = "dma"
  /\ \E k \in AfterHdma : Edge(k) /\ channel' = k /\ GoOn(k, 0)
  /\ asked' = AskedAfter
  /\ UNCHANGED dmaPending

\* The edge at the start of Channel::dmaRun
ChannelEdge ==
  /\ pc = "channel"
  /\ \E k \in AfterHdma : Edge(k) /\ channel' = k
  /\ pc' = "byte"
  /\ asked' = AskedAfter
  /\ UNCHANGED <<dmaPending, at>>

\* Mutant: "transferSize--", which moves one byte more.
More(size) == size # 0
\* "dmaEnable && --transferSize"
MoreAfter(size) == size # 1

\* Mutant: the register is wider than sixteen bits.
LessWide(size) == size - 1
Less(size) == IF size = 0 THEN Bytes - 1 ELSE size - 1

\* The loop of Channel::dmaRun: a byte is transferred, then the edge.
Byte ==
  /\ pc = "byte"
  /\ \E k \in AfterHdma :
       LET goes == k[at].dma
           again == goes /\ MoreAfter(k[at].size)
       IN  /\ Edge(k)
           /\ channel' = [k EXCEPT ![at].dma = again,
                                   ![at].size = IF goes THEN Less(@) ELSE @]
           /\ IF again THEN UNCHANGED <<pc, at>> ELSE GoOn(channel', at + 1)
  /\ asked' = [AskedAfter EXCEPT ![at] = IF @ = 0 THEN 0 ELSE @ - 1]
  /\ UNCHANGED dmaPending

\* The end of the dmaEdge() that called CPU::dmaRun
End ==
  /\ pc = "end"
  /\ dmaActive' = (dmaPending \/ hdmaPending)
  /\ late' = IF hdmaPending THEN late + 1 ELSE 0
  /\ pc' = "cycle"
  /\ UNCHANGED <<channel, dmaPending, hdmaPending, hdmaMode, at, asked, told>>

-----------------------------------------------------------------------------
(* The picture, in CPU::step *)

\* No trigger is near: none is pending, nor has HDMA just stopped the DMA it interrupted.
Quiet == ~hdmaPending /\ (dmaActive \/ pc \in {"cycle", "edge"})

\* hcounter() >= status.hdmaSetupPosition, once a frame
FrameTrigger ==
  /\ Quiet
  /\ channel' = [c \in Channel |->
                   [channel[c] EXCEPT !.completed = FALSE, !.transfer = FALSE]]
  /\ told' = [c \in Channel |-> Nothing]
  /\ hdmaPending' = AnyHdma(channel)
  /\ hdmaMode' = IF AnyHdma(channel) THEN 0 ELSE hdmaMode
  /\ UNCHANGED <<dmaActive, dmaPending, pc, at, asked, late>>

\* hcounter() >= status.hdmaPosition, once a line
LineTrigger ==
  /\ Quiet
  /\ \E c \in Channel : Active(channel, c)
  /\ hdmaPending' = TRUE
  /\ hdmaMode' = 1
  /\ UNCHANGED <<channel, dmaActive, dmaPending, pc, at, asked, told, late>>

Init ==
  /\ channel = [c \in Channel |-> [dma |-> FALSE, hdma |-> FALSE, size |-> Bytes - 1,
                                   line |-> 2 * Lines - 1, completed |-> FALSE,
                                   transfer |-> FALSE]]
  /\ dmaActive = FALSE /\ dmaPending = FALSE /\ hdmaPending = FALSE /\ hdmaMode = 0
  /\ pc = "edge" /\ at = 0
  /\ asked = [c \in Channel |-> 0] /\ told = [c \in Channel |-> Nothing] /\ late = 0

\* The CPU's thread between two of its cycles
Between == CpuEdge \/ DmaEdge \/ ChannelEdge \/ Byte \/ End

Next ==
  \/ Between
  \/ NoAccess \/ WriteDMAEN \/ WriteHDMAEN \/ WriteSize \/ WriteLine
  \/ FrameTrigger \/ LineTrigger

\* The thread runs on.
Spec == Init /\ [][Next]_vars /\ WF_vars(Between)

-----------------------------------------------------------------------------
(* Properties *)

DmaTypeOK ==
  /\ channel \in [Channel -> ChannelRecord]
  /\ dmaActive \in BOOLEAN /\ dmaPending \in BOOLEAN /\ hdmaPending \in BOOLEAN
  /\ hdmaMode \in {0, 1}
  /\ pc \in {"edge", "cycle", "dma", "channel", "byte", "end"} /\ at \in Channel
  /\ asked \in [Channel -> 0 .. Bytes] /\ told \in [Channel -> Told] /\ late \in Nat

\* A DMA has exactly those bytes left that the game asked for and that are not yet
\* transferred, unless HDMA takes the channel, which may also write over its counter: then
\* none are left (Channel::dmaRun, hdmaReload).
BytesAsAsked ==
  \A c \in Channel :
    asked[c] = IF channel[c].dma THEN Total(channel[c].size) ELSE 0

\* When the game goes on no channel is left enabled, unless its DMA is still pending.
NothingForgotten ==
  pc \in {"edge", "cycle"} /\ AnyDma(channel) => dmaPending

\* HDMA waits for one byte of a DMA or one cycle of the CPU and no longer, so that it is
\* not pending any more when the next line triggers it.
HdmaOnTime == late <= 1

\* Until its next entry, each channel transfers on the lines its table says (hdmaAdvance).
LinesAsTold ==
  \A c \in Channel :
    told[c].lines > 0 =>
      /\ channel[c].transfer = (told[c].now \/ told[c].again)
      /\ Low(channel[c].line) = Low(told[c].lines)
      /\ ~channel[c].completed

\* The CPU gets the bus back, however often HDMA interrupts the DMA.
CpuGoesOn == pc # "cycle" ~> pc = "cycle"
=============================================================================
