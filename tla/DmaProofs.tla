------------------------------ MODULE DmaProofs ------------------------------
(***************************************************************************)
(* Proofs about Dma: for any number of channels and any sizes, no byte, no *)
(* channel and no line is forgotten, and HDMA waits for one cycle at most. *)
(***************************************************************************)
EXTENDS Dma, TLAPS

\* The constants are always what Dma assumes of them.
USE DmaAssumption DEF DmaAssumption

-----------------------------------------------------------------------------
(* The inductive invariant *)

\* The CPU is in CPU::dmaRun().
Phases == {"dma", "channel", "byte", "end"}

\* Which channels a DMA has yet to come to: none that it has passed is enabled.
Passed ==
  /\ pc \in Phases => ~dmaPending
  /\ pc \in {"channel", "byte"} => \A d \in Channel : d < at => ~channel[d].dma
  /\ pc = "end" => ~AnyDma(channel)

\* HDMA is pending for longer than an edge only when the next one looks at it.
Looked ==
  /\ late > 0 => hdmaPending /\ dmaActive /\ pc \in {"edge", "cycle"}
  /\ pc \in Phases /\ hdmaPending => dmaActive

\* The line counter is what the entry says of the lines that are left, its top bit
\* whether they repeat.
Counts(k, t) ==
  t.lines > 0 =>
    /\ k.line = t.lines + (IF t.again THEN Lines ELSE 0)
    /\ t.again => t.lines < Lines
    /\ k.transfer = (t.now \/ t.again)
    /\ ~k.completed

IInv ==
  /\ DmaTypeOK /\ BytesAsAsked /\ NothingForgotten /\ HdmaOnTime
  /\ Passed /\ Looked
  /\ \A c \in Channel : Counts(channel[c], told[c])

-----------------------------------------------------------------------------
(* What HDMA does to a channel *)

\* hdmaReload loads the next entry when no lines are left, and else nothing.
LEMMA ReloadLoads ==
  ASSUME NEW k \in ChannelRecord, NEW entry \in Entry, NEW size \in Size, Low(k.line) = 0
  PROVE  /\ Reload(k, entry, size) \in ChannelRecord
         /\ Reload(k, entry, size).dma <=> k.dma
         /\ Reload(k, entry, size).line = entry
         /\ Reload(k, entry, size).completed <=> entry = 0
         /\ Reload(k, entry, size).transfer <=> entry # 0
BY DEF Reload, ChannelRecord

LEMMA ReloadKeeps ==
  ASSUME NEW k, NEW entry, NEW size, Low(k.line) # 0
  PROVE  Reload(k, entry, size) = k
BY DEF Reload

\* "lineCounter--" stays a byte, and its lower bits count down.
LEMMA LineCounts ==
  ASSUME NEW line \in Entry
  PROVE  /\ LineAfter(line) \in Entry
         /\ line > 0 => LineAfter(line) = line - 1
BY DEF LineAfter, Entry

\* The two ways HDMA runs
LEMMA SetUpChannel ==
  ASSUME NEW k \in [Channel -> ChannelRecord], NEW entry, NEW size \in Size, NEW c \in Channel,
         k[c].hdma => entry[c] \in Entry, NEW s, s = SetUp(k, entry, size)[c]
  PROVE  /\ s \in ChannelRecord
         /\ ~k[c].hdma => s = [k[c] EXCEPT !.transfer = TRUE]
         /\ k[c].hdma => /\ ~s.dma
                         /\ s.line = entry[c]
                         /\ s.completed <=> entry[c] = 0
                         /\ s.transfer <=> entry[c] # 0
<1> DEFINE started == [k[c] EXCEPT !.transfer = TRUE]
           stopped == [Stops(started) EXCEPT !.line = 0]
<1>1. started \in ChannelRecord /\ (started.dma <=> k[c].dma)
  BY DEF ChannelRecord
<1>2. stopped \in ChannelRecord /\ stopped.line = 0 /\ ~stopped.dma
  <2>1. 0 \in Entry
    BY DEF Entry
  <2>2. Stops(started) \in ChannelRecord /\ ~Stops(started).dma
    BY <1>1 DEF ChannelRecord, Stops
  <2>3. QED BY <2>1, <2>2 DEF ChannelRecord
<1>3. Low(stopped.line) = 0
  BY <1>2 DEF Low
<1>4. s = IF k[c].hdma THEN Reload(stopped, entry[c], size) ELSE started
  BY DEF SetUp
<1> HIDE DEF started, stopped
<1>5. CASE k[c].hdma
  <2>1. /\ entry[c] \in Entry
        /\ s = Reload(stopped, entry[c], size)
    BY <1>4, <1>5
  <2> DEFINE r == Reload(stopped, entry[c], size)
  <2>2. /\ r \in ChannelRecord /\ (r.dma <=> stopped.dma) /\ r.line = entry[c]
        /\ (r.completed <=> entry[c] = 0) /\ (r.transfer <=> entry[c] # 0)
    BY <1>2, <1>3, <2>1, ReloadLoads
  <2>3. ~r.dma
    BY <1>2, <2>2
  <2> HIDE DEF r
  <2>4. QED BY <1>5, <2>1, <2>2, <2>3 DEF r
<1>6. CASE ~k[c].hdma
  BY <1>1, <1>4, <1>6 DEF started
<1>7. QED BY <1>5, <1>6

\* hdmaTransfer and hdmaAdvance
LEMMA RunChannel ==
  ASSUME NEW k \in [Channel -> ChannelRecord], NEW entry, NEW size \in Size, NEW c \in Channel,
         Active(k, c) => entry[c] \in Entry, NEW r, r = Run(k, entry, size)[c]
  PROVE  /\ r \in ChannelRecord
         /\ ~Active(k, c) => r = k[c]
         /\ Active(k, c) =>
              /\ ~r.dma
              /\ Low(LineAfter(k[c].line)) = 0 =>
                   /\ r.line = entry[c]
                   /\ r.completed <=> entry[c] = 0
                   /\ r.transfer <=> entry[c] # 0
              /\ Low(LineAfter(k[c].line)) # 0 =>
                   /\ r.line = LineAfter(k[c].line)
                   /\ r.completed <=> k[c].completed
                   /\ r.transfer <=> LineAfter(k[c].line) >= Lines
<1>1. k[c] \in ChannelRecord
  OBVIOUS
<1>2. CASE Active(k, c)
  <2>1. PICK kc \in ChannelRecord, e \in Entry : kc = k[c] /\ e = entry[c]
    BY <1>1, <1>2
  <2>2. kc.line \in Entry /\ LineAfter(kc.line) \in Entry
    BY LineCounts DEF ChannelRecord
  <2>3. /\ Stops(kc) \in ChannelRecord /\ ~Stops(kc).dma
        /\ Stops(kc).line = kc.line /\ (Stops(kc).completed <=> kc.completed)
    BY DEF ChannelRecord, Stops
  <2>4. RepeatsAfter(kc.line) \in BOOLEAN /\ (RepeatsAfter(kc.line) <=> LineAfter(kc.line) >= Lines)
    BY DEF RepeatsAfter
  <2>5. PICK n \in ChannelRecord :
          /\ r = Reload(n, e, size)
          /\ ~n.dma /\ n.line = LineAfter(kc.line)
          /\ n.completed <=> kc.completed
          /\ n.transfer <=> LineAfter(kc.line) >= Lines
    <3> DEFINE n == [Stops(kc) EXCEPT !.line = LineAfter(@), !.transfer = RepeatsAfter(kc.line)]
    <3>1. n = [Stops(kc) EXCEPT !.line = LineAfter(kc.line), !.transfer = RepeatsAfter(kc.line)]
      BY <2>3 DEF ChannelRecord
    <3>2. /\ n \in ChannelRecord /\ ~n.dma /\ n.line = LineAfter(kc.line)
          /\ (n.completed <=> kc.completed) /\ (n.transfer <=> LineAfter(kc.line) >= Lines)
      BY <2>2, <2>3, <2>4, <3>1 DEF ChannelRecord
    <3>3. r = Reload(n, e, size)
      BY <1>2, <2>1 DEF Run
    <3> HIDE DEF n
    <3>4. QED BY <3>2, <3>3
  <2>6. CASE Low(n.line) = 0
    <3>1. /\ r \in ChannelRecord /\ ~r.dma /\ r.line = e
          /\ r.completed <=> e = 0
          /\ r.transfer <=> e # 0
      BY <2>5, <2>6, ReloadLoads
    <3>2. QED BY <1>2, <2>1, <2>5, <2>6, <3>1
  <2>7. CASE Low(n.line) # 0
    <3>1. r = n
      BY <2>5, <2>7, ReloadKeeps
    <3>2. QED BY <1>2, <2>1, <2>5, <2>7, <3>1
  <2>8. QED BY <2>6, <2>7
<1>3. CASE ~Active(k, c)
  BY <1>1, <1>3 DEF Run
<1>4. QED BY <1>2, <1>3

\* An entry that was loaded counts as the table says.
LEMMA SaysCounts ==
  ASSUME NEW k \in ChannelRecord, NEW e \in Entry,
         k.line = e, k.completed <=> e = 0, k.transfer <=> e # 0
  PROVE  Says(k.line) \in Told /\ Counts(k, Says(k.line))
<1>1. Low(e) \in 0 .. Lines /\ (Low(e) # 0 => e = Low(e) + (IF e > Lines THEN Lines ELSE 0))
      /\ (Low(e) = 0 => e = 0 \/ e = Lines) /\ (e > Lines => Low(e) \in 1 .. Lines - 1)
      /\ (Low(e) # 0 => e # 0)
  BY DEF Low, Entry
<1>2. CASE e = 0
  <2>1. Says(k.line) = Nothing
    BY <1>2 DEF Says
  <2>2. Nothing \in Told /\ ~(Nothing.lines > 0)
    BY DEF Nothing, Told
  <2>3. QED BY <2>1, <2>2 DEF Counts
<1>3. CASE e # 0
  <2> DEFINE t == [lines |-> IF Low(e) = 0 THEN Lines ELSE Low(e),
                   now |-> TRUE, again |-> e > Lines]
  <2>1. Says(k.line) = t
    BY <1>3 DEF Says
  <2>2. /\ t.lines = (IF Low(e) = 0 THEN Lines ELSE Low(e))
        /\ t.now /\ (t.again <=> e > Lines)
    OBVIOUS
  <2>3. t \in Told
    BY <1>1 DEF Told
  <2> HIDE DEF t
  <2>4. /\ k.line = t.lines + (IF t.again THEN Lines ELSE 0)
        /\ t.again => t.lines < Lines
    <3>1. CASE e > Lines
      BY <1>1, <2>2, <3>1 DEF Entry
    <3>2. CASE ~(e > Lines)
      BY <1>1, <1>3, <2>2, <3>2 DEF Entry
    <3>3. QED BY <3>1, <3>2
  <2>5. k.transfer = (t.now \/ t.again) /\ ~k.completed
    BY <1>3, <2>2 DEF ChannelRecord
  <2>6. QED BY <2>1, <2>3, <2>4, <2>5 DEF Counts
<1>4. QED BY <1>2, <1>3

\* A line of an entry counts it down by one.
LEMMA LineLeft ==
  ASSUME NEW k \in ChannelRecord, NEW t \in Told, Counts(k, t), t.lines > 0
  PROVE  /\ t.lines = 1 => Low(LineAfter(k.line)) = 0
         /\ t.lines > 1 => Low(LineAfter(k.line)) # 0 /\ LineAfter(k.line) = k.line - 1
<1>1. /\ k.line = t.lines + (IF t.again THEN Lines ELSE 0)
      /\ t.again => t.lines < Lines
      /\ t.lines \in 1 .. Lines
  BY DEF Counts, Told
<1>2. LineAfter(k.line) = k.line - 1
  BY <1>1 DEF LineAfter
<1>3. QED BY <1>1, <1>2 DEF Low

LEMMA LineKept ==
  ASSUME NEW k \in ChannelRecord, NEW t \in Told, Counts(k, t), t.lines > 1,
         NEW r \in ChannelRecord, r.line = LineAfter(k.line),
         r.completed <=> k.completed, r.transfer <=> LineAfter(k.line) >= Lines
  PROVE  LET n == [t EXCEPT !.lines = @ - 1, !.now = FALSE]
         IN  n \in Told /\ Counts(r, n)
<1> DEFINE n == [t EXCEPT !.lines = @ - 1, !.now = FALSE]
<1>1. /\ k.line = t.lines + (IF t.again THEN Lines ELSE 0)
      /\ t.again => t.lines < Lines
      /\ t.lines \in 2 .. Lines /\ t.again \in BOOLEAN /\ ~k.completed
  BY DEF Counts, Told
<1>2. n \in Told /\ n.lines = t.lines - 1 /\ (n.again <=> t.again) /\ ~n.now
  <2>1. t.lines - 1 \in 0 .. Lines
    BY <1>1
  <2>2. QED BY <2>1 DEF Told
<1>3. LineAfter(k.line) = k.line - 1
  BY <1>1 DEF LineAfter
<1>4. LineAfter(k.line) >= Lines <=> t.again
  BY <1>1, <1>3
<1> HIDE DEF n
<1>5. /\ r.line = n.lines + (IF n.again THEN Lines ELSE 0)
      /\ n.again => n.lines < Lines
  BY <1>1, <1>2, <1>3
<1>6. r.transfer = (n.now \/ n.again) /\ ~r.completed
  BY <1>1, <1>2, <1>4 DEF ChannelRecord, Told
<1>7. Counts(r, n)
  BY <1>5, <1>6 DEF Counts
<1>8. QED BY <1>2, <1>7 DEF n

-----------------------------------------------------------------------------
(* The edges *)

\* What HDMA leaves of the DMA: it stops the channels that it serves and no others.
LEMMA HdmaChannels ==
  ASSUME DmaTypeOK, NEW k \in AfterHdma
  PROVE  /\ k \in [Channel -> ChannelRecord]
         /\ \A c \in Channel : IF HdmaRuns /\ c \in Served THEN ~k[c].dma
                              ELSE /\ k[c].dma <=> channel[c].dma
                                   /\ k[c].size = channel[c].size
<1>1. CASE ~HdmaRuns
  BY <1>1 DEF AfterHdma, DmaTypeOK
<1>2. CASE HdmaRuns /\ hdmaMode = 0
  <2>1. PICK entry \in [Served -> Entry], size \in Size : k = SetUp(channel, entry, size)
    BY <1>2 DEF AfterHdma
  <2>2. \A c \in Channel : (c \in Served <=> channel[c].hdma)
    BY <1>2 DEF Served
  <2>3. ASSUME NEW c \in Channel
        PROVE  /\ k[c] \in ChannelRecord
               /\ channel[c].hdma => ~k[c].dma
               /\ ~channel[c].hdma => k[c] = [channel[c] EXCEPT !.transfer = TRUE]
    <3>1. channel \in [Channel -> ChannelRecord]
      BY DEF DmaTypeOK
    <3>2. channel[c].hdma => entry[c] \in Entry
      BY <2>2
    <3>3. k[c] = SetUp(channel, entry, size)[c] /\ size \in Size
      BY <2>1
    <3>4. CASE channel[c].hdma
      BY <3>1, <3>2, <3>3, <3>4, SetUpChannel
    <3>5. CASE ~channel[c].hdma
      <4>1. k[c] = [channel[c] EXCEPT !.transfer = TRUE]
        BY <3>5, <2>1 DEF SetUp
      <4>2. QED BY <3>1, <3>5, <4>1 DEF ChannelRecord
    <3>6. QED BY <3>4, <3>5
  <2>4. k = [c \in Channel |-> k[c]]
    BY <2>1 DEF SetUp
  <2>5. k \in [Channel -> ChannelRecord]
    BY <2>3, <2>4
  <2>6. ASSUME NEW c \in Channel, ~channel[c].hdma
        PROVE  (k[c].dma <=> channel[c].dma) /\ k[c].size = channel[c].size
    BY <2>3, <2>6 DEF DmaTypeOK, ChannelRecord
  <2>7. QED BY <1>2, <2>2, <2>3, <2>5, <2>6
<1>3. CASE HdmaRuns /\ hdmaMode # 0
  <2>1. PICK entry \in [Served -> Entry], size \in Size : k = Run(channel, entry, size)
    BY <1>3 DEF AfterHdma
  <2>2. \A c \in Channel : (c \in Served <=> Active(channel, c))
    BY <1>3 DEF Served
  <2>3. ASSUME NEW c \in Channel
        PROVE  /\ k[c] \in ChannelRecord
               /\ Active(channel, c) => ~k[c].dma
               /\ ~Active(channel, c) => k[c] = channel[c]
    <3>1. channel \in [Channel -> ChannelRecord]
      BY DEF DmaTypeOK
    <3>2. Active(channel, c) => entry[c] \in Entry
      BY <2>2
    <3>3. QED BY <2>1, <3>1, <3>2, RunChannel
  <2>4. k = [c \in Channel |-> k[c]]
    BY <2>1 DEF Run
  <2>5. k \in [Channel -> ChannelRecord]
    BY <2>3, <2>4
  <2>6. QED BY <1>3, <2>2, <2>3, <2>5
<1>4. QED BY <1>1, <1>2, <1>3

\* What HDMA leaves of the bytes that were asked for
LEMMA HdmaAsked ==
  ASSUME DmaTypeOK, BytesAsAsked, NEW k \in AfterHdma
  PROVE  /\ AskedAfter \in [Channel -> 0 .. Bytes]
         /\ \A c \in Channel : AskedAfter[c] = IF k[c].dma THEN Total(k[c].size) ELSE 0
<1>1. AskedAfter \in [Channel -> 0 .. Bytes]
  BY DEF AskedAfter, DmaTypeOK
<1>2. ASSUME NEW c \in Channel
      PROVE  AskedAfter[c] = IF k[c].dma THEN Total(k[c].size) ELSE 0
  <2>1. CASE HdmaRuns /\ c \in Served
    <3>1. ~k[c].dma
      BY <2>1, HdmaChannels
    <3>2. QED BY <2>1, <3>1 DEF AskedAfter
  <2>2. CASE ~(HdmaRuns /\ c \in Served)
    <3>1. (k[c].dma <=> channel[c].dma) /\ k[c].size = channel[c].size
      BY <2>2, HdmaChannels
    <3>2. AskedAfter[c] = asked[c]
      BY <2>2 DEF AskedAfter
    <3>3. QED BY <3>1, <3>2 DEF BytesAsAsked
  <2>3. QED BY <2>1, <2>2
<1>3. QED BY <1>1, <1>2

\* The tables are read entry by entry, and each line counts down what is left.
LEMMA HdmaTold ==
  ASSUME DmaTypeOK, \A c \in Channel : Counts(channel[c], told[c]), HdmaRuns,
         NEW k \in AfterHdma
  PROVE  /\ ToldAfter(k) \in [Channel -> Told]
         /\ \A c \in Channel : Counts(k[c], ToldAfter(k)[c])
<1> SUFFICES ASSUME NEW c \in Channel
             PROVE  ToldAfter(k)[c] \in Told /\ Counts(k[c], ToldAfter(k)[c])
  BY DEF ToldAfter
<1>0. Nothing \in Told /\ ~(Nothing.lines > 0)
  BY DEF Nothing, Told
<1>1. /\ channel \in [Channel -> ChannelRecord] /\ channel[c] \in ChannelRecord
      /\ told[c] \in Told /\ Counts(channel[c], told[c])
  BY DEF DmaTypeOK
<1>2. k[c] \in ChannelRecord
  BY HdmaChannels
<1>3. CASE hdmaMode = 0
  <2>1. PICK entry \in [Served -> Entry], size \in Size : k = SetUp(channel, entry, size)
    BY <1>3, HdmaRuns DEF AfterHdma
  <2>2. CASE c \in Served
    <3>1. channel[c].hdma /\ entry[c] \in Entry
      BY <1>3, <2>2 DEF Served
    <3>2. /\ k[c].line = entry[c]
          /\ k[c].completed <=> entry[c] = 0
          /\ k[c].transfer <=> entry[c] # 0
      <4>1. channel \in [Channel -> ChannelRecord] /\ size \in Size /\ entry[c] \in Entry
        BY <1>1, <2>1, <3>1
      <4>2. k[c] = SetUp(channel, entry, size)[c]
        BY <2>1
      <4>3. QED BY <3>1, <4>1, <4>2, SetUpChannel
    <3>3. ToldAfter(k)[c] = Says(k[c].line)
      BY <1>3, <2>2 DEF ToldAfter
    <3>4. QED BY <1>2, <3>1, <3>2, <3>3, SaysCounts
  <2>3. CASE c \notin Served
    BY <1>0, <1>3, <2>3 DEF ToldAfter, Counts
  <2>4. QED BY <2>2, <2>3
<1>4. CASE hdmaMode # 0
  <2>1. PICK entry \in [Served -> Entry], size \in Size : k = Run(channel, entry, size)
    BY <1>4, HdmaRuns DEF AfterHdma
  <2>2. CASE c \notin Served
    <3>1. ~Active(channel, c)
      BY <1>4, <2>2 DEF Served
    <3>2. k[c] = channel[c]
      BY <2>1, <3>1 DEF Run
    <3>3. ToldAfter(k)[c] = told[c]
      BY <1>4, <2>2 DEF ToldAfter
    <3>4. QED BY <1>1, <3>2, <3>3
  <2>3. CASE c \in Served /\ told[c].lines = 0
    <3>1. ToldAfter(k)[c] = told[c]
      BY <1>4, <2>3 DEF ToldAfter
    <3>2. QED BY <1>1, <2>3, <3>1 DEF Counts
  <2>4. CASE c \in Served /\ told[c].lines # 0
    <3>1. Active(channel, c) /\ entry[c] \in Entry
      BY <1>4, <2>4 DEF Served
    <3>2. told[c].lines \in 1 .. Lines
      BY <1>1, <2>4 DEF Told
    <3>3. CASE told[c].lines = 1
      <4>1. Low(LineAfter(channel[c].line)) = 0
        BY <1>1, <3>3, LineLeft
      <4>2. /\ k[c].line = entry[c]
            /\ k[c].completed <=> entry[c] = 0
            /\ k[c].transfer <=> entry[c] # 0
        BY <1>1, <2>1, <3>1, <4>1, RunChannel
      <4>3. ToldAfter(k)[c] = Says(k[c].line)
        BY <1>4, <2>4, <3>3 DEF ToldAfter
      <4>4. QED BY <1>2, <3>1, <4>2, <4>3, SaysCounts
    <3>4. CASE told[c].lines > 1
      <4>1. Low(LineAfter(channel[c].line)) # 0
        BY <1>1, <3>2, <3>4, LineLeft
      <4>2. /\ k[c].line = LineAfter(channel[c].line)
            /\ k[c].completed <=> channel[c].completed
            /\ k[c].transfer <=> LineAfter(channel[c].line) >= Lines
        BY <1>1, <2>1, <3>1, <4>1, RunChannel
      <4>3. ToldAfter(k)[c] = [told[c] EXCEPT !.lines = @ - 1, !.now = FALSE]
        BY <1>4, <2>4, <3>4 DEF ToldAfter
      <4>4. QED BY <1>1, <1>2, <3>4, <4>2, <4>3, LineKept
    <3>5. QED BY <3>2, <3>3, <3>4
  <2>5. QED BY <2>2, <2>3, <2>4
<1>5. QED BY <1>3, <1>4

\* The edge itself, whatever it was: HDMA's registers and the histories after it
LEMMA EdgeKeeps ==
  ASSUME IInv, NEW k \in AfterHdma, Edge(k)
  PROVE  /\ k \in [Channel -> ChannelRecord]
         /\ dmaActive' \in BOOLEAN /\ hdmaPending' \in BOOLEAN /\ hdmaMode' \in {0, 1}
         /\ told' \in [Channel -> Told] /\ late' \in Nat
         /\ \A c \in Channel : Counts(k[c], told'[c])
         /\ late' <= 1
<1> USE DEF IInv
<1>1. k \in [Channel -> ChannelRecord]
  BY HdmaChannels
<1>2. dmaActive' \in BOOLEAN /\ hdmaPending' \in BOOLEAN /\ hdmaMode' \in {0, 1}
  BY DEF Edge, DmaTypeOK
<1>3. told' \in [Channel -> Told] /\ \A c \in Channel : Counts(k[c], told'[c])
  <2>1. CASE HdmaRuns
    <3>1. told' = ToldAfter(k)
      BY <2>1 DEF Edge
    <3>2. QED BY <2>1, <3>1, HdmaTold
  <2>2. CASE ~HdmaRuns
    <3>1. told' = told /\ k = channel
      BY <2>2 DEF Edge, AfterHdma
    <3>2. QED BY <3>1 DEF DmaTypeOK
  <2>3. QED BY <2>1, <2>2
<1>4. late' \in Nat /\ late' <= 1
  <2>1. CASE hdmaPending'
    <3>1. late' = late + 1 /\ ~dmaActive
      BY <2>1 DEF Edge, Looks
    <3>2. late = 0
      BY <3>1 DEF Looked, DmaTypeOK
    <3>3. QED BY <3>1, <3>2
  <2>2. CASE ~hdmaPending'
    BY <2>2 DEF Edge
  <2>3. QED BY <2>1, <2>2
<1>5. QED BY <1>1, <1>2, <1>3, <1>4

\* The loop over the channels leaves none behind.
LEMMA GoOnPasses ==
  ASSUME NEW k, NEW c \in Nat, \A d \in Channel : d < c => ~k[d].dma, GoOn(k, c)
  PROVE  /\ pc' \in {"channel", "end"} /\ at' \in Channel
         /\ pc' = "channel" => \A d \in Channel : d < at' => ~k[d].dma
         /\ pc' = "end" => \A d \in Channel : ~k[d].dma
<1> DEFINE enabled == {d \in From(c) : k[d].dma}
<1>1. \A d \in Channel : d \notin enabled => ~k[d].dma
  BY DEF From, Channel
<1>2. CASE enabled = {}
  <2>1. pc' = "end" /\ at' = 0
    BY <1>2 DEF GoOn
  <2>2. QED BY <1>1, <1>2, <2>1 DEF Channel
<1>3. CASE enabled # {}
  <2>1. pc' = "channel" /\ at' \in enabled /\ \A d \in enabled : at' <= d
    BY <1>3 DEF GoOn
  <2>2. at' \in Channel
    BY <2>1 DEF From
  <2>3. \A d \in Channel : d < at' => d \notin enabled
    BY <2>1, <2>2 DEF Channel
  <2>4. QED BY <1>1, <2>1, <2>2, <2>3
<1>4. QED BY <1>2, <1>3

-----------------------------------------------------------------------------
(* The steps *)

LEMMA InitInv == Init => IInv
<1> SUFFICES ASSUME Init PROVE IInv
  OBVIOUS
<1> USE DEF Init
<1>1. DmaTypeOK
  <2>1. channel \in [Channel -> ChannelRecord]
    BY DEF ChannelRecord, Size, Entry
  <2>2. told \in [Channel -> Told]
    BY DEF Told, Nothing
  <2>3. asked \in [Channel -> 0 .. Bytes] /\ at \in Channel
    BY DEF Channel
  <2>4. QED BY <2>1, <2>2, <2>3 DEF DmaTypeOK
<1>2. \A c \in Channel : ~channel[c].dma /\ asked[c] = 0 /\ told[c].lines = 0
  BY DEF Nothing
<1>3. QED BY <1>1, <1>2 DEF IInv, BytesAsAsked, NothingForgotten, HdmaOnTime, Passed, Looked,
                            Phases, AnyDma, Counts

\* The edge of a cycle of the CPU begins the DMA only when none is pending any more.
LEMMA CpuEdgeInv == ASSUME IInv, CpuEdge PROVE IInv'
<1> USE DEF IInv
<1>1. PICK k \in AfterHdma :
        /\ Edge(k) /\ channel' = k
        /\ pc' = IF Looks /\ dmaPending /\ AnyDma(k) THEN "dma" ELSE "cycle"
  BY DEF CpuEdge
<1>2. /\ pc = "edge" /\ dmaPending' = (dmaPending /\ ~Looks)
      /\ asked' = AskedAfter /\ at' = at
  BY DEF CpuEdge
<1> DEFINE Kept == /\ channel' \in [Channel -> ChannelRecord]
                   /\ dmaActive' \in BOOLEAN /\ hdmaPending' \in BOOLEAN /\ hdmaMode' \in {0, 1}
                   /\ told' \in [Channel -> Told] /\ late' \in Nat
                   /\ \A c \in Channel : Counts(channel'[c], told'[c])
                   /\ late' <= 1
<1>3. Kept
  BY <1>1, EdgeKeeps
<1>4. DmaTypeOK'
  BY <1>1, <1>2, <1>3, HdmaAsked DEF DmaTypeOK
<1>5. BytesAsAsked'
  BY <1>1, <1>2, HdmaAsked DEF BytesAsAsked
<1>6. AnyDma(channel') => AnyDma(channel)
  BY <1>1, HdmaChannels DEF AnyDma
<1>7. NothingForgotten'
  BY <1>1, <1>2, <1>6 DEF NothingForgotten, DmaTypeOK
<1>8. Passed'
  BY <1>1, <1>2 DEF Passed, Phases
<1>9. Looked'
  <2>1. hdmaPending' = (hdmaPending /\ ~Looks)
    BY <1>1 DEF Edge
  <2>2. ~Looks /\ hdmaPending => dmaActive'
    BY <1>1 DEF Edge
  <2>3. late' > 0 => hdmaPending'
    BY <1>1 DEF Edge
  <2>4. pc' \in {"dma", "cycle"} /\ (~Looks => pc' = "cycle")
    BY <1>1
  <2>5. QED BY <2>1, <2>2, <2>3, <2>4 DEF Looked, Phases
<1>10. QED BY <1>3, <1>4, <1>5, <1>7, <1>8, <1>9 DEF HdmaOnTime

\* DmaEdge, ChannelEdge and Byte have this in common: the DMA has begun.
LEMMA PhaseKeeps ==
  ASSUME IInv, NEW k \in AfterHdma, Edge(k), pc \in {"dma", "channel", "byte"}, dmaPending' = dmaPending
  PROVE  /\ dmaPending' = FALSE /\ hdmaPending' = FALSE /\ late' = 0
         /\ dmaActive' \in BOOLEAN /\ hdmaMode' \in {0, 1}
         /\ k \in [Channel -> ChannelRecord]
         /\ AskedAfter \in [Channel -> 0 .. Bytes]
         /\ \A c \in Channel : AskedAfter[c] = IF k[c].dma THEN Total(k[c].size) ELSE 0
         /\ \A c \in Channel : k[c].dma => channel[c].dma
<1> USE DEF IInv
<1>1. ~dmaPending /\ (hdmaPending => Looks)
  BY DEF Passed, Looked, Looks, Phases
<1>2. hdmaPending' = FALSE /\ late' = 0 /\ hdmaMode' = hdmaMode /\ dmaActive' \in BOOLEAN
  BY <1>1 DEF Edge, DmaTypeOK
<1>3. k \in [Channel -> ChannelRecord] /\ \A c \in Channel : k[c].dma => channel[c].dma
  BY HdmaChannels
<1>4. /\ AskedAfter \in [Channel -> 0 .. Bytes]
      /\ \A c \in Channel : AskedAfter[c] = IF k[c].dma THEN Total(k[c].size) ELSE 0
  BY HdmaAsked
<1>5. QED BY <1>1, <1>2, <1>3, <1>4 DEF DmaTypeOK

\* What a phase has to establish
LEMMA PhaseInv ==
  ASSUME /\ dmaPending' = FALSE /\ hdmaPending' = FALSE /\ late' = 0
         /\ asked' \in [Channel -> 0 .. Bytes]
         /\ \A c \in Channel : asked'[c] = IF channel'[c].dma THEN Total(channel'[c].size) ELSE 0,
         /\ channel' \in [Channel -> ChannelRecord] /\ dmaActive' \in BOOLEAN
         /\ hdmaMode' \in {0, 1} /\ told' \in [Channel -> Told]
         /\ \A c \in Channel : Counts(channel'[c], told'[c]),
         /\ pc' \in {"channel", "byte", "end"} /\ at' \in Channel
         /\ pc' \in {"channel", "byte"} => \A d \in Channel : d < at' => ~channel'[d].dma
         /\ pc' = "end" => \A d \in Channel : ~channel'[d].dma
  PROVE  IInv'
<1>1. DmaTypeOK'
  BY DEF DmaTypeOK
<1>2. BytesAsAsked' /\ HdmaOnTime'
  BY DEF BytesAsAsked, HdmaOnTime
<1>3. NothingForgotten' /\ Passed' /\ Looked'
  BY DEF NothingForgotten, Passed, Looked, Phases, AnyDma
<1>4. QED BY <1>1, <1>2, <1>3 DEF IInv

LEMMA DmaEdgeInv == ASSUME IInv, DmaEdge PROVE IInv'
<1>1. PICK k \in AfterHdma : Edge(k) /\ channel' = k /\ GoOn(k, 0)
  BY DEF DmaEdge
<1>2. pc = "dma" /\ dmaPending' = dmaPending /\ asked' = AskedAfter
  BY DEF DmaEdge
<1>3. /\ dmaPending' = FALSE /\ hdmaPending' = FALSE /\ late' = 0
      /\ asked' \in [Channel -> 0 .. Bytes]
      /\ \A c \in Channel : asked'[c] = IF channel'[c].dma THEN Total(channel'[c].size) ELSE 0
  BY <1>1, <1>2, PhaseKeeps
<1>4. /\ channel' \in [Channel -> ChannelRecord] /\ dmaActive' \in BOOLEAN
      /\ hdmaMode' \in {0, 1} /\ told' \in [Channel -> Told]
      /\ \A c \in Channel : Counts(channel'[c], told'[c])
  BY <1>1, EdgeKeeps
<1>5. \A d \in Channel : ~(d < 0)
  BY DEF Channel
<1>6. /\ pc' \in {"channel", "end"} /\ at' \in Channel
      /\ pc' = "channel" => \A d \in Channel : d < at' => ~channel'[d].dma
      /\ pc' = "end" => \A d \in Channel : ~channel'[d].dma
  BY <1>1, <1>5, GoOnPasses
<1>7. QED BY <1>3, <1>4, <1>6, PhaseInv

LEMMA ChannelEdgeInv == ASSUME IInv, ChannelEdge PROVE IInv'
<1>1. PICK k \in AfterHdma : Edge(k) /\ channel' = k
  BY DEF ChannelEdge
<1>2. /\ pc = "channel" /\ pc' = "byte" /\ at' = at /\ dmaPending' = dmaPending
      /\ asked' = AskedAfter
  BY DEF ChannelEdge
<1>3. /\ dmaPending' = FALSE /\ hdmaPending' = FALSE /\ late' = 0
      /\ asked' \in [Channel -> 0 .. Bytes]
      /\ \A c \in Channel : asked'[c] = IF channel'[c].dma THEN Total(channel'[c].size) ELSE 0
      /\ \A c \in Channel : channel'[c].dma => channel[c].dma
  BY <1>1, <1>2, PhaseKeeps
<1>4. /\ channel' \in [Channel -> ChannelRecord] /\ dmaActive' \in BOOLEAN
      /\ hdmaMode' \in {0, 1} /\ told' \in [Channel -> Told]
      /\ \A c \in Channel : Counts(channel'[c], told'[c])
  BY <1>1, EdgeKeeps
<1>5. \A d \in Channel : d < at' => ~channel'[d].dma
  BY <1>2, <1>3 DEF IInv, Passed
<1>6. at' \in Channel
  BY <1>2 DEF IInv, DmaTypeOK
<1>7. QED BY <1>2, <1>3, <1>4, <1>5, <1>6, PhaseInv

\* A byte is one less to transfer, of the counter and of what was asked for.
LEMMA OneByteLess ==
  ASSUME NEW size \in Size
  PROVE  /\ Less(size) \in Size /\ Total(size) \in 1 .. Bytes
         /\ MoreAfter(size) => Total(size) - 1 = Total(Less(size)) /\ Total(size) > 1
         /\ ~MoreAfter(size) => Total(size) = 1
BY DEF Less, Total, MoreAfter, Size

LEMMA ByteInv == ASSUME IInv, Byte PROVE IInv'
<1> USE DEF IInv
<1>0. at \in Channel /\ pc = "byte" /\ dmaPending' = dmaPending
  BY DEF DmaTypeOK, Byte
<1>1. PICK k \in AfterHdma :
        LET goes == k[at].dma
            again == goes /\ MoreAfter(k[at].size)
        IN  /\ Edge(k)
            /\ channel' = [k EXCEPT ![at].dma = again,
                                    ![at].size = IF goes THEN Less(@) ELSE @]
            /\ IF again THEN UNCHANGED <<pc, at>> ELSE GoOn(channel', at + 1)
  BY DEF Byte
<1>2. asked' = [AskedAfter EXCEPT ![at] = IF @ = 0 THEN 0 ELSE @ - 1]
  BY DEF Byte
<1> DEFINE again == k[at].dma /\ MoreAfter(k[at].size)
<1>3. /\ dmaPending' = FALSE /\ hdmaPending' = FALSE /\ late' = 0
      /\ dmaActive' \in BOOLEAN /\ hdmaMode' \in {0, 1}
      /\ k \in [Channel -> ChannelRecord]
      /\ AskedAfter \in [Channel -> 0 .. Bytes]
      /\ \A c \in Channel : AskedAfter[c] = IF k[c].dma THEN Total(k[c].size) ELSE 0
      /\ \A c \in Channel : k[c].dma => channel[c].dma
  BY <1>0, <1>1, PhaseKeeps
<1>4. k[at] \in ChannelRecord /\ k[at].size \in Size /\ k[at].dma \in BOOLEAN
  BY <1>0, <1>3 DEF ChannelRecord
<1>5. /\ channel' \in [Channel -> ChannelRecord]
      /\ channel'[at].dma <=> again
      /\ channel'[at].size = IF k[at].dma THEN Less(k[at].size) ELSE k[at].size
      /\ channel'[at].line = k[at].line /\ channel'[at].completed = k[at].completed
      /\ channel'[at].transfer = k[at].transfer
      /\ \A c \in Channel : c # at => channel'[c] = k[c]
  <2>1. channel' = [k EXCEPT ![at] = [k[at] EXCEPT !.dma = again,
                                                   !.size = IF k[at].dma THEN Less(@) ELSE @]]
    BY <1>0, <1>1, <1>3, <1>4 DEF ChannelRecord
  <2>2. (IF k[at].dma THEN Less(k[at].size) ELSE k[at].size) \in Size /\ again \in BOOLEAN
    BY <1>4, OneByteLess
  <2> DEFINE kat == [k[at] EXCEPT !.dma = again,
                                  !.size = IF k[at].dma THEN Less(@) ELSE @]
  <2>3. /\ kat \in ChannelRecord /\ (kat.dma <=> again)
        /\ kat.size = IF k[at].dma THEN Less(k[at].size) ELSE k[at].size
        /\ kat.line = k[at].line /\ kat.completed = k[at].completed
        /\ kat.transfer = k[at].transfer
    BY <1>4, <2>2 DEF ChannelRecord
  <2> HIDE DEF kat, again
  <2>4. channel' = [k EXCEPT ![at] = kat]
    BY <2>1 DEF kat
  <2>5. QED BY <1>0, <1>3, <2>3, <2>4
<1> HIDE DEF again
<1>6. told' \in [Channel -> Told] /\ \A c \in Channel : Counts(channel'[c], told'[c])
  <2>1. told' \in [Channel -> Told] /\ \A c \in Channel : Counts(k[c], told'[c])
    BY <1>1, EdgeKeeps
  <2>2. Counts(channel'[at], told'[at])
    BY <1>0, <1>5, <2>1 DEF Counts
  <2>3. QED BY <1>5, <2>1, <2>2
<1>7. /\ asked' \in [Channel -> 0 .. Bytes]
      /\ \A c \in Channel : asked'[c] = IF channel'[c].dma THEN Total(channel'[c].size) ELSE 0
  <2>1. AskedAfter[at] = IF k[at].dma THEN Total(k[at].size) ELSE 0
    BY <1>0, <1>3
  <2>2. AskedAfter[at] \in 0 .. Bytes
    BY <1>0, <1>3
  <2>3. asked' \in [Channel -> 0 .. Bytes]
    BY <1>0, <1>2, <1>3, <2>2
  <2>4. asked'[at] = IF channel'[at].dma THEN Total(channel'[at].size) ELSE 0
    <3>1. asked'[at] = IF AskedAfter[at] = 0 THEN 0 ELSE AskedAfter[at] - 1
      BY <1>0, <1>2, <1>3
    <3>2. CASE ~k[at].dma
      BY <1>5, <2>1, <3>1, <3>2 DEF again
    <3>3. CASE k[at].dma /\ MoreAfter(k[at].size)
      BY <1>4, <1>5, <2>1, <3>1, <3>3, OneByteLess DEF again
    <3>4. CASE k[at].dma /\ ~MoreAfter(k[at].size)
      BY <1>4, <1>5, <2>1, <3>1, <3>4, OneByteLess DEF again
    <3>5. QED BY <3>2, <3>3, <3>4
  <2>5. \A c \in Channel : c # at => asked'[c] = AskedAfter[c]
    BY <1>2, <1>3
  <2>6. QED BY <1>3, <1>5, <2>3, <2>4, <2>5
<1>8. \A d \in Channel : d < at => ~channel'[d].dma
  <2>1. \A d \in Channel : d < at => ~channel[d].dma
    BY <1>0 DEF Passed
  <2>2. \A d \in Channel : d < at => d # at
    BY <1>0 DEF Channel
  <2>3. QED BY <1>3, <1>5, <2>1, <2>2
<1>9. /\ pc' \in {"byte", "channel", "end"} /\ at' \in Channel
      /\ pc' \in {"byte", "channel"} => \A d \in Channel : d < at' => ~channel'[d].dma
      /\ pc' = "end" => \A d \in Channel : ~channel'[d].dma
  <2>1. CASE again
    <3>1. pc' = "byte" /\ at' = at
      BY <1>0, <1>1, <2>1 DEF again
    <3>2. QED BY <1>0, <1>8, <3>1
  <2>2. CASE ~again
    <3>1. GoOn(channel', at + 1)
      BY <1>1, <2>2 DEF again
    <3>2. at + 1 \in Nat /\ \A d \in Channel : d < at + 1 => ~channel'[d].dma
      <4>1. \A d \in Channel : d < at + 1 => d < at \/ d = at
        BY <1>0 DEF Channel
      <4>2. ~channel'[at].dma
        BY <1>5, <2>2
      <4>3. QED BY <1>0, <1>8, <4>1, <4>2 DEF Channel
    <3>3. /\ pc' \in {"channel", "end"} /\ at' \in Channel
          /\ pc' = "channel" => \A d \in Channel : d < at' => ~channel'[d].dma
          /\ pc' = "end" => \A d \in Channel : ~channel'[d].dma
      BY <3>1, <3>2, GoOnPasses
    <3>4. QED BY <3>3
  <2>3. QED BY <2>1, <2>2
<1>10. QED BY <1>3, <1>5, <1>6, <1>7, <1>9, PhaseInv

LEMMA EndInv == ASSUME IInv, End PROVE IInv'
<1> USE DEF IInv
<1>1. late = 0 /\ (hdmaPending => dmaActive')
  BY DEF End, Looked, DmaTypeOK
<1>2. ~AnyDma(channel)
  BY DEF End, Passed
<1>3. DmaTypeOK' /\ BytesAsAsked' /\ \A c \in Channel : Counts(channel'[c], told'[c])
  BY <1>1 DEF End, DmaTypeOK, BytesAsAsked, status
<1>4. late' <= 1 /\ Looked'
  BY <1>1 DEF End, Looked, Phases
<1>5. NothingForgotten' /\ Passed'
  BY <1>2 DEF End, NothingForgotten, Passed, Phases, AnyDma
<1>6. QED BY <1>3, <1>4, <1>5 DEF HdmaOnTime

\* The cycles of the CPU and the triggers of the picture
LEMMA CycleInv ==
  ASSUME IInv, NoAccess \/ WriteDMAEN \/ WriteHDMAEN \/ WriteSize \/ WriteLine PROVE IInv'
<1> USE DEF IInv
<1>1. /\ pc = "cycle" /\ pc' = "edge" /\ dmaActive' = dmaActive /\ hdmaPending' = hdmaPending
      /\ hdmaMode' = hdmaMode /\ at' = at /\ late' = late
  BY DEF NoAccess, WriteDMAEN, WriteHDMAEN, WriteSize, WriteLine, Cycle
<1>2. /\ channel' \in [Channel -> ChannelRecord] /\ dmaPending' \in BOOLEAN
      /\ asked' \in [Channel -> 0 .. Bytes] /\ told' \in [Channel -> Told]
      /\ BytesAsAsked'
      /\ AnyDma(channel') => dmaPending'
      /\ \A c \in Channel : Counts(channel'[c], told'[c])
  <2>0. AnyDma(channel) => dmaPending
    BY <1>1 DEF NothingForgotten
  <2>1. CASE NoAccess
    BY <2>0, <2>1 DEF NoAccess, DmaTypeOK, BytesAsAsked, AnyDma
  <2>2. CASE WriteDMAEN
    <3>1. PICK enabled \in SUBSET Channel :
            /\ channel' = [c \in Channel |-> [channel[c] EXCEPT !.dma = c \in enabled]]
            /\ dmaPending' = (dmaPending \/ enabled # {})
            /\ asked' = [c \in Channel |-> IF c \in enabled THEN Total(channel[c].size) ELSE 0]
            /\ told' = told
      BY <2>2 DEF WriteDMAEN
    <3>2. ASSUME NEW c \in Channel
          PROVE  /\ channel'[c] \in ChannelRecord
                 /\ channel'[c].dma <=> c \in enabled
                 /\ channel'[c].size = channel[c].size
                 /\ channel'[c].line = channel[c].line
                 /\ channel'[c].completed = channel[c].completed
                 /\ channel'[c].transfer = channel[c].transfer
      <4> DEFINE on == c \in enabled
      <4>1. channel[c] \in ChannelRecord /\ on \in BOOLEAN
        BY DEF DmaTypeOK
      <4>2. channel'[c] = [channel[c] EXCEPT !.dma = on]
        BY <3>1
      <4> HIDE DEF on
      <4>3. QED BY <4>1, <4>2 DEF ChannelRecord, on
    <3>3. channel' \in [Channel -> ChannelRecord]
      BY <3>1, <3>2
    <3>4. \A c \in Channel : Total(channel[c].size) \in 0 .. Bytes
      BY OneByteLess DEF DmaTypeOK, ChannelRecord
    <3>5. asked' \in [Channel -> 0 .. Bytes]
      BY <3>1, <3>4
    <3>6. BytesAsAsked'
      BY <3>1, <3>2 DEF BytesAsAsked
    <3>7. AnyDma(channel') => dmaPending'
      BY <3>1, <3>2 DEF AnyDma
    <3>8. \A c \in Channel : Counts(channel'[c], told'[c])
      BY <3>1, <3>2 DEF Counts
    <3>9. QED BY <3>1, <3>3, <3>5, <3>6, <3>7, <3>8 DEF DmaTypeOK
  <2>3. CASE WriteHDMAEN
    <3>1. PICK enabled \in SUBSET Channel :
            /\ channel' = [c \in Channel |-> [channel[c] EXCEPT !.hdma = c \in enabled]]
            /\ UNCHANGED <<dmaPending, asked, told>>
      BY <2>3 DEF WriteHDMAEN
    <3>2. ASSUME NEW c \in Channel
          PROVE  /\ channel'[c] \in ChannelRecord
                 /\ channel'[c].dma <=> channel[c].dma
                 /\ channel'[c].size = channel[c].size
                 /\ channel'[c].line = channel[c].line
                 /\ channel'[c].completed = channel[c].completed
                 /\ channel'[c].transfer = channel[c].transfer
      <4> DEFINE on == c \in enabled
      <4>1. channel[c] \in ChannelRecord /\ on \in BOOLEAN
        BY DEF DmaTypeOK
      <4>2. channel'[c] = [channel[c] EXCEPT !.hdma = on]
        BY <3>1
      <4> HIDE DEF on
      <4>3. QED BY <4>1, <4>2 DEF ChannelRecord
    <3>3. channel' \in [Channel -> ChannelRecord]
      BY <3>1, <3>2
    <3>4. BytesAsAsked'
      BY <3>1, <3>2 DEF BytesAsAsked
    <3>5. AnyDma(channel') => dmaPending'
      BY <2>0, <3>1, <3>2 DEF AnyDma
    <3>6. \A c \in Channel : Counts(channel'[c], told'[c])
      BY <3>1, <3>2 DEF Counts
    <3>7. QED BY <3>1, <3>3, <3>4, <3>5, <3>6 DEF DmaTypeOK
  <2>4. CASE WriteSize
    <3>1. PICK c \in Channel, size \in Size :
            /\ channel' = [channel EXCEPT ![c].size = size]
            /\ asked' = [asked EXCEPT ![c] = IF channel[c].dma THEN Total(size) ELSE 0]
            /\ UNCHANGED <<dmaPending, told>>
      BY <2>4 DEF WriteSize
    <3>2. /\ channel'[c] \in ChannelRecord /\ (channel'[c].dma <=> channel[c].dma)
          /\ channel'[c].size = size /\ channel'[c].line = channel[c].line
          /\ channel'[c].completed = channel[c].completed
          /\ channel'[c].transfer = channel[c].transfer
      BY <3>1 DEF DmaTypeOK, ChannelRecord
    <3>3. \A d \in Channel : d # c => channel'[d] = channel[d] /\ asked'[d] = asked[d]
      BY <3>1 DEF DmaTypeOK
    <3>4. asked'[c] = (IF channel'[c].dma THEN Total(channel'[c].size) ELSE 0)
          /\ asked'[c] \in 0 .. Bytes
      BY <3>1, <3>2, OneByteLess DEF DmaTypeOK
    <3>5. channel' \in [Channel -> ChannelRecord]
      BY <3>1, <3>2, <3>3 DEF DmaTypeOK
    <3>6. asked' \in [Channel -> 0 .. Bytes]
      BY <3>1, <3>3, <3>4 DEF DmaTypeOK
    <3>7. BytesAsAsked'
      BY <3>3, <3>4 DEF BytesAsAsked
    <3>8. AnyDma(channel') => dmaPending'
      BY <2>0, <3>1, <3>2, <3>3 DEF AnyDma
    <3>9. Counts(channel'[c], told'[c])
      BY <3>1, <3>2 DEF Counts
    <3>10. \A d \in Channel : Counts(channel'[d], told'[d])
      BY <3>1, <3>3, <3>9
    <3>11. QED BY <3>1, <3>5, <3>6, <3>7, <3>8, <3>10 DEF DmaTypeOK
  <2>5. CASE WriteLine
    <3>1. PICK c \in Channel, line \in Entry :
            /\ channel' = [channel EXCEPT ![c].line = line]
            /\ told' = [told EXCEPT ![c] = Nothing]
            /\ UNCHANGED <<dmaPending, asked>>
      BY <2>5 DEF WriteLine
    <3>2. /\ channel'[c] \in ChannelRecord /\ (channel'[c].dma <=> channel[c].dma)
          /\ channel'[c].size = channel[c].size
      BY <3>1 DEF DmaTypeOK, ChannelRecord
    <3>3. \A d \in Channel : d # c => channel'[d] = channel[d] /\ told'[d] = told[d]
      BY <3>1 DEF DmaTypeOK
    <3>4. told'[c] = Nothing /\ Nothing \in Told /\ ~(Nothing.lines > 0)
      BY <3>1 DEF DmaTypeOK, Nothing, Told
    <3>5. channel' \in [Channel -> ChannelRecord]
      BY <3>1, <3>2, <3>3 DEF DmaTypeOK
    <3>6. told' \in [Channel -> Told]
      BY <3>1, <3>3, <3>4 DEF DmaTypeOK
    <3>7. BytesAsAsked'
      BY <3>1, <3>2, <3>3 DEF BytesAsAsked
    <3>8. AnyDma(channel') => dmaPending'
      BY <2>0, <3>1, <3>2, <3>3 DEF AnyDma
    <3>9. Counts(channel'[c], told'[c])
      BY <3>4 DEF Counts
    <3>10. \A d \in Channel : Counts(channel'[d], told'[d])
      BY <3>3, <3>9
    <3>11. QED BY <3>1, <3>5, <3>6, <3>7, <3>8, <3>10 DEF DmaTypeOK
  <2>6. QED BY <2>1, <2>2, <2>3, <2>4, <2>5
<1>3. DmaTypeOK'
  BY <1>1, <1>2 DEF DmaTypeOK
<1>4. NothingForgotten' /\ HdmaOnTime' /\ Passed' /\ Looked'
  BY <1>1, <1>2 DEF NothingForgotten, HdmaOnTime, Passed, Looked, Phases
<1>5. QED BY <1>2, <1>3, <1>4

LEMMA TriggerInv == ASSUME IInv, FrameTrigger \/ LineTrigger PROVE IInv'
<1> USE DEF IInv
<1>1. /\ Quiet /\ UNCHANGED <<dmaActive, dmaPending, pc, at, asked, late>>
      /\ hdmaPending' \in BOOLEAN /\ hdmaMode' \in {0, 1}
  BY DEF FrameTrigger, LineTrigger, AnyHdma, DmaTypeOK
<1>2. /\ channel' \in [Channel -> ChannelRecord] /\ told' \in [Channel -> Told]
      /\ \A c \in Channel : /\ channel'[c].dma <=> channel[c].dma
                            /\ channel'[c].size = channel[c].size
                            /\ Counts(channel'[c], told'[c])
  <2>1. CASE FrameTrigger
    <3>1. /\ channel' = [c \in Channel |->
                          [channel[c] EXCEPT !.completed = FALSE, !.transfer = FALSE]]
          /\ told' = [c \in Channel |-> Nothing]
      BY <2>1 DEF FrameTrigger
    <3>2. Nothing \in Told /\ ~(Nothing.lines > 0)
      BY DEF Nothing, Told
    <3>3. ASSUME NEW c \in Channel
          PROVE  /\ channel'[c] \in ChannelRecord
                 /\ channel'[c].dma <=> channel[c].dma
                 /\ channel'[c].size = channel[c].size
      BY <3>1 DEF DmaTypeOK, ChannelRecord
    <3>4. \A c \in Channel : Counts(channel'[c], told'[c])
      BY <3>1, <3>2 DEF Counts
    <3>5. QED BY <3>1, <3>2, <3>3, <3>4
  <2>2. CASE LineTrigger
    BY <2>2 DEF LineTrigger, DmaTypeOK
  <2>3. QED BY <2>1, <2>2
<1>3. DmaTypeOK'
  BY <1>1, <1>2 DEF DmaTypeOK
<1>4. BytesAsAsked'
  BY <1>1, <1>2 DEF BytesAsAsked
<1>5. NothingForgotten' /\ Passed'
  BY <1>1, <1>2 DEF NothingForgotten, Passed, AnyDma
<1>6. HdmaOnTime' /\ Looked'
  BY <1>1 DEF HdmaOnTime, Looked, Quiet, Phases
<1>7. QED BY <1>2, <1>3, <1>4, <1>5, <1>6

LEMMA NextInv == IInv /\ [Next]_vars => IInv'
<1> SUFFICES ASSUME IInv, [Next]_vars PROVE IInv'
  OBVIOUS
<1>1. CASE Between
  BY <1>1, CpuEdgeInv, DmaEdgeInv, ChannelEdgeInv, ByteInv, EndInv DEF Between
<1>2. CASE NoAccess \/ WriteDMAEN \/ WriteHDMAEN \/ WriteSize \/ WriteLine
  BY <1>2, CycleInv
<1>3. CASE FrameTrigger \/ LineTrigger
  BY <1>3, TriggerInv
<1>4. CASE UNCHANGED vars
  BY <1>4 DEF IInv, DmaTypeOK, BytesAsAsked, NothingForgotten, HdmaOnTime, Passed, Looked,
              Phases, AnyDma, vars, status
<1>5. QED BY <1>1, <1>2, <1>3, <1>4 DEF Next

\* The inductive invariant holds.
LEMMA Invariance == Spec => []IInv
BY InitInv, NextInv, PTL DEF Spec

-----------------------------------------------------------------------------
(* The theorems *)

\* The registers of the channels keep the width the code gives them, however the game,
\* DMA and HDMA write to the same ones.
THEOREM DmaTypes == Spec => []DmaTypeOK
<1>1. IInv => DmaTypeOK
  BY DEF IInv
<1>2. QED BY <1>1, Invariance, PTL

\* A DMA transfers all the bytes the game asked for, a full 65536 for a counter of zero,
\* and nothing is left to be resumed after HDMA took the channel.
THEOREM AllBytes == Spec => []BytesAsAsked
<1>1. IInv => BytesAsAsked
  BY DEF IInv
<1>2. QED BY <1>1, Invariance, PTL

\* No channel that the game enabled is left behind when the CPU gets the bus back.
THEOREM NoChannelForgotten == Spec => []NothingForgotten
<1>1. IInv => NothingForgotten
  BY DEF IInv
<1>2. QED BY <1>1, Invariance, PTL

\* HDMA waits for one byte or one cycle at most, also in the middle of a DMA.
THEOREM HdmaWaitsForOne == Spec => []HdmaOnTime
<1>1. IInv => HdmaOnTime
  BY DEF IInv
<1>2. QED BY <1>1, Invariance, PTL

\* Each channel of HDMA transfers on the lines its table says, entry after entry.
THEOREM TablesFollowed == Spec => []LinesAsTold
<1>1. IInv => LinesAsTold
  <2> SUFFICES ASSUME IInv, NEW c \in Channel, told[c].lines > 0
               PROVE  /\ channel[c].transfer = (told[c].now \/ told[c].again)
                      /\ Low(channel[c].line) = Low(told[c].lines)
                      /\ ~channel[c].completed
    BY DEF LinesAsTold
  <2>1. /\ channel[c].line = told[c].lines + (IF told[c].again THEN Lines ELSE 0)
        /\ told[c].again => told[c].lines < Lines
        /\ channel[c].transfer = (told[c].now \/ told[c].again)
        /\ ~channel[c].completed
    BY DEF IInv, Counts
  <2>2. told[c].lines \in 1 .. Lines
    BY DEF IInv, DmaTypeOK, Told
  <2>3. Low(channel[c].line) = Low(told[c].lines)
    BY <2>1, <2>2 DEF Low
  <2>4. QED BY <2>1, <2>3
<1>2. QED BY <1>1, Invariance, PTL
=============================================================================
