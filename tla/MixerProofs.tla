----------------------------- MODULE MixerProofs -----------------------------
(***************************************************************************)
(* Proofs about Mixer: for any number of streams and any sizes, the list   *)
(* holds every stream of the tree, streams keep in step, and no queue is   *)
(* overrun while no stream that was removed is in the list.                *)
(***************************************************************************)
EXTENDS Mixer, WellFoundedInduction, TLAPS

-----------------------------------------------------------------------------
(* Arithmetic *)

\* A non-empty set of natural numbers has a least element, and Min returns it.
LEMMA MinIsLeast ==
  ASSUME NEW S \in SUBSET Nat, S # {}
  PROVE  Min(S) \in S /\ \A y \in S : Min(S) <= y
<1>1. \E x \in S : \A y \in S : ~ (<<y, x>> \in OpToRel(<, Nat))
  BY NatLessThanWellFounded, WFMin
<1>2. PICK x \in S : \A y \in S : ~ (<<y, x>> \in OpToRel(<, Nat))
  BY <1>1
<1>3. \A y \in S : x <= y
  <2>1. TAKE y \in S
  <2>2. ~ (y < x)
    BY <1>2, <2>1 DEF OpToRel
  <2>3. y \in Nat /\ x \in Nat
    BY <2>1, <1>2
  <2>4. QED BY <2>2, <2>3
<1>4. QED BY <1>2, <1>3 DEF Min

\* One change more allows a shift of 2 * Skew more, and the changes are bounded.
LEMMA Shifts ==
  ASSUME NEW j \in 0 .. MaxJolts, MixerAssumption
  PROVE  /\ 2 * Skew * j \in Nat
         /\ 2 * Skew * (j + 1) = 2 * Skew * j + 2 * Skew
         /\ 2 * Skew * j <= 2 * Skew * MaxJolts
<1>1. Skew \in Nat /\ MaxJolts \in Nat /\ j \in Nat /\ j <= MaxJolts
  BY DEF MixerAssumption
<1>2. DEFINE a == 2 * Skew
<1>3. a \in Nat
  BY <1>1
<1>4. /\ a * j \in Nat
      /\ a * (j + 1) = a * j + a
  BY <1>1, <1>3
<1>5. a * j <= a * MaxJolts
  <2>1. PICK k \in Nat : MaxJolts = j + k
    <3>1. MaxJolts - j \in Nat /\ MaxJolts = j + (MaxJolts - j)
      BY <1>1
    <3>2. QED BY <3>1
  <2>2. a * MaxJolts = a * j + a * k /\ a * k \in Nat
    BY <1>1, <1>3, <2>1
  <2>3. QED BY <1>4, <2>2
<1>6. QED BY <1>4, <1>5

-----------------------------------------------------------------------------
(* The inductive invariant *)

\* Every sample that could be output was: one stream has none.
Waiting == on /\ Fresh => \E a \in tree : size[a] = 0

IInv == MixerTypeOK /\ Waiting /\ InStep

LEMMA InitInv == ASSUME MixerAssumption, Init PROVE IInv
<1>1. Skew \in Nat /\ MaxJolts \in Nat
  BY DEF MixerAssumption
<1>2. MixerTypeOK
  <2>1. 0 \in 0 .. Skew /\ 0 \in 0 .. MaxJolts
    BY <1>1
  <2>2. size \in [Streams -> Nat] /\ lead \in [Streams -> 0 .. Skew]
    BY <2>1 DEF Init
  <2>3. QED BY <2>1, <2>2 DEF Init, MixerTypeOK, Streams
<1>3. Waiting /\ InStep
  BY DEF Init, Waiting, InStep
<1>4. QED BY <1>2, <1>3 DEF IInv

\* The actions of the host leave the types as they are.
LEMMA HostTypes ==
  ASSUME MixerAssumption, MixerTypeOK,
         \/ Load \/ \E more \in SUBSET Chips : Connect(more)
         \/ Disconnect \/ PowerOn \/ PowerOff
  PROVE  MixerTypeOK'
<1> USE DEF MixerAssumption, MixerTypeOK, Streams, Attached, Detached, Emptied
<1>1. CASE Load
  BY <1>1 DEF Load
<1>2. CASE \E more \in SUBSET Chips : Connect(more)
  BY <1>2 DEF Connect
<1>3. CASE Disconnect
  BY <1>3 DEF Disconnect
<1>4. CASE PowerOn
  <2>1. 0 \in 0 .. Skew /\ 0 \in 0 .. MaxJolts
    OBVIOUS
  <2>2. size' \in [Streams -> Nat] /\ lead' \in [Streams -> 0 .. Skew]
    BY <1>4, <2>1 DEF PowerOn
  <2>3. jolts' = 0 /\ mixed' = FALSE /\ on' = TRUE /\ tree' = tree /\ streams' = streams
    BY <1>4 DEF PowerOn
  <2>4. QED BY <2>1, <2>2, <2>3
<1>5. CASE PowerOff
  BY <1>5 DEF PowerOff
<1>6. QED BY <1>1, <1>2, <1>3, <1>4, <1>5

\* They leave the power off, or turn it on with every queue empty.
LEMMA HostInv ==
  ASSUME MixerAssumption, IInv,
         \/ Load \/ \E more \in SUBSET Chips : Connect(more)
         \/ Disconnect \/ PowerOn \/ PowerOff
  PROVE  IInv'
<1>1. MixerTypeOK'
  BY HostTypes DEF IInv
<1>2. CASE PowerOn
  <2>1. /\ \A s \in tree' : size'[s] = 0 /\ lead'[s] = 0
        /\ jolts' = 0 /\ Own \in tree'
    BY <1>2 DEF PowerOn, Emptied, IInv, MixerTypeOK
  <2>2. 2 * Skew * jolts' = 0
    BY <2>1 DEF MixerAssumption
  <2>3. QED BY <1>1, <2>1, <2>2 DEF IInv, Waiting, InStep, Shift
<1>3. CASE ~PowerOn
  <2>1. ~on'
    BY <1>3 DEF Load, Connect, Disconnect, PowerOff
  <2>2. QED BY <1>1, <2>1 DEF IInv, Waiting, InStep
<1>4. QED BY <1>2, <1>3

-----------------------------------------------------------------------------
(* Loads and changes of frequency *)

LEMMA JoltTypes ==
  ASSUME MixerAssumption, MixerTypeOK,
         ChangeSettings \/ LoadState \/ \E s \in Streams : Retune(s)
  PROVE  MixerTypeOK'
<1> USE DEF MixerAssumption, MixerTypeOK, Streams, Emptied
<1>1. CASE ChangeSettings
  BY <1>1 DEF ChangeSettings
<1>2. CASE LoadState
  BY <1>2 DEF LoadState
<1>3. CASE \E s \in Streams : Retune(s)
  BY <1>3 DEF Retune
<1>4. QED BY <1>1, <1>2, <1>3

LEMMA JoltInv ==
  ASSUME MixerAssumption, IInv,
         ChangeSettings \/ LoadState \/ \E s \in Streams : Retune(s)
  PROVE  IInv'
<1>1. MixerTypeOK /\ MixerTypeOK'
  BY JoltTypes DEF IInv
<1>2. jolts \in 0 .. MaxJolts /\ jolts' = jolts + 1 /\ tree' = tree /\ streams' = streams
  BY <1>1 DEF ChangeSettings, LoadState, Retune, MixerTypeOK
<1>3. 2 * Skew * jolts \in Nat /\ 2 * Skew * jolts' = 2 * Skew * jolts + 2 * Skew
  BY <1>2, Shifts
<1>4. Skew \in Nat /\ tree \subseteq Streams /\ Own \in tree
  BY <1>1 DEF MixerAssumption, MixerTypeOK
<1>5. \A s \in tree : /\ lead[s] \in 0 .. Skew /\ lead'[s] \in 0 .. Skew
                      /\ size[s] \in Nat /\ size'[s] \in Nat
  BY <1>1, <1>4 DEF MixerTypeOK
<1>6. SUFFICES ASSUME on', Fresh'
               PROVE  /\ \E a \in tree : size'[a] = 0
                      /\ \A s, t \in tree :
                           (lead'[s] - size'[s]) - (lead'[t] - size'[t]) <= 2 * Skew * jolts'
  BY <1>1, <1>2 DEF IInv, Waiting, InStep, Shift
<1>7. on /\ Fresh
  BY <1>6, <1>2 DEF ChangeSettings, LoadState, Retune, Fresh
<1>8. PICK a \in tree : size[a] = 0
  BY <1>7 DEF IInv, Waiting
<1>9. \A s, t \in tree : (lead[s] - size[s]) - (lead[t] - size[t]) <= 2 * Skew * jolts
  BY <1>7 DEF IInv, InStep, Shift
<1>10. CASE ChangeSettings
  <2>1. \A s \in tree : size'[s] = 0
    BY <1>10, <1>4 DEF ChangeSettings, Emptied
  <2>2. QED BY <2>1, <1>3, <1>4, <1>5
<1>11. CASE LoadState
  <2>1. size' = size
    BY <1>11 DEF LoadState
  <2>2. QED BY <2>1, <1>3, <1>4, <1>5, <1>8, <1>9
<1>12. ASSUME NEW c \in Streams, Retune(c)
       PROVE  /\ \E b \in tree : size'[b] = 0
              /\ \A s, t \in tree :
                   (lead'[s] - size'[s]) - (lead'[t] - size'[t]) <= 2 * Skew * jolts'
  <2>1. lead' = lead /\ c \in tree
    BY <1>12 DEF Retune
  <2>2. \A s \in tree : size'[s] = IF s = c THEN 0 ELSE size[s]
    BY <1>12, <1>4 DEF Retune, Emptied
  <2>3. size'[c] = 0
    BY <2>1, <2>2
  <2>4. ASSUME NEW s \in tree, NEW t \in tree
        PROVE  (lead'[s] - size'[s]) - (lead'[t] - size'[t]) <= 2 * Skew * jolts'
    <3>1. CASE s # c /\ t # c
      BY <3>1, <2>1, <2>2, <1>3, <1>4, <1>5, <1>9
    <3>2. CASE t = c
      BY <3>2, <2>1, <2>3, <1>3, <1>4, <1>5
    <3>3. CASE s = c /\ t # c
      <4>1. (lead[a] - size[a]) - (lead[t] - size[t]) <= 2 * Skew * jolts
        BY <1>9
      <4>2. QED BY <3>3, <4>1, <2>1, <2>2, <2>3, <1>3, <1>4, <1>5, <1>8
    <3>4. QED BY <3>1, <3>2, <3>3
  <2>5. QED BY <2>1, <2>3, <2>4
<1>13. QED BY <1>10, <1>11, <1>12

-----------------------------------------------------------------------------
(* The threads *)

LEMMA CpuInv == ASSUME MixerAssumption, IInv, CpuRuns PROVE IInv'
<1>1. MixerTypeOK
  BY DEF IInv
<1>2. /\ UNCHANGED <<tree, streams, size, on, jolts>>
      /\ \A s \in tree : lead'[s] = lead[s] - 1
  BY <1>1 DEF CpuRuns, MixerTypeOK
<1>3. lead' \in [Streams -> 0 .. Skew] /\ mixed' \in BOOLEAN
  <2>1. \A s \in Streams : (IF s \in tree THEN lead[s] - 1 ELSE lead[s]) \in 0 .. Skew
    <3>1. TAKE s \in Streams
    <3>2. lead[s] \in 0 .. Skew /\ Skew \in Nat
      BY <3>1, <1>1 DEF MixerTypeOK, MixerAssumption
    <3>3. s \in tree => lead[s] > 0
      BY DEF CpuRuns
    <3>4. QED BY <3>2, <3>3
  <2>2. QED BY <2>1 DEF CpuRuns
<1>4. MixerTypeOK' /\ Waiting'
  BY <1>1, <1>2, <1>3 DEF MixerTypeOK, Waiting, IInv, Fresh
<1>5. InStep'
  <2>1. SUFFICES ASSUME on', Fresh', NEW s \in tree, NEW t \in tree
                 PROVE  (lead'[s] - size'[s]) - (lead'[t] - size'[t]) <= Shift
    BY <1>2 DEF InStep, Shift
  <2>2. (lead[s] - size[s]) - (lead[t] - size[t]) <= Shift
    BY <2>1, <1>2 DEF IInv, InStep, Fresh
  <2>3. /\ lead[s] \in Int /\ lead[t] \in Int /\ size[s] \in Int /\ size[t] \in Int
        /\ lead'[s] = lead[s] - 1 /\ lead'[t] = lead[t] - 1
        /\ size'[s] = size[s] /\ size'[t] = size[t]
    BY <2>1, <1>1, <1>2 DEF MixerTypeOK
  <2>4. (lead'[s] - size'[s]) - (lead'[t] - size'[t])
          = (lead[s] - size[s]) - (lead[t] - size[t])
    BY <2>3
  <2>5. QED BY <2>2, <2>4
<1>6. QED BY <1>4, <1>5 DEF IInv

\* A frame more takes as much from every stream, and leaves one of them without.
LEMMA FramesTaken ==
  ASSUME MixerTypeOK, NEW sizes \in [Streams -> Nat]
  PROVE  /\ Frames(sizes) \in Nat
         /\ \E a \in streams : Frames(sizes) = sizes[a]
         /\ Taken(sizes, Frames(sizes)) \in [Streams -> Nat]
<1>1. streams \subseteq Streams /\ streams # {}
  BY DEF MixerTypeOK
<1>2. DEFINE S == {sizes[s] : s \in streams}
<1>3. S \in SUBSET Nat /\ S # {}
  BY <1>1
<1>4. Frames(sizes) = Min(S)
  BY <1>1 DEF Frames
<1>5. Min(S) \in S /\ \A y \in S : Min(S) <= y
  BY <1>3, MinIsLeast
<1>6. \A s \in streams : sizes[s] - Min(S) \in Nat
  <2>1. TAKE s \in streams
  <2>2. Min(S) <= sizes[s] /\ sizes[s] \in Nat /\ Min(S) \in Nat
    BY <1>1, <1>3, <1>5
  <2>3. QED BY <2>2
<1>7. Taken(sizes, Min(S)) \in [Streams -> Nat]
  BY <1>1, <1>6 DEF Taken
<1>8. QED BY <1>3, <1>4, <1>5, <1>7

LEMMA SampleInv ==
  ASSUME MixerAssumption, IInv, NEW c \in Streams, Sample(c) PROVE IInv'
<1>1. MixerTypeOK
  BY DEF IInv
<1>2. PICK n \in 1 .. Burst :
        LET sizes == [size EXCEPT ![c] = @ + n]
        IN  /\ lead[c] + n <= Skew
            /\ lead' = [lead EXCEPT ![c] = @ + n]
            /\ size' = Taken(sizes, Frames(sizes))
            /\ mixed' = (mixed \/ Frames(sizes) > 0)
  BY DEF Sample
<1>3. DEFINE sizes == [size EXCEPT ![c] = @ + n]
             frames == Frames(sizes)
<1>4. UNCHANGED <<tree, streams, on, jolts>> /\ c \in tree
  BY DEF Sample
<1>5. n \in Nat /\ Skew \in Nat
  BY DEF MixerAssumption
<1>6. sizes \in [Streams -> Nat]
  BY <1>1, <1>5 DEF MixerTypeOK
<1>7. /\ frames \in Nat /\ \E a \in streams : frames = sizes[a]
      /\ Taken(sizes, frames) \in [Streams -> Nat]
  BY <1>1, <1>6, FramesTaken
<1>8. lead' \in [Streams -> 0 .. Skew] /\ mixed' \in BOOLEAN
  <2>1. lead[c] + n \in 0 .. Skew
    BY <1>1, <1>2, <1>5 DEF MixerTypeOK
  <2>2. lead' = [lead EXCEPT ![c] = lead[c] + n]
    BY <1>2
  <2>3. QED BY <1>1, <1>2, <2>1, <2>2 DEF MixerTypeOK
<1>9. MixerTypeOK'
  <2>1. size' = Taken(sizes, frames)
    BY <1>2
  <2>2. QED BY <1>1, <1>4, <1>7, <1>8, <2>1 DEF MixerTypeOK
<1>10. SUFFICES ASSUME on', Fresh'
                PROVE  /\ \E a \in tree : size'[a] = 0
                       /\ \A s, t \in tree :
                            (lead'[s] - size'[s]) - (lead'[t] - size'[t]) <= Shift
  BY <1>4, <1>9 DEF IInv, Waiting, InStep, Shift
<1>11. on /\ Fresh /\ streams = tree
  BY <1>1, <1>4, <1>10 DEF Fresh, MixerTypeOK
<1>12. \A s \in tree : size'[s] = sizes[s] - frames
  BY <1>1, <1>2, <1>11 DEF Taken, MixerTypeOK
<1>13. \A s \in tree : /\ lead'[s] - size'[s] = lead[s] - size[s] + frames
                       /\ lead[s] - size[s] \in Int
  <2>1. TAKE s \in tree
  <2>2. /\ s \in Streams /\ lead[s] \in Int /\ size[s] \in Int
    BY <2>1, <1>1 DEF MixerTypeOK
  <2>3. sizes[s] = IF s = c THEN size[s] + n ELSE size[s]
    BY <2>2, <1>1 DEF MixerTypeOK
  <2>4. lead'[s] = IF s = c THEN lead[s] + n ELSE lead[s]
    BY <2>2, <1>1, <1>2 DEF MixerTypeOK
  <2>5. size'[s] = sizes[s] - frames
    BY <2>1, <1>12
  <2>6. frames \in Int
    BY <1>7
  <2>7. HIDE DEF sizes, frames
  <2>8. QED BY <2>2, <2>3, <2>4, <2>5, <2>6, <1>5
<1>14. \E a \in tree : size'[a] = 0
  <2>1. PICK a \in tree : frames = sizes[a]
    BY <1>7, <1>11
  <2>2. size'[a] = sizes[a] - frames
    BY <1>12
  <2>3. HIDE DEF sizes, frames
  <2>4. size'[a] = 0
    BY <2>1, <2>2, <1>7
  <2>5. QED BY <2>4
<1>15. \A s, t \in tree : (lead[s] - size[s]) - (lead[t] - size[t]) <= Shift
  BY <1>11 DEF IInv, InStep
<1>16. \A s, t \in tree : (lead'[s] - size'[s]) - (lead'[t] - size'[t])
                            = (lead[s] - size[s]) - (lead[t] - size[t])
  <2>1. HIDE DEF sizes, frames
  <2>2. QED BY <1>7, <1>13
<1>17. QED BY <1>14, <1>15, <1>16

-----------------------------------------------------------------------------
(* The theorems *)

LEMMA StepInv == ASSUME MixerAssumption, IInv, [Next]_vars PROVE IInv'
<1>1. CASE UNCHANGED vars
  BY <1>1 DEF vars, IInv, MixerTypeOK, Waiting, InStep, Shift, Fresh
<1>2. CASE Next
  BY <1>2, HostInv, JoltInv, CpuInv, SampleInv DEF Next
<1>3. QED BY <1>1, <1>2

THEOREM Invariant == Spec => []IInv
<1>1. Init => IInv
  BY InitInv, MixerAssumption
<1>2. IInv /\ [Next]_vars => IInv'
  BY StepInv, MixerAssumption
<1>3. QED BY <1>1, <1>2, PTL DEF Spec

\* The variables have their types, and the list of Emulator::audio misses no stream.
THEOREM MixerTypes == Spec => []MixerTypeOK
<1>1. IInv => MixerTypeOK
  BY DEF IInv
<1>2. QED BY <1>1, Invariant, PTL

\* What two streams play together was produced at the same time, up to the shift the
\* loads of states and the changes of frequency allow.
THEOREM StreamsInStep == Spec => []InStep
<1>1. IInv => InStep
  BY DEF IInv
<1>2. QED BY <1>1, Invariant, PTL

\* The queue of a resampler, which checks nothing, is never written beyond its end.
THEOREM QueuesSuffice == Spec => []NeverOverrun
<1>1. IInv => NeverOverrun
  <2>1. SUFFICES ASSUME IInv, on, Fresh, NEW s \in tree
                 PROVE  size[s] <= Capacity
    BY DEF NeverOverrun
  <2>2. PICK a \in tree : size[a] = 0
    BY <2>1 DEF IInv, Waiting
  <2>3. (lead[a] - size[a]) - (lead[s] - size[s]) <= 2 * Skew * jolts
    BY <2>1 DEF IInv, InStep, Shift
  <2>4. /\ jolts \in 0 .. MaxJolts /\ size[s] \in Nat
        /\ lead[s] \in 0 .. Skew /\ lead[a] \in 0 .. Skew
    BY <2>1 DEF IInv, MixerTypeOK
  <2>5. 2 * Skew * jolts \in Nat /\ 2 * Skew * jolts <= 2 * Skew * MaxJolts
    BY <2>4, Shifts, MixerAssumption
  <2>6. /\ Skew \in Nat /\ MaxJolts \in Nat /\ Capacity \in Nat
        /\ Skew + 2 * Skew * MaxJolts <= Capacity
    BY MixerAssumption DEF MixerAssumption
  <2>7. 2 * Skew * MaxJolts \in Nat
    BY <2>6
  <2>8. QED BY <2>2, <2>3, <2>4, <2>5, <2>6, <2>7
<1>2. QED BY <1>1, Invariant, PTL
=============================================================================
