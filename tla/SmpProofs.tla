------------------------------ MODULE SmpProofs ------------------------------
(***************************************************************************)
(* Proofs about Smp: for any frequencies of the timers, and any cycles that*)
(* are not longer than the shortest half period, no tick is lost.          *)
(***************************************************************************)
EXTENDS Smp, TLAPS

\* The constants are always what Smp assumes of them.
USE SmpAssumption DEF SmpAssumption

-----------------------------------------------------------------------------
(* The inductive invariant *)

\* A cycle is part of an instruction.
InInstruction == waits # 0 => left \in 1 .. Instruction

IInv == SmpTypeOK /\ NoTickLost /\ InInstruction

-----------------------------------------------------------------------------
(* What a cycle does to a timer *)

\* The ticks of a cycle are at most a half period.
LEMMA WaitsBounded ==
  ASSUME SmpTypeOK, NEW t \in Timer
  PROVE  waits \in 0 .. Frequency[t] /\ Frequency[t] \in Nat \ {0}
<1>1. Frequency[t] \in Nat \ {0}
  OBVIOUS
<1>2. CASE waits = 0
  BY <1>1, <1>2
<1>3. CASE waits # 0
  <2>1. PICK w \in Waits : waits = w[2]
    BY <1>3 DEF SmpTypeOK
  <2>2. w[2] \in Nat \ {0} /\ w[2] <= Frequency[t]
    OBVIOUS
  <2>3. QED BY <1>1, <2>1, <2>2
<1>4. QED BY <1>2, <1>3

\* SynchronizeStage1 leaves the first two stages alone, and the others in their width.
LEMMA SynchronizeKeeps ==
  ASSUME NEW k \in TimerRecord, NEW on \in BOOLEAN, NEW r, r = SynchronizeStage1(k, on)
  PROVE  r \in TimerRecord /\ r.stage0 = k.stage0 /\ r.stage1 = k.stage1
<1> DEFINE level == on /\ k.stage1 = 1
           pulse == k.line /\ ~level /\ k.enable
           count == Counted(k.stage2)
           full == pulse /\ count = k.target
           two == IF full THEN 0 ELSE IF pulse THEN count ELSE k.stage2
           three == IF ~full THEN k.stage3 ELSE IF k.stage3 = Stage3 - 1 THEN 0 ELSE k.stage3 + 1
<1>1. level \in BOOLEAN /\ two \in 0 .. Stage2 - 1 /\ three \in 0 .. Stage3 - 1
  BY DEF TimerRecord, Counted
<1>2. r = [k EXCEPT !.line = level, !.stage2 = two, !.stage3 = three]
  BY DEF SynchronizeStage1, TimerRecord
<1> HIDE DEF level, two, three
<1>3. QED BY <1>1, <1>2 DEF TimerRecord

\* Timer::step: one subtraction keeps stage0 below the half period, and the first two
\* stages add up to the ticks of the period.
LEMMA StepKeepsTicks ==
  ASSUME IInv, NEW t \in Timer
  PROVE  /\ Stepped[t] \in TimerRecord
         /\ Stepped[t].stage0 < Frequency[t]
         /\ Stepped[t].stage0 + Frequency[t] * Stepped[t].stage1 = After(t, elapsed[t] + waits)
         /\ After(t, elapsed[t] + waits) \in 0 .. 2 * Frequency[t] - 1
<1> DEFINE f == Frequency[t]
           k == timer[t]
           s == k.stage0 + waits
<1>1. f \in Nat \ {0} /\ waits \in 0 .. f
  BY WaitsBounded DEF IInv
<1>2. /\ k \in TimerRecord /\ k.stage0 \in 0 .. f - 1 /\ k.stage1 \in {0, 1}
      /\ elapsed[t] = k.stage0 + f * k.stage1
  BY DEF IInv, SmpTypeOK, NoTickLost, TimerRecord
<1>3. /\ elapsed[t] = IF k.stage1 = 0 THEN k.stage0 ELSE k.stage0 + f
      /\ elapsed[t] \in 0 .. 2 * f - 1
  <2>1. CASE k.stage1 = 0
    <3>1. f * k.stage1 = 0
      BY <1>1, <2>1
    <3>2. QED BY <1>1, <1>2, <2>1, <3>1
  <2>2. CASE k.stage1 = 1
    <3>1. f * k.stage1 = f
      BY <1>1, <2>2
    <3>2. QED BY <1>1, <1>2, <2>2, <3>1
  <2>3. QED BY <1>2, <2>1, <2>2
<1>4. Stepped[t] = IF s < f THEN [k EXCEPT !.stage0 = s]
                   ELSE SynchronizeStage1([k EXCEPT !.stage0 = ReducedBy(s, f), !.stage1 = 1 - @],
                                          runs)
  BY DEF Stepped, StepTimer
<1>5. \A n \in Int : After(t, n) = IF n < 2 * f THEN n ELSE n - 2 * f
  BY DEF After
<1> HIDE DEF f, k
<1>6. CASE s < f
  <2>1. Stepped[t] \in TimerRecord /\ Stepped[t].stage0 = s /\ Stepped[t].stage1 = k.stage1
    BY <1>1, <1>2, <1>4, <1>6 DEF TimerRecord
  <2>2. After(t, elapsed[t] + waits) = IF k.stage1 = 0 THEN s ELSE s + f
    BY <1>1, <1>2, <1>3, <1>5, <1>6
  <2>3. f * k.stage1 = IF k.stage1 = 0 THEN 0 ELSE f
    BY <1>1, <1>2
  <2> HIDE DEF s
  <2>4. s \in 0 .. f - 1
    BY <1>1, <1>2, <1>6 DEF s
  <2>5. QED BY <1>1, <1>2, <1>6, <2>1, <2>2, <2>3, <2>4 DEF f
<1>7. CASE ~(s < f)
  <2>1. PICK r \in TimerRecord : /\ r = [k EXCEPT !.stage0 = ReducedBy(s, f), !.stage1 = 1 - @]
                                 /\ r.stage0 = s - f /\ r.stage1 = 1 - k.stage1
    <3>1. s - f \in Nat /\ 1 - k.stage1 \in {0, 1}
      BY <1>1, <1>2, <1>7
    <3> DEFINE less == s - f
               other == 1 - k.stage1
               r == [k EXCEPT !.stage0 = less, !.stage1 = other]
    <3>2. r = [k EXCEPT !.stage0 = ReducedBy(s, f), !.stage1 = 1 - @]
      BY <1>2 DEF TimerRecord, ReducedBy
    <3> HIDE DEF less, other
    <3>3. r \in TimerRecord /\ r.stage0 = less /\ r.stage1 = other
      BY <1>2, <3>1 DEF TimerRecord, less, other
    <3> HIDE DEF r
    <3>4. QED BY <3>2, <3>3 DEF less, other
  <2>2. Stepped[t] = SynchronizeStage1(r, runs) /\ runs \in BOOLEAN
    BY <1>4, <1>7, <2>1 DEF IInv, SmpTypeOK
  <2>3. /\ Stepped[t] \in TimerRecord /\ Stepped[t].stage0 = s - f
        /\ Stepped[t].stage1 = 1 - k.stage1
    <3>1. r \in TimerRecord
      BY <2>1
    <3>2. /\ Stepped[t] \in TimerRecord /\ Stepped[t].stage0 = r.stage0
          /\ Stepped[t].stage1 = r.stage1
      BY <2>2, <3>1, SynchronizeKeeps
    <3>3. QED BY <2>1, <3>2
  <2>4. s - f \in 0 .. f - 1
    BY <1>1, <1>2, <1>7
  <2>5. After(t, elapsed[t] + waits) = IF k.stage1 = 0 THEN s ELSE s - f
    BY <1>1, <1>2, <1>3, <1>5, <1>7
  <2>6. f * (1 - k.stage1) = IF k.stage1 = 0 THEN f ELSE 0
    BY <1>1, <1>2
  <2> HIDE DEF s
  <2>7. s \in Nat
    BY <1>1, <1>2 DEF s
  <2>8. QED BY <1>1, <1>2, <2>3, <2>4, <2>5, <2>6, <2>7 DEF f
<1>8. QED BY <1>6, <1>7

\* An access leaves the first two stages as the cycle left them.
LEMMA AccessKeepsTicks ==
  ASSUME IInv, WriteControl \/ WriteTarget \/ ReadOut \/ WriteTest \/ OtherAccess,
         NEW t \in Timer
  PROVE  /\ timer'[t] \in TimerRecord
         /\ timer'[t].stage0 = Stepped[t].stage0 /\ timer'[t].stage1 = Stepped[t].stage1
<1>1. Stepped[t] \in TimerRecord
  BY StepKeepsTicks
<1>2. CASE WriteControl
  <2>1. PICK on \in [Timer -> BOOLEAN] :
          timer' = [u \in Timer |->
                      LET k == [Stepped[u] EXCEPT !.enable = on[u]]
                      IN  IF Resets(u, timer[u].enable, on[u])
                          THEN [k EXCEPT !.stage2 = 0, !.stage3 = 0] ELSE k]
    BY <1>2 DEF WriteControl
  <2>2. PICK k \in TimerRecord : /\ k = [Stepped[t] EXCEPT !.enable = on[t]]
                                 /\ k.stage0 = Stepped[t].stage0 /\ k.stage1 = Stepped[t].stage1
    <3>1. PICK b \in BOOLEAN : b = on[t]
      OBVIOUS
    <3>2. LET k == [Stepped[t] EXCEPT !.enable = b]
          IN  k \in TimerRecord /\ k.stage0 = Stepped[t].stage0 /\ k.stage1 = Stepped[t].stage1
      BY <1>1, <3>1 DEF TimerRecord
    <3>3. QED BY <3>1, <3>2
  <2>3. timer'[t] = IF Resets(t, timer[t].enable, on[t])
                    THEN [k EXCEPT !.stage2 = 0, !.stage3 = 0] ELSE k
    BY <2>1, <2>2
  <2>4. 0 \in 0 .. Stage2 - 1 /\ 0 \in 0 .. Stage3 - 1
    OBVIOUS
  <2>5. LET r == [k EXCEPT !.stage2 = 0, !.stage3 = 0]
        IN  r \in TimerRecord /\ r.stage0 = k.stage0 /\ r.stage1 = k.stage1
    BY <2>2, <2>4 DEF TimerRecord
  <2>6. QED BY <2>2, <2>3, <2>5
<1>3. CASE WriteTarget
  <2>1. PICK u \in Timer, target \in 0 .. Stage2 - 1 : timer' = [Stepped EXCEPT ![u].target = target]
    BY <1>3 DEF WriteTarget
  <2>2. timer'[t] = IF t = u THEN [Stepped[t] EXCEPT !.target = target] ELSE Stepped[t]
    BY <2>1 DEF Stepped
  <2>3. QED BY <1>1, <2>2 DEF TimerRecord
<1>4. CASE ReadOut
  <2>1. PICK u \in Timer : timer' = [Stepped EXCEPT ![u].stage3 = 0]
    BY <1>4 DEF ReadOut
  <2>2. timer'[t] = IF t = u THEN [Stepped[t] EXCEPT !.stage3 = 0] ELSE Stepped[t]
    BY <2>1 DEF Stepped
  <2>3. QED BY <1>1, <2>2 DEF TimerRecord
<1>5. CASE WriteTest
  <2>1. runs' \in BOOLEAN /\ timer'[t] = SynchronizeStage1(Stepped[t], runs')
    BY <1>5 DEF WriteTest
  <2>2. QED BY <1>1, <2>1, SynchronizeKeeps
<1>6. CASE OtherAccess
  BY <1>1, <1>6 DEF OtherAccess
<1>7. QED BY <1>2, <1>3, <1>4, <1>5, <1>6

-----------------------------------------------------------------------------
(* The steps *)

LEMMA InitInv == Init => IInv
<1> SUFFICES ASSUME Init PROVE IInv
  OBVIOUS
<1> USE DEF Init
<1>1. SmpTypeOK
  <2>1. timer \in [Timer -> TimerRecord] /\ \A t \in Timer : timer[t].stage0 < Frequency[t]
    BY DEF TimerRecord
  <2>2. \A t \in Timer : elapsed[t] \in 0 .. 2 * Frequency[t] - 1
    <3>1. ASSUME NEW t \in Timer PROVE 0 \in 0 .. 2 * Frequency[t] - 1
      <4>1. Frequency[t] \in Nat \ {0}
        OBVIOUS
      <4>2. QED BY <4>1
    <3>2. QED BY <3>1
  <2>3. early \in [Party -> Nat] /\ left \in Fresh .. Instruction /\ saves \in 0 .. MaxSaves
    <3>1. early \in [Party -> Nat] /\ saves \in 0 .. MaxSaves
      OBVIOUS
    <3>2. left = -1 /\ Fresh = -1
      BY DEF Fresh
    <3>3. -1 <= Instruction
      OBVIOUS
    <3>4. QED BY <3>1, <3>2, <3>3
  <2>4. /\ turn \in Party \cup {"alone"} /\ waits \in {0} \cup {w[2] : w \in Waits}
        /\ lead \in Int /\ runs \in BOOLEAN /\ calls \in BOOLEAN
    <3>1. waits = 0 /\ 0 \in {0} \cup {w[2] : w \in Waits}
      OBVIOUS
    <3>2. turn \in Party \cup {"alone"}
      BY DEF Party
    <3>3. runs \in BOOLEAN /\ calls \in BOOLEAN
      BY Zenon
    <3>4. lead \in Int
      OBVIOUS
    <3>5. QED BY <3>1, <3>2, <3>3, <3>4
  <2>5. QED BY <2>1, <2>2, <2>3, <2>4 DEF SmpTypeOK
<1>2. NoTickLost
  <2>1. ASSUME NEW t \in Timer PROVE 0 + Frequency[t] * 0 = 0
    <3>1. Frequency[t] \in Nat
      OBVIOUS
    <3>2. QED BY <3>1
  <2>2. QED BY <2>1 DEF NoTickLost
<1>3. QED BY <1>1, <1>2 DEF IInv, InInstruction

\* The end of a cycle, with whatever access
LEMMA FinishInv == ASSUME IInv, Port \/ Control \/ Other PROVE IInv'
<1>1. Finish /\ (WriteControl \/ WriteTarget \/ ReadOut \/ WriteTest \/ OtherAccess)
  BY DEF Port, Control, Other
<1>2. ASSUME NEW t \in Timer
      PROVE  /\ timer'[t] \in TimerRecord /\ timer'[t].stage0 < Frequency[t]
             /\ elapsed'[t] \in 0 .. 2 * Frequency[t] - 1
             /\ timer'[t].stage0 + Frequency[t] * timer'[t].stage1 = elapsed'[t]
  <2>1. /\ timer'[t] \in TimerRecord
        /\ timer'[t].stage0 = Stepped[t].stage0 /\ timer'[t].stage1 = Stepped[t].stage1
    BY <1>1, AccessKeepsTicks
  <2>2. elapsed'[t] = After(t, elapsed[t] + waits)
    BY <1>1 DEF Finish
  <2>3. QED BY <2>1, <2>2, StepKeepsTicks
<1>3. timer' = [t \in Timer |-> timer'[t]]
  BY <1>1 DEF WriteControl, WriteTarget, ReadOut, WriteTest, OtherAccess, Stepped
<1>4. timer' \in [Timer -> TimerRecord]
  BY <1>2, <1>3
<1>5. waits' = 0 /\ left' \in 0 .. Instruction /\ turn' \in Party \cup {"alone"}
  BY <1>1 DEF Finish, SmpRuns, IInv, InInstruction, SmpTypeOK
<1>6. runs' \in BOOLEAN
  BY <1>1 DEF WriteControl, WriteTarget, ReadOut, WriteTest, OtherAccess, IInv, SmpTypeOK
<1>7. early' \in [Party -> Nat]
  <2>1. Positive(lead) \in Nat
    BY DEF IInv, SmpTypeOK, Positive
  <2>2. QED BY <2>1 DEF Port, Control, Other, TouchPorts, IInv, SmpTypeOK
<1>8. lead' \in Int /\ calls' \in BOOLEAN /\ saves' \in 0 .. MaxSaves
  BY <1>1 DEF Finish, IInv, SmpTypeOK
<1>9. SmpTypeOK'
  BY <1>2, <1>4, <1>5, <1>6, <1>7, <1>8 DEF SmpTypeOK, Fresh
<1>10. NoTickLost'
  BY <1>2 DEF NoTickLost
<1>11. QED BY <1>5, <1>9, <1>10 DEF IInv, InInstruction

\* The other steps leave the timers alone.
LEMMA OthersInv ==
  ASSUME IInv, Wait \/ SwitchToCpu \/ CpuThread \/ Save PROVE IInv'
<1> USE DEF IInv
<1>1. UNCHANGED <<timer, runs, elapsed>>
  BY DEF Wait, SwitchToCpu, CpuThread, CpuStep, Call, SwitchToSmp, Return, Save
<1>2. /\ turn' \in Party \cup {"alone"} /\ lead' \in Int /\ left' \in Fresh .. Instruction
      /\ waits' \in {0} \cup {w[2] : w \in Waits} /\ calls' \in BOOLEAN
      /\ early' \in [Party -> Nat] /\ saves' \in 0 .. MaxSaves /\ InInstruction'
  <2>0. \A n \in Int : Positive(n) \in Nat
    BY DEF Positive
  <2>1. CASE Wait
    <3>1. PICK w \in Waits :
            /\ IF left > 0 THEN left' = left ELSE left' \in 1 .. Instruction
            /\ lead' = lead + w[1] /\ waits' = w[2]
            /\ early' = [early EXCEPT !["cpu"] = Positive(@ - w[1])]
            /\ UNCHANGED <<turn, calls, saves>>
      BY <2>1 DEF Wait
    <3>2. w[1] \in Nat
      OBVIOUS
    <3>3. left' \in 1 .. Instruction
      BY <3>1 DEF SmpTypeOK, Fresh
    <3>4. early["cpu"] - w[1] \in Int
      BY <3>2 DEF SmpTypeOK, Party
    <3>5. early' \in [Party -> Nat]
      BY <2>0, <3>1, <3>4 DEF SmpTypeOK
    <3>6. QED BY <3>1, <3>2, <3>3, <3>5 DEF SmpTypeOK, InInstruction, Fresh
  <2>2. CASE SwitchToCpu
    BY <2>2 DEF SwitchToCpu, SmpTypeOK, InInstruction, Party
  <2>3. CASE CpuStep
    <3>1. early["smp"] - 1 \in Int
      BY DEF SmpTypeOK, Party
    <3>2. early' \in [Party -> Nat]
      BY <2>0, <2>3, <3>1 DEF CpuStep, SmpTypeOK
    <3>3. QED BY <2>3, <3>2 DEF CpuStep, SmpTypeOK, InInstruction
  <2>4. CASE Call \/ SwitchToSmp
    BY <2>4 DEF Call, SwitchToSmp, SmpTypeOK, InInstruction, Party
  <2>5. CASE Return
    <3>1. early' \in [Party -> Nat]
      BY <2>0, <2>5 DEF Return, SmpTypeOK
    <3>2. QED BY <2>5, <3>1 DEF Return, SmpTypeOK, InInstruction
  <2>6. CASE Save
    BY <2>6 DEF Save, CpuRuns, SmpTypeOK, InInstruction, Fresh
  <2>7. QED BY <2>1, <2>2, <2>3, <2>4, <2>5, <2>6 DEF CpuThread
<1>3. SmpTypeOK'
  BY <1>1, <1>2 DEF SmpTypeOK
<1>4. NoTickLost'
  BY <1>1 DEF NoTickLost
<1>5. QED BY <1>2, <1>3, <1>4

LEMMA NextInv == IInv /\ [Next]_vars => IInv'
<1> SUFFICES ASSUME IInv, [Next]_vars PROVE IInv'
  OBVIOUS
<1>1. CASE Port \/ Control \/ Other
  BY <1>1, FinishInv
<1>2. CASE Wait \/ SwitchToCpu \/ CpuThread \/ Save
  BY <1>2, OthersInv
<1>3. CASE UNCHANGED vars
  BY <1>3 DEF IInv, SmpTypeOK, NoTickLost, InInstruction, vars, threads
<1>4. QED BY <1>1, <1>2, <1>3 DEF Next, SmpThread

\* The inductive invariant holds.
LEMMA Invariance == Spec => []IInv
BY InitInv, NextInv, PTL DEF Spec

-----------------------------------------------------------------------------
(* How far the SMP is ahead *)

\* The clocks of the longest cycle
Longest == CHOOSE n \in Nat \ {0} : /\ \E w \in Waits : w[1] = n
                                   /\ \A w \in Waits : w[1] <= n

\* How far an instruction takes it, and as many as states were saved
Span == Longest * Instruction
Ahead(n) == Span * n

\* While it runs alone what is left of the instruction is still to come.
LeadBounded ==
  /\ turn = "alone" => saves > 0 /\ left >= 0
  /\ turn # "alone" /\ waits = 0 => lead <= Ahead(saves)
  /\ turn # "alone" /\ waits # 0 => lead <= Ahead(saves) + Longest
  /\ turn = "alone" /\ waits # 0 => lead + Longest * left <= Ahead(saves) + Longest
  /\ turn = "alone" /\ waits = 0 /\ left > 0 => lead + Longest * left <= Ahead(saves)
  /\ turn = "alone" /\ waits = 0 /\ left = 0 => lead + Span <= Ahead(saves)

\* An access the SMP made too early is in the CPU's future as long as its clock is.
AccessAhead == early["smp"] > 0 => early["smp"] <= lead /\ saves > 0

OrderInv ==
  IInv /\ LeadBounded /\ AccessAhead /\ early["cpu"] = 0

LEMMA LongestExists ==
  /\ Longest \in Nat \ {0}
  /\ \E w \in Waits : w[1] = Longest
  /\ \A w \in Waits : w[1] \in Nat \ {0} /\ w[1] <= Longest
<1>1. PICK w \in Waits : \A v \in Waits : v[1] <= w[1]
  OBVIOUS
<1>2. \E n \in Nat \ {0} : (\E v \in Waits : v[1] = n) /\ \A v \in Waits : v[1] <= n
  <2>1. w[1] \in Nat \ {0}
    OBVIOUS
  <2>2. QED BY <1>1, <2>1
<1>3. \A v \in Waits : v[1] \in Nat \ {0}
  OBVIOUS
<1>4. QED BY <1>2, <1>3 DEF Longest

\* The products grow as they should.
LEMMA Products ==
  /\ Span \in Nat
  /\ \A n \in Nat : Ahead(n) \in Nat /\ Ahead(n + 1) = Ahead(n) + Span
  /\ Ahead(0) = 0
  /\ Longest * 1 = Longest /\ Longest * 0 = 0
<1>1. Longest \in Nat /\ Instruction \in Nat
  BY LongestExists
<1>2. Span \in Nat
  BY <1>1 DEF Span
<1>3. \A n \in Nat : Ahead(n) \in Nat /\ Ahead(n + 1) = Ahead(n) + Span
  BY <1>2 DEF Ahead
<1>4. Ahead(0) = 0
  BY <1>2 DEF Ahead
<1>5. Longest * 1 = Longest /\ Longest * 0 = 0
  BY <1>1
<1>6. QED BY <1>2, <1>3, <1>4, <1>5

LEMMA Times ==
  ASSUME NEW n, n \in 0 .. Instruction
  PROVE  /\ Longest * n \in Nat /\ Longest * n <= Span
         /\ Longest * (n - 1) = Longest * n - Longest
         /\ n >= 1 => Longest * n >= Longest
<1>1. n \in Nat /\ Longest \in Nat /\ Instruction \in Nat
  BY LongestExists
<1>2. Longest * n \in Nat /\ Longest * (n - 1) = Longest * n - Longest
  BY <1>1
<1>3. Longest * n <= Span
  <2>1. PICK k \in Nat : Instruction = n + k
    <3>1. Instruction - n \in Nat /\ Instruction = n + (Instruction - n)
      BY <1>1
    <3>2. QED BY <3>1
  <2>2. Longest * Instruction = Longest * n + Longest * k /\ Longest * k \in Nat
    BY <1>1, <2>1
  <2>3. QED BY <1>2, <2>2 DEF Span
<1>4. ASSUME n >= 1 PROVE Longest * n >= Longest
  <2>1. PICK k \in Nat : n = k + 1
    <3>1. n - 1 \in Nat /\ n = (n - 1) + 1
      BY <1>1, <1>4
    <3>2. QED BY <3>1
  <2>2. Longest * n = Longest * k + Longest /\ Longest * k \in Nat
    BY <1>1, <2>1
  <2>3. QED BY <1>1, <2>2
<1>5. QED BY <1>2, <1>3, <1>4

LEMMA OrderInit == Init => OrderInv
<1> SUFFICES ASSUME Init PROVE OrderInv
  OBVIOUS
<1>1. IInv
  BY InitInv
<1>2. LeadBounded
  BY Products DEF Init, LeadBounded
<1>3. AccessAhead /\ early["cpu"] = 0
  BY DEF Init, AccessAhead, Party
<1>4. QED BY <1>1, <1>2, <1>3 DEF OrderInv

LEMMA OrderTypes ==
  ASSUME OrderInv
  PROVE  /\ lead \in Int /\ left \in -1 .. Instruction /\ saves \in Nat
         /\ early \in [Party -> Nat] /\ early["cpu"] = 0 /\ early["smp"] \in Nat
         /\ turn \in {"cpu", "smp", "alone"}
         /\ waits # 0 => left \in 1 .. Instruction
BY DEF OrderInv, IInv, SmpTypeOK, InInstruction, Party, Fresh

LEMMA WaitOrder ==
  ASSUME OrderInv, Wait PROVE LeadBounded' /\ AccessAhead' /\ early'["cpu"] = 0
<1>0. /\ lead \in Int /\ left \in -1 .. Instruction /\ saves \in Nat
      /\ early \in [Party -> Nat] /\ early["cpu"] = 0 /\ early["smp"] \in Nat
      /\ turn \in {"cpu", "smp", "alone"}
  BY OrderTypes
<1>1. PICK w \in Waits :
        /\ SmpRuns /\ waits = 0
        /\ IF left > 0 THEN left' = left ELSE left' \in 1 .. Instruction
        /\ lead' = lead + w[1] /\ waits' = w[2]
        /\ early' = [early EXCEPT !["cpu"] = Positive(@ - w[1])]
        /\ turn' = turn /\ saves' = saves
  BY DEF Wait
<1>2. w[1] \in Nat \ {0} /\ w[1] <= Longest /\ Longest \in Nat /\ w[2] # 0
  BY LongestExists
<1>3. early'["cpu"] = 0 /\ early'["smp"] = early["smp"]
  <2>1. Positive(0 - w[1]) = 0
    BY <1>2 DEF Positive
  <2>2. QED BY <1>0, <1>1, <2>1 DEF Party
<1>4. AccessAhead'
  BY <1>0, <1>1, <1>2, <1>3 DEF OrderInv, AccessAhead
<1>5. Ahead(saves) \in Nat /\ Span \in Nat
  BY <1>0, Products
<1>6. CASE turn # "alone"
  <2>1. lead <= Ahead(saves)
    BY <1>1, <1>6 DEF OrderInv, LeadBounded
  <2>2. lead' <= Ahead(saves') + Longest
    BY <1>0, <1>1, <1>2, <1>5, <2>1
  <2>3. QED BY <1>1, <1>2, <1>3, <1>4, <1>6, <2>2 DEF LeadBounded
<1>7. CASE turn = "alone"
  <2>1. saves > 0 /\ left >= 0
    BY <1>7 DEF OrderInv, LeadBounded
  <2>2. left' \in 1 .. Instruction /\ lead + Longest * left' <= Ahead(saves)
    <3>1. CASE left > 0
      BY <1>0, <1>1, <1>7, <3>1 DEF OrderInv, LeadBounded
    <3>2. CASE ~(left > 0)
      <4>1. lead + Span <= Ahead(saves)
        BY <1>0, <1>1, <1>7, <2>1, <3>2 DEF OrderInv, LeadBounded
      <4>2. left' \in 1 .. Instruction
        BY <1>1, <3>2
      <4>3. Longest * left' <= Span /\ Longest * left' \in Nat
        <5>1. PICK n \in 0 .. Instruction : n = left'
          BY <4>2
        <5>2. QED BY <5>1, Times
      <4>4. QED BY <1>0, <1>5, <4>1, <4>2, <4>3
    <3>3. QED BY <3>1, <3>2
  <2>3. Longest * left' \in Nat
    <3>1. PICK n \in 0 .. Instruction : n = left'
      BY <2>2
    <3>2. QED BY <3>1, Times
  <2>4. lead' + Longest * left' <= Ahead(saves') + Longest
    BY <1>0, <1>1, <1>2, <1>5, <2>2, <2>3
  <2>5. QED BY <1>1, <1>2, <1>3, <1>4, <1>7, <2>1, <2>2, <2>4 DEF LeadBounded
<1>8. QED BY <1>6, <1>7

LEMMA FinishOrder ==
  ASSUME OrderInv, Port \/ Control \/ Other
  PROVE  LeadBounded' /\ AccessAhead' /\ early'["cpu"] = 0
<1>0. /\ lead \in Int /\ left \in -1 .. Instruction /\ saves \in Nat
      /\ early \in [Party -> Nat] /\ early["cpu"] = 0 /\ early["smp"] \in Nat
      /\ turn \in {"cpu", "smp", "alone"}
  BY OrderTypes
<1>1. /\ Finish /\ (TouchPorts \/ UNCHANGED early)
  BY DEF Port, Control, Other
<1>2. /\ turn \in {"smp", "alone"} /\ waits # 0 /\ (turn = "smp" => lead <= 0)
      /\ waits' = 0 /\ left' = left - 1 /\ lead' = lead /\ saves' = saves
      /\ IF turn = "alone" /\ left' = 0 THEN turn' \in Party ELSE turn' = turn
  BY <1>0, <1>1 DEF Finish, SmpRuns, CaughtUp
<1>3. left \in 1 .. Instruction
  BY <1>2, OrderTypes
<1>4. /\ Ahead(saves) \in Nat /\ Longest \in Nat /\ Longest * left \in Nat
      /\ Longest * (left - 1) = Longest * left - Longest
  <2>1. PICK n \in 0 .. Instruction : n = left
    BY <1>3
  <2>2. Longest * left \in Nat /\ Longest * (left - 1) = Longest * left - Longest
    BY <2>1, Times
  <2>3. QED BY <1>0, <2>2, Products, LongestExists
<1>5. AccessAhead' /\ early'["cpu"] = 0
  <2>1. CASE TouchPorts
    <3>1. early'["cpu"] = 0 /\ early'["smp"] = Positive(lead)
      BY <1>0, <2>1 DEF TouchPorts, Party
    <3>2. Positive(lead) > 0 => lead > 0 /\ Positive(lead) = lead
      BY <1>0 DEF Positive
    <3>3. lead > 0 => saves > 0
      BY <1>0, <1>2 DEF OrderInv, LeadBounded
    <3>4. QED BY <1>0, <1>2, <3>1, <3>2, <3>3 DEF AccessAhead
  <2>2. CASE UNCHANGED early
    BY <1>0, <1>2, <2>2 DEF OrderInv, AccessAhead
  <2>3. QED BY <1>1, <2>1, <2>2
<1>6. CASE turn = "smp"
  <2>1. lead' <= Ahead(saves')
    BY <1>0, <1>2, <1>4, <1>6
  <2>2. QED BY <1>2, <1>5, <1>6, <2>1 DEF LeadBounded
<1>7. CASE turn = "alone"
  <2>1. lead + Longest * left <= Ahead(saves) + Longest /\ saves > 0
    BY <1>2, <1>7 DEF OrderInv, LeadBounded
  <2>2. lead + Longest * (left - 1) <= Ahead(saves)
    BY <1>0, <1>4, <2>1
  <2>3. CASE left' = 0
    <3>1. turn' # "alone"
      BY <1>2, <1>7, <2>3 DEF Party
    <3>2. lead' <= Ahead(saves')
      <4>1. left - 1 = 0 /\ Longest * 0 = 0
        BY <1>0, <1>2, <2>3, Products
      <4>2. Longest * (left - 1) = 0
        BY <4>1
      <4>3. QED BY <1>0, <1>2, <1>4, <2>2, <4>2
    <3>3. QED BY <1>2, <1>5, <3>1, <3>2 DEF LeadBounded
  <2>4. CASE left' # 0
    <3>1. turn' = "alone" /\ left' > 0
      BY <1>2, <1>3, <1>7, <2>4
    <3>2. lead' + Longest * left' <= Ahead(saves')
      BY <1>2, <2>2
    <3>3. QED BY <1>2, <1>5, <2>1, <2>4, <3>1, <3>2 DEF LeadBounded
  <2>5. QED BY <2>3, <2>4
<1>8. QED BY <1>2, <1>6, <1>7

LEMMA CpuOrder ==
  ASSUME OrderInv, SwitchToCpu \/ CpuThread
  PROVE  LeadBounded' /\ AccessAhead' /\ early'["cpu"] = 0
<1>0. /\ lead \in Int /\ left \in -1 .. Instruction /\ saves \in Nat
      /\ early \in [Party -> Nat] /\ early["cpu"] = 0 /\ early["smp"] \in Nat
      /\ turn \in {"cpu", "smp", "alone"}
  BY OrderTypes
<1>1. CASE SwitchToCpu \/ Call \/ SwitchToSmp
  <2>1. /\ turn \in {"cpu", "smp"} /\ turn' \in {"cpu", "smp"}
        /\ UNCHANGED <<lead, left, waits, saves, early>>
    BY <1>1 DEF SwitchToCpu, Call, CpuRuns, SwitchToSmp
  <2>2. QED BY <1>0, <2>1 DEF OrderInv, LeadBounded, AccessAhead
<1>2. CASE Return
  <2>1. /\ turn = "cpu" /\ lead >= 0
        /\ early' = [early EXCEPT !["cpu"] = Positive(-lead)]
        /\ UNCHANGED <<turn, lead, left, waits, saves>>
    BY <1>0, <1>2 DEF Return, CaughtUp
  <2>2. Positive(-lead) = 0
    BY <1>0, <2>1 DEF Positive
  <2>3. early'["cpu"] = 0 /\ early'["smp"] = early["smp"]
    BY <1>0, <2>1, <2>2 DEF Party
  <2>4. QED BY <1>0, <2>1, <2>3 DEF OrderInv, LeadBounded, AccessAhead
<1>3. CASE CpuStep
  <2>1. /\ turn = "cpu" /\ lead' = lead - 1
        /\ early' = [early EXCEPT !["smp"] = Positive(@ - 1)]
        /\ saves' = IF lead' <= 0 THEN 0 ELSE saves
        /\ UNCHANGED <<turn, left, waits>>
    BY <1>3 DEF CpuStep, CpuRuns
  <2>2. early'["cpu"] = 0 /\ early'["smp"] = Positive(early["smp"] - 1)
    BY <1>0, <2>1 DEF Party
  <2>3. AccessAhead'
    <3>1. early'["smp"] > 0 => early["smp"] > 0 /\ early'["smp"] = early["smp"] - 1
      BY <1>0, <2>2 DEF Positive
    <3>2. QED BY <1>0, <2>1, <3>1 DEF OrderInv, AccessAhead
  <2>4. /\ Ahead(saves) \in Nat /\ Ahead(0) = 0 /\ Longest \in Nat
    BY <1>0, Products, LongestExists
  <2>5. /\ waits = 0 => lead <= Ahead(saves)
        /\ waits # 0 => lead <= Ahead(saves) + Longest
    BY <2>1 DEF OrderInv, LeadBounded
  <2>6. /\ waits = 0 => lead' <= Ahead(saves')
        /\ waits # 0 => lead' <= Ahead(saves') + Longest
    <3>1. CASE lead' <= 0
      BY <1>0, <2>1, <2>4, <3>1
    <3>2. CASE ~(lead' <= 0)
      <4>1. saves' = saves
        BY <2>1, <3>2
      <4>2. QED BY <1>0, <2>1, <2>4, <2>5, <4>1
    <3>3. QED BY <3>1, <3>2
  <2>7. QED BY <2>1, <2>2, <2>3, <2>6 DEF LeadBounded
<1>4. QED BY <1>1, <1>2, <1>3 DEF CpuThread

LEMMA SaveOrder ==
  ASSUME OrderInv, Save PROVE LeadBounded' /\ AccessAhead' /\ early'["cpu"] = 0
<1>0. /\ lead \in Int /\ left \in -1 .. Instruction /\ saves \in Nat
      /\ early \in [Party -> Nat] /\ early["cpu"] = 0 /\ early["smp"] \in Nat
      /\ (waits # 0 => left \in 1 .. Instruction)
  BY OrderTypes
<1>1. /\ turn = "cpu" /\ saves' = saves + 1 /\ UNCHANGED <<lead, waits, early>>
      /\ IF left = -1 THEN left' = 0 /\ turn' \in Party ELSE turn' = "alone" /\ left' = left
  BY DEF Save, CpuRuns, Fresh
<1>2. /\ Ahead(saves) \in Nat /\ Ahead(saves + 1) = Ahead(saves) + Span
      /\ Span \in Nat /\ Longest \in Nat
  BY <1>0, Products, LongestExists
<1>3. /\ waits = 0 => lead <= Ahead(saves)
      /\ waits # 0 => lead <= Ahead(saves) + Longest
  BY <1>1 DEF OrderInv, LeadBounded
<1>4. AccessAhead' /\ early'["cpu"] = 0
  BY <1>0, <1>1 DEF OrderInv, AccessAhead
<1>5. CASE left = -1
  <2>1. waits = 0 /\ turn' # "alone" /\ waits' = 0
    BY <1>0, <1>1, <1>5 DEF Party
  <2>2. lead' <= Ahead(saves')
    BY <1>0, <1>1, <1>2, <1>3, <2>1
  <2>3. QED BY <1>4, <2>1, <2>2 DEF LeadBounded
<1>6. CASE left # -1
  <2>1. /\ turn' = "alone" /\ left' = left /\ left \in 0 .. Instruction /\ saves' > 0
        /\ Ahead(saves') = Ahead(saves) + Span
    BY <1>0, <1>1, <1>2, <1>6
  <2>2. Longest * left \in Nat /\ Longest * left <= Span
    <3>1. PICK n \in 0 .. Instruction : n = left
      BY <2>1
    <3>2. QED BY <3>1, Times
  <2>3. waits' # 0 => lead' + Longest * left' <= Ahead(saves') + Longest
    BY <1>0, <1>1, <1>2, <1>3, <2>1, <2>2
  <2>4. waits' = 0 => lead' + Span <= Ahead(saves') /\ lead' + Longest * left' <= Ahead(saves')
    BY <1>0, <1>1, <1>2, <1>3, <2>1, <2>2
  <2>5. QED BY <1>4, <2>1, <2>3, <2>4 DEF LeadBounded
<1>7. QED BY <1>5, <1>6

LEMMA OrderNext == OrderInv /\ [Next]_vars => OrderInv'
<1> SUFFICES ASSUME OrderInv, [Next]_vars PROVE OrderInv'
  OBVIOUS
<1>1. IInv'
  BY NextInv DEF OrderInv
<1>2. LeadBounded' /\ AccessAhead' /\ early'["cpu"] = 0
  <2>1. CASE Wait
    BY <2>1, WaitOrder
  <2>2. CASE Port \/ Control \/ Other
    BY <2>2, FinishOrder
  <2>3. CASE SwitchToCpu \/ CpuThread
    BY <2>3, CpuOrder
  <2>4. CASE Save
    BY <2>4, SaveOrder
  <2>5. CASE UNCHANGED vars
    BY <2>5 DEF OrderInv, LeadBounded, AccessAhead, vars, threads
  <2>6. QED BY <2>1, <2>2, <2>3, <2>4, <2>5 DEF Next, SmpThread
<1>3. QED BY <1>1, <1>2 DEF OrderInv

LEMMA OrderInvariance == Spec => []OrderInv
BY OrderInit, OrderNext, PTL DEF Spec

-----------------------------------------------------------------------------
(* The theorems *)

\* The stages of the timers keep their width, and the first never holds a half period:
\* Timer::step subtracts once and that is enough.
THEOREM SmpTypes == Spec => []SmpTypeOK
<1>1. IInv => SmpTypeOK
  BY DEF IInv
<1>2. QED BY <1>1, Invariance, PTL

\* The timers advance by every tick of the SMP, whatever is written to their registers, and
\* stay in phase with each other.
THEOREM AllTicks == Spec => []NoTickLost
<1>1. IInv => NoTickLost
  BY DEF IInv
<1>2. QED BY <1>1, Invariance, PTL

\* Neither thread touches the ports before the other one has done everything up to then,
\* unless a state was saved; and the SMP is ahead by an instruction for each save at most.
THEOREM PortsStayInOrder == Spec => []PortsInOrder
<1>1. OrderInv => PortsInOrder
  <2> SUFFICES ASSUME OrderInv PROVE PortsInOrder
    OBVIOUS
  <2>0. /\ lead \in Int /\ left \in -1 .. Instruction /\ saves \in Nat
        /\ turn \in {"cpu", "smp", "alone"}
        /\ waits # 0 => left \in 1 .. Instruction
    BY OrderTypes
  <2>1. /\ Ahead(saves) \in Nat /\ Span \in Nat /\ Longest \in Nat
        /\ Longest * left \in Nat \/ left < 0
        /\ left >= 1 => Longest * left >= Longest
    <3>1. ASSUME left >= 0
          PROVE  /\ Longest * left \in Nat
                 /\ left >= 1 => Longest * left >= Longest
      <4>1. PICK n \in 0 .. Instruction : n = left
        BY <2>0, <3>1
      <4>2. QED BY <4>1, Times
    <3>2. QED BY <2>0, <3>1, Products, LongestExists
  <2>2. lead <= Ahead(saves) + Longest
    <3>1. CASE turn # "alone"
      BY <2>0, <2>1, <3>1 DEF OrderInv, LeadBounded
    <3>2. CASE turn = "alone" /\ waits # 0
      BY <2>0, <2>1, <3>2 DEF OrderInv, LeadBounded
    <3>3. CASE turn = "alone" /\ waits = 0 /\ left > 0
      BY <2>0, <2>1, <3>3 DEF OrderInv, LeadBounded
    <3>4. CASE turn = "alone" /\ waits = 0 /\ ~(left > 0)
      <4>1. left = 0
        BY <2>0, <3>4 DEF OrderInv, LeadBounded
      <4>2. QED BY <2>0, <2>1, <3>4, <4>1 DEF OrderInv, LeadBounded
    <3>5. QED BY <3>1, <3>2, <3>3, <3>4
  <2>3. Ahead(saves) + Longest = Longest * (1 + Instruction * saves)
    BY <2>0, LongestExists DEF Ahead, Span
  <2>4. \E w \in Waits : lead <= w[1] * (1 + Instruction * saves)
    BY <2>2, <2>3, LongestExists
  <2>5. early["cpu"] = 0 /\ (early["smp"] > 0 => saves > 0)
    BY DEF OrderInv, AccessAhead
  <2>6. QED BY <2>4, <2>5 DEF PortsInOrder
<1>2. QED BY <1>1, OrderInvariance, PTL
=============================================================================
