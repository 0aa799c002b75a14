--------------------------------- MODULE Smp ---------------------------------
(***************************************************************************)
(* The sound CPU of the Super Famicom (src/higan/sfc/smp): its timers, and *)
(* the four ports through which it and the CPU talk.  Each is a thread and *)
(* touches the ports only when the other one's clock has reached its own.  *)
(* When a state is saved the scheduler runs the SMP alone up to the end of *)
(* an instruction, and Thread::synchronize does not wait (Scheduler.tla).  *)
(*                                                                         *)
(* A cycle of the SMP is two actions: wait() takes time, during which the  *)
(* CPU may run, and then the timers step and an access follows.  What the  *)
(* ports contain is left out.                                              *)
(***************************************************************************)
EXTENDS Integers

CONSTANTS
  Timer,        \* the timers: 0, 1, 2
  Frequency,    \* Frequency[t]: its ticks per half period; 128, 128, 16 in the code
  Waits,        \* pairs of the clocks and ticks a cycle may take
  Stage2,       \* values of stage2 and target; 256 in the code
  Stage3,       \* values of stage3; 16 in the code
  Instruction,  \* the most cycles of an instruction
  Behind,       \* how far the CPU runs before it waits for the SMP: a line of the picture
  MaxSaves      \* bound on the states saved while the SMP is ahead

\* A cycle takes some time, the longest in ticks a shortest half period at most, and there
\* is one that is the longest in clocks.
ASSUME SmpAssumption ==
  /\ Timer \subseteq {0, 1, 2} /\ Frequency \in [Timer -> Nat \ {0}]
  /\ Waits \subseteq (Nat \ {0}) \X (Nat \ {0}) /\ Waits # {}
  /\ \A w \in Waits : \A t \in Timer : w[2] <= Frequency[t]
  /\ \E w \in Waits : \A v \in Waits : v[1] <= w[1]
  /\ Stage2 \in Nat \ {0} /\ Stage3 \in Nat \ {0} /\ Instruction \in Nat \ {0}
  /\ Behind \in Nat /\ MaxSaves \in Nat

VARIABLES
  timer,    \* timer[t]: SMP::Timer
  runs,     \* timersEnable and not timersDisable
  turn,     \* the thread that runs: "cpu", "smp", or the SMP "alone" for a save
  lead,     \* how far the SMP's clock is ahead of the CPU's
  left,     \* the cycles left of the SMP's instruction, or Fresh: its thread has not run
  waits,    \* the ticks of the cycle it is in: it is in Thread::synchronize(cpu); or 0
  calls,    \* the CPU's thread is in Thread::synchronize(smp)
  elapsed,  \* elapsed[t]: history, the ticks since power, modulo a period of t
  early,    \* early[p]: history, how far the last access of p to the ports is in the
            \* future of the other one
  saves     \* history: the states saved since the SMP was last not ahead

threads == <<turn, lead, left, waits, calls>>
vars == <<timer, runs, threads, elapsed, early, saves>>

Fresh == -1
Party == {"cpu", "smp"}
TimerRecord ==
  [stage0 : Nat, stage1 : {0, 1}, stage2 : 0 .. Stage2 - 1, stage3 : 0 .. Stage3 - 1,
   line : BOOLEAN, enable : BOOLEAN, target : 0 .. Stage2 - 1]

-----------------------------------------------------------------------------
(* Timers *)

\* Mutant: stage2 is wider than target.
CountedWide(stage2) == stage2 + 1
Counted(stage2) == IF stage2 = Stage2 - 1 THEN 0 ELSE stage2 + 1

\* Timer::synchronizeStage1, when the timers run or not
SynchronizeStage1(k, on) ==
  LET level == on /\ k.stage1 = 1
      pulse == k.line /\ ~level /\ k.enable
      count == Counted(k.stage2)
      full == pulse /\ count = k.target
  IN  [k EXCEPT !.line = level,
                !.stage2 = IF full THEN 0 ELSE IF pulse THEN count ELSE @,
                !.stage3 = IF ~full THEN @ ELSE IF @ = Stage3 - 1 THEN 0 ELSE @ + 1]

\* Mutant: the ticks beyond the half period are lost.
Reduced(stage0, f) == 0
\* "stage0 -= Frequency"
ReducedBy(stage0, f) == stage0 - f

\* Timer::step
StepTimer(t, ticks) ==
  LET k == timer[t]
      stage0 == k.stage0 + ticks
  IN  IF stage0 < Frequency[t] THEN [k EXCEPT !.stage0 = stage0]
      ELSE SynchronizeStage1([k EXCEPT !.stage0 = ReducedBy(stage0, Frequency[t]),
                                       !.stage1 = 1 - @], runs)

\* SMP::stepTimers: what follows in the cycle finds the timers so.
Stepped == [t \in Timer |-> StepTimer(t, waits)]

\* Which timers CONTROL resets when it makes `on' of `enable': for timer 2 the test is
\* the other way round.
Resets(t, enable, on) ==
  LET raised == ~enable /\ on IN IF t = 2 THEN ~raised ELSE raised

\* The accesses to CONTROL, TnTARGET, TnOUT and TEST
WriteControl ==
  /\ \E on \in [Timer -> BOOLEAN] :
       timer' = [t \in Timer |->
                   LET k == [Stepped[t] EXCEPT !.enable = on[t]]
                   IN  IF Resets(t, timer[t].enable, on[t])
                       THEN [k EXCEPT !.stage2 = 0, !.stage3 = 0] ELSE k]
  /\ UNCHANGED runs
WriteTarget ==
  /\ \E t \in Timer, target \in 0 .. Stage2 - 1 :
       timer' = [Stepped EXCEPT ![t].target = target]
  /\ UNCHANGED runs
ReadOut ==
  /\ \E t \in Timer : timer' = [Stepped EXCEPT ![t].stage3 = 0]
  /\ UNCHANGED runs
WriteTest ==
  /\ runs' \in BOOLEAN
  /\ timer' = [t \in Timer |-> SynchronizeStage1(Stepped[t], runs')]
OtherAccess == timer' = Stepped /\ UNCHANGED runs

-----------------------------------------------------------------------------
(* The SMP's thread *)

Positive(n) == IF n > 0 THEN n ELSE 0
SmpRuns == turn \in {"smp", "alone"}

\* SMP::step, in front of which a new instruction may begin
Wait ==
  \E w \in Waits :
    /\ SmpRuns /\ waits = 0
    /\ IF left > 0 THEN left' = left ELSE left' \in 1 .. Instruction
    /\ lead' = lead + w[1]
    /\ waits' = w[2]
    /\ early' = [early EXCEPT !["cpu"] = Positive(@ - w[1])]
    /\ UNCHANGED <<timer, runs, turn, calls, elapsed, saves>>

\* Mutant: nobody waits.
Proceeds(behind) == TRUE
\* Thread::synchronize: the other one is not behind, or is not waited for.
CaughtUp(behind) == behind <= 0 \/ turn = "alone"

\* Thread::synchronize(cpu)
SwitchToCpu ==
  /\ turn = "smp" /\ waits # 0
  /\ ~CaughtUp(lead)
  /\ turn' = "cpu"
  /\ UNCHANGED <<timer, runs, lead, left, waits, calls, elapsed, early, saves>>

\* The ticks of elapsed[t] begin again with every period.
After(t, ticks) == IF ticks < 2 * Frequency[t] THEN ticks ELSE ticks - 2 * Frequency[t]

\* The cycle ends.  At the end of the instruction that it runs alone the thread leaves the
\* scheduler, which goes on with this thread, or with one that was saved after it.
Finish ==
  /\ SmpRuns /\ waits # 0
  /\ CaughtUp(lead)
  /\ elapsed' = [t \in Timer |-> After(t, elapsed[t] + waits)]
  /\ waits' = 0
  /\ left' = left - 1
  /\ IF turn = "alone" /\ left' = 0 THEN turn' \in Party ELSE turn' = turn
  /\ UNCHANGED <<lead, calls, saves>>

\* An access to the ports; CONTROL may clear two of them.
TouchPorts == early' = [early EXCEPT !["smp"] = Positive(lead)]
Port == Finish /\ OtherAccess /\ TouchPorts
Control == Finish /\ WriteControl /\ (TouchPorts \/ UNCHANGED early)
Other == Finish /\ (WriteTarget \/ ReadOut \/ WriteTest \/ OtherAccess) /\ UNCHANGED early

-----------------------------------------------------------------------------
(* The CPU's thread *)

CpuRuns == turn = "cpu" /\ ~calls

\* CPU::step.  At the end of a line it synchronizes the SMP, too.
CpuStep ==
  /\ CpuRuns
  /\ lead > -Behind
  /\ lead' = lead - 1
  /\ early' = [early EXCEPT !["smp"] = Positive(@ - 1)]
  /\ saves' = IF lead' <= 0 THEN 0 ELSE saves
  /\ UNCHANGED <<timer, runs, turn, left, waits, calls, elapsed>>

\* CPU::readAPU, writeAPU and scanline call synchronize(smp),
Call ==
  /\ CpuRuns
  /\ calls' = TRUE
  /\ UNCHANGED <<timer, runs, turn, lead, left, waits, elapsed, early, saves>>
\* which switches to it
SwitchToSmp ==
  /\ turn = "cpu" /\ calls
  /\ ~CaughtUp(-lead)
  /\ turn' = "smp"
  /\ UNCHANGED <<timer, runs, lead, left, waits, calls, elapsed, early, saves>>
\* until it has caught up; then the ports are read or written.
Return ==
  /\ turn = "cpu" /\ calls
  /\ CaughtUp(-lead)
  /\ calls' = FALSE
  /\ early' = [early EXCEPT !["cpu"] = Positive(-lead)]
  /\ UNCHANGED <<timer, runs, turn, lead, left, waits, elapsed, saves>>

\* Scheduler::enter to save, when the CPU's thread is at its safe point: the SMP's runs to
\* its own, which it is at if it has not run yet.  If it stands at one, it has left the
\* scheduler there and runs to the next one.
Save ==
  /\ CpuRuns
  /\ saves < MaxSaves
  /\ saves' = saves + 1
  /\ IF left = Fresh THEN left' = 0 /\ turn' \in Party ELSE turn' = "alone" /\ UNCHANGED left
  /\ UNCHANGED <<timer, runs, lead, waits, calls, elapsed, early>>

\* SMP::power
Init ==
  /\ timer = [t \in Timer |-> [stage0 |-> 0, stage1 |-> 0, stage2 |-> 0, stage3 |-> 0,
                               line |-> FALSE, enable |-> FALSE, target |-> 0]]
  /\ runs = TRUE
  /\ turn = "cpu" /\ lead = 0 /\ left = Fresh /\ waits = 0 /\ calls = FALSE
  /\ elapsed = [t \in Timer |-> 0] /\ early = [p \in Party |-> 0] /\ saves = 0

SmpThread == Wait \/ SwitchToCpu \/ Port \/ Control \/ Other
CpuThread == CpuStep \/ Call \/ SwitchToSmp \/ Return
Next == SmpThread \/ CpuThread \/ Save

Spec == Init /\ [][Next]_vars

-----------------------------------------------------------------------------
(* Properties *)

SmpTypeOK ==
  /\ timer \in [Timer -> TimerRecord] /\ \A t \in Timer : timer[t].stage0 < Frequency[t]
  /\ runs \in BOOLEAN /\ calls \in BOOLEAN
  /\ turn \in Party \cup {"alone"} /\ lead \in Int
  /\ left \in Fresh .. Instruction /\ waits \in {0} \cup {w[2] : w \in Waits}
  /\ \A t \in Timer : elapsed[t] \in 0 .. 2 * Frequency[t] - 1
  /\ early \in [Party -> Nat] /\ saves \in 0 .. MaxSaves

\* One subtraction is enough (Timer::step): the timers "advance by their expected values",
\* no tick is lost and each is in phase with the others.
NoTickLost ==
  \A t \in Timer : timer[t].stage0 + Frequency[t] * timer[t].stage1 = elapsed[t]

\* Neither thread touches the ports before the other one has done everything up to that
\* time, unless a state was saved: then the SMP is ahead, by an instruction for each save.
PortsInOrder ==
  /\ early["cpu"] = 0
  /\ early["smp"] > 0 => saves > 0
  /\ \E w \in Waits : lead <= w[1] * (1 + Instruction * saves)

=============================================================================
