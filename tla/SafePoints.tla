----------------------------- MODULE SafePoints -----------------------------
(***************************************************************************)
(* What a save state promises of the emulated system's threads, without    *)
(* coroutines, clocks or modes (Scheduler::enter, scheduler.cpp:63-99):    *)
(* emulation goes on until the primary thread stands at a safe point; then *)
(* the other threads are brought to theirs one after the other, and who is *)
(* there stays there; the state is taken when all of them are.             *)
(***************************************************************************)
CONSTANTS Thread, Primary

VARIABLES
  members,  \* the threads of the emulated system
  safe,     \* those that stand at their safe points
  phase,    \* "free", "primary", "auxiliary" or "taken"
  done      \* those this save has brought to their safe points

vars == <<members, safe, phase, done>>

Init ==
  /\ members = {} /\ safe = {} /\ done = {}
  /\ phase = "free"

\* Between saves threads run, appear and disappear.
Work ==
  /\ phase = "free"
  /\ members' \in SUBSET Thread
  /\ safe' \in SUBSET members'
  /\ UNCHANGED <<phase, done>>

BeginSave ==
  /\ phase = "free"
  /\ phase' = "primary"
  /\ UNCHANGED <<members, safe, done>>

\* Every thread may still run while the primary one is brought to its safe point.
ReachPrimary ==
  /\ phase = "primary"
  /\ safe' \in SUBSET members
  /\ \/ UNCHANGED <<phase, done>>
     \/ phase' = "auxiliary" /\ done' = {Primary}
  /\ done' \subseteq safe'
  /\ UNCHANGED members

\* One other thread moves, until it is at its safe point as well.
ReachAuxiliary(t) ==
  /\ phase = "auxiliary"
  /\ t \in members \ done
  /\ safe' \in {safe \ {t}, safe \cup {t}}
  /\ done' \in {done, done \cup {t}}
  /\ done' \subseteq safe'
  /\ UNCHANGED <<members, phase>>

Take ==
  /\ phase = "auxiliary"
  /\ done = members
  /\ phase' = "taken"
  /\ UNCHANGED <<members, safe, done>>

Resume ==
  /\ phase = "taken"
  /\ phase' = "free"
  /\ done' = {}
  /\ UNCHANGED <<members, safe>>

Next ==
  \/ Work \/ BeginSave \/ ReachPrimary
  \/ (\E t \in Thread : ReachAuxiliary(t)) \/ Take \/ Resume

\* What happens at all ...
Safety == Init /\ [][Next]_vars

\* ... and that a save that was begun is taken.
Spec == Safety /\ ((phase = "primary") ~> (phase = "taken"))
=============================================================================
