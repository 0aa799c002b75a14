----------------------------- MODULE SaveStates -----------------------------
(***************************************************************************)
(* Save state files, and emulated systems that are unloaded and loaded     *)
(* again: System::serialize, unserialize, unload and load                  *)
(* (src/higan/sfc/system) called by Emulator::saveState, loadState, unload *)
(* and create (src/higan-ui/emulator).                                     *)
(*                                                                         *)
(* Of a component's state the scheduler sees its clock only.  A coroutine's *)
(* stack is not saved: loading powers the system, so that each thread      *)
(* starts its entry point anew, and then restores the clocks.              *)
(***************************************************************************)
EXTENDS SystemHost

CONSTANT
  SameIDs  \* only states are loaded whose threads had the identifiers they have now

VARIABLES
  file,    \* the state file: who is in it, with which clock
  load     \* "power" in unserialize, "fresh" until a component works, or "none"

loadVars == <<vars, file, load>>

NoFile == [members |-> {}, clock |-> <<>>, uid |-> <<>>]

\* Whom serializeAll saves: components and chips, but no peripherals.
Serialized == {t \in Thread \ Pluggable : handle[t] # Null}

\* Thread::serialize saves the clock, and not the identifier it contains.
ClocksOf(members) == [t \in members |-> clock[t]]

\* `uid' is not in the file: it records which identifiers `clock' was made with.
State(members) ==
  [members |-> members, clock |-> ClocksOf(members), uid |-> [t \in members |-> uid[t]]]

\* System::serialize(true) writes the components once enter(Synchronize) returned.
WriteState ==
  /\ SaveReturns
  /\ file' = State(Serialized)
  /\ UNCHANGED load

\* System::unserialize: a state of other components has another size.  power(false)
\* comes first.
ReadState ==
  /\ HostAt("idle") /\ powered /\ load # "power"
  /\ file.members # {} /\ file.members = Serialized
  /\ SameIDs => \A t \in file.members : file.uid[t] = uid[t]
  /\ \E boot \in Boots : Elems(boot) = Serialized /\ Power(boot)
  /\ load' = "power"
  /\ UNCHANGED <<file, powered>>

\* Mutant: a thread keeps the clock that power(false) gave it.
NotLoaded(t) == clock[t]
\* Thread::serialize of each member
Loaded(t) == file.clock[t]

\* ... and then the components' states.
RestoreState ==
  /\ load = "power"
  /\ HostAt("idle")
  /\ clock' = [t \in Thread |-> IF t \in file.members THEN Loaded(t) ELSE clock[t]]
  /\ load' = "fresh"
  /\ UNCHANGED <<handle, threads, uid, entryPoints, stack, active, sched, host, powered, file>>

\* Mutant: deleted threads stay in the list of the system loaded next.
KeptList == threads
\* Scheduler::reset
ResetList == <<>>

\* System::unload deletes the cartridge's chips and the devices; the components keep
\* their coroutines.  System::load resets the scheduler's list.
Reload ==
  LET deleted == {t \in Chip \cup Pluggable : handle[t] # Null}
  IN  /\ "reload" \in HostOps
      /\ HostAt("idle") /\ load # "power"
      /\ \A t \in deleted : Removable(t)
      /\ handle' = [t \in Thread |-> IF t \in deleted THEN Null ELSE handle[t]]
      /\ stack' = [h \in Handle |->
                     IF \E t \in deleted : handle[t] = h THEN Freed ELSE stack[h]]
      /\ threads' = ResetList
      /\ powered' = FALSE
      /\ load' = "none"
      /\ UNCHANGED <<uid, clock, entryPoints, active, sched, host, file>>

\* A component calls its entry point; the system is powered for another reason.
Works ==
  \/ active \in Handle /\ stack[active].at = "start" /\ Self \notin Pluggable
  \/ host'.at = "power"

Emulate ==
  /\ Next
  /\ load = "power" => host.at = "power"
  /\ load' = IF load = "fresh" /\ Works THEN "none" ELSE load
  /\ UNCHANGED file

LoadInit == Init /\ file = NoFile /\ load = "none"

LoadNext == Emulate \/ WriteState \/ ReadState \/ RestoreState \/ Reload

LoadSpec == LoadInit /\ [][LoadNext]_loadVars

-----------------------------------------------------------------------------
\* Saving a state right after loading one changes nothing: synchronizing threads that
\* stand at their entry points runs none of them, so the order in which they will run
\* is the one that was saved.
RoundTrip ==
  (host.at = "saved" /\ load = "fresh") =>
    \A s, t \in file.members : clock[s] + file.clock[t] = clock[t] + file.clock[s]

\* What is scheduled is alive, whatever was unloaded, loaded or replaced.
ScheduledAlive == \A t \in Scheduled : handle[t] # Null
=============================================================================
