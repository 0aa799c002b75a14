----------------------------- MODULE Scheduler -----------------------------
(***************************************************************************)
(* The cooperative scheduler every emulated system embeds:                 *)
(*   src/higan/higan/scheduler/scheduler.cpp, thread.cpp                   *)
(* on top of libco's coroutines (src/libco/amd64.c), driven by the host    *)
(* program the way System::run, System::power and System::serialize drive  *)
(* it (src/higan/sfc/system) on behalf of the user interface.              *)
(*                                                                         *)
(* Only the active coroutine runs, so a step of this module is a piece of  *)
(* code between two points at which another coroutine could notice it: one *)
(* scheduler or thread call of an emulated component, or one turn of the   *)
(* host.  What a component does between its calls is abstracted to         *)
(* Program[t], the sequences of scheduler calls one run of its entry point *)
(* may make.                                                               *)
(***************************************************************************)
EXTENDS Naturals, Sequences

CONSTANTS
  Thread,     \* the Thread objects: components, cartridge chips, peripherals
  Handle,     \* the coroutine addresses co_create can return
  Host,       \* the program's own coroutine (co_active_buffer)
  Null,       \* nullptr
  Cpu,        \* the thread that System::power hands to Scheduler::power
  Program,    \* Program[t]: what one call of t's entry point may do
  W,          \* 2^64, the modulus of uintmax
  MaxClock,   \* bound: frames end, and reduce the clocks, before one exceeds it
  MaxID,      \* bound: identifiers, one for each thread of a system
  MaxEntries  \* bound: pending entry points

(***************************************************************************)
(* The scheduler calls an entry point is made of.                          *)
(***************************************************************************)
Call  == {"step", "syncAll", "syncAt", "exit"}
PeerCall == {"sync", "syncAlive", "wait", "recheck", "restart", "renew"}
Op == [do : Call, n : Nat, peer : {Null}] \cup [do : PeerCall, n : Nat, peer : Thread]

StepBy(n)      == [do |-> "step",    n |-> n, peer |-> Null]
SyncWith(u)    == [do |-> "sync",    n |-> 0, peer |-> u]
SyncAlive(u)   == [do |-> "syncAlive", n |-> 0, peer |-> u]
SyncAll        == [do |-> "syncAll", n |-> 0, peer |-> Null]
SyncAt(i)      == [do |-> "syncAt",  n |-> i, peer |-> Null]
ExitFrame      == [do |-> "exit",    n |-> 0, peer |-> Null]
WaitFor(n, u)  == [do |-> "wait",    n |-> n, peer |-> u]
Recheck(n, u)  == [do |-> "recheck", n |-> n, peer |-> u]
Restart(u)     == [do |-> "restart", n |-> 0, peer |-> u]
Renew(u)       == [do |-> "renew",   n |-> 0, peer |-> u]

Modes  == {"Run", "SynchronizePrimary", "SynchronizeAuxiliary"}
Events == {"Step", "Frame", "Synchronize"}

ASSUME ConstantsAssumption ==
  /\ Host \notin Handle
  /\ Null \notin Handle \cup Thread \cup {Host}
  /\ Cpu \in Thread
  /\ Program \in [Thread -> SUBSET Seq(Op)]
  /\ W \in Nat /\ MaxClock \in Nat /\ MaxID \in Nat /\ MaxEntries \in Nat
  /\ MaxClock + MaxID < W

\* Only the CPU restarts another thread, and never itself.
ASSUME RestartAssumption ==
  \A t \in Thread : \A p \in Program[t] : \A k \in DOMAIN p :
    p[k].do \in {"restart", "renew"} => t = Cpu /\ p[k].peer # Cpu

\* The threads that are destroyed and created again while the system runs.
Renewed ==
  {u \in Thread : \E t \in Thread : \E p \in Program[t] : \E k \in DOMAIN p :
     p[k].do = "renew" /\ p[k].peer = u}

VARIABLES
  handle,       \* Thread::_handle
  threads,      \* Scheduler::_threads
  uid,          \* Thread::_uniqueID
  clock,        \* Thread::_clock
  entryPoints,  \* Thread::EntryPoints()
  stack,        \* what each coroutine's memory holds
  active,       \* libco's co_active_handle
  primary,      \* Scheduler::_primary
  resume,       \* Scheduler::_resume
  mode,         \* Scheduler::_mode
  event,        \* Scheduler::_event
  host,         \* where the host program is
  powered       \* Emulator::system.power

objects == <<handle, uid, clock, threads>>
sched   == <<primary, resume, mode, event>>
vars    == <<handle, threads, uid, clock, entryPoints, stack, active,
             primary, resume, mode, event, host, powered>>

-----------------------------------------------------------------------------
(***************************************************************************)
(* Small helpers                                                           *)
(***************************************************************************)
Elems(s) == {s[i] : i \in DOMAIN s}

\* vector::remove(index)
DropAt(s, k) == [i \in 1 .. Len(s) - 1 |-> IF i < k THEN s[i] ELSE s[i + 1]]

\* vector::removeByValue
Without(s, e) ==
  IF e \in Elems(s)
  THEN DropAt(s, CHOOSE k \in DOMAIN s : s[k] = e /\ \A j \in 1 .. k - 1 : s[j] # e)
  ELSE s

\* unsigned 64-bit arithmetic; the sum is a new thread's clock in append
\* Mutant: the clock is wider than the 64 bits the lead was computed with.
UAddWide(a, b) == a + b
UAdd(a, b) == IF a + b < W THEN a + b ELSE (a + b) - W
USub(a, b) == IF a >= b THEN a - b ELSE (a + W) - b

Live      == {handle[t] : t \in Thread} \ {Null}
Scheduled == Elems(threads)
Self      == stack[active].owner      \* whose code the active coroutine runs
Todo      == stack[active].todo       \* what is left of its entry point

\* Coroutine memory: just derived, deleted, and one that has found its entry.
Derived == [at |-> "entry", owner |-> Null, todo |-> <<>>]
Freed   == [at |-> "freed", owner |-> Null, todo |-> <<>>]
Running(t, rest) ==
  [at |-> IF rest = <<>> THEN "top" ELSE "main", owner |-> t, todo |-> rest]

\* Parked right behind Scheduler::synchronize(): nothing of the entry point has
\* run, which is where power() puts a thread, so a saved state can restart it.
AtSafePoint(t) == handle[t] \in Handle /\ stack[handle[t]].at = "start"

-----------------------------------------------------------------------------
(***************************************************************************)
(* Scheduler: identifiers and clocks                                       *)
(***************************************************************************)
Lag(t) == USub(clock[t], uid[t])

\* Mutant: the identifier is the number of threads.
IsCount(u, list) == u = Len(list)
\* Scheduler::uniqueID and maximum, over the threads in the list
IsUniqueID(u, list) ==
  /\ \A t \in Elems(list) : uid[t] # u
  /\ \A v \in 0 .. u - 1 : \E t \in Elems(list) : uid[t] = v

IsMaximum(m, list) ==
  /\ \A t \in Elems(list) : Lag(t) <= m
  /\ m = 0 \/ \E t \in Elems(list) : m = Lag(t)

\* Mutant: minimum() returns the last thread's lead.
IsLast(m) == threads # <<>> /\ m = Lag(threads[Len(threads)])

IsMinimum(m) ==
  /\ \A t \in Scheduled : m <= Lag(t)
  /\ m = W - 1 \/ \E t \in Scheduled : m = Lag(t)

\* Scheduler::append of a thread that is not in the list
AppendTo(list, t) ==
  \E u \in 0 .. MaxID, m \in {0} \cup {Lag(s) : s \in Elems(list)} :
    /\ IsUniqueID(u, list)
    /\ IsMaximum(m, list)
    /\ uid' = [uid EXCEPT ![t] = u]
    /\ clock' = [clock EXCEPT ![t] = UAdd(m, u)]
    /\ threads' = Append(list, t)

\* Thread::create's setClock(0) and scheduler.append(*this)
Register(t) ==
  IF t \in Scheduled
  THEN clock' = [clock EXCEPT ![t] = 0] /\ UNCHANGED <<uid, threads>>
  ELSE AppendTo(threads, t)

\* co_derive keeps the memory a thread has, co_create takes any free address
AddressFor(t) == IF handle[t] = Null THEN Handle \ Live ELSE {handle[t]}

\* Mutant: a coroutine is derived, but its entry point is not registered.
Unregistered(h, t) == entryPoints
\* EntryPoints().append({_handle, entryPoint})
Registered(h, t) == Append(entryPoints, [handle |-> h, owner |-> t])

\* Thread::create, called by the host
Create(t) ==
  /\ \E h \in AddressFor(t) :
       /\ handle' = [handle EXCEPT ![t] = h]
       /\ stack' = [stack EXCEPT ![h] = Derived]
       /\ entryPoints' = Registered(h, t)
  /\ Register(t)

\* Thread::destroy, called by the host for a thread that has a handle
Destroy(t) ==
  /\ threads' = Without(threads, t)
  /\ handle' = [handle EXCEPT ![t] = Null]
  /\ stack' = [stack EXCEPT ![handle[t]] = Freed]
  /\ UNCHANGED <<uid, clock, entryPoints>>

\* Scheduler::exit by the active coroutine, which continues with `rest' later
Exit(e, continuation) ==
  /\ \E m \in {W - 1} \cup {Lag(s) : s \in Scheduled} :
       /\ IsMinimum(m)
       /\ clock' = [t \in Thread |->
                      IF t \in Scheduled THEN USub(clock[t], m) ELSE clock[t]]
  /\ event' = e
  /\ resume' = active
  /\ active' = Host
  /\ stack' = [stack EXCEPT ![active] = continuation]
  /\ UNCHANGED <<handle, threads, uid, entryPoints, primary, mode, host, powered>>

-----------------------------------------------------------------------------
(***************************************************************************)
(* The active coroutine                                                    *)
(***************************************************************************)
KeepObjects == UNCHANGED <<handle, threads, uid, entryPoints>>
KeepHost    == UNCHANGED <<host, powered>>

\* Mutant: the entry points are not compared with co_active().
AllPending == DOMAIN entryPoints
\* The pending entry points of the active coroutine.
Mine == {k \in DOMAIN entryPoints : entryPoints[k].handle = active}

PendingAfter(k) == DropAt(entryPoints, k)

\* Thread::Enter: the first pending entry with this handle is consumed; without
\* one, ThreadNotFound is thrown.
Enter ==
  /\ active \in Handle
  /\ stack[active].at = "entry"
  /\ IF Mine = {}
     THEN /\ stack' = [stack EXCEPT ![active].at = "threw"]
          /\ UNCHANGED entryPoints
     ELSE \E k \in Mine :
            /\ \A j \in Mine : k <= j
            /\ stack' = [stack EXCEPT ![active] = Running(entryPoints[k].owner, <<>>)]
            /\ entryPoints' = PendingAfter(k)
  /\ UNCHANGED <<objects, sched, active, host, powered>>

\* Mutant: a thread parks whoever is being synchronized.
ParkAlways == mode # "Run"
\* Scheduler::synchronize at the head of Enter's loop
MustPark == mode = IF active = primary THEN "SynchronizePrimary"
                                       ELSE "SynchronizeAuxiliary"

Park ==
  /\ active \in Handle
  /\ stack[active].at = "top"
  /\ MustPark
  /\ Exit("Synchronize", [stack[active] EXCEPT !.at = "start"])

PassSafePoint ==
  /\ active \in Handle
  /\ stack[active].at = "top"
  /\ ~MustPark
  /\ stack' = [stack EXCEPT ![active].at = "start"]
  /\ UNCHANGED <<objects, sched, entryPoints, active, host, powered>>

\* ... and the call of the entry point behind it, within the bound MaxEntries
Restarts(p) == \E k \in DOMAIN p : p[k].do \in {"restart", "renew"}

CallEntryPoint ==
  /\ active \in Handle
  /\ stack[active].at = "start"
  /\ \E p \in Program[Self] :
       /\ Restarts(p) => Len(entryPoints) < MaxEntries
       /\ stack' = [stack EXCEPT ![active] = Running(Self, p)]
  /\ UNCHANGED <<objects, sched, entryPoints, active, host, powered>>

-----------------------------------------------------------------------------
(* One action per scheduler call of an entry point.                        *)

At(call) ==
  /\ active \in Handle
  /\ stack[active].at = "main"
  /\ Head(Todo).do = call

Continue(rest) == [stack EXCEPT ![active] = Running(Self, rest)]

\* Thread::step, within the bound MaxClock
Step ==
  /\ At("step")
  /\ clock[Self] + Head(Todo).n <= MaxClock
  /\ clock' = [clock EXCEPT ![Self] = @ + Head(Todo).n]
  /\ stack' = Continue(Tail(Todo))
  /\ UNCHANGED <<active, sched>> /\ KeepObjects /\ KeepHost

\* Mutant: Scheduler::synchronizing() is not consulted.
NotSynchronizing == FALSE
\* Scheduler::synchronizing
Synchronizing == mode = "SynchronizeAuxiliary"

\* Mutant: a thread with the same clock is switched to as well.
CaughtUpLate(u) == clock[u] > clock[Self] \/ Synchronizing
\* Thread::synchronize(thread): the loop around co_switch
CaughtUp(u) == clock[u] >= clock[Self] \/ Synchronizing

Synchronized ==
  /\ At("sync")
  /\ CaughtUp(Head(Todo).peer)
  /\ stack' = Continue(Tail(Todo))
  /\ UNCHANGED <<clock, active, sched>> /\ KeepObjects /\ KeepHost

SwitchTo ==
  /\ At("sync")
  /\ ~CaughtUp(Head(Todo).peer)
  /\ active' = handle[Head(Todo).peer]
  /\ UNCHANGED <<clock, stack, sched>> /\ KeepObjects /\ KeepHost

(* Thread::synchronize(): a range-for over _threads, whose iterators are indices *)
(* into the live vector and whose end is the size it had at the beginning.       *)
SynchronizeAll ==
  /\ At("syncAll")
  /\ stack' = Continue([i \in DOMAIN threads |-> SyncAt(i)] \o Tail(Todo))
  /\ UNCHANGED <<clock, active, sched>> /\ KeepObjects /\ KeepHost

\* A slot behind the end holds whatever pointer was left there.
Slot(i) == IF i \in DOMAIN threads THEN {threads[i]} ELSE Thread

SynchronizeSlot ==
  /\ At("syncAt")
  /\ \E u \in Slot(Head(Todo).n) : stack' = Continue(<<SyncWith(u)>> \o Tail(Todo))
  /\ UNCHANGED <<clock, active, sched>> /\ KeepObjects /\ KeepHost

\* Mutant: a deleted device stays in cpu.peripherals.
ListedForever(u) == TRUE
\* A device is in cpu.peripherals, a chip in cpu.coprocessors, while it lives.
Listed(u) == handle[u] # Null

\* for(auto peripheral : peripherals) Thread::synchronize(*peripheral)
SynchronizePeripheral ==
  /\ At("syncAlive")
  /\ LET u == Head(Todo).peer
     IN  stack' = Continue(IF Listed(u) THEN <<SyncWith(u)>> \o Tail(Todo)
                           ELSE Tail(Todo))
  /\ UNCHANGED <<clock, active, sched>> /\ KeepObjects /\ KeepHost

\* scheduler.exit(Event::Frame)
EndFrame ==
  /\ At("exit")
  /\ Exit("Frame", Running(Self, Tail(Todo)))

\* A component that waits for another one to set a flag (SuperFX::read):
\*   while(!flag) { step(n); synchronize(peer); if(scheduler.synchronizing()) break; }
FlagSet ==
  /\ At("wait")
  /\ stack' = Continue(Tail(Todo))
  /\ UNCHANGED <<clock, active, sched>> /\ KeepObjects /\ KeepHost

KeepWaiting ==
  /\ At("wait")
  /\ LET w == Head(Todo)
     IN  stack' = Continue(<<StepBy(w.n), SyncWith(w.peer), Recheck(w.n, w.peer)>>
                             \o Tail(Todo))
  /\ UNCHANGED <<clock, active, sched>> /\ KeepObjects /\ KeepHost

StopWaiting ==
  /\ At("recheck")
  /\ LET w == Head(Todo)
     IN  stack' = Continue(IF Synchronizing THEN Tail(Todo)
                           ELSE <<WaitFor(w.n, w.peer)>> \o Tail(Todo))
  /\ UNCHANGED <<clock, active, sched>> /\ KeepObjects /\ KeepHost

\* Game Boy PPU, on an LCDC write by the CPU: the coroutine is derived again in
\* place; create()'s setClock(0) is undone from the clock saved before it.
RestartThread ==
  /\ At("restart")
  /\ LET u == Head(Todo).peer
     IN  /\ u \in Scheduled
         /\ stack' = [Continue(Tail(Todo)) EXCEPT ![handle[u]] = Derived]
         /\ entryPoints' = Registered(handle[u], u)
  /\ UNCHANGED <<objects, sched, active, host, powered>>

\* Neo Geo Pocket APU::enable, called by the CPU: destroy, then create.
RenewThread ==
  /\ At("renew")
  /\ LET u == Head(Todo).peer
     IN  /\ u \in Scheduled
         /\ \E h \in (Handle \ Live) \cup {handle[u]} :
              /\ handle' = [handle EXCEPT ![u] = h]
              /\ stack' = [Continue(Tail(Todo)) EXCEPT ![handle[u]] = Freed, ![h] = Derived]
              /\ entryPoints' = Registered(h, u)
         /\ AppendTo(Without(threads, u), u)
  /\ UNCHANGED <<sched, active, host, powered>>

ThreadStep ==
  \/ Enter \/ Park \/ PassSafePoint \/ CallEntryPoint
  \/ Step \/ Synchronized \/ SwitchTo
  \/ SynchronizeAll \/ SynchronizeSlot \/ SynchronizePeripheral \/ EndFrame
  \/ FlagSet \/ KeepWaiting \/ StopWaiting \/ RestartThread \/ RenewThread
=============================================================================
