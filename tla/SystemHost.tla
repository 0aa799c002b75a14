----------------------------- MODULE SystemHost -----------------------------
(***************************************************************************)
(* The program that drives a Scheduler: the user interface (src/higan-ui)  *)
(* calling an emulated system's System class (src/higan/sfc/system), which *)
(* enters the scheduler to emulate, to save a state, and creates and       *)
(* destroys threads while the emulated system is not running.              *)
(***************************************************************************)
EXTENDS Scheduler

CONSTANTS
  Pluggable,  \* peripherals: created when connected, deleted when replaced
  Chip,       \* cartridge chips: destroyed when the cartridge is removed
  Boots,      \* the orders in which System::power creates the other threads
  MaxLead,    \* bound: how far saves made while paused let a thread run ahead
  HostOps,    \* what the user may do: "save", "off", "reset", "eject", "plug", or
              \* "swap", which is to plug while the power is off
  Settled     \* a device is removed only when it has no pending entry point

ASSUME HostAssumption ==
  /\ Pluggable \subseteq Thread \ {Cpu}
  /\ Chip \subseteq Thread \ (Pluggable \cup {Cpu})
  /\ Boots \subseteq Seq(Thread \ Pluggable)
  /\ \A boot \in Boots : Cpu \in Elems(boot)
  /\ MaxLead \in Nat

\* The threads of the system itself, which every power() creates.
Core == {t \in Thread \ (Pluggable \cup Chip) : \A boot \in Boots : t \in Elems(boot)}

\* A board without exchangeable parts, of which at most one thread is ever renewed.
FixedBoard == Pluggable = {} /\ Chip = {} /\ \A boot \in Boots : Elems(boot) = Core
RenewsAlone == Renewed = {} \/ (FixedBoard /\ \E u \in Thread : Renewed = {u})

\* What the CPU, the chips and the devices of the Super Famicom call (sfc/cpu/timing.cpp,
\* sfc/controller, sfc/expansion): others are synchronized by name, and what may be
\* removed by the CPU only; a device synchronizes the CPU only and ends no frame.
DeviceCall(t, op) ==
  /\ op.do \notin {"syncAll", "syncAt"}
  /\ op.do \in {"sync", "wait", "recheck"} => op.peer \in Core /\ (t \in Pluggable => op.peer = Cpu)
  /\ op.do = "syncAlive" => t = Cpu
  /\ op.do = "exit" => t \notin Pluggable

DevicePrograms ==
  \A t \in Thread : \A p \in Program[t] : \A k \in DOMAIN p : DeviceCall(t, p[k])

\* Where the host is: in a call, with the threads it has yet to create or delete,
\* and the index its loop over _threads has reached.
Place(at, list, i) == [at |-> at, list |-> list, i |-> i]
Idle == Place("idle", <<>>, 0)

HostAt(place) == active = Host /\ host.at = place

\* Where the host goes when it enters the scheduler.
SwitchIn(to) == active' = to /\ UNCHANGED <<objects, entryPoints, stack>>

\* The bound MaxEntries: n more entries fit, and those of a power() after them.
Room(n) == \A boot \in Boots : Len(entryPoints) + n + Len(boot) <= MaxEntries

\* System::power creates the components' threads in one of the Boots orders,
\* which depends on the cartridge: every chip that is still alive is in it.
Power(boot) ==
  /\ Room(0)
  /\ {t \in Thread \ Pluggable : handle[t] # Null} \subseteq Elems(boot)
  /\ host' = Place("power", boot, 0)
  /\ UNCHANGED <<objects, sched, entryPoints, stack, active>>

\* Emulator::power(true)
PowerOn ==
  /\ HostAt("idle") /\ ~powered
  /\ powered' = TRUE
  /\ \E boot \in Boots : Power(boot)

CreateThread ==
  /\ HostAt("power") /\ host.list # <<>>
  /\ Create(Head(host.list))
  /\ host' = [host EXCEPT !.list = Tail(@)]
  /\ UNCHANGED <<sched, active, powered>>

\* Scheduler::power(cpu), once every component has been powered
PowerScheduler ==
  /\ HostAt("power") /\ host.list = <<>>
  /\ primary' = handle[Cpu]
  /\ resume' = handle[Cpu]
  /\ clock' = [t \in Thread |-> IF t \in Scheduled THEN uid[t] ELSE clock[t]]
  /\ host' = Idle
  /\ UNCHANGED <<handle, uid, threads, entryPoints, stack, active, mode, event, powered>>

\* Emulator::power(false) leaves the emulated system as it is.
PowerOff ==
  /\ "off" \in HostOps
  /\ HostAt("idle") /\ powered /\ Room(0)
  /\ powered' = FALSE
  /\ UNCHANGED <<objects, sched, entryPoints, stack, active, host>>

\* Emulator::main -> System::run -> Scheduler::enter(Run)
Run ==
  /\ HostAt("idle") /\ powered
  /\ mode' = "Run"
  /\ host' = Place("run", <<>>, 0)
  /\ SwitchIn(resume)
  /\ UNCHANGED <<primary, resume, event, powered>>

\* enter returns; after a frame System::run polls the reset button
RunReturns ==
  /\ HostAt("run")
  /\ \/ /\ host' = Idle
        /\ UNCHANGED <<objects, sched, entryPoints, stack, active>>
     \/ /\ "reset" \in HostOps /\ event = "Frame"
        /\ \E boot \in Boots :
             (\A t \in Elems(boot) : handle[t] # Null) /\ Power(boot)
  /\ UNCHANGED powered

(* System::serialize(true) -> Scheduler::enter(Synchronize): first the primary *)
(* thread is run to a safe point, the others running along; then each of the   *)
(* others alone.                                                               *)
SaveState ==
  /\ "save" \in HostOps
  /\ HostAt("idle") /\ powered
  /\ \A t \in Scheduled : clock[t] <= uid[t] + MaxLead
  /\ \E i \in DOMAIN threads :
       /\ handle[threads[i]] = primary
       /\ host' = Place("primary", <<>>, i)
  /\ mode' = "SynchronizePrimary"
  /\ SwitchIn(resume)
  /\ UNCHANGED <<primary, resume, event, powered>>

\* do { co_switch(_resume); } while(_event != Event::Synchronize)
EnterAgain ==
  /\ active = Host /\ host.at \in {"primary", "auxiliary"}
  /\ event # "Synchronize"
  /\ SwitchIn(resume)
  /\ UNCHANGED <<sched, host, powered>>

\* The next thread after the i-th for the loop over the auxiliary threads.
EnterAuxiliary(i) ==
  /\ active = Host /\ host.at \in {"primary", "auxiliary"}
  /\ event = "Synchronize"
  /\ i \in (IF host.at = "primary" THEN 1 ELSE host.i + 1) .. Len(threads)
  /\ handle[threads[i]] # primary
  /\ \A j \in (IF host.at = "primary" THEN 1 ELSE host.i + 1) .. i - 1 :
       handle[threads[j]] = primary
  /\ mode' = "SynchronizeAuxiliary"
  /\ resume' = handle[threads[i]]
  /\ host' = Place("auxiliary", <<>>, i)
  /\ SwitchIn(handle[threads[i]])
  /\ UNCHANGED <<primary, event, powered>>

\* enter returns: the components are about to be serialized
EverySynchronized ==
  /\ active = Host /\ host.at \in {"primary", "auxiliary"}
  /\ event = "Synchronize"
  /\ \A j \in (IF host.at = "primary" THEN 1 ELSE host.i + 1) .. Len(threads) :
       handle[threads[j]] = primary
  /\ host' = Place("saved", <<>>, 0)
  /\ UNCHANGED <<objects, sched, entryPoints, stack, active, powered>>

SaveReturns ==
  /\ HostAt("saved")
  /\ host' = Idle
  /\ UNCHANGED <<objects, sched, entryPoints, stack, active, powered>>

-----------------------------------------------------------------------------
(* Devices come and go while the system is powered off or paused.            *)

Removable(t) ==
  /\ handle[t] # Null
  /\ Settled => \A k \in DOMAIN entryPoints : entryPoints[k].handle # handle[t]

\* The cartridge is removed: <chip>::unload -> Thread::destroy
Eject ==
  /\ "eject" \in HostOps
  /\ HostAt("idle") /\ ~powered
  /\ \E t \in Chip : Removable(t) /\ Destroy(t)
  /\ UNCHANGED <<sched, active, host, powered>>

(* Port::allocate -> ControllerPort::allocate: device = new Peripheral(port).  *)
(* The new device is constructed before the old one is deleted; one without a  *)
(* thread leaves only the deletion.                                            *)
Plugged == {t \in Pluggable : handle[t] # Null}

MayPlug == "plug" \in HostOps \/ ("swap" \in HostOps /\ ~powered)

PlugIn(t) ==
  /\ MayPlug
  /\ HostAt("idle")
  /\ t \notin Plugged /\ Room(1)
  /\ \A old \in Plugged : Removable(old)
  /\ Create(t)
  /\ \E list \in {<<>>} \cup {<<old>> : old \in Plugged} :
       /\ list = <<>> => Plugged = {}
       /\ host' = Place("plug", list, 0)
  /\ UNCHANGED <<sched, active, powered>>

PlugGamepad(old) ==
  /\ MayPlug
  /\ HostAt("idle")
  /\ Removable(old)
  /\ host' = Place("plug", <<old>>, 0)
  /\ UNCHANGED <<objects, sched, entryPoints, stack, active, powered>>

\* ~Thread of the device that was replaced
DeleteOld ==
  /\ HostAt("plug")
  /\ host' = Idle
  /\ IF host.list = <<>> THEN UNCHANGED <<objects, entryPoints, stack>>
     ELSE Destroy(Head(host.list))
  /\ UNCHANGED <<sched, active, powered>>

HostStep ==
  \/ PowerOn \/ CreateThread \/ PowerScheduler \/ PowerOff \/ Run \/ RunReturns
  \/ SaveState \/ EnterAgain \/ (\E i \in 1 .. Len(threads) : EnterAuxiliary(i))
  \/ EverySynchronized \/ SaveReturns \/ Eject
  \/ (\E t \in Pluggable : PlugIn(t) \/ PlugGamepad(t)) \/ DeleteOld

-----------------------------------------------------------------------------
Init ==
  /\ handle = [t \in Thread |-> Null]
  /\ threads = <<>>
  /\ uid = [t \in Thread |-> 0]
  /\ clock = [t \in Thread |-> 0]
  /\ entryPoints = <<>>
  /\ stack = [h \in Handle |-> Freed]
  /\ active = Host
  /\ primary = Null
  /\ resume = Null
  /\ mode = "Run"
  /\ event = "Step"
  /\ host = Idle
  /\ powered = FALSE

Next == ThreadStep \/ HostStep

Spec == Init /\ [][Next]_vars

\* The machine runs the active coroutine, and the host finishes what it began;
\* no more is needed for a save to end.
Fairness == WF_vars(ThreadStep) /\ WF_vars(HostStep /\ host.at # "idle")

FairSpec == Spec /\ Fairness

-----------------------------------------------------------------------------
(***************************************************************************)
(* Properties                                                              *)
(***************************************************************************)
Places == {"entry", "top", "start", "main", "freed", "threw"}
Continuation == [at : Places, owner : Thread \cup {Null}, todo : Seq(Op)]
EntryPoint == [handle : Handle, owner : Thread]
HostPlaces == {"idle", "power", "run", "primary", "auxiliary", "saved", "plug"}
HostState == [at : HostPlaces, list : Seq(Thread), i : Nat]

\* Every variable has the type of the field it stands for.
TypeOK ==
  /\ handle \in [Thread -> Handle \cup {Null}]
  /\ threads \in Seq(Thread)
  /\ uid \in [Thread -> 0 .. MaxID]
  /\ clock \in [Thread -> 0 .. W - 1]
  /\ entryPoints \in Seq(EntryPoint)
  /\ stack \in [Handle -> Continuation]
  /\ active \in Handle \cup {Host, Null}
  /\ primary \in Handle \cup {Null}
  /\ resume \in Handle \cup {Null}
  /\ mode \in Modes
  /\ event \in Events
  /\ host \in HostState
  /\ powered \in BOOLEAN

\* Scheduler::append gives each thread an identifier of its own, whatever was
\* removed before; it is what breaks ties between equal clocks.
UniqueIDs ==
  \A s, t \in Scheduled : uid[s] = uid[t] => s = t

\* A clock never falls below its thread's identifier, so clock - uniqueID, the
\* unsigned difference minimum() and maximum() work with, is the true lead.
\* Only while power() re-creates the threads are there clocks just set to 0.
ClockAboveID ==
  host.at # "power" => \A t \in Scheduled : uid[t] <= clock[t]

\* When enter(Synchronize) returns, every thread stands at its safe point: the
\* components hold their whole state and none of it is on a coroutine's stack.
SnapshotConsistent ==
  host.at = "saved" => \A t \in Scheduled : AtSafePoint(t)

\* During the auxiliary phase nothing but the thread being synchronized runs:
\* what was brought to a safe point stays there.
AuxiliaryRunsAlone ==
  host.at = "auxiliary" =>
    /\ active \in {Host, handle[threads[host.i]]}
    /\ \A t \in Scheduled : handle[t] = primary => AtSafePoint(t)
    /\ \A j \in 1 .. host.i - 1 : AtSafePoint(threads[j])

\* A coroutine runs the entry point of the thread that owns it.
RunsOwnEntry ==
  \A h \in Handle :
    stack[h].at \in {"top", "start", "main"} => handle[stack[h].owner] = h

\* "null (0) or invalid cothread handle is not allowed" in co_switch
\* (libco/doc/usage.md:128): whoever is switched to is alive.
SwitchesToLive == active \in Live \cup {Host}

\* A coroutine that is entered always finds an entry point.
EntryFound == \A h \in Handle : stack[h].at # "threw"

\* How far one thread is ahead of another changes by Thread::step only; leaving
\* the scheduler shifts all clocks alike.
LeadsKept ==
  [][(active \in Handle /\ active' = Host) =>
       \A s, t \in Scheduled : clock'[s] + clock[t] = clock[s] + clock'[t]]_vars

\* No thread starves: while the main loop calls run() again and again, each is switched
\* to again and again, whatever is saved in between.
NoStarvation ==
  []<>(host.at = "run") => \A t \in Thread : []<>(t \in Scheduled => active = handle[t])
-----------------------------------------------------------------------------
\* The threads the save in progress has brought to their safe points.
Parked == active = Host /\ event = "Synchronize"

Done ==
  CASE host.at = "primary"   -> IF Parked THEN {Cpu} ELSE {}
    [] host.at = "auxiliary" -> {Cpu} \cup {threads[j] : j \in 1 .. host.i - 1}
                                      \cup (IF Parked THEN {threads[host.i]} ELSE {})
    [] host.at = "saved"     -> Scheduled
    [] OTHER                 -> {}

Phase ==
  CASE host.at = "primary"   -> IF Parked THEN "auxiliary" ELSE "primary"
    [] host.at = "auxiliary" -> "auxiliary"
    [] host.at = "saved"     -> "taken"
    [] OTHER                 -> "free"

Safe == {t \in Scheduled : AtSafePoint(t)}

Promise ==
  INSTANCE SafePoints WITH
    Primary <- Cpu, members <- Scheduled, safe <- Safe, phase <- Phase, done <- Done

\* Scheduler::enter and the threads together keep the promise of SafePoints:
\* saves end, with everyone at a safe point, and no one leaves it meanwhile.
KeepsPromise == Promise!Spec
=============================================================================
