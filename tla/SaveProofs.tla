----------------------------- MODULE SaveProofs -----------------------------
(***************************************************************************)
(* What Scheduler::enter(Synchronize) guarantees, for every system: when   *)
(* it returns every thread is at its safe point, because what has been     *)
(* brought to one is not run again before the state has been taken.        *)
(***************************************************************************)
EXTENDS SchedulerProofs

-----------------------------------------------------------------------------
(***************************************************************************)
(* The invariant                                                           *)
(***************************************************************************)
\* No two threads share a coroutine.
Apart == \A s, t \in Thread : handle[s] \in Handle /\ handle[s] = handle[t] => s = t

\* The CPU's code is on the CPU's coroutine only, and is about to be nowhere else.
CpuAtHome ==
  /\ \A h \in Handle : stack[h].owner = Cpu => h = handle[Cpu]
  /\ \A k \in DOMAIN entryPoints :
       entryPoints[k].owner = Cpu => entryPoints[k].handle = handle[Cpu]

\* The primary thread is the CPU, which is never deleted.
PrimaryIsCpu ==
  /\ primary \in {Null, handle[Cpu]}
  /\ host.at = "plug" => \A k \in DOMAIN host.list : host.list[k] # Cpu

SavingPrimary ==
  host.at = "primary" =>
    /\ mode = "SynchronizePrimary"
    /\ primary # Null
    /\ Parked => stack[primary].at = "start"

SavingAuxiliary ==
  host.at = "auxiliary" =>
    /\ mode = "SynchronizeAuxiliary"
    /\ primary # Null
    /\ host.i \in DOMAIN threads
    /\ handle[threads[host.i]] # primary
    /\ resume = handle[threads[host.i]]
    /\ active \in {Host, resume}
    /\ \A t \in Scheduled : handle[t] = primary => AtSafePoint(t)
    /\ \A j \in 1 .. host.i - 1 : AtSafePoint(threads[j])
    /\ Parked => AtSafePoint(threads[host.i])

Owners == Apart /\ CpuAtHome /\ PrimaryIsCpu
Saving == SavingPrimary /\ SavingAuxiliary /\ SnapshotConsistent

-----------------------------------------------------------------------------
(***************************************************************************)
(* What a thread does to the others                                        *)
(***************************************************************************)
\* A coroutine changes its own stack only, unless it restarts another thread; only
\* Enter takes up the code of a thread.
LEMMA OwnStackOnly ==
  ASSUME stack \in [Handle -> GoodCell], ThreadStep, ~RestartThread, ~RenewThread
  PROVE  /\ active \in Handle
         /\ UNCHANGED <<handle, threads, host, powered, primary, mode>>
         /\ \A h \in Handle \ {active} : stack'[h] = stack[h]
         /\ ~Enter => stack'[active].owner = stack[active].owner /\ UNCHANGED entryPoints
<1>1. CASE Enter
  BY <1>1 DEF Enter, objects, sched
<1>2. ASSUME NEW e, NEW c, Exit(e, c), active \in Handle, c.owner = stack[active].owner
      PROVE  /\ UNCHANGED <<handle, threads, host, powered, primary, mode, entryPoints>>
             /\ \A h \in Handle \ {active} : stack'[h] = stack[h]
             /\ stack'[active].owner = stack[active].owner
  BY <1>2 DEF Exit
<1>3. CASE Park
  <2>1. [stack[active] EXCEPT !.at = "start"].owner = stack[active].owner
    BY <1>3 DEF Park, GoodCell, Continuation
  <2> QED
    BY <1>2, <1>3, <2>1 DEF Park, Enter
<1>4. CASE EndFrame
  <2>1. Running(Self, Tail(Todo)).owner = stack[active].owner
    BY DEF Running, Self
  <2> QED
    BY <1>2, <1>4, <2>1 DEF EndFrame, Enter, At
<1>5. CASE PassSafePoint \/ CallEntryPoint
  BY <1>5 DEF PassSafePoint, CallEntryPoint, objects, sched, Running, Self,
     GoodCell, Continuation
<1>6. ASSUME NEW rest
      PROVE  /\ \A h \in Handle \ {active} : Continue(rest)[h] = stack[h]
             /\ active \in Handle => Continue(rest)[active].owner = stack[active].owner
  BY DEF Continue, Running, Self
<1>7. CASE Step
  BY <1>6, <1>7 DEF Step, At, sched, KeepObjects, KeepHost
<1>8. CASE Synchronized
  BY <1>6, <1>8 DEF Synchronized, At, sched, KeepObjects, KeepHost
<1>9. CASE SwitchTo
  BY <1>9 DEF SwitchTo, At, sched, KeepObjects, KeepHost
<1>10. CASE SynchronizeAll
  BY <1>6, <1>10 DEF SynchronizeAll, At, sched, KeepObjects, KeepHost
<1>11. CASE SynchronizeSlot
  BY <1>6, <1>11 DEF SynchronizeSlot, At, sched, KeepObjects, KeepHost
<1>12. CASE SynchronizePeripheral
  BY <1>6, <1>12 DEF SynchronizePeripheral, At, sched, KeepObjects, KeepHost
<1>13. CASE FlagSet
  BY <1>6, <1>13 DEF FlagSet, At, sched, KeepObjects, KeepHost
<1>14. CASE KeepWaiting
  BY <1>6, <1>14 DEF KeepWaiting, At, sched, KeepObjects, KeepHost
<1>15. CASE StopWaiting
  BY <1>6, <1>15 DEF StopWaiting, At, sched, KeepObjects, KeepHost
<1> QED
  BY <1>1, <1>3, <1>4, <1>5, <1>7, <1>8, <1>9, <1>10, <1>11, <1>12, <1>13, <1>14,
     <1>15 DEF ThreadStep

\* Who restarts a thread is the CPU, and restarts another one.
LEMMA Restarters ==
  ASSUME stack \in [Handle -> GoodCell], RestartThread \/ RenewThread
  PROVE  active \in Handle /\ Self = Cpu /\ Head(Todo).peer # Cpu
<1>1. \/ At("restart") /\ Head(Todo).do = "restart"
      \/ At("renew") /\ Head(Todo).do = "renew"
  BY DEF RestartThread, RenewThread, At
<1> QED
  BY <1>1, CurrentOp DEF At

LEMMA ThreadStepOwners ==
  ASSUME ConstantsAssumption, RestartAssumption, Ready, Owners, ThreadStep
  PROVE  Owners'
<1>0. TypeOK /\ stack \in [Handle -> GoodCell] /\ ListOK
  BY DEF Ready
<1>1. CASE Enter
  <2>1. UNCHANGED <<handle, primary, host>> /\ active \in Handle
    BY <1>1 DEF Enter, objects, sched
  <2>2. Apart' /\ PrimaryIsCpu'
    BY <2>1 DEF Owners, Apart, PrimaryIsCpu
  <2>3. CASE Mine = {}
    <3>1. stack' = [stack EXCEPT ![active].at = "threw"] /\ UNCHANGED entryPoints
      BY <1>1, <2>3 DEF Enter
    <3>2. \A h \in Handle : stack'[h].owner = stack[h].owner
      BY <1>0, <3>1 DEF TypeOK, Continuation
    <3> QED
      BY <2>1, <2>2, <3>1, <3>2 DEF Owners, CpuAtHome
  <2>4. CASE Mine # {}
    <3>1. PICK k \in Mine :
            /\ stack' = [stack EXCEPT ![active] = Running(entryPoints[k].owner, <<>>)]
            /\ entryPoints' = DropAt(entryPoints, k)
      BY <1>1, <2>4 DEF Enter, PendingAfter
    <3>2. k \in DOMAIN entryPoints /\ entryPoints[k].handle = active
      BY <3>1 DEF Mine
    <3>3. \A h \in Handle : stack'[h].owner = Cpu => h = handle[Cpu]
      BY <1>0, <3>1, <3>2 DEF Owners, CpuAtHome, Running
    <3>4. \A j \in DOMAIN entryPoints' :
            \E i \in DOMAIN entryPoints : entryPoints'[j] = entryPoints[i]
      <4>1. /\ DOMAIN entryPoints' = 1 .. Len(entryPoints) - 1
            /\ \A i \in 1 .. Len(entryPoints) - 1 :
                 entryPoints'[i] = IF i < k THEN entryPoints[i] ELSE entryPoints[i + 1]
            /\ DOMAIN entryPoints = 1 .. Len(entryPoints) /\ Len(entryPoints) \in Nat
        BY <1>0, <3>1, <3>2, DropAtFacts, LenProperties DEF TypeOK
      <4> QED
        BY <3>2, <4>1
    <3> QED
      BY <2>1, <2>2, <3>3, <3>4 DEF Owners, CpuAtHome
  <2> QED
    BY <2>3, <2>4
<1>2. CASE ~Enter /\ ~RestartThread /\ ~RenewThread
  <2>1. /\ UNCHANGED <<handle, primary, host, entryPoints>>
        /\ \A h \in Handle : stack'[h].owner = stack[h].owner
    BY <1>0, <1>2, OwnStackOnly
  <2> QED
    BY <2>1 DEF Owners, Apart, CpuAtHome, PrimaryIsCpu
<1>3. CASE RestartThread
  <2> DEFINE u == Head(Todo).peer
  <2>1. /\ u # Cpu /\ active \in Handle
        /\ UNCHANGED <<handle, primary, host>>
        /\ stack' = [Continue(Tail(Todo)) EXCEPT ![handle[u]] = Derived]
        /\ entryPoints' = Append(entryPoints, [handle |-> handle[u], owner |-> u])
    BY <1>0, <1>3, Restarters DEF RestartThread, Registered, objects, sched
  <2>2. \A h \in Handle : stack'[h].owner \in {stack[h].owner, Null}
    BY <1>0, <2>1 DEF Continue, Running, Self, Derived
  <2>3. \A k \in DOMAIN entryPoints' :
          entryPoints'[k].owner = Cpu => k \in DOMAIN entryPoints /\ entryPoints'[k] = entryPoints[k]
    BY <1>0, <2>1, AppendProperties, LenProperties DEF TypeOK
  <2> QED
    BY <2>1, <2>2, <2>3 DEF Owners, Apart, CpuAtHome, PrimaryIsCpu, ConstantsAssumption
<1>4. CASE RenewThread
  <2> DEFINE u == Head(Todo).peer
  <2>1. /\ u # Cpu /\ active \in Handle /\ u \in Scheduled
        /\ UNCHANGED <<primary, host>>
    BY <1>0, <1>4, Restarters DEF RenewThread, sched
  <2>2. PICK h \in (Handle \ Live) \cup {handle[u]} :
          /\ handle' = [handle EXCEPT ![u] = h]
          /\ stack' = [Continue(Tail(Todo)) EXCEPT ![handle[u]] = Freed, ![h] = Derived]
          /\ entryPoints' = Append(entryPoints, [handle |-> h, owner |-> u])
    BY <1>4 DEF RenewThread, Registered
  <2>3. \A g \in Handle : stack'[g].owner \in {stack[g].owner, Null}
    BY <1>0, <2>1, <2>2 DEF Continue, Running, Self, Derived, Freed
  <2>4. \A k \in DOMAIN entryPoints' :
          entryPoints'[k].owner = Cpu => k \in DOMAIN entryPoints /\ entryPoints'[k] = entryPoints[k]
    BY <1>0, <2>1, <2>2, AppendProperties, LenProperties DEF TypeOK
  <2>5. u \in Thread /\ handle'[Cpu] = handle[Cpu]
    BY <1>0, <2>1, <2>2, ScheduledThreads
  <2> HIDE DEF u
  <2>6. Apart'
    <3> SUFFICES ASSUME NEW s \in Thread, NEW t \in Thread,
                        handle'[s] \in Handle, handle'[s] = handle'[t]
                 PROVE  s = t
      BY DEF Apart
    <3>1. \A v \in Thread : handle'[v] = IF v = u THEN h ELSE handle[v]
      BY <1>0, <2>2 DEF TypeOK
    <3>2. \A v \in Thread \ {u} : h = handle[v] => h = handle[u] \/ h = Null
      BY <2>2 DEF Live
    <3> QED
      BY <2>5, <3>1, <3>2 DEF Owners, Apart, ConstantsAssumption
  <2> QED
    BY <2>1, <2>3, <2>4, <2>5, <2>6 DEF Owners, CpuAtHome, PrimaryIsCpu, ConstantsAssumption
<1> QED
  BY <1>1, <1>2, <1>3, <1>4

LEMMA CreateOwners ==
  ASSUME ConstantsAssumption, Ready, Owners, NEW t \in Thread, Create(t)
  PROVE  Apart' /\ CpuAtHome' /\ (UNCHANGED primary => primary' \in {Null, handle'[Cpu]})
<1>0. TypeOK /\ stack \in [Handle -> GoodCell]
  BY DEF Ready
<1>1. PICK h \in AddressFor(t) :
        /\ handle' = [handle EXCEPT ![t] = h]
        /\ stack' = [stack EXCEPT ![h] = Derived]
        /\ entryPoints' = Append(entryPoints, [handle |-> h, owner |-> t])
  BY DEF Create, Registered
<1>2. h \in Handle /\ h # Null /\ (handle[t] = Null => h \notin Live) /\ (handle[t] # Null => h = handle[t])
  BY <1>0 DEF AddressFor, TypeOK, ConstantsAssumption
<1>3. \A v \in Thread : handle'[v] = IF v = t THEN h ELSE handle[v]
  BY <1>0, <1>1 DEF TypeOK
<1>4. Apart'
  <2> SUFFICES ASSUME NEW s \in Thread, NEW v \in Thread,
                      handle'[s] \in Handle, handle'[s] = handle'[v]
               PROVE  s = v
    BY DEF Apart
  <2>1. \A x \in Thread \ {t} : handle[x] # h
    BY <1>2 DEF Owners, Apart, Live
  <2> QED
    BY <1>3, <2>1 DEF Owners, Apart
<1>5. handle[Cpu] \in Handle => handle'[Cpu] = handle[Cpu]
  BY <1>2, <1>3 DEF ConstantsAssumption
<1>6. handle[Cpu] \in Handle \cup {Null} /\ Null \notin Handle /\ Cpu \in Thread /\ Cpu # Null
  BY <1>0 DEF TypeOK, ConstantsAssumption
<1>7. \A g \in Handle : stack'[g].owner = Cpu => g = handle'[Cpu]
  BY <1>0, <1>1, <1>2, <1>5, <1>6 DEF Owners, CpuAtHome, Derived
<1>8. \A k \in DOMAIN entryPoints' :
        entryPoints'[k].owner = Cpu => entryPoints'[k].handle = handle'[Cpu]
  <2> SUFFICES ASSUME NEW k \in DOMAIN entryPoints', entryPoints'[k].owner = Cpu
               PROVE  entryPoints'[k].handle = handle'[Cpu]
    OBVIOUS
  <2>1. /\ DOMAIN entryPoints = 1 .. Len(entryPoints) /\ Len(entryPoints) \in Nat
        /\ DOMAIN entryPoints' = 1 .. Len(entryPoints) + 1
        /\ \A j \in 1 .. Len(entryPoints) : entryPoints'[j] = entryPoints[j]
        /\ entryPoints'[Len(entryPoints) + 1] = [handle |-> h, owner |-> t]
    BY <1>0, <1>1, AppendProperties, LenProperties DEF TypeOK
  <2>2. CASE k = Len(entryPoints) + 1
    BY <1>3, <2>1, <2>2
  <2>3. CASE k \in 1 .. Len(entryPoints)
    <3>1. entryPoints[k] \in EntryPoint
      BY <1>0, <2>3, ElementOfSeq DEF TypeOK
    <3>2. entryPoints[k].handle = handle[Cpu]
      BY <2>1, <2>3 DEF Owners, CpuAtHome
    <3> QED
      BY <1>5, <2>1, <2>3, <3>1, <3>2 DEF EntryPoint
  <2> QED
    BY <2>1, <2>2, <2>3
<1>9. UNCHANGED primary => primary' \in {Null, handle'[Cpu]}
  BY <1>5, <1>6 DEF Owners, PrimaryIsCpu
<1> QED
  BY <1>4, <1>7, <1>8, <1>9 DEF CpuAtHome

LEMMA DestroyOwners ==
  ASSUME ConstantsAssumption, Ready, Owners, NEW t \in Thread \ {Cpu}, Destroy(t)
  PROVE  Apart' /\ CpuAtHome' /\ (UNCHANGED primary => primary' \in {Null, handle'[Cpu]})
<1>0. TypeOK /\ stack \in [Handle -> GoodCell] /\ Null \notin Handle /\ Cpu # Null /\ Cpu \in Thread
  BY DEF Ready, ConstantsAssumption
<1>1. /\ \A v \in Thread : handle'[v] = IF v = t THEN Null ELSE handle[v]
      /\ stack' = [stack EXCEPT ![handle[t]] = Freed] /\ UNCHANGED entryPoints
  BY <1>0 DEF Destroy, TypeOK
<1>2. Apart'
  BY <1>0, <1>1 DEF Owners, Apart
<1>3. \A h \in Handle : stack'[h].owner \in {stack[h].owner, Null}
  BY <1>0, <1>1 DEF Freed
<1> QED
  BY <1>0, <1>1, <1>2, <1>3 DEF Owners, CpuAtHome, PrimaryIsCpu

LEMMA HostStepOwners ==
  ASSUME ConstantsAssumption, HostAssumption, Ready, Owners, HostStep
  PROVE  Owners'
<1>0. TypeOK /\ Cpu \in Thread
  BY DEF Ready, ConstantsAssumption
<1>1. ASSUME UNCHANGED <<handle, stack, entryPoints>>, host'.at # "plug",
             primary' \in {primary, handle[Cpu]}
      PROVE  Owners'
  BY <1>1 DEF Owners, Apart, CpuAtHome, PrimaryIsCpu
<1>2. CASE PowerOn
  BY <1>1, <1>2 DEF PowerOn, Power, Place, objects, sched
<1>3. CASE CreateThread
  <2>1. /\ Create(Head(host.list)) /\ Head(host.list) \in Thread
        /\ UNCHANGED primary /\ host'.at # "plug"
    BY <1>0, <1>3 DEF CreateThread, HostAt, TypeOK, HostState, sched
  <2> QED
    BY <2>1, CreateOwners DEF Owners, PrimaryIsCpu
<1>4. CASE PowerScheduler
  BY <1>1, <1>4 DEF PowerScheduler, Idle, Place
<1>5. CASE PowerOff
  BY <1>1, <1>5 DEF PowerOff, HostAt, objects, sched
<1>6. CASE Run
  BY <1>1, <1>6 DEF Run, SwitchIn, Place, objects
<1>7. CASE RunReturns
  BY <1>1, <1>7 DEF RunReturns, Power, Idle, Place, objects, sched
<1>8. CASE SaveState
  BY <1>1, <1>8 DEF SaveState, SwitchIn, Place, objects
<1>9. CASE EnterAgain
  BY <1>1, <1>9 DEF EnterAgain, SwitchIn, objects, sched
<1>10. CASE \E i \in 1 .. Len(threads) : EnterAuxiliary(i)
  BY <1>1, <1>10 DEF EnterAuxiliary, SwitchIn, Place, objects
<1>11. CASE EverySynchronized
  BY <1>1, <1>11 DEF EverySynchronized, Place, objects, sched
<1>12. CASE SaveReturns
  BY <1>1, <1>12 DEF SaveReturns, Idle, Place, objects, sched
<1>13. CASE Eject
  <2>1. PICK t \in Chip : Destroy(t) /\ UNCHANGED <<primary, host>> /\ host.at # "plug"
    BY <1>13 DEF Eject, HostAt, sched
  <2>2. t \in Thread \ {Cpu}
    BY <2>1 DEF HostAssumption
  <2> QED
    BY <2>1, <2>2, DestroyOwners DEF Owners, PrimaryIsCpu
<1>14. ASSUME NEW t \in Pluggable, PlugIn(t)
       PROVE  Owners'
  <2>1. t \in Thread /\ Create(t) /\ UNCHANGED primary
    BY <1>14 DEF PlugIn, HostAssumption, sched
  <2>2. PICK list \in {<<>>} \cup {<<old>> : old \in Plugged} : host'.list = list
    BY <1>14 DEF PlugIn, Place
  <2>3. \A k \in DOMAIN list : list[k] # Cpu
    BY <2>2 DEF Plugged, HostAssumption
  <2> QED
    BY <2>1, <2>2, <2>3, CreateOwners DEF Owners, PrimaryIsCpu
<1>15. ASSUME NEW t \in Pluggable, PlugGamepad(t)
       PROVE  Owners'
  <2>1. UNCHANGED <<handle, stack, entryPoints, primary>> /\ host'.list = <<t>> /\ t # Cpu
    BY <1>15 DEF PlugGamepad, Place, HostAssumption, objects, sched
  <2> QED
    BY <2>1 DEF Owners, Apart, CpuAtHome, PrimaryIsCpu
<1>16. CASE DeleteOld
  <2>1. UNCHANGED primary /\ host'.at # "plug" /\ host.at = "plug"
    BY <1>16 DEF DeleteOld, Idle, Place, HostAt, sched
  <2>2. CASE host.list = <<>>
    BY <1>1, <1>16, <2>1, <2>2 DEF DeleteOld, objects
  <2>3. CASE host.list # <<>>
    <3>1. Head(host.list) = host.list[1] /\ 1 \in DOMAIN host.list /\ Head(host.list) \in Thread
      BY <1>0, <2>3 DEF TypeOK, HostState
    <3>2. Head(host.list) \in Thread \ {Cpu} /\ Destroy(Head(host.list))
      BY <1>16, <2>1, <2>3, <3>1 DEF DeleteOld, Owners, PrimaryIsCpu
    <3> QED
      BY <2>1, <3>2, DestroyOwners DEF Owners, PrimaryIsCpu
  <2> QED
    BY <2>2, <2>3
<1> QED
  BY <1>2, <1>3, <1>4, <1>5, <1>6, <1>7, <1>8, <1>9, <1>10, <1>11, <1>12, <1>13,
     <1>14, <1>15, <1>16 DEF HostStep

\* No emulated component takes a thread out of the list.
LEMMA ThreadStepMembers ==
  ASSUME ConstantsAssumption, Ready, ThreadStep
  PROVE  Scheduled' = Scheduled
<1>0. TypeOK /\ ListOK /\ stack \in [Handle -> GoodCell]
  BY DEF Ready
<1>1. CASE ~RestartThread /\ ~RenewThread
  BY <1>0, <1>1, OwnStackOnly DEF Scheduled
<1>2. CASE RestartThread
  <2>1. UNCHANGED threads
    BY <1>2 DEF RestartThread, objects
  <2> QED
    BY <2>1 DEF Scheduled
<1>3. CASE RenewThread
  <2> DEFINE u == Head(Todo).peer
             list == Without(threads, u)
  <2>1. u \in Scheduled /\ AppendTo(list, u)
    BY <1>3 DEF RenewThread
  <2>2. list \in Seq(Thread) /\ Distinct(list) /\ Elems(list) = Scheduled \ {u} /\ u \in Thread
    BY <1>0, <2>1, WithoutDistinct, ScheduledThreads DEF TypeOK, ListOK, Scheduled
  <2> HIDE DEF list, u
  <2>3. Scheduled' = Elems(list) \cup {u}
    BY <1>0, <2>1, <2>2, AppendToFacts DEF Scheduled
  <2> QED
    BY <2>1, <2>2, <2>3
<1> QED
  BY <1>1, <1>2, <1>3

-----------------------------------------------------------------------------
(***************************************************************************)
(* What the phases of a save preserve                                      *)
(***************************************************************************)
\* While an auxiliary thread is synchronized it is the one that runs, and it touches
\* no stack but its own.
LEMMA AuxiliaryStep ==
  ASSUME ConstantsAssumption, RestartAssumption, Ready, Owners, Saving, ThreadStep,
         host.at = "auxiliary"
  PROVE  /\ active = handle[threads[host.i]] /\ handle[threads[host.i]] # primary
         /\ mode = "SynchronizeAuxiliary" /\ primary # Null /\ resume = active
         /\ host.i \in DOMAIN threads
         /\ \A t \in Scheduled : handle[t] = primary => AtSafePoint(t)
         /\ \A j \in 1 .. host.i - 1 : AtSafePoint(threads[j])
         /\ UNCHANGED <<handle, threads, host, mode, primary>>
         /\ \A h \in Handle \ {active} : stack'[h] = stack[h]
         /\ active' \in {Host, resume'} /\ resume' = resume
<1>0. TypeOK /\ stack \in [Handle -> GoodCell] /\ ListOK
  BY DEF Ready
<1>1. /\ UNCHANGED <<mode, primary, host>> /\ active \in Handle /\ active # Host
      /\ ~SwitchTo => (active' = active /\ resume' = resume) \/ (active' = Host /\ resume' = active)
  BY WhoExits DEF ConstantsAssumption
<1>2. /\ mode = "SynchronizeAuxiliary" /\ primary # Null
      /\ host.i \in DOMAIN threads /\ handle[threads[host.i]] # primary
      /\ resume = handle[threads[host.i]] /\ active = handle[threads[host.i]]
      /\ \A t \in Scheduled : handle[t] = primary => AtSafePoint(t)
      /\ \A j \in 1 .. host.i - 1 : AtSafePoint(threads[j])
  BY <1>1 DEF Saving, SavingAuxiliary
<1>3. Self # Cpu
  BY <1>1, <1>2 DEF Owners, CpuAtHome, PrimaryIsCpu, Self
<1>4. ~RestartThread /\ ~RenewThread
  BY <1>0, <1>3, Restarters
<1>5. /\ UNCHANGED <<handle, threads>>
      /\ \A h \in Handle \ {active} : stack'[h] = stack[h]
  BY <1>0, <1>4, OwnStackOnly
<1>6. ~SwitchTo
  BY <1>2 DEF SwitchTo, CaughtUp, Synchronizing
<1> QED
  BY <1>1, <1>2, <1>5, <1>6

\* No other auxiliary thread shares the coroutine of the one being synchronized.
LEMMA AuxiliaryApart ==
  ASSUME Ready, Owners, host.i \in DOMAIN threads,
         NEW t \in Scheduled, t # threads[host.i]
  PROVE  handle[t] # handle[threads[host.i]]
<1>1. threads[host.i] \in Scheduled
  BY DEF Scheduled, Elems
<1> QED
  BY <1>1, ScheduledThreads DEF Ready, ListOK, Owners, Apart

LEMMA ThreadStepSaving ==
  ASSUME ConstantsAssumption, RestartAssumption, Ready, Owners, Saving, ThreadStep
  PROVE  Saving'
<1>0. TypeOK /\ stack \in [Handle -> GoodCell] /\ ListOK /\ HostTurn
  BY DEF Ready
<1>1. /\ UNCHANGED <<mode, primary, host>> /\ active \in Handle /\ active # Host
      /\ Parked' => Park
      /\ ~SwitchTo => (active' = active /\ resume' = resume) \/ (active' = Host /\ resume' = active)
  BY WhoExits DEF ConstantsAssumption
<1>2. SnapshotConsistent'
  BY <1>0, <1>1 DEF HostTurn, SnapshotConsistent
<1>3. SavingPrimary'
  <2> SUFFICES ASSUME host.at = "primary", Parked'
               PROVE  stack'[primary].at = "start"
    BY <1>1 DEF Saving, SavingPrimary
  <2>1. mode = "SynchronizePrimary" /\ Park
    BY <1>1 DEF Saving, SavingPrimary
  <2>2. active = primary
    BY <2>1 DEF Park, MustPark
  <2>3. stack[active] \in Continuation
    BY <1>0, <1>1 DEF GoodCell
  <2> QED
    BY <1>0, <1>1, <2>1, <2>2, <2>3 DEF Park, Exit, Continuation
<1>4. SavingAuxiliary'
  <2> SUFFICES ASSUME host.at = "auxiliary"
               PROVE  SavingAuxiliary'
    BY <1>1 DEF SavingAuxiliary
  <2> DEFINE me == threads[host.i]
  <2>1. /\ mode = "SynchronizeAuxiliary" /\ primary # Null
        /\ host.i \in DOMAIN threads /\ handle[me] # primary
        /\ resume = handle[me] /\ active = handle[me]
        /\ \A t \in Scheduled : handle[t] = primary => AtSafePoint(t)
        /\ \A j \in 1 .. host.i - 1 : AtSafePoint(threads[j])
        /\ UNCHANGED <<handle, threads>>
        /\ \A h \in Handle \ {active} : stack'[h] = stack[h]
        /\ active' \in {Host, resume'} /\ resume' = handle[me]
    BY AuxiliaryStep
  <2>2. \A t \in Scheduled : AtSafePoint(t) /\ handle[t] # active => AtSafePoint(t)'
    BY <2>1 DEF AtSafePoint
  <2>3. \A t \in Scheduled : handle[t] = primary => AtSafePoint(t)'
    BY <2>1, <2>2
  <2>4. \A j \in 1 .. host.i - 1 : AtSafePoint(threads[j])'
    <3> SUFFICES ASSUME NEW j \in 1 .. host.i - 1
                 PROVE  AtSafePoint(threads[j])'
      OBVIOUS
    <3>1. j \in DOMAIN threads /\ j # host.i
      <4>1. DOMAIN threads = 1 .. Len(threads) /\ Len(threads) \in Nat
        BY <1>0, LenProperties DEF TypeOK
      <4> QED
        BY <2>1, <4>1
    <3>2. threads[j] # me /\ threads[j] \in Scheduled
      BY <1>0, <2>1, <3>1 DEF ListOK, Distinct, Scheduled, Elems
    <3>3. handle[threads[j]] # handle[me]
      BY <2>1, <3>2, AuxiliaryApart
    <3> QED
      BY <2>1, <2>2, <3>2, <3>3
  <2>5. Parked' => AtSafePoint(me)'
    <3> SUFFICES ASSUME Park
                 PROVE  AtSafePoint(me)'
      BY <1>1
    <3>1. stack[active] \in Continuation
      BY <1>0, <1>1 DEF GoodCell
    <3>2. stack'[active].at = "start"
      BY <1>0, <1>1, <3>1 DEF Park, Exit, Continuation
    <3> QED
      BY <1>1, <2>1, <3>2 DEF AtSafePoint
  <2>6. Scheduled' = Scheduled
    BY <2>1 DEF Scheduled
  <2> QED
    BY <1>1, <2>1, <2>3, <2>4, <2>5, <2>6 DEF SavingAuxiliary
<1> QED
  BY <1>2, <1>3, <1>4 DEF Saving

LEMMA HostStepSaving ==
  ASSUME ConstantsAssumption, HostAssumption, Ready, Owners, Saving, HostStep
  PROVE  Saving'
<1>0. TypeOK /\ ListOK /\ Host \notin Handle \cup {Null} /\ Null \notin Handle
  BY DEF Ready, ConstantsAssumption
<1>1. resume # Host
  BY <1>0 DEF TypeOK
<1>2. ASSUME host'.at \notin {"primary", "auxiliary", "saved"}
      PROVE  Saving'
  BY <1>2 DEF Saving, SavingPrimary, SavingAuxiliary, SnapshotConsistent
<1>3. CASE \/ PowerOn \/ CreateThread \/ PowerScheduler \/ PowerOff \/ Run \/ RunReturns
           \/ SaveReturns \/ Eject \/ DeleteOld
           \/ \E t \in Pluggable : PlugIn(t) \/ PlugGamepad(t)
  <2>1. CASE PowerOn \/ PowerOff \/ PowerScheduler
    BY <1>2, <2>1 DEF PowerOn, PowerOff, PowerScheduler, Power, Idle, Place, HostAt
  <2>2. CASE CreateThread
    <3>1. host.at = "power" /\ host' = [host EXCEPT !.list = Tail(@)] /\ host \in HostState
      BY <1>0, <2>2 DEF CreateThread, HostAt, TypeOK
    <3> QED
      BY <1>2, <3>1 DEF HostState
  <2>3. CASE Run \/ RunReturns \/ SaveReturns
    BY <1>2, <2>3 DEF Run, RunReturns, SaveReturns, Power, Idle, Place
  <2>4. CASE Eject \/ DeleteOld
    BY <1>2, <2>4 DEF Eject, DeleteOld, Idle, Place, HostAt
  <2>5. CASE \E t \in Pluggable : PlugIn(t) \/ PlugGamepad(t)
    BY <1>2, <2>5 DEF PlugIn, PlugGamepad, Place
  <2> QED
    BY <1>3, <2>1, <2>2, <2>3, <2>4, <2>5
<1>4. CASE SaveState
  <2>1. PICK i \in DOMAIN threads : handle[threads[i]] = primary /\ host' = Place("primary", <<>>, i)
    BY <1>4 DEF SaveState
  <2>2. threads[i] \in Scheduled
    BY DEF Scheduled, Elems
  <2>3. primary # Null
    BY <1>0, <2>1, <2>2 DEF ListOK
  <2>4. /\ host'.at = "primary" /\ mode' = "SynchronizePrimary" /\ primary' = primary
        /\ active' = resume
    BY <1>4, <2>1 DEF SaveState, SwitchIn, Place
  <2> QED
    BY <1>1, <2>3, <2>4 DEF Saving, SavingPrimary, SavingAuxiliary, SnapshotConsistent, Parked
<1>5. CASE EnterAgain
  <2>1. /\ UNCHANGED <<handle, threads, stack, primary, resume, mode, event, host>>
        /\ active' = resume /\ host.at \in {"primary", "auxiliary"}
    BY <1>5 DEF EnterAgain, SwitchIn, objects, sched
  <2>2. SavingPrimary'
    BY <1>1, <2>1 DEF Saving, SavingPrimary, Parked
  <2>3. SavingAuxiliary'
    BY <1>1, <2>1 DEF Saving, SavingAuxiliary, Parked, Scheduled, AtSafePoint
  <2> QED
    BY <2>1, <2>2, <2>3 DEF Saving, SnapshotConsistent
<1>6. ASSUME NEW i \in 1 .. Len(threads), EnterAuxiliary(i)
      PROVE  Saving'
  <2> DEFINE first == IF host.at = "primary" THEN 1 ELSE host.i + 1
  <2>1. /\ Parked /\ host.at \in {"primary", "auxiliary"}
        /\ i \in first .. Len(threads) /\ handle[threads[i]] # primary
        /\ \A j \in first .. i - 1 : handle[threads[j]] = primary
        /\ mode' = "SynchronizeAuxiliary" /\ resume' = handle[threads[i]]
        /\ active' = handle[threads[i]]
        /\ UNCHANGED <<handle, threads, stack, primary>>
        /\ host' = Place("auxiliary", <<>>, i)
    BY <1>6 DEF EnterAuxiliary, SwitchIn, Parked, objects
  <2>2. \A j \in DOMAIN threads : threads[j] \in Scheduled /\ handle[threads[j]] \in Handle
    BY <1>0 DEF ListOK, Scheduled, Elems
  <2>3. DOMAIN threads = 1 .. Len(threads) /\ Len(threads) \in Nat
    BY <1>0, LenProperties DEF TypeOK
  <2>4. /\ primary # Null
        /\ \A t \in Scheduled : handle[t] = primary => AtSafePoint(t)
    <3>1. CASE host.at = "primary"
      BY <1>0, <2>1, <3>1 DEF Saving, SavingPrimary, AtSafePoint, ListOK
    <3>2. CASE host.at = "auxiliary"
      BY <3>2 DEF Saving, SavingAuxiliary
    <3> QED
      BY <2>1, <3>1, <3>2
  <2>5. \A j \in 1 .. i - 1 : AtSafePoint(threads[j])
    <3> SUFFICES ASSUME NEW j \in 1 .. i - 1
                 PROVE  AtSafePoint(threads[j])
      OBVIOUS
    <3>1. j \in DOMAIN threads
      BY <2>3
    <3>2. CASE j \in first .. i - 1
      BY <2>1, <2>2, <2>4, <3>1, <3>2
    <3>3. CASE host.at = "auxiliary" /\ j \in 1 .. host.i
      <4>1. host.i \in Nat
        BY <1>0 DEF TypeOK, HostState
      <4>2. j \in 1 .. host.i - 1 \/ j = host.i
        BY <3>3, <4>1
      <4> QED
        BY <2>1, <3>3, <4>2 DEF Saving, SavingAuxiliary
    <3>4. j \in first .. i - 1 \/ (host.at = "auxiliary" /\ j \in 1 .. host.i)
      <4>1. host.i \in Nat
        BY <1>0 DEF TypeOK, HostState
      <4> QED
        BY <2>1, <2>3, <4>1
    <3> QED
      BY <3>2, <3>3, <3>4
  <2>6. host'.at = "auxiliary" /\ host'.i = i
    BY <2>1 DEF Place
  <2>7. active' # Host
    BY <1>0, <2>1, <2>2, <2>3
  <2>8. SavingAuxiliary'
    BY <2>1, <2>3, <2>4, <2>5, <2>6, <2>7 DEF SavingAuxiliary, Parked, Scheduled, AtSafePoint
  <2> QED
    BY <2>6, <2>8 DEF Saving, SavingPrimary, SnapshotConsistent
<1>7. CASE EverySynchronized
  <2> DEFINE first == IF host.at = "primary" THEN 1 ELSE host.i + 1
  <2>1. /\ Parked /\ host.at \in {"primary", "auxiliary"}
        /\ \A j \in first .. Len(threads) : handle[threads[j]] = primary
        /\ UNCHANGED <<handle, threads, stack, primary>>
        /\ host' = Place("saved", <<>>, 0)
    BY <1>7 DEF EverySynchronized, Parked, objects, sched
  <2>2. DOMAIN threads = 1 .. Len(threads) /\ Len(threads) \in Nat /\ host.i \in Nat
    BY <1>0, LenProperties DEF TypeOK, HostState
  <2>3. ASSUME NEW t \in Scheduled
        PROVE  AtSafePoint(t)
    <3>1. PICK j \in DOMAIN threads : t = threads[j]
      BY DEF Scheduled, Elems
    <3>2. handle[t] \in Handle
      BY <1>0 DEF ListOK
    <3>3. CASE host.at = "primary"
      BY <2>1, <2>2, <3>1, <3>2, <3>3 DEF Saving, SavingPrimary, AtSafePoint
    <3>4. CASE host.at = "auxiliary"
      <4>1. CASE j \in 1 .. host.i - 1
        BY <3>1, <3>4, <4>1 DEF Saving, SavingAuxiliary
      <4>2. CASE j = host.i
        BY <2>1, <3>1, <3>4, <4>2 DEF Saving, SavingAuxiliary
      <4>3. CASE j \in host.i + 1 .. Len(threads)
        BY <2>1, <3>1, <3>4, <4>3 DEF Saving, SavingAuxiliary
      <4> QED
        BY <2>2, <4>1, <4>2, <4>3
    <3> QED
      BY <2>1, <3>3, <3>4
  <2>4. SnapshotConsistent'
    BY <2>1, <2>3 DEF SnapshotConsistent, Scheduled, AtSafePoint
  <2>5. host'.at = "saved"
    BY <2>1 DEF Place
  <2> QED
    BY <2>4, <2>5 DEF Saving, SavingPrimary, SavingAuxiliary
<1> QED
  BY <1>3, <1>4, <1>5, <1>6, <1>7 DEF HostStep

-----------------------------------------------------------------------------
\* The invariant of a system that is saved now and then.
SaveInv == Ready /\ Owners /\ Saving

LEMMA InitSaveInv ==
  ASSUME ConstantsAssumption, Init
  PROVE  SaveInv
<1>1. Ready
  BY InitReady
<1>2. Owners
  BY DEF Init, Owners, Apart, CpuAtHome, PrimaryIsCpu, Freed, Idle, Place, ConstantsAssumption
<1>3. Saving
  BY DEF Init, Saving, SavingPrimary, SavingAuxiliary, SnapshotConsistent, Idle, Place
<1> QED
  BY <1>1, <1>2, <1>3 DEF SaveInv

LEMMA StutterSaveInv ==
  ASSUME SaveInv, UNCHANGED vars
  PROVE  SaveInv'
<1>1. Ready'
  BY StutterReady DEF SaveInv
<1>2. Owners'
  BY DEF SaveInv, Owners, Apart, CpuAtHome, PrimaryIsCpu, vars
<1>3. Saving'
  BY DEF SaveInv, Saving, SavingPrimary, SavingAuxiliary, SnapshotConsistent, Parked,
     AtSafePoint, Scheduled, vars
<1> QED
  BY <1>1, <1>2, <1>3 DEF SaveInv

\* The CPU stays where it was created, and a save in progress never disturbs a thread
\* it has brought to its safe point.
THEOREM AlwaysSaveInv == Spec => []SaveInv
<1>1. Init => SaveInv
  BY ConstantsAssumption, InitSaveInv
<1>2. SaveInv /\ [Next]_vars => SaveInv'
  <2> SUFFICES ASSUME SaveInv, [Next]_vars
               PROVE  SaveInv'
    OBVIOUS
  <2>1. CASE ThreadStep
    BY <2>1, ConstantsAssumption, RestartAssumption, ThreadStepReady,
       ThreadStepOwners, ThreadStepSaving DEF SaveInv
  <2>2. CASE HostStep
    BY <2>2, ConstantsAssumption, HostAssumption, HostStepReady,
       HostStepOwners, HostStepSaving DEF SaveInv
  <2>3. CASE UNCHANGED vars
    BY <2>3, StutterSaveInv
  <2> QED
    BY <2>1, <2>2, <2>3 DEF Next
<1> QED
  BY <1>1, <1>2, PTL DEF Spec

\* When enter(Synchronize) has returned, every thread of the list stands at its safe
\* point, whatever the threads, their programs and the history before the save.
THEOREM SnapshotsConsistent == Spec => []SnapshotConsistent
<1>1. SaveInv => SnapshotConsistent
  BY DEF SaveInv, Saving
<1> QED
  BY <1>1, AlwaysSaveInv, PTL

\* While the auxiliary threads are synchronized only the one being synchronized
\* runs, and the primary and the earlier ones stay at their safe points.
THEOREM AuxiliaryAlone == Spec => []AuxiliaryRunsAlone
<1>1. SaveInv => AuxiliaryRunsAlone
  BY DEF SaveInv, Saving, SavingAuxiliary, AuxiliaryRunsAlone
<1> QED
  BY <1>1, AlwaysSaveInv, PTL

-----------------------------------------------------------------------------
(***************************************************************************)
(* The promise of SafePoints                                               *)
(***************************************************************************)
\* A save is begun with the CPU in the scheduler's list, and no one takes it out.
CpuListed == host.at \in {"primary", "auxiliary"} => Cpu \in Scheduled

PromiseInv == SaveInv /\ CpuListed

LEMMA OnlyCpuPrimary ==
  ASSUME ConstantsAssumption, Ready, Owners, NEW t \in Scheduled, handle[t] = primary
  PROVE  t = Cpu
<1>1. t \in Thread /\ handle[t] \in Handle /\ Cpu \in Thread
  BY ScheduledThreads DEF Ready, ListOK, ConstantsAssumption
<1> QED
  BY <1>1 DEF Owners, Apart, PrimaryIsCpu, ConstantsAssumption

LEMMA NextCpuListed ==
  ASSUME ConstantsAssumption, PromiseInv, Next
  PROVE  CpuListed'
<1>0. Ready /\ Owners /\ TypeOK
  BY DEF PromiseInv, SaveInv, Ready
<1>1. CASE ThreadStep
  <2>1. Scheduled' = Scheduled /\ UNCHANGED host
    BY <1>0, <1>1, ThreadStepMembers, WhoExits
  <2> QED
    BY <2>1 DEF PromiseInv, CpuListed
<1>2. CASE SaveState
  <2>1. PICK i \in DOMAIN threads : handle[threads[i]] = primary
    BY <1>2 DEF SaveState
  <2>2. threads[i] \in Scheduled
    BY DEF Scheduled, Elems
  <2>3. threads[i] = Cpu
    BY <1>0, <2>1, <2>2, OnlyCpuPrimary
  <2> QED
    BY <1>2, <2>2, <2>3 DEF SaveState, SwitchIn, objects, CpuListed, Scheduled
<1>3. CASE EnterAgain \/ (\E i \in 1 .. Len(threads) : EnterAuxiliary(i))
  BY <1>3 DEF EnterAgain, EnterAuxiliary, SwitchIn, objects, PromiseInv, CpuListed, Scheduled
<1>4. CASE HostStep /\ ~SaveState /\ ~EnterAgain /\ ~(\E i \in 1 .. Len(threads) : EnterAuxiliary(i))
  BY <1>0, <1>4 DEF HostStep, PowerOn, CreateThread, PowerScheduler, PowerOff, Run, RunReturns,
     EverySynchronized, SaveReturns, Eject, PlugIn, PlugGamepad, DeleteOld, Power, HostAt, Idle,
     Place, CpuListed, TypeOK, HostState
<1> QED
  BY <1>1, <1>2, <1>3, <1>4 DEF Next

\* Outside of saves anything may happen to the threads.
LEMMA KeepsWork ==
  ASSUME TypeOK', host.at \notin {"primary", "auxiliary", "saved"},
         host'.at \notin {"primary", "auxiliary", "saved"}
  PROVE  Promise!Work
<1>1. Scheduled' \in SUBSET Thread
  BY LenProperties, ElementOfSeq DEF TypeOK, Scheduled, Elems
<1>2. Safe' \in SUBSET Scheduled'
  BY DEF Safe
<1>3. Phase = "free" /\ Phase' = "free" /\ Done = {} /\ Done' = {}
  BY DEF Phase, Done
<1> QED
  BY <1>1, <1>2, <1>3 DEF Promise!Work

\* Emulation goes on until the CPU stands at its safe point.
LEMMA KeepsReachPrimary ==
  ASSUME ConstantsAssumption, RestartAssumption, PromiseInv, ThreadStep, host.at = "primary"
  PROVE  Promise!ReachPrimary
<1>0. Ready /\ Owners /\ Saving /\ Cpu \in Scheduled
  BY DEF PromiseInv, SaveInv, CpuListed
<1>1. /\ Scheduled' = Scheduled /\ host'.at = "primary" /\ active # Host
      /\ Saving' /\ Owners' /\ Ready'
  BY <1>0, ThreadStepMembers, WhoExits, ThreadStepSaving, ThreadStepOwners, ThreadStepReady
     DEF ConstantsAssumption
<1>2. Phase = "primary" /\ Done = {} /\ Safe' \in SUBSET Scheduled
  BY <1>1 DEF Phase, Done, Safe, Parked
<1>3. CASE Parked'
  <2>1. primary' = handle'[Cpu] /\ handle'[Cpu] \in Handle /\ stack'[primary'].at = "start"
    BY <1>0, <1>1, <1>3 DEF Saving, SavingPrimary, Owners, PrimaryIsCpu, Ready, ListOK
  <2>2. Cpu \in Safe'
    BY <1>0, <1>1, <2>1 DEF Safe, AtSafePoint
  <2>3. Phase' = "auxiliary" /\ Done' = {Cpu}
    BY <1>1, <1>3 DEF Phase, Done
  <2> QED
    BY <1>1, <1>2, <2>2, <2>3 DEF Promise!ReachPrimary
<1>4. CASE ~Parked'
  <2>1. Phase' = "primary" /\ Done' = {}
    BY <1>1, <1>4 DEF Phase, Done
  <2> QED
    BY <1>1, <1>2, <2>1 DEF Promise!ReachPrimary
<1> QED
  BY <1>3, <1>4

\* Then one thread at a time moves, and no other.
LEMMA KeepsReachAuxiliary ==
  ASSUME ConstantsAssumption, RestartAssumption, PromiseInv, ThreadStep, host.at = "auxiliary"
  PROVE  \E t \in Thread : Promise!ReachAuxiliary(t)
<1> DEFINE me == threads[host.i]
           before == {Cpu} \cup {threads[j] : j \in 1 .. host.i - 1}
<1>0. /\ Ready /\ Owners /\ Saving /\ Cpu \in Scheduled /\ TypeOK /\ ListOK
      /\ Null \notin Handle
  BY DEF PromiseInv, SaveInv, CpuListed, Ready, ConstantsAssumption
<1>1. /\ active = handle[me] /\ handle[me] # primary /\ primary # Null
      /\ host.i \in DOMAIN threads
      /\ \A t \in Scheduled : handle[t] = primary => AtSafePoint(t)
      /\ \A j \in 1 .. host.i - 1 : AtSafePoint(threads[j])
      /\ UNCHANGED <<handle, threads, host>>
      /\ \A h \in Handle \ {active} : stack'[h] = stack[h]
  BY <1>0, AuxiliaryStep
<1>2. active # Host /\ Saving' /\ Scheduled' = Scheduled
  BY <1>0, <1>1, WhoExits, ThreadStepSaving DEF ConstantsAssumption, Scheduled
<1>3. handle[Cpu] = primary
  BY <1>0, <1>1 DEF Owners, PrimaryIsCpu
<1>4. /\ me \in Scheduled /\ me \in Thread /\ me # Cpu
      /\ \A j \in 1 .. host.i - 1 : threads[j] \in Scheduled /\ threads[j] # me
  <2>1. DOMAIN threads = 1 .. Len(threads) /\ Len(threads) \in Nat
    BY <1>0, LenProperties DEF TypeOK
  <2>2. \A j \in 1 .. host.i - 1 : j \in DOMAIN threads /\ j # host.i
    BY <1>1, <2>1
  <2> QED
    BY <1>0, <1>1, <1>3, <2>2, ScheduledThreads DEF ListOK, Distinct, Scheduled, Elems
<1>5. Done = before /\ Done' = before \cup (IF Parked' THEN {me} ELSE {})
  BY <1>1, <1>2 DEF Done, Parked
<1>6. before \subseteq Safe /\ me \in Scheduled \ before
  BY <1>0, <1>1, <1>3, <1>4 DEF Safe
<1>7. ASSUME NEW t \in Scheduled, t # me
      PROVE  t \in Safe <=> t \in Safe'
  <2>1. handle[t] # active
    BY <1>0, <1>1, <1>7, AuxiliaryApart
  <2> QED
    BY <1>1, <1>2, <2>1 DEF Safe, AtSafePoint
<1>8. Safe' \in {Safe \ {me}, Safe \cup {me}}
  BY <1>2, <1>4, <1>7 DEF Safe
<1>9. Parked' => me \in Safe'
  BY <1>1, <1>2, <1>4 DEF Saving, SavingAuxiliary, Safe
<1>10. Done' \subseteq Safe'
  BY <1>5, <1>6, <1>7, <1>9 DEF Safe
<1>11. Phase = "auxiliary" /\ Phase' = "auxiliary"
  BY <1>1 DEF Phase
<1> HIDE DEF me, before
<1>12. Promise!ReachAuxiliary(me)
  BY <1>2, <1>4, <1>5, <1>6, <1>8, <1>10, <1>11 DEF Promise!ReachAuxiliary
<1> QED
  BY <1>4, <1>12

\* What the scheduler does between the threads of a save is no step of the promise, but
\* its end is.
LEMMA KeepsHost ==
  ASSUME ConstantsAssumption, HostAssumption, PromiseInv, HostStep
  PROVE  [Promise!Next]_(Promise!vars)
<1>0. /\ Ready /\ Owners /\ Saving /\ TypeOK /\ ListOK /\ host \in HostState
      /\ Host \notin Handle \cup {Null} /\ resume # Host
      /\ DOMAIN threads = 1 .. Len(threads) /\ Len(threads) \in Nat /\ host.i \in Nat
      /\ \A j \in DOMAIN threads : threads[j] \in Scheduled
      /\ Ready'
  <2>1. Ready /\ Owners /\ Saving /\ Ready'
    BY HostStepReady DEF PromiseInv, SaveInv
  <2>2. TypeOK /\ ListOK
    BY <2>1 DEF Ready
  <2> QED
    BY <2>1, <2>2, LenProperties DEF TypeOK, HostState, ConstantsAssumption, Scheduled, Elems
<1>1. CASE SaveState
  <2>1. /\ UNCHANGED <<handle, threads, stack>> /\ host.at = "idle" /\ host'.at = "primary"
        /\ active' = resume
    BY <1>1 DEF SaveState, SwitchIn, HostAt, Place, objects
  <2>2. Phase = "free" /\ Done = {} /\ Phase' = "primary" /\ Done' = {}
    BY <1>0, <2>1 DEF Phase, Done, Parked
  <2>3. Scheduled' = Scheduled /\ Safe' = Safe
    BY <2>1 DEF Scheduled, Safe, AtSafePoint
  <2> QED
    BY <2>2, <2>3 DEF Promise!Next, Promise!BeginSave
<1>2. CASE EnterAgain
  <2>1. /\ UNCHANGED <<handle, threads, stack, host>> /\ host.at \in {"primary", "auxiliary"}
        /\ ~Parked /\ ~Parked'
    BY <1>0, <1>2 DEF EnterAgain, SwitchIn, objects, Parked
  <2>2. Phase' = Phase /\ Done' = Done /\ Scheduled' = Scheduled /\ Safe' = Safe
    BY <2>1 DEF Phase, Done, Scheduled, Safe, AtSafePoint
  <2> QED
    BY <2>2 DEF Promise!vars
<1>3. ASSUME NEW i \in 1 .. Len(threads), EnterAuxiliary(i)
      PROVE  [Promise!Next]_(Promise!vars)
  <2> DEFINE first == IF host.at = "primary" THEN 1 ELSE host.i + 1
  <2>1. /\ UNCHANGED <<handle, threads, stack>> /\ host.at \in {"primary", "auxiliary"}
        /\ Parked /\ active' = handle[threads[i]] /\ i \in first .. Len(threads)
        /\ \A j \in first .. i - 1 : handle[threads[j]] = primary
        /\ host' = Place("auxiliary", <<>>, i)
    BY <1>3 DEF EnterAuxiliary, SwitchIn, objects, Parked
  <2>2. ~Parked'
    BY <1>0, <2>1 DEF Parked, ListOK
  <2>3. \A j \in first .. i - 1 : threads[j] = Cpu
    <3>1. \A j \in first .. i - 1 : j \in DOMAIN threads
      BY <1>0
    <3> QED
      BY <1>0, <2>1, <3>1, OnlyCpuPrimary
  <2>4. Phase = "auxiliary" /\ Phase' = "auxiliary"
    BY <2>1 DEF Phase, Place
  <2>5. Done' = {Cpu} \cup {threads[j] : j \in 1 .. i - 1}
    BY <2>1, <2>2 DEF Done, Place
  <2>6. Done = Done'
    <3>1. CASE host.at = "primary"
      BY <2>1, <2>3, <2>5, <3>1 DEF Done
    <3>2. CASE host.at = "auxiliary"
      <4>1. Done = {Cpu} \cup {threads[j] : j \in 1 .. host.i - 1} \cup {threads[host.i]}
        BY <2>1, <3>2 DEF Done
      <4>2. host.i \in 1 .. i - 1
        BY <1>0, <2>1, <3>2 DEF Saving, SavingAuxiliary
      <4>3. \A j \in 1 .. i - 1 : j \in 1 .. host.i - 1 \/ j = host.i \/ threads[j] = Cpu
        BY <1>0, <2>3, <3>2
      <4>4. \A j \in 1 .. host.i - 1 : j \in 1 .. i - 1
        BY <4>2
      <4> QED
        BY <2>5, <4>1, <4>2, <4>3, <4>4
    <3> QED
      BY <2>1, <3>1, <3>2
  <2>7. Scheduled' = Scheduled /\ Safe' = Safe
    BY <2>1 DEF Scheduled, Safe, AtSafePoint
  <2> QED
    BY <2>4, <2>6, <2>7 DEF Promise!vars
<1>4. CASE EverySynchronized
  <2> DEFINE first == IF host.at = "primary" THEN 1 ELSE host.i + 1
  <2>1. /\ UNCHANGED <<handle, threads, stack>> /\ host.at \in {"primary", "auxiliary"} /\ Parked
        /\ \A j \in first .. Len(threads) : handle[threads[j]] = primary
        /\ host' = Place("saved", <<>>, 0)
    BY <1>4 DEF EverySynchronized, objects, Parked
  <2>2. \A j \in first .. Len(threads) : threads[j] = Cpu
    <3>1. \A j \in first .. Len(threads) : j \in DOMAIN threads
      BY <1>0
    <3> QED
      BY <1>0, <2>1, <3>1, OnlyCpuPrimary
  <2>3. Phase = "auxiliary" /\ Phase' = "taken" /\ Done' = Scheduled'
    BY <2>1 DEF Phase, Done, Place
  <2>4. Done = Scheduled
    <3>0. Cpu \in Scheduled /\ Scheduled = {threads[j] : j \in 1 .. Len(threads)}
      BY <1>0, <2>1 DEF PromiseInv, CpuListed, Scheduled, Elems
    <3>1. CASE host.at = "primary"
      BY <2>1, <2>2, <3>0, <3>1 DEF Done
    <3>2. CASE host.at = "auxiliary"
      <4>1. Done = {Cpu} \cup {threads[j] : j \in 1 .. host.i - 1} \cup {threads[host.i]}
        BY <2>1, <3>2 DEF Done
      <4>2. host.i \in 1 .. Len(threads)
        BY <1>0, <2>1, <3>2 DEF Saving, SavingAuxiliary
      <4>3. \A j \in 1 .. Len(threads) : j \in 1 .. host.i - 1 \/ j = host.i \/ threads[j] = Cpu
        BY <1>0, <2>2, <3>2
      <4>4. \A j \in 1 .. host.i - 1 : j \in 1 .. Len(threads)
        BY <1>0, <4>2
      <4> QED
        BY <3>0, <4>1, <4>2, <4>3, <4>4
    <3> QED
      BY <2>1, <3>1, <3>2
  <2>5. Scheduled' = Scheduled /\ Safe' = Safe
    BY <2>1 DEF Scheduled, Safe, AtSafePoint
  <2> QED
    BY <2>3, <2>4, <2>5 DEF Promise!Next, Promise!Take
<1>5. CASE SaveReturns
  <2>1. UNCHANGED <<handle, threads, stack>> /\ host.at = "saved" /\ host'.at = "idle"
    BY <1>5 DEF SaveReturns, HostAt, Idle, Place, objects
  <2>2. Phase = "taken" /\ Phase' = "free" /\ Done' = {}
    BY <2>1 DEF Phase, Done
  <2>3. Scheduled' = Scheduled /\ Safe' = Safe
    BY <2>1 DEF Scheduled, Safe, AtSafePoint
  <2> QED
    BY <2>2, <2>3 DEF Promise!Next, Promise!Resume
<1>6. CASE ~SaveState /\ ~EnterAgain /\ ~(\E i \in 1 .. Len(threads) : EnterAuxiliary(i))
           /\ ~EverySynchronized /\ ~SaveReturns
  <2>1. /\ host.at \notin {"primary", "auxiliary", "saved"}
        /\ host'.at \notin {"primary", "auxiliary", "saved"}
    BY <1>0, <1>6 DEF HostStep, PowerOn, CreateThread, PowerScheduler, PowerOff, Run, RunReturns,
       Eject, PlugIn, PlugGamepad, DeleteOld, Power, HostAt, Idle, Place, HostState
  <2> QED
    BY <1>0, <2>1, KeepsWork DEF Ready, Promise!Next
<1> QED
  BY <1>1, <1>2, <1>3, <1>4, <1>5, <1>6

\* Scheduler::enter and the threads implement SafePoints: between the beginning of a save
\* and its end no thread appears or disappears, the CPU is brought to its safe point
\* first, then the others one after the other, while those already there stay there.
THEOREM SavesKeepPromise == Spec => Promise!Safety
<1>1. Init => Promise!Init
  BY DEF Init, Idle, Place, Scheduled, Elems, Safe, Phase, Done, Promise!Init
<1>2. Spec => []PromiseInv
  <2>1. Init => PromiseInv
    <3>1. Init => CpuListed
      BY DEF Init, CpuListed, Idle, Place
    <3> QED
      BY <3>1, ConstantsAssumption, InitSaveInv DEF PromiseInv
  <2>2. PromiseInv /\ SaveInv' /\ [Next]_vars => PromiseInv'
    BY ConstantsAssumption, NextCpuListed DEF PromiseInv, CpuListed, Scheduled, vars
  <2> QED
    BY <2>1, <2>2, AlwaysSaveInv, PTL DEF Spec
<1>3. PromiseInv /\ [Next]_vars => [Promise!Next]_(Promise!vars)
  <2> SUFFICES ASSUME PromiseInv, [Next]_vars
               PROVE  [Promise!Next]_(Promise!vars)
    OBVIOUS
  <2>0. Ready /\ TypeOK
    BY DEF PromiseInv, SaveInv, Ready
  <2>1. CASE ThreadStep
    <3>1. active # Host /\ UNCHANGED host /\ TypeOK'
      BY <2>0, <2>1, ConstantsAssumption, RestartAssumption, WhoExits, ThreadStepReady
         DEF ConstantsAssumption, Ready
    <3>2. host.at \in {"run", "primary", "auxiliary"}
      BY <2>0, <3>1 DEF Ready, HostTurn, TypeOK, HostState, HostPlaces
    <3>3. CASE host.at = "run"
      BY <3>1, <3>3, KeepsWork DEF Promise!Next
    <3>4. CASE host.at = "primary"
      BY <2>1, <3>4, ConstantsAssumption, RestartAssumption, KeepsReachPrimary DEF Promise!Next
    <3>5. CASE host.at = "auxiliary"
      BY <2>1, <3>5, ConstantsAssumption, RestartAssumption, KeepsReachAuxiliary DEF Promise!Next
    <3> QED
      BY <3>2, <3>3, <3>4, <3>5
  <2>2. CASE HostStep
    BY <2>2, ConstantsAssumption, HostAssumption, KeepsHost
  <2>3. CASE UNCHANGED vars
    BY <2>3 DEF vars, Scheduled, Safe, AtSafePoint, Phase, Done, Parked, Promise!vars
  <2> QED
    BY <2>1, <2>2, <2>3 DEF Next
<1> QED
  BY <1>1, <1>2, <1>3, PTL DEF Spec, Promise!Safety
=============================================================================
