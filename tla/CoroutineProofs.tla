-------------------------- MODULE CoroutineProofs --------------------------
(***************************************************************************)
(* Which code a coroutine runs and who is switched to, for every system:   *)
(* each coroutine finds an entry point, its own, and while the power is on *)
(* only living threads are switched to; the same of systems whose states   *)
(* are saved and loaded and which are unloaded and loaded again.           *)
(***************************************************************************)
EXTENDS SaveStates, SaveProofs

-----------------------------------------------------------------------------
(***************************************************************************)
(* Steps that create, delete, restart and enter no thread                  *)
(***************************************************************************)
\* A coroutine that has entered its thread goes on from one point of the loop of
\* Thread::Enter to another.
LEMMA ActiveMoves ==
  ASSUME ConstantsAssumption, stack \in [Handle -> GoodCell], ThreadStep,
         ~Enter, ~RestartThread, ~RenewThread
  PROVE  /\ active \in Handle
         /\ UNCHANGED <<handle, threads, entryPoints, host, powered>>
         /\ \A h \in Handle \ {active} : stack'[h] = stack[h]
         /\ stack'[active].owner = stack[active].owner
         /\ (SwitchTo /\ stack' = stack) \/ stack'[active].at \in {"top", "start", "main"}
         /\ stack[active].at \in {"top", "start", "main"}
<1>1. /\ active \in Handle
      /\ UNCHANGED <<handle, threads, entryPoints, host, powered>>
      /\ \A h \in Handle \ {active} : stack'[h] = stack[h]
      /\ stack'[active].owner = stack[active].owner
  BY OwnStackOnly
<1>2. stack[active] \in Continuation
  BY <1>1 DEF GoodCell
<1>3. \A t, rest : Running(t, rest).at \in {"top", "main"}
  BY DEF Running
<1>4. \A rest : Continue(rest)[active].at \in {"top", "main"}
  BY <1>1, <1>3 DEF Continue
<1>5. CASE Park \/ PassSafePoint \/ EndFrame \/ CallEntryPoint
  <2>1. CASE Park \/ PassSafePoint
    BY <1>1, <1>2, <2>1 DEF Park, PassSafePoint, Exit, Continuation
  <2>2. CASE EndFrame \/ CallEntryPoint
    BY <1>1, <1>3, <2>2 DEF EndFrame, CallEntryPoint, Exit, At
  <2> QED
    BY <1>1, <1>5, <2>1, <2>2
<1>6. CASE SwitchTo
  BY <1>1, <1>6 DEF SwitchTo, At
<1>7. CASE Step \/ Synchronized \/ SynchronizeAll \/ SynchronizeSlot \/ FlagSet \/ KeepWaiting
  BY <1>1, <1>4, <1>7 DEF Step, Synchronized, SynchronizeAll, SynchronizeSlot, FlagSet,
     KeepWaiting, At
<1>8. CASE SynchronizePeripheral \/ StopWaiting
  BY <1>1, <1>4, <1>8 DEF SynchronizePeripheral, StopWaiting, At
<1> QED
  BY <1>5, <1>6, <1>7, <1>8 DEF ThreadStep

\* The host creates threads in power() and for a device, deletes a chip or a device,
\* and otherwise leaves the threads alone.
LEMMA HostStepKinds ==
  ASSUME ConstantsAssumption, HostAssumption, Ready, HostStep
  PROVE  /\ active = Host
         /\ \/ UNCHANGED <<handle, threads, uid, entryPoints, stack>>
            \/ CreateThread /\ Head(host.list) \in Thread /\ Create(Head(host.list))
            \/ \E t \in Pluggable : PlugIn(t) /\ Create(t)
            \/ Eject \/ (DeleteOld /\ host.list # <<>> /\ Head(host.list) \in Thread
                                   /\ Destroy(Head(host.list)))
<1>0. host \in HostState /\ (host.list # <<>> => Head(host.list) \in Thread)
  BY DEF Ready, TypeOK, HostState
<1>1. active = Host
  BY DEF HostStep, PowerOn, CreateThread, PowerScheduler, PowerOff, Run, RunReturns,
     SaveState, EnterAgain, EnterAuxiliary, EverySynchronized, SaveReturns, Eject,
     PlugIn, PlugGamepad, DeleteOld, HostAt
<1>2. CASE \/ PowerOn \/ PowerScheduler \/ PowerOff \/ Run \/ RunReturns \/ SaveState
           \/ EnterAgain \/ (\E i \in 1 .. Len(threads) : EnterAuxiliary(i))
           \/ EverySynchronized \/ SaveReturns
  BY <1>1, <1>2 DEF PowerOn, Power, PowerScheduler, PowerOff, Run, RunReturns, SaveState,
     SwitchIn, EnterAgain, EnterAuxiliary, EverySynchronized, SaveReturns, objects
<1>3. CASE CreateThread
  BY <1>0, <1>1, <1>3 DEF CreateThread
<1>4. CASE \E t \in Pluggable : PlugIn(t) \/ PlugGamepad(t)
  BY <1>1, <1>4 DEF PlugIn, PlugGamepad, objects
<1>5. CASE DeleteOld
  BY <1>0, <1>1, <1>5 DEF DeleteOld, objects
<1> QED
  BY <1>1, <1>2, <1>3, <1>4, <1>5 DEF HostStep

-----------------------------------------------------------------------------
(***************************************************************************)
(* Every coroutine finds an entry point                                    *)
(***************************************************************************)
\* The pending entry points of a coroutine.
Pending(h) == {k \in DOMAIN entryPoints : entryPoints[k].handle = h}

\* Whoever has not entered yet has an entry point waiting.
EntryInv ==
  /\ \A h \in Handle : stack[h].at = "entry" => Pending(h) # {}
  /\ EntryFound

\* Registering an entry point for a coroutine that is derived, and none other.
LEMMA DeriveKeepsEntries ==
  ASSUME Ready, EntryInv, NEW h \in Handle, NEW t \in Thread,
         entryPoints' = Registered(h, t),
         stack' \in [Handle -> GoodCell],
         \A g \in Handle \ {h} : stack'[g].at \in {"entry", "threw"} => stack'[g].at = stack[g].at,
         stack'[h] = Derived
  PROVE  EntryInv'
<1> DEFINE n == Len(entryPoints)
<1>1. /\ n \in Nat /\ DOMAIN entryPoints = 1 .. n /\ DOMAIN entryPoints' = 1 .. n + 1
      /\ \A k \in 1 .. n : entryPoints'[k] = entryPoints[k]
      /\ entryPoints'[n + 1].handle = h
  BY AppendProperties, LenProperties DEF Registered, Ready, TypeOK
<1> HIDE DEF n
<1>2. \A g \in Handle : Pending(g) # {} => Pending(g)' # {}
  BY <1>1 DEF Pending
<1>3. Pending(h)' # {}
  BY <1>1 DEF Pending
<1> QED
  BY <1>2, <1>3 DEF EntryInv, EntryFound, Derived

LEMMA ThreadStepEntries ==
  ASSUME ConstantsAssumption, RestartAssumption, Ready, EntryInv, ThreadStep
  PROVE  EntryInv'
<1>0. TypeOK /\ stack \in [Handle -> GoodCell] /\ stack' \in [Handle -> GoodCell] /\ ListOK
  BY ThreadStacks DEF Ready
<1>1. CASE Enter
  <2>1. active \in Handle /\ stack[active].at = "entry" /\ Mine # {}
    BY <1>1 DEF Enter, EntryInv, Pending, Mine
  <2>2. PICK k \in Mine :
          /\ stack' = [stack EXCEPT ![active] = Running(entryPoints[k].owner, <<>>)]
          /\ entryPoints' = DropAt(entryPoints, k)
    BY <1>1, <2>1 DEF Enter, PendingAfter
  <2>3. k \in DOMAIN entryPoints /\ entryPoints[k].handle = active
    BY <2>2 DEF Mine
  <2>4. /\ DOMAIN entryPoints' = 1 .. Len(entryPoints) - 1
        /\ \A i \in 1 .. Len(entryPoints) - 1 :
             entryPoints'[i] = IF i < k THEN entryPoints[i] ELSE entryPoints[i + 1]
        /\ DOMAIN entryPoints = 1 .. Len(entryPoints) /\ Len(entryPoints) \in Nat
    BY <1>0, <2>2, <2>3, DropAtFacts, LenProperties DEF TypeOK
  <2>5. ASSUME NEW h \in Handle \ {active}, stack'[h].at = "entry"
        PROVE  Pending(h)' # {}
    <3>1. PICK j \in DOMAIN entryPoints : entryPoints[j].handle = h
      BY <1>0, <2>2, <2>5 DEF EntryInv, Pending
    <3>2. j # k
      BY <2>3, <3>1
    <3>3. \E i \in DOMAIN entryPoints' : entryPoints'[i] = entryPoints[j]
      <4>1. CASE j < k
        BY <2>3, <2>4, <4>1
      <4>2. CASE j > k
        <5>1. j - 1 \in DOMAIN entryPoints' /\ ~(j - 1 < k)
          BY <2>3, <2>4, <4>2
        <5> QED
          BY <2>4, <5>1
      <4> QED
        BY <2>3, <2>4, <3>2, <4>1, <4>2
    <3> QED
      BY <3>1, <3>3 DEF Pending
  <2>6. stack'[active].at = "top" /\ \A h \in Handle \ {active} : stack'[h] = stack[h]
    BY <1>0, <2>1, <2>2 DEF Running
  <2> QED
    BY <2>5, <2>6 DEF EntryInv, EntryFound
<1>2. CASE ~Enter /\ ~RestartThread /\ ~RenewThread
  <2>1. /\ UNCHANGED entryPoints /\ active \in Handle
        /\ \A h \in Handle \ {active} : stack'[h] = stack[h]
        /\ stack' = stack \/ stack'[active].at \in {"top", "start", "main"}
    BY <1>0, <1>2, ActiveMoves
  <2> QED
    BY <2>1 DEF EntryInv, EntryFound, Pending
<1>3. \A h \in Handle : Continue(Tail(Todo))[h].at \in {stack[h].at, "top", "main"}
  BY <1>0 DEF Continue, Running
<1>4. CASE RestartThread
  <2> DEFINE u == Head(Todo).peer
  <2>1. /\ u \in Scheduled
        /\ stack' = [Continue(Tail(Todo)) EXCEPT ![handle[u]] = Derived]
        /\ entryPoints' = Registered(handle[u], u)
    BY <1>4 DEF RestartThread
  <2>2. u \in Thread /\ handle[u] \in Handle
    BY <1>0, <2>1, ScheduledThreads DEF ListOK
  <2>3. /\ stack'[handle[u]] = Derived
        /\ \A h \in Handle \ {handle[u]} : stack'[h].at \in {stack[h].at, "top", "main"}
    BY <1>0, <1>3, <2>1, <2>2 DEF Continue
  <2> QED
    BY <1>0, <2>1, <2>2, <2>3, DeriveKeepsEntries
<1>5. CASE RenewThread
  <2> DEFINE u == Head(Todo).peer
  <2>1. u \in Scheduled
    BY <1>5 DEF RenewThread
  <2>2. PICK h \in (Handle \ Live) \cup {handle[u]} :
          /\ stack' = [Continue(Tail(Todo)) EXCEPT ![handle[u]] = Freed, ![h] = Derived]
          /\ entryPoints' = Registered(h, u)
    BY <1>5 DEF RenewThread
  <2>3. u \in Thread /\ h \in Handle
    BY <1>0, <2>1, <2>2, ScheduledThreads DEF ListOK
  <2>4. /\ stack'[h] = Derived
        /\ \A g \in Handle \ {h} : stack'[g].at \in {stack[g].at, "top", "main", "freed"}
    BY <1>0, <1>3, <2>2, <2>3 DEF Continue, Freed
  <2> QED
    BY <1>0, <2>2, <2>3, <2>4, DeriveKeepsEntries
<1> QED
  BY <1>1, <1>2, <1>4, <1>5

LEMMA CreateEntries ==
  ASSUME ConstantsAssumption, Ready, EntryInv, NEW t \in Thread, Create(t)
  PROVE  EntryInv'
<1>1. PICK h \in AddressFor(t) :
        /\ stack' = [stack EXCEPT ![h] = Derived]
        /\ entryPoints' = Registered(h, t)
  BY DEF Create
<1>2. h \in Handle /\ stack' \in [Handle -> GoodCell] /\ stack \in [Handle -> GoodCell]
  BY CreateFacts DEF AddressFor, Ready, TypeOK
<1> QED
  BY <1>1, <1>2, DeriveKeepsEntries

LEMMA DestroyEntries ==
  ASSUME Ready, EntryInv, NEW t \in Thread, Destroy(t)
  PROVE  EntryInv'
<1>1. UNCHANGED entryPoints /\ \A h \in Handle : stack'[h].at \in {stack[h].at, "freed"}
  BY DEF Destroy, Ready, Freed
<1> QED
  BY <1>1 DEF EntryInv, EntryFound, Pending

LEMMA HostStepEntries ==
  ASSUME ConstantsAssumption, HostAssumption, Ready, EntryInv, HostStep
  PROVE  EntryInv'
<1>1. CASE UNCHANGED <<handle, threads, uid, entryPoints, stack>>
  BY <1>1 DEF EntryInv, EntryFound, Pending
<1>2. CASE Eject
  BY <1>2, DestroyEntries DEF Eject, HostAssumption
<1> QED
  BY <1>1, <1>2, HostStepKinds, CreateEntries, DestroyEntries DEF HostAssumption

\* A coroutine is entered once for each entry point registered for it, so that
\* Thread::Enter never ends at its throw: whatever is created, restarted, renewed or
\* deleted before it is first run.
THEOREM EntriesAreFound == Spec => []EntryFound
<1>1. Init => Ready /\ EntryInv
  <2> SUFFICES ASSUME Init
               PROVE  Ready /\ EntryInv
    OBVIOUS
  <2>1. Ready
    BY ConstantsAssumption, InitReady
  <2> QED
    BY <2>1 DEF Init, EntryInv, EntryFound, Freed
<1>2. Ready /\ EntryInv /\ [Next]_vars => Ready' /\ EntryInv'
  <2>1. Ready /\ EntryInv /\ UNCHANGED vars => Ready' /\ EntryInv'
    BY StutterReady DEF EntryInv, EntryFound, Pending, vars
  <2> QED
    BY <2>1, ConstantsAssumption, RestartAssumption, HostAssumption, ThreadStepReady,
       ThreadStepEntries, HostStepReady, HostStepEntries DEF Next
<1>3. EntryInv => EntryFound
  BY DEF EntryInv
<1> QED
  BY <1>1, <1>2, <1>3, PTL DEF Spec
-----------------------------------------------------------------------------
(***************************************************************************)
(* The power and the system's own threads                                  *)
(***************************************************************************)
\* While the power is on the system's own threads live, or power() is about to create
\* them; only devices are replaced.
PowerOK ==
  /\ host.at \notin {"idle", "plug"} => powered
  /\ powered /\ host.at # "power" => \A t \in Core : handle[t] \in Handle
  /\ host.at = "power" => \A t \in Core : handle[t] \in Handle \/ t \in Elems(host.list)
  /\ host.at = "power" => \E boot \in Boots : Elems(host.list) \subseteq Elems(boot)
  /\ host.at = "plug" => Elems(host.list) \subseteq Pluggable

LEMMA HeadTailElems ==
  ASSUME NEW S, NEW s \in Seq(S), s # <<>>
  PROVE  Elems(s) = {Head(s)} \cup Elems(Tail(s)) /\ Head(s) \in S
<1> DEFINE n == Len(s)
<1>1. /\ Head(s) = s[1] /\ DOMAIN s = 1 .. n /\ n \in Nat /\ n # 0
      /\ DOMAIN Tail(s) = 1 .. n - 1
      /\ \A i \in 1 .. n - 1 : Tail(s)[i] = s[i + 1]
      /\ Head(s) \in S
  OBVIOUS
<1> HIDE DEF n
<1>2. Elems(s) \subseteq {Head(s)} \cup Elems(Tail(s))
  <2> SUFFICES ASSUME NEW i \in 1 .. n
               PROVE  s[i] \in {Head(s)} \cup Elems(Tail(s))
    BY <1>1 DEF Elems
  <2>1. CASE i = 1
    BY <1>1, <2>1
  <2>2. CASE i # 1
    <3>1. i - 1 \in 1 .. n - 1 /\ s[i] = Tail(s)[i - 1]
      BY <1>1, <2>2
    <3> QED
      BY <1>1, <3>1 DEF Elems
  <2> QED
    BY <2>1, <2>2
<1>3. {Head(s)} \cup Elems(Tail(s)) \subseteq Elems(s)
  <2>1. 1 \in DOMAIN s /\ \A i \in 1 .. n - 1 : i + 1 \in DOMAIN s
    BY <1>1
  <2> QED
    BY <1>1, <2>1 DEF Elems
<1> QED
  BY <1>1, <1>2, <1>3

\* No emulated component deletes a thread for good.
LEMMA ThreadStepLives ==
  ASSUME ConstantsAssumption, Ready, ThreadStep
  PROVE  /\ \A t \in Thread : handle[t] \in Handle <=> handle'[t] \in Handle
         /\ UNCHANGED <<host, powered>>
<1>0. TypeOK /\ ListOK /\ stack \in [Handle -> GoodCell]
  BY DEF Ready
<1>1. CASE ~RestartThread /\ ~RenewThread
  BY <1>0, <1>1, OwnStackOnly
<1>2. CASE RestartThread
  <2>1. UNCHANGED <<handle, host, powered>>
    BY <1>2 DEF RestartThread, objects
  <2> QED
    BY <2>1
<1>3. CASE RenewThread
  <2> DEFINE u == Head(Todo).peer
  <2>1. u \in Scheduled /\ UNCHANGED <<host, powered>>
    BY <1>3 DEF RenewThread
  <2>2. PICK h \in (Handle \ Live) \cup {handle[u]} : handle' = [handle EXCEPT ![u] = h]
    BY <1>3 DEF RenewThread
  <2> QED
    BY <1>0, <2>1, <2>2, ScheduledThreads DEF ListOK, TypeOK
<1> QED
  BY <1>1, <1>2, <1>3

LEMMA HostStepPower ==
  ASSUME ConstantsAssumption, HostAssumption, Ready, PowerOK, HostStep
  PROVE  PowerOK'
<1> DEFINE All == \A t \in Core : handle[t] \in Handle
<1>0. TypeOK /\ host \in HostState
  BY DEF Ready, TypeOK
<1>1. ASSUME NEW boot \in Boots, host' = Place("power", boot, 0), powered', UNCHANGED handle
      PROVE  PowerOK'
  BY <1>1 DEF PowerOK, Place, Core
<1>2. CASE PowerOn \/ RunReturns
  <2>1. CASE PowerOn
    BY <1>1, <2>1 DEF PowerOn, Power, objects
  <2>2. CASE RunReturns
    <3>1. powered' /\ host.at = "run" /\ UNCHANGED handle
      BY <2>2 DEF RunReturns, Power, HostAt, PowerOK, objects
    <3>2. CASE host' = Idle
      BY <3>1, <3>2 DEF PowerOK, Idle, Place
    <3> QED
      BY <1>1, <2>2, <3>1, <3>2 DEF RunReturns, Power
  <2> QED
    BY <1>2, <2>1, <2>2
<1>3. CASE CreateThread
  <2> DEFINE t == Head(host.list)
  <2>1. /\ host.at = "power" /\ host.list # <<>> /\ Create(t)
        /\ host' = [host EXCEPT !.list = Tail(@)] /\ UNCHANGED powered
    BY <1>3 DEF CreateThread, HostAt
  <2>2. host'.at = "power" /\ host'.list = Tail(host.list)
    BY <1>0, <2>1 DEF HostState
  <2>3. Elems(host.list) = {t} \cup Elems(Tail(host.list)) /\ t \in Thread
    BY <1>0, <2>1, HeadTailElems DEF HostState
  <2>4. handle'[t] \in Handle /\ \A s \in Thread \ {t} : handle'[s] = handle[s]
    BY <1>0, <2>1, <2>3 DEF Create, AddressFor, TypeOK
  <2> HIDE DEF t
  <2> QED
    BY <2>1, <2>2, <2>3, <2>4 DEF PowerOK, Core
<1>4. CASE PowerScheduler
  <2>1. /\ host.at = "power" /\ host.list = <<>> /\ host' = Idle /\ UNCHANGED <<handle, powered>>
    BY <1>4 DEF PowerScheduler, HostAt
  <2>2. Elems(host.list) = {}
    BY <2>1 DEF Elems
  <2> QED
    BY <2>1, <2>2 DEF PowerOK, Idle, Place
<1>5. CASE PowerOff
  BY <1>5 DEF PowerOff, PowerOK, HostAt
<1>6. CASE Run \/ SaveState
  BY <1>6 DEF Run, SaveState, SwitchIn, PowerOK, HostAt, Place, objects
<1>7. CASE EnterAgain \/ (\E i \in 1 .. Len(threads) : EnterAuxiliary(i)) \/ EverySynchronized
           \/ SaveReturns
  BY <1>7 DEF EnterAgain, EnterAuxiliary, EverySynchronized, SaveReturns, SwitchIn, PowerOK,
     HostAt, Place, Idle, objects
<1>8. CASE Eject
  <2>1. PICK c \in Chip : Destroy(c)
    BY <1>8 DEF Eject
  <2>2. /\ ~powered /\ host.at = "idle" /\ UNCHANGED <<host, powered>>
    BY <1>8 DEF Eject, HostAt
  <2> QED
    BY <2>2 DEF PowerOK
<1>9. ASSUME NEW t \in Pluggable, PlugIn(t)
      PROVE  PowerOK'
  <2>1. /\ t \in Thread /\ t \notin Core /\ Create(t) /\ UNCHANGED powered /\ host.at = "idle"
    BY <1>9 DEF PlugIn, HostAt, HostAssumption, Core
  <2>2. PICK list \in {<<>>} \cup {<<old>> : old \in Plugged} : host' = Place("plug", list, 0)
    BY <1>9 DEF PlugIn
  <2>3. Elems(list) \subseteq Pluggable
    BY <2>2 DEF Elems, Plugged
  <2>4. \A s \in Core : handle'[s] = handle[s]
    BY <1>0, <2>1 DEF Create, TypeOK, Core
  <2> QED
    BY <2>1, <2>2, <2>3, <2>4 DEF PowerOK, Place
<1>10. ASSUME NEW t \in Pluggable, PlugGamepad(t)
       PROVE  PowerOK'
  <2>1. UNCHANGED <<handle, powered>> /\ host' = Place("plug", <<t>>, 0) /\ host.at = "idle"
    BY <1>10 DEF PlugGamepad, HostAt, objects
  <2>2. Elems(<<t>>) \subseteq Pluggable
    BY DEF Elems
  <2> QED
    BY <2>1, <2>2 DEF PowerOK, Place
<1>11. CASE DeleteOld
  <2>1. host' = Idle /\ UNCHANGED powered /\ host.at = "plug"
    BY <1>11 DEF DeleteOld, HostAt
  <2>2. \A s \in Core : handle'[s] = handle[s]
    <3>1. CASE host.list = <<>>
      BY <1>11, <3>1 DEF DeleteOld, objects
    <3>2. CASE host.list # <<>>
      <4>1. Head(host.list) \in Pluggable
        BY <1>0, <2>1, <3>2, HeadTailElems DEF PowerOK, HostState
      <4>2. Destroy(Head(host.list)) /\ Head(host.list) \notin Core
        BY <1>11, <3>2, <4>1 DEF DeleteOld, Core
      <4> QED
        BY <1>0, <4>2 DEF Destroy, TypeOK, Core
    <3> QED
      BY <3>1, <3>2
  <2> QED
    BY <2>1, <2>2 DEF PowerOK, Idle, Place
<1> QED
  BY <1>2, <1>3, <1>4, <1>5, <1>6, <1>7, <1>8, <1>9, <1>10, <1>11 DEF HostStep

LEMMA ThreadStepPower ==
  ASSUME ConstantsAssumption, Ready, PowerOK, ThreadStep
  PROVE  PowerOK'
BY ThreadStepLives DEF PowerOK, Core

-----------------------------------------------------------------------------
(***************************************************************************)
(* Every coroutine runs its own thread                                     *)
(***************************************************************************)
EntriesOwned == \A k \in DOMAIN entryPoints : handle[entryPoints[k].owner] = entryPoints[k].handle

\* A pending entry point is of the thread that has its coroutine, if any has: the
\* entries a renewed thread leaves behind are of no one else's coroutine.
EntriesApart ==
  /\ \A k \in DOMAIN entryPoints : \A v \in Thread :
       handle[v] = entryPoints[k].handle => v = entryPoints[k].owner
  /\ \A k \in DOMAIN entryPoints :
       handle[entryPoints[k].owner] = entryPoints[k].handle \/ entryPoints[k].owner \in Renewed
  /\ Renewed # {} => (\A t \in Core : handle[t] \in Handle) \/ EntriesOwned

\* Coroutines that were not deleted are somebody's.
CellsLive == \A h \in Handle : stack[h].at # "freed" => \E v \in Thread : handle[v] = h

\* What is about to be deleted has entered already.
DeletedEntered ==
  host.at = "plug" =>
    \A k \in DOMAIN entryPoints : \A v \in Elems(host.list) : entryPoints[k].handle # handle[v]

OwnInv == EntriesApart /\ CellsLive /\ DeletedEntered /\ RunsOwnEntry

LEMMA EntryTypes ==
  ASSUME TypeOK, NEW k \in DOMAIN entryPoints
  PROVE  entryPoints[k].handle \in Handle /\ entryPoints[k].owner \in Thread
<1>1. entryPoints[k] \in EntryPoint
  BY ElementOfSeq, LenProperties DEF TypeOK
<1> QED
  BY <1>1 DEF EntryPoint

LEMMA RegisteredEntries ==
  ASSUME TypeOK, NEW h \in Handle, NEW t \in Thread, entryPoints' = Registered(h, t)
  PROVE  \A k \in DOMAIN entryPoints' :
           \/ k \in DOMAIN entryPoints /\ entryPoints'[k] = entryPoints[k]
           \/ entryPoints'[k].handle = h /\ entryPoints'[k].owner = t
<1> DEFINE n == Len(entryPoints)
<1>1. /\ n \in Nat /\ DOMAIN entryPoints = 1 .. n /\ DOMAIN entryPoints' = 1 .. n + 1
      /\ \A k \in 1 .. n : entryPoints'[k] = entryPoints[k]
      /\ entryPoints'[n + 1].handle = h /\ entryPoints'[n + 1].owner = t
  BY AppendProperties, LenProperties DEF Registered, TypeOK
<1> HIDE DEF n
<1>2. \A k \in 1 .. n + 1 : k \in 1 .. n \/ k = n + 1
  BY <1>1
<1> QED
  BY <1>1, <1>2

\* The entry points that stay are those that were pending.
LEMMA FewerEntries ==
  ASSUME TypeOK, NEW i \in DOMAIN entryPoints, entryPoints' = DropAt(entryPoints, i)
  PROVE  \A k \in DOMAIN entryPoints' :
           \E j \in DOMAIN entryPoints : entryPoints'[k] = entryPoints[j]
<1>1. /\ DOMAIN entryPoints' = 1 .. Len(entryPoints) - 1
      /\ \A j \in 1 .. Len(entryPoints) - 1 :
           entryPoints'[j] = IF j < i THEN entryPoints[j] ELSE entryPoints[j + 1]
      /\ DOMAIN entryPoints = 1 .. Len(entryPoints) /\ Len(entryPoints) \in Nat
  BY DropAtFacts, LenProperties DEF TypeOK
<1> QED
  BY <1>1

\* Only a running system renews threads, and it has all its own.
LEMMA RunningCore ==
  ASSUME ConstantsAssumption, Ready, PowerOK, active \in Handle
  PROVE  \A t \in Core : handle[t] \in Handle
<1>1. host.at \in {"run", "primary", "auxiliary"}
  BY DEF Ready, TypeOK, HostTurn, HostState, HostPlaces, ConstantsAssumption
<1> QED
  BY <1>1 DEF PowerOK

LEMMA ThreadStepOwn ==
  ASSUME ConstantsAssumption, RestartAssumption, RenewsAlone, Ready, Owners, PowerOK, OwnInv,
         ThreadStep
  PROVE  OwnInv'
<1>0. TypeOK /\ ListOK /\ HostTurn /\ stack \in [Handle -> GoodCell]
  BY DEF Ready
<1>1. /\ active \in Handle /\ UNCHANGED <<host, powered>>
      /\ \A t \in Core : handle'[t] \in Handle
  <2>1. active \in Handle
    BY WhoExits
  <2> QED
    BY <2>1, ThreadStepLives, RunningCore DEF Core
<1>2. DeletedEntered'
  BY <1>0, <1>1 DEF DeletedEntered, HostTurn, ConstantsAssumption
<1>3. CASE Enter
  <2>1. /\ stack[active].at = "entry" /\ UNCHANGED handle
        /\ \A h \in Handle \ {active} : stack'[h] = stack[h]
    BY <1>0, <1>1, <1>3 DEF Enter, objects
  <2>2. CASE Mine = {}
    <3>1. /\ UNCHANGED entryPoints
          /\ stack'[active].at = "threw"
      BY <1>0, <1>1, <1>3, <2>2 DEF Enter, GoodCell, Continuation
    <3> QED
      BY <1>2, <2>1, <3>1 DEF OwnInv, EntriesApart, EntriesOwned, CellsLive, RunsOwnEntry
  <2>3. CASE Mine # {}
    <3>1. PICK i \in Mine :
            /\ stack' = [stack EXCEPT ![active] = Running(entryPoints[i].owner, <<>>)]
            /\ entryPoints' = DropAt(entryPoints, i)
      BY <1>3, <2>3 DEF Enter, PendingAfter
    <3>2. i \in DOMAIN entryPoints /\ entryPoints[i].handle = active
      BY <3>1 DEF Mine
    <3>3. handle[entryPoints[i].owner] = active
      BY <1>1, <2>1, <3>2 DEF OwnInv, EntriesApart, CellsLive
    <3>4. \A k \in DOMAIN entryPoints' :
            \E j \in DOMAIN entryPoints : entryPoints'[k] = entryPoints[j]
      BY <1>0, <3>1, <3>2, FewerEntries
    <3>5. EntriesApart'
      BY <2>1, <3>4 DEF OwnInv, EntriesApart, EntriesOwned
    <3>6. stack'[active].at = "top" /\ stack'[active].owner = entryPoints[i].owner
      BY <1>0, <1>1, <3>1 DEF Running
    <3>7. CellsLive' /\ RunsOwnEntry'
      BY <1>1, <2>1, <3>3, <3>6 DEF OwnInv, CellsLive, RunsOwnEntry
    <3> QED
      BY <1>2, <3>5, <3>7 DEF OwnInv
  <2> QED
    BY <2>2, <2>3
<1>4. CASE ~Enter /\ ~RestartThread /\ ~RenewThread
  <2>1. /\ UNCHANGED <<handle, entryPoints>>
        /\ \A h \in Handle \ {active} : stack'[h] = stack[h]
        /\ stack'[active].owner = stack[active].owner
        /\ stack[active].at \in {"top", "start", "main"}
    BY <1>0, <1>4, ActiveMoves
  <2> QED
    BY <1>1, <1>2, <2>1 DEF OwnInv, EntriesApart, EntriesOwned, CellsLive, RunsOwnEntry
<1>5. /\ \A h \in Handle : Continue(Tail(Todo))[h].owner = stack[h].owner
      /\ \A h \in Handle \ {active} : Continue(Tail(Todo))[h] = stack[h]
  BY <1>0 DEF Continue, Running, Self
<1>6. CASE RestartThread
  <2> DEFINE u == Head(Todo).peer
  <2>1. /\ u \in Scheduled /\ UNCHANGED handle /\ stack[active].at = "main"
        /\ stack' = [Continue(Tail(Todo)) EXCEPT ![handle[u]] = Derived]
        /\ entryPoints' = Registered(handle[u], u)
    BY <1>6 DEF RestartThread, At, objects
  <2>2. u \in Thread /\ handle[u] \in Handle
    BY <1>0, <2>1, ScheduledThreads DEF ListOK
  <2>3. \A k \in DOMAIN entryPoints' :
          \/ k \in DOMAIN entryPoints /\ entryPoints'[k] = entryPoints[k]
          \/ entryPoints'[k].handle = handle[u] /\ entryPoints'[k].owner = u
    BY <1>0, <2>1, <2>2, RegisteredEntries
  <2>4. stack'[handle[u]].at = "entry"
    BY <1>0, <2>1, <2>2 DEF Continue, Derived
  <2>5. \A h \in Handle \ {handle[u]} :
          stack'[h].owner = stack[h].owner /\ (h # active => stack'[h] = stack[h])
    BY <1>5, <2>1
  <2> HIDE DEF u
  <2>6. EntriesApart'
    BY <2>1, <2>2, <2>3 DEF OwnInv, EntriesApart, EntriesOwned, Owners, Apart
  <2>7. CellsLive' /\ RunsOwnEntry'
    BY <1>1, <2>1, <2>2, <2>4, <2>5 DEF OwnInv, CellsLive, RunsOwnEntry
  <2> QED
    BY <1>2, <2>6, <2>7 DEF OwnInv
<1>7. CASE RenewThread
  <2> DEFINE u == Head(Todo).peer
  <2>1. u \in Scheduled /\ stack[active].at = "main" /\ u # Cpu /\ Self = Cpu /\ u \in Renewed
    BY <1>0, <1>7, CurrentOp DEF RenewThread, At
  <2>2. PICK n \in (Handle \ Live) \cup {handle[u]} :
          /\ handle' = [handle EXCEPT ![u] = n]
          /\ stack' = [Continue(Tail(Todo)) EXCEPT ![handle[u]] = Freed, ![n] = Derived]
          /\ entryPoints' = Registered(n, u)
    BY <1>7 DEF RenewThread
  <2>3. u \in Thread /\ handle[u] \in Handle /\ n \in Handle
    BY <1>0, <2>1, <2>2, ScheduledThreads DEF ListOK
  <2>4. \A k \in DOMAIN entryPoints' :
          \/ k \in DOMAIN entryPoints /\ entryPoints'[k] = entryPoints[k]
          \/ entryPoints'[k].handle = n /\ entryPoints'[k].owner = u
    BY <1>0, <2>2, <2>3, RegisteredEntries
  <2>5. /\ stack'[n].at = "entry"
        /\ n # handle[u] => stack'[handle[u]].at = "freed"
    BY <1>0, <2>2, <2>3 DEF Continue, Derived, Freed
  <2>6. \A h \in Handle \ {n, handle[u]} :
          stack'[h].owner = stack[h].owner /\ (h # active => stack'[h] = stack[h])
    <3>1. \A h \in Handle \ {n, handle[u]} : stack'[h] = Continue(Tail(Todo))[h]
      BY <1>0, <2>2 DEF Continue
    <3> QED
      BY <1>5, <3>1
  <2> HIDE DEF u
  <2>7. \A v \in Thread : handle'[v] = IF v = u THEN n ELSE handle[v]
    BY <1>0, <2>2 DEF TypeOK
  <2>8. \A v \in Thread \ {u} : handle[v] # n /\ handle[v] # handle[u]
    BY <1>0, <2>2, <2>3 DEF Live, Owners, Apart, TypeOK, ConstantsAssumption
  <2>9. \A k \in DOMAIN entryPoints : entryPoints[k].handle = n => entryPoints[k].owner = u
    <3> SUFFICES ASSUME NEW k \in DOMAIN entryPoints, entryPoints[k].handle = n
                 PROVE  entryPoints[k].owner = u
      OBVIOUS
    <3>1. entryPoints[k].owner \in Thread
      BY <1>0, EntryTypes
    <3>2. Renewed = {u}
      BY <2>1 DEF RenewsAlone
    <3> QED
      BY <2>8, <3>1, <3>2 DEF OwnInv, EntriesApart
  <2>10. EntriesApart'
    <3>1. ASSUME NEW k \in DOMAIN entryPoints', NEW v \in Thread,
                 handle'[v] = entryPoints'[k].handle
          PROVE  v = entryPoints'[k].owner
      BY <2>4, <2>7, <2>8, <2>9, <3>1 DEF OwnInv, EntriesApart
    <3>2. ASSUME NEW k \in DOMAIN entryPoints'
          PROVE  \/ handle'[entryPoints'[k].owner] = entryPoints'[k].handle
                 \/ entryPoints'[k].owner \in Renewed
      <4>1. CASE k \in DOMAIN entryPoints /\ entryPoints'[k] = entryPoints[k]
        <5>1. entryPoints[k].owner \in Thread
          BY <1>0, <4>1, EntryTypes
        <5> QED
          BY <2>1, <2>7, <4>1, <5>1 DEF OwnInv, EntriesApart
      <4>2. CASE entryPoints'[k].owner = u
        BY <2>1, <4>2
      <4> QED
        BY <2>4, <4>1, <4>2
    <3> QED
      BY <1>1, <3>1, <3>2 DEF EntriesApart
  <2>11. CellsLive' /\ RunsOwnEntry'
    <3>1. ASSUME NEW h \in Handle \ {n, handle[u]}
          PROVE  /\ stack'[h].at # "freed" => \E v \in Thread : handle'[v] = h
                 /\ stack'[h].at \in {"top", "start", "main"} => handle'[stack'[h].owner] = h
      <4>1. h = active \/ stack'[h] = stack[h]
        BY <2>6
      <4>2. stack[h].at # "freed" => \E v \in Thread \ {u} : handle[v] = h
        BY DEF OwnInv, CellsLive
      <4>3. stack[h].at \in {"top", "start", "main"} =>
              handle[stack[h].owner] = h /\ stack[h].owner \in Thread \ {u}
        BY <1>0 DEF OwnInv, RunsOwnEntry, GoodCell
      <4> QED
        BY <2>1, <2>6, <2>7, <4>1, <4>2, <4>3
    <3> QED
      BY <2>3, <2>5, <2>7, <3>1 DEF CellsLive, RunsOwnEntry
  <2> QED
    BY <1>2, <2>10, <2>11 DEF OwnInv
<1> QED
  BY <1>3, <1>4, <1>6, <1>7

LEMMA CreateOwn ==
  ASSUME ConstantsAssumption, RenewsAlone, Ready, Owners, OwnInv, NEW t \in Thread, Create(t),
         FixedBoard => t \in Core
  PROVE  /\ EntriesApart' /\ CellsLive' /\ RunsOwnEntry'
         /\ \A v \in Thread : handle[v] \in Handle => handle'[v] = handle[v]
         /\ handle[t] = Null =>
              \A k \in DOMAIN entryPoints', v \in Thread :
                 handle[v] \in Handle /\ entryPoints'[k].handle = handle[v] =>
                   k \in DOMAIN entryPoints /\ entryPoints'[k] = entryPoints[k]
<1>0. TypeOK /\ stack \in [Handle -> GoodCell] /\ Null \notin Handle
  BY DEF Ready, ConstantsAssumption
<1>1. PICK n \in AddressFor(t) :
        /\ handle' = [handle EXCEPT ![t] = n]
        /\ stack' = [stack EXCEPT ![n] = Derived]
        /\ entryPoints' = Registered(n, t)
  BY DEF Create
<1>2. /\ n \in Handle /\ handle[t] \in {Null, n}
      /\ \A v \in Thread \ {t} : handle[v] # n
  BY <1>0 DEF AddressFor, Live, TypeOK, Owners, Apart
<1>3. \A k \in DOMAIN entryPoints' :
        \/ k \in DOMAIN entryPoints /\ entryPoints'[k] = entryPoints[k]
        \/ entryPoints'[k].handle = n /\ entryPoints'[k].owner = t
  BY <1>0, <1>1, <1>2, RegisteredEntries
<1>4. \A v \in Thread : handle'[v] = IF v = t THEN n ELSE handle[v]
  BY <1>0, <1>1 DEF TypeOK
<1>5. /\ stack'[n].at = "entry"
      /\ \A h \in Handle \ {n} : stack'[h] = stack[h]
  BY <1>0, <1>1, <1>2 DEF Derived
<1>6. CellsLive' /\ RunsOwnEntry'
  <2>1. \A h \in Handle \ {n}, v \in Thread : handle[v] = h => v # t \/ n = h
    BY <1>0, <1>2
  <2>2. ASSUME NEW h \in Handle \ {n}, stack[h].at \in {"top", "start", "main"}
        PROVE  handle'[stack[h].owner] = h
    <3>1. stack[h].owner \in Thread /\ handle[stack[h].owner] = h
      BY <1>0, <2>2 DEF GoodCell, OwnInv, RunsOwnEntry
    <3> QED
      BY <1>0, <1>2, <1>4, <3>1
  <2> QED
    BY <1>0, <1>2, <1>4, <1>5, <2>1, <2>2 DEF OwnInv, CellsLive, RunsOwnEntry
<1>7. \A k \in DOMAIN entryPoints :
        entryPoints[k].handle \in Handle /\ entryPoints[k].owner \in Thread
  BY <1>0, EntryTypes
<1>8. ASSUME NEW k \in DOMAIN entryPoints, entryPoints[k].handle = n
      PROVE  entryPoints[k].owner = t
  <2>1. CASE handle[t] = n
    BY <1>8, <2>1 DEF OwnInv, EntriesApart
  <2>2. CASE handle[t] = Null
    <3>1. handle[entryPoints[k].owner] = n => entryPoints[k].owner = t
      BY <1>2, <1>7
    <3>2. SUFFICES ASSUME handle[entryPoints[k].owner] # n
                   PROVE  FALSE
      BY <3>1
    <3>3. Renewed # {} /\ ~EntriesOwned
      BY <1>8, <3>2 DEF OwnInv, EntriesApart, EntriesOwned
    <3>4. t \in Core /\ handle[t] \in Handle
      BY <3>3 DEF OwnInv, EntriesApart, RenewsAlone
    <3> QED
      BY <1>0, <2>2, <3>4
  <2> QED
    BY <1>2, <2>1, <2>2
<1>9. ASSUME NEW k \in DOMAIN entryPoints', NEW v \in Thread, handle'[v] = entryPoints'[k].handle
      PROVE  v = entryPoints'[k].owner
  <2>1. CASE entryPoints'[k].handle = n
    BY <1>2, <1>3, <1>4, <1>8, <1>9, <2>1
  <2>2. CASE entryPoints'[k].handle # n
    BY <1>3, <1>4, <1>9, <2>2 DEF OwnInv, EntriesApart
  <2> QED
    BY <2>1, <2>2
<1>10. ASSUME NEW k \in DOMAIN entryPoints
       PROVE  handle[entryPoints[k].owner] = entryPoints[k].handle
                => handle'[entryPoints[k].owner] = entryPoints[k].handle
  BY <1>0, <1>2, <1>4, <1>7
<1>11. EntriesApart'
  <2>1. ASSUME NEW k \in DOMAIN entryPoints'
        PROVE  \/ handle'[entryPoints'[k].owner] = entryPoints'[k].handle
               \/ entryPoints'[k].owner \in Renewed
    BY <1>3, <1>4, <1>10 DEF OwnInv, EntriesApart
  <2>2. EntriesOwned => EntriesOwned'
    BY <1>3, <1>4, <1>10 DEF EntriesOwned
  <2>3. (\A s \in Core : handle[s] \in Handle) => (\A s \in Core : handle'[s] \in Handle)
    BY <1>2, <1>4 DEF Core
  <2> QED
    BY <1>9, <2>1, <2>2, <2>3 DEF EntriesApart, OwnInv
<1>12. \A v \in Thread : handle[v] \in Handle => handle'[v] = handle[v]
  BY <1>0, <1>2, <1>4
<1>13. ASSUME handle[t] = Null, NEW k \in DOMAIN entryPoints', NEW v \in Thread,
              handle[v] \in Handle, entryPoints'[k].handle = handle[v]
       PROVE  k \in DOMAIN entryPoints /\ entryPoints'[k] = entryPoints[k]
  BY <1>0, <1>2, <1>3, <1>13
<1> QED
  BY <1>6, <1>11, <1>12, <1>13

LEMMA DestroyOwn ==
  ASSUME ConstantsAssumption, RenewsAlone, Ready, Owners, OwnInv, NEW t \in Chip \cup Pluggable,
         t \in Thread, Destroy(t),
         \A k \in DOMAIN entryPoints : entryPoints[k].handle # handle[t]
  PROVE  EntriesApart' /\ CellsLive' /\ RunsOwnEntry'
<1>0. TypeOK /\ stack \in [Handle -> GoodCell] /\ Null \notin Handle
  BY DEF Ready, ConstantsAssumption
<1>1. /\ \A v \in Thread : handle'[v] = IF v = t THEN Null ELSE handle[v]
      /\ stack' = [stack EXCEPT ![handle[t]] = Freed] /\ UNCHANGED entryPoints
  BY <1>0 DEF Destroy, TypeOK
<1>2. \A k \in DOMAIN entryPoints :
        entryPoints[k].handle \in Handle /\ entryPoints[k].owner \in Thread
  BY <1>0, EntryTypes
<1>3. Renewed = {}
  BY DEF RenewsAlone, FixedBoard
<1>4. EntriesApart'
  BY <1>0, <1>1, <1>2, <1>3 DEF OwnInv, EntriesApart
<1>5. \A h \in Handle \ {handle[t]} : stack'[h] = stack[h]
  BY <1>0, <1>1
<1>6. handle[t] \in Handle => stack'[handle[t]].at = "freed"
  BY <1>0, <1>1 DEF Freed
<1>7. ASSUME NEW h \in Handle, h # handle[t]
      PROVE  /\ stack'[h].at # "freed" => \E v \in Thread : handle'[v] = h
             /\ stack'[h].at \in {"top", "start", "main"} => handle'[stack'[h].owner] = h
  <2>1. stack[h].at \in {"top", "start", "main"} => stack[h].owner \in Thread
    BY <1>0 DEF GoodCell
  <2> QED
    BY <1>1, <1>5, <1>7, <2>1 DEF OwnInv, CellsLive, RunsOwnEntry
<1> QED
  BY <1>4, <1>6, <1>7 DEF CellsLive, RunsOwnEntry

LEMMA HostStepOwn ==
  ASSUME ConstantsAssumption, HostAssumption, Settled, RenewsAlone, Ready, Owners, PowerOK,
         OwnInv, HostStep
  PROVE  OwnInv'
<1>0. TypeOK /\ host \in HostState /\ Null \notin Handle
  BY DEF Ready, TypeOK, ConstantsAssumption
<1>1. CASE UNCHANGED <<handle, threads, uid, entryPoints, stack>>
  <2>1. EntriesApart' /\ CellsLive' /\ RunsOwnEntry'
    BY <1>1 DEF OwnInv, EntriesApart, EntriesOwned, CellsLive, RunsOwnEntry
  <2>2. DeletedEntered'
    <3>1. SUFFICES ASSUME host'.at = "plug"
                   PROVE  DeletedEntered'
      BY DEF DeletedEntered
    <3>2. CASE \E t \in Pluggable : PlugGamepad(t)
      <4>1. PICK t \in Pluggable : Removable(t) /\ host'.list = <<t>>
        BY <3>2 DEF PlugGamepad, Place
      <4>2. Elems(<<t>>) = {t}
        BY DEF Elems
      <4> QED
        BY <1>1, <4>1, <4>2 DEF DeletedEntered, Removable
    <3>3. CASE \E t \in Pluggable : PlugIn(t)
      BY <1>0, <1>1, <3>3 DEF PlugIn, Create, Plugged, AddressFor, TypeOK, HostAssumption
    <3>4. CASE ~\E t \in Pluggable : PlugIn(t) \/ PlugGamepad(t)
      BY <1>0, <3>1, <3>4 DEF HostStep, PowerOn, CreateThread, Power, PowerScheduler, PowerOff,
         Run, RunReturns, SaveState, EnterAgain, EnterAuxiliary, EverySynchronized, SaveReturns,
         Eject, DeleteOld, HostAt, Place, Idle, HostState
    <3> QED
      BY <3>2, <3>3, <3>4
  <2> QED
    BY <2>1, <2>2 DEF OwnInv
<1>2. CASE CreateThread /\ Head(host.list) \in Thread /\ Create(Head(host.list))
  <2>1. host.at = "power" /\ host.list # <<>> /\ host'.at = "power"
    BY <1>0, <1>2 DEF CreateThread, HostAt, HostState
  <2>2. Head(host.list) \in Elems(host.list)
    BY <1>0, <2>1, HeadTailElems DEF HostState
  <2>3. FixedBoard => Head(host.list) \in Core
    BY <2>1, <2>2 DEF PowerOK, FixedBoard
  <2> QED
    BY <1>2, <2>1, <2>3, CreateOwn DEF OwnInv, DeletedEntered
<1>3. ASSUME NEW t \in Pluggable, PlugIn(t), Create(t)
      PROVE  OwnInv'
  <2>1. t \in Thread /\ ~FixedBoard /\ handle[t] = Null
    BY <1>3 DEF HostAssumption, FixedBoard, PlugIn, Plugged
  <2>2. PICK list \in {<<>>} \cup {<<old>> : old \in Plugged} : host' = Place("plug", list, 0)
    BY <1>3 DEF PlugIn
  <2>3. \A v \in Elems(list) : v \in Plugged
    BY <2>2 DEF Elems
  <2>4. \A v \in Plugged : /\ v \in Thread /\ handle[v] \in Handle
                           /\ \A k \in DOMAIN entryPoints : entryPoints[k].handle # handle[v]
    BY <1>0, <1>3 DEF PlugIn, Removable, Plugged, HostAssumption, TypeOK
  <2>5. DeletedEntered'
    <3> SUFFICES ASSUME NEW k \in DOMAIN entryPoints', NEW v \in Elems(list),
                        entryPoints'[k].handle = handle'[v]
                 PROVE  FALSE
      BY <2>2 DEF DeletedEntered, Place
    <3>1. handle'[v] = handle[v]
      BY <1>3, <2>1, <2>3, <2>4, CreateOwn
    <3> QED
      BY <1>3, <2>1, <2>3, <2>4, <3>1, CreateOwn
  <2> QED
    BY <1>3, <2>1, <2>5, CreateOwn DEF OwnInv
<1>4. CASE Eject
  <2>1. PICK t \in Chip : Removable(t) /\ Destroy(t)
    BY <1>4 DEF Eject
  <2>2. host'.at # "plug" /\ t \in Thread
    BY <1>4 DEF Eject, HostAt, HostAssumption, Idle, Place
  <2> QED
    BY <2>1, <2>2, DestroyOwn DEF Removable, OwnInv, DeletedEntered
<1>5. CASE DeleteOld /\ host.list # <<>> /\ Head(host.list) \in Thread /\ Destroy(Head(host.list))
  <2>1. host.at = "plug" /\ host'.at # "plug"
    BY <1>5 DEF DeleteOld, HostAt, Idle, Place
  <2>2. Head(host.list) \in Elems(host.list)
    BY <1>0, <1>5, HeadTailElems DEF HostState
  <2>3. /\ Head(host.list) \in Pluggable
        /\ \A k \in DOMAIN entryPoints : entryPoints[k].handle # handle[Head(host.list)]
    BY <2>1, <2>2 DEF PowerOK, OwnInv, DeletedEntered
  <2> QED
    BY <1>5, <2>1, <2>3, DestroyOwn DEF OwnInv, DeletedEntered
<1> QED
  BY <1>1, <1>2, <1>3, <1>4, <1>5, HostStepKinds

-----------------------------------------------------------------------------
LEMMA InitOwn ==
  ASSUME ConstantsAssumption, Init
  PROVE  PowerOK /\ OwnInv
BY DEF Init, PowerOK, OwnInv, EntriesApart, EntriesOwned, CellsLive, DeletedEntered,
   RunsOwnEntry, Freed, Idle, Place

LEMMA StutterOwn ==
  ASSUME PowerOK, OwnInv, UNCHANGED vars
  PROVE  PowerOK' /\ OwnInv'
BY DEF vars, PowerOK, OwnInv, EntriesApart, EntriesOwned, CellsLive, DeletedEntered, RunsOwnEntry

\* The invariant of the threads' coroutines.
LifeInv == SaveInv /\ PowerOK /\ OwnInv

THEOREM AlwaysLife ==
  ASSUME Settled, RenewsAlone
  PROVE  Spec => []LifeInv
<1>1. Init => LifeInv
  BY ConstantsAssumption, InitSaveInv, InitOwn DEF LifeInv
<1>2. LifeInv /\ [Next]_vars => LifeInv'
  <2> SUFFICES ASSUME LifeInv, [Next]_vars
               PROVE  LifeInv'
    OBVIOUS
  <2>0. SaveInv /\ Ready /\ Owners /\ Saving /\ PowerOK /\ OwnInv
    BY DEF LifeInv, SaveInv
  <2>1. CASE ThreadStep
    BY <2>0, <2>1, ConstantsAssumption, RestartAssumption, ThreadStepReady, ThreadStepOwners,
       ThreadStepSaving, ThreadStepPower, ThreadStepOwn DEF SaveInv, LifeInv
  <2>2. CASE HostStep
    BY <2>0, <2>2, ConstantsAssumption, HostAssumption, HostStepReady, HostStepOwners,
       HostStepSaving, HostStepPower, HostStepOwn DEF SaveInv, LifeInv
  <2>3. CASE UNCHANGED vars
    BY <2>0, <2>3, StutterSaveInv, StutterOwn DEF LifeInv
  <2> QED
    BY <2>1, <2>2, <2>3 DEF Next
<1> QED
  BY <1>1, <1>2, PTL DEF Spec

\* A coroutine runs the entry point of the thread that owns it, if only threads that
\* have entered are removed, and only a board without exchangeable parts renews a thread:
\* else an entry point left behind by one thread is found by the next at its address.
THEOREM OwnEntriesRun ==
  ASSUME Settled, RenewsAlone
  PROVE  Spec => []RunsOwnEntry
<1>1. LifeInv => RunsOwnEntry
  BY DEF LifeInv, OwnInv
<1> QED
  BY <1>1, AlwaysLife, PTL

-----------------------------------------------------------------------------
(***************************************************************************)
(* Only living threads are switched to                                     *)
(***************************************************************************)
\* Nothing is being saved: a thread that is entered runs.
OnlyRuns == mode = "Run" /\ host.at \notin {"primary", "auxiliary", "saved"}

\* The thread to be resumed is none that can be exchanged while the power is on.
ResumesLasting ==
  active = Host /\ powered /\ host.at # "power" =>
    resume \in Handle /\ \E t \in Thread \ Pluggable : handle[t] = resume

\* What is left of the entry points; the CPU may stand before a thread it found listed.
TodosFit ==
  \A h \in Handle : \A k \in DOMAIN stack[h].todo :
    \/ DeviceCall(stack[h].owner, stack[h].todo[k])
    \/ k = 1 /\ stack[h].owner = Cpu /\ stack[h].todo[k].do = "sync"

CpuSyncs(u) ==
  /\ handle[Cpu] \in Handle
  /\ stack[handle[Cpu]].at = "main"
  /\ Head(stack[handle[Cpu]].todo).do = "sync"
  /\ Head(stack[handle[Cpu]].todo).peer = u

\* While the CPU synchronizes a device, these two run and no frame ends.
CpuAlone == \A u \in Pluggable : CpuSyncs(u) => active \in {handle[Cpu], handle[u]}

\* What the CPU synchronizes is there while the power is on; power() begins the CPU anew
\* before a chip or a device that it was synchronizing can be missing.
CpuFindsLiving ==
  /\ powered /\ host.at # "power" => \A u \in Thread : CpuSyncs(u) => handle[u] \in Handle
  /\ host.at = "power" =>
       \/ Cpu \in Elems(host.list)
       \/ handle[Cpu] \in Handle /\ stack[handle[Cpu]].at = "entry"

Fits == TodosFit /\ CpuFindsLiving /\ SwitchesToLive

\* Of a system whose devices are exchanged at any time, and whose states are not saved.
DeviceInv == Fits /\ OnlyRuns /\ ResumesLasting /\ CpuAlone

\* Of one whose devices are exchanged while the power is off.
PlugsOff == host.at = "plug" => ~powered
ResumesLiving == active = Host /\ powered /\ host.at # "power" => resume \in Live
OffInv == Fits /\ PlugsOff /\ ResumesLiving

\* What a step leaves on the stacks: calls of the programs, or a thread that is listed.
LEMMA ThreadStepTodos ==
  ASSUME ConstantsAssumption, RestartAssumption, DevicePrograms, LifeInv, TodosFit,
         ThreadStep, ~SwitchTo
  PROVE  /\ \A h \in Handle \ {active} : stack'[h] = stack[h] \/ stack'[h].todo = <<>>
         /\ \A k \in DOMAIN stack'[active].todo :
              \/ DeviceCall(stack'[active].owner, stack'[active].todo[k])
              \/ /\ k = 1 /\ stack'[active].owner = Cpu
                 /\ stack'[active].todo[1].do = "sync"
                 /\ stack[active].at = "main" /\ Self = Cpu
                 /\ handle[stack'[active].todo[1].peer] # Null
<1>0. /\ TypeOK /\ ListOK /\ stack \in [Handle -> GoodCell] /\ active \in Handle
      /\ stack[active] \in Continuation /\ Apart /\ RunsOwnEntry
  BY WhoExits DEF LifeInv, SaveInv, OwnInv, Owners, Ready, GoodCell
<1> DEFINE Good(todo) == \A k \in DOMAIN todo : DeviceCall(Self, todo[k])
<1>1. ASSUME NEW call, At(call)
      PROVE  /\ Self \in Thread /\ Tail(Todo) \in Seq(Op) /\ Good(Tail(Todo))
             /\ Head(Todo) \in Op
             /\ Head(Todo).do # "sync" => DeviceCall(Self, Head(Todo))
  <2>1. Todo \in Seq(Op) /\ Todo # <<>>
    BY <1>0, <1>1 DEF At, GoodCell, Continuation, Todo
  <2>2. /\ Head(Todo) = Todo[1] /\ 1 \in DOMAIN Todo
        /\ \A k \in DOMAIN Tail(Todo) :
             k + 1 \in DOMAIN Todo /\ Tail(Todo)[k] = Todo[k + 1] /\ k + 1 # 1
    BY <2>1
  <2>3. \A k \in DOMAIN Todo : DeviceCall(Self, Todo[k]) \/ (k = 1 /\ Todo[k].do = "sync")
    BY <1>0 DEF TodosFit, Self, Todo
  <2> QED
    BY <1>0, <1>1, <2>2, <2>3, CurrentOp
<1>2. ASSUME NEW call, At(call), NEW pre \in Seq(Op), Good(pre)
      PROVE  Good(pre \o Tail(Todo))
  <2> DEFINE rest == Tail(Todo)
  <2>1. rest \in Seq(Op) /\ Good(rest)
    BY <1>1, <1>2
  <2> HIDE DEF rest
  <2>2. /\ DOMAIN (pre \o rest) = 1 .. Len(pre) + Len(rest)
        /\ Len(pre) \in Nat /\ Len(rest) \in Nat
        /\ DOMAIN pre = 1 .. Len(pre) /\ DOMAIN rest = 1 .. Len(rest)
        /\ \A k \in 1 .. Len(pre) + Len(rest) :
             (pre \o rest)[k] = IF k <= Len(pre) THEN pre[k] ELSE rest[k - Len(pre)]
    BY <2>1, ConcatProperties, LenProperties
  <2>3. ASSUME NEW k \in 1 .. Len(pre) + Len(rest)
        PROVE  DeviceCall(Self, (pre \o rest)[k])
    <3>1. CASE k <= Len(pre)
      BY <1>2, <2>2, <3>1
    <3>2. CASE ~(k <= Len(pre))
      BY <2>1, <2>2, <3>2
    <3> QED
      BY <3>1, <3>2
  <2> QED
    BY <2>2, <2>3 DEF rest
<1> HIDE DEF Good
<1>3. ASSUME NEW rest, stack' = [stack EXCEPT ![active] = Running(Self, rest)]
      PROVE  /\ \A h \in Handle \ {active} : stack'[h] = stack[h]
             /\ stack'[active].todo = rest /\ stack'[active].owner = Self
  BY <1>0, <1>3 DEF Running
<1>4. ASSUME NEW rest, Good(rest), stack' = [stack EXCEPT ![active] = Running(Self, rest)]
      PROVE  /\ \A h \in Handle \ {active} : stack'[h] = stack[h]
             /\ \A k \in DOMAIN stack'[active].todo :
                  DeviceCall(stack'[active].owner, stack'[active].todo[k])
  <2>1. /\ \A h \in Handle \ {active} : stack'[h] = stack[h]
        /\ stack'[active].todo = rest /\ stack'[active].owner = Self
    BY <1>3, <1>4
  <2>2. \A k \in DOMAIN rest : DeviceCall(Self, rest[k])
    BY <1>4 DEF Good
  <2> QED
    BY <2>1, <2>2
<1>5. CASE Enter
  <2>1. CASE Mine = {}
    <3>1. stack' = [stack EXCEPT ![active].at = "threw"] /\ stack[active].at = "entry"
      BY <1>5, <2>1 DEF Enter
    <3>2. stack[active].todo = <<>>
      BY <1>0, <3>1 DEF GoodCell
    <3> QED
      BY <1>0, <3>1, <3>2 DEF Continuation
  <2>2. CASE Mine # {}
    <3>1. PICK i \in Mine : stack' = [stack EXCEPT ![active] = Running(entryPoints[i].owner, <<>>)]
      BY <1>5, <2>2 DEF Enter
    <3> QED
      BY <1>0, <3>1 DEF Running
  <2> QED
    BY <2>1, <2>2
<1>6. CASE Park \/ PassSafePoint
  <2>1. stack' = [stack EXCEPT ![active] = [stack[active] EXCEPT !.at = "start"]]
    BY <1>6 DEF Park, PassSafePoint, Exit
  <2>2. /\ \A h \in Handle \ {active} : stack'[h] = stack[h]
        /\ stack'[active].owner = stack[active].owner
        /\ stack'[active].todo = <<>>
    BY <1>0, <1>6, <2>1 DEF Continuation, GoodCell, Park, PassSafePoint
  <2> QED
    BY <2>2
<1>7. CASE CallEntryPoint
  <2>1. PICK p \in Program[Self] : stack' = [stack EXCEPT ![active] = Running(Self, p)]
    BY <1>7 DEF CallEntryPoint
  <2>2. Self \in Thread
    BY <1>0, <1>7 DEF CallEntryPoint, GoodCell, Self
  <2>3. Good(p)
    BY <2>1, <2>2 DEF DevicePrograms, Good
  <2> QED
    BY <1>4, <2>1, <2>3
<1>8. CASE Step \/ Synchronized \/ FlagSet \/ EndFrame
  <2>1. PICK call : At(call) /\ stack' = Continue(Tail(Todo))
    BY <1>8 DEF Step, Synchronized, FlagSet, EndFrame, Exit, Continue
  <2> QED
    BY <1>1, <1>4, <2>1 DEF Continue
<1>9. CASE SynchronizeAll \/ SynchronizeSlot
  BY <1>1, <1>9 DEF SynchronizeAll, SynchronizeSlot, At, DeviceCall
<1>10. CASE SynchronizePeripheral
  <2> DEFINE u == Head(Todo).peer
  <2>1. At("syncAlive") /\ Self = Cpu
    BY <1>1, <1>10 DEF SynchronizePeripheral, At, DeviceCall
  <2>2. CASE stack' = Continue(Tail(Todo))
    BY <1>1, <1>4, <2>1, <2>2 DEF Continue
  <2>3. CASE stack' = Continue(<<SyncWith(u)>> \o Tail(Todo)) /\ handle[u] # Null
    <3> DEFINE rest == Tail(Todo)
               todo == <<SyncWith(u)>> \o rest
    <3>1. rest \in Seq(Op) /\ Good(rest)
      BY <1>1, <2>1
    <3>2. u \in Thread /\ SyncWith(u) \in Op
      BY <1>1, <2>1 DEF At, Op, Call, PeerCall, SyncWith
    <3> HIDE DEF rest
    <3>3. /\ todo[1] = SyncWith(u)
          /\ \A k \in DOMAIN todo : k = 1 \/ (k - 1 \in DOMAIN rest /\ todo[k] = rest[k - 1])
      BY <3>1, <3>2
    <3> HIDE DEF todo, u
    <3>4. /\ \A h \in Handle \ {active} : stack'[h] = stack[h]
          /\ stack'[active].todo = todo /\ stack'[active].owner = Self
      BY <1>3, <2>3 DEF Continue, todo, rest, u
    <3>5. \A k \in DOMAIN todo : k = 1 \/ DeviceCall(Self, todo[k])
      BY <3>1, <3>3 DEF Good
    <3> QED
      BY <2>1, <2>3, <3>3, <3>4, <3>5 DEF SyncWith, At
  <2> QED
    BY <1>10, <2>2, <2>3 DEF SynchronizePeripheral, Listed
<1>11. CASE KeepWaiting
  <2> DEFINE w == Head(Todo)
             pre == <<StepBy(w.n), SyncWith(w.peer), Recheck(w.n, w.peer)>>
  <2>1. At("wait") /\ stack' = Continue(pre \o Tail(Todo))
    BY <1>11 DEF KeepWaiting
  <2>2. w.peer \in Thread /\ w.n \in Nat /\ w.do = "wait" /\ DeviceCall(Self, w)
    BY <1>1, <2>1 DEF Op, At, Call
  <2>3. pre \in Seq(Op)
    BY <2>2 DEF StepBy, SyncWith, Recheck, Op, Call, PeerCall
  <2>4. Good(pre)
    BY <2>2 DEF StepBy, SyncWith, Recheck, Good, DeviceCall
  <2> HIDE DEF pre
  <2> QED
    BY <1>2, <1>4, <2>1, <2>3, <2>4 DEF Continue
<1>12. CASE StopWaiting
  <2> DEFINE w == Head(Todo)
             pre == <<WaitFor(w.n, w.peer)>>
  <2>1. /\ At("recheck")
        /\ stack' = Continue(Tail(Todo)) \/ stack' = Continue(pre \o Tail(Todo))
    BY <1>12 DEF StopWaiting
  <2>2. w.peer \in Thread /\ w.n \in Nat /\ w.do = "recheck" /\ DeviceCall(Self, w)
    BY <1>1, <2>1 DEF Op, At, Call
  <2>3. pre \in Seq(Op)
    BY <2>2 DEF WaitFor, Op, PeerCall
  <2>4. Good(pre)
    BY <2>2 DEF WaitFor, Good, DeviceCall
  <2> HIDE DEF pre
  <2> QED
    BY <1>1, <1>2, <1>4, <2>1, <2>3, <2>4 DEF Continue
<1>13. CASE RestartThread
  <2>1. /\ At("restart")
        /\ \E h : stack' = [Continue(Tail(Todo)) EXCEPT ![h] = Derived] /\ h # active
    <3>1. /\ Head(Todo).peer \in Scheduled /\ Self = Cpu /\ Head(Todo).peer # Cpu /\ At("restart")
          /\ stack' = [Continue(Tail(Todo)) EXCEPT ![handle[Head(Todo).peer]] = Derived]
      BY <1>0, <1>13, Restarters DEF RestartThread
    <3>2. handle[Cpu] = active
      BY <1>0, <3>1 DEF RunsOwnEntry, At, Self
    <3>3. handle[Head(Todo).peer] # active
      BY <1>0, <3>1, <3>2, ScheduledThreads DEF Apart, ConstantsAssumption
    <3> QED
      BY <3>1, <3>3
  <2>2. PICK h : stack' = [Continue(Tail(Todo)) EXCEPT ![h] = Derived] /\ h # active
    BY <2>1
  <2>3. /\ \A g \in Handle \ {active} : stack'[g] \in {stack[g], Derived}
        /\ stack'[active] = Running(Self, Tail(Todo))
    BY <1>0, <2>2 DEF Continue
  <2>4. /\ stack'[active].todo = Tail(Todo) /\ stack'[active].owner = Self
        /\ \A k \in DOMAIN Tail(Todo) : DeviceCall(Self, Tail(Todo)[k])
    BY <1>1, <2>1, <2>3 DEF Running, Good
  <2>5. \A g \in Handle \ {active} : stack'[g] = stack[g] \/ stack'[g].todo = <<>>
    BY <2>3 DEF Derived
  <2> QED
    BY ONLY <2>4, <2>5
<1>14. CASE RenewThread
  <2> DEFINE u == Head(Todo).peer
  <2>1. u \in Scheduled /\ Self = Cpu /\ u # Cpu /\ At("renew")
    BY <1>0, <1>14, Restarters DEF RenewThread
  <2>2. PICK n \in (Handle \ Live) \cup {handle[u]} :
          stack' = [Continue(Tail(Todo)) EXCEPT ![handle[u]] = Freed, ![n] = Derived]
    BY <1>14 DEF RenewThread
  <2>3. handle[Cpu] = active
    BY <1>0, <2>1 DEF RunsOwnEntry, At, Self
  <2>4. handle[u] # active /\ n # active
    <3>1. u \in Thread /\ handle[u] \in Handle
      BY <1>0, <2>1, ScheduledThreads DEF ListOK
    <3>2. handle[u] # active
      BY <1>0, <2>1, <2>3, <3>1 DEF Apart, ConstantsAssumption
    <3>3. active \in Live
      BY <1>0, <2>3 DEF Live, ConstantsAssumption
    <3> QED
      BY <2>2, <3>2, <3>3
  <2>5. /\ \A g \in Handle \ {active} : stack'[g] \in {stack[g], Derived, Freed}
        /\ stack'[active] = Running(Self, Tail(Todo))
    BY <1>0, <2>2, <2>4 DEF Continue
  <2>6. /\ stack'[active].todo = Tail(Todo) /\ stack'[active].owner = Self
        /\ \A k \in DOMAIN Tail(Todo) : DeviceCall(Self, Tail(Todo)[k])
    BY <1>1, <2>1, <2>5 DEF Running, Good
  <2>7. \A g \in Handle \ {active} : stack'[g] = stack[g] \/ stack'[g].todo = <<>>
    BY <2>5 DEF Derived, Freed
  <2> QED
    BY ONLY <2>6, <2>7
<1> QED
  BY <1>5, <1>6, <1>7, <1>8, <1>9, <1>10, <1>11, <1>12, <1>13, <1>14 DEF ThreadStep

\* The thread at which the active coroutine is, and what the CPU would switch to.
LEMMA CpuCell ==
  ASSUME ConstantsAssumption, LifeInv, NEW u, CpuSyncs(u)
  PROVE  /\ stack[handle[Cpu]].owner = Cpu
         /\ stack[handle[Cpu]].todo \in Seq(Op)
         /\ 1 \in DOMAIN stack[handle[Cpu]].todo
         /\ stack[handle[Cpu]].todo[1].do = "sync" /\ stack[handle[Cpu]].todo[1].peer = u
         /\ u \in Thread
<1> DEFINE c == stack[handle[Cpu]]
<1>1. /\ c \in GoodCell /\ c.at = "main" /\ Head(c.todo).do = "sync" /\ Head(c.todo).peer = u
      /\ RunsOwnEntry /\ Apart /\ handle[Cpu] \in Handle /\ Cpu \in Thread
  BY DEF CpuSyncs, LifeInv, SaveInv, Owners, OwnInv, Ready, ConstantsAssumption
<1>2. c.todo \in Seq(Op) /\ c.todo # <<>> /\ c.owner \in Thread
  BY <1>1 DEF GoodCell, Continuation
<1>3. c.owner = Cpu
  BY <1>1, <1>2 DEF RunsOwnEntry, Apart
<1>4. 1 \in DOMAIN c.todo /\ Head(c.todo) = c.todo[1] /\ Head(c.todo) \in Op
  BY <1>2
<1>5. u \in Thread
  BY <1>1, <1>4 DEF Op, Call
<1> QED
  BY <1>1, <1>2, <1>3, <1>4, <1>5

LEMMA CpuStays ==
  ASSUME ConstantsAssumption, RestartAssumption, LifeInv, ThreadStep
  PROVE  handle'[Cpu] = handle[Cpu]
<1>0. TypeOK /\ stack \in [Handle -> GoodCell]
  BY DEF LifeInv, SaveInv, Ready
<1>1. CASE ~RenewThread
  BY <1>0, <1>1, OwnStackOnly DEF RestartThread, objects
<1>2. CASE RenewThread
  <2>1. Head(Todo).peer # Cpu
    BY <1>0, <1>2, Restarters
  <2> QED
    BY <1>0, <1>2, <2>1 DEF RenewThread, TypeOK, ConstantsAssumption
<1> QED
  BY <1>1, <1>2

\* Who switches to whom.
LEMMA SwitchToPeer ==
  ASSUME ConstantsAssumption, LifeInv, TodosFit, SwitchTo
  PROVE  /\ active \in Handle /\ active' = handle[Head(Todo).peer]
         /\ UNCHANGED <<handle, stack, resume, host, powered, mode>>
         /\ Self \in Thread /\ handle[Self] = active /\ Head(Todo).do = "sync"
         /\ DeviceCall(Self, Head(Todo)) \/ Self = Cpu
         /\ Self = Cpu => CpuSyncs(Head(Todo).peer)
<1>1. /\ At("sync") /\ active' = handle[Head(Todo).peer]
      /\ UNCHANGED <<handle, stack, resume, host, powered, mode>>
  BY DEF SwitchTo, KeepObjects, KeepHost, sched
<1>2. /\ stack[active] \in GoodCell /\ stack[active].at = "main" /\ Head(Todo).do = "sync"
      /\ active \in Handle /\ RunsOwnEntry
  BY <1>1 DEF At, LifeInv, SaveInv, OwnInv, Ready
<1>3. Todo \in Seq(Op) /\ Todo # <<>> /\ Self \in Thread /\ handle[Self] = active
  BY <1>2 DEF GoodCell, Continuation, Todo, Self, RunsOwnEntry
<1>4. Head(Todo) = Todo[1] /\ 1 \in DOMAIN Todo
  BY <1>3
<1>5. DeviceCall(Self, Head(Todo)) \/ Self = Cpu
  BY <1>2, <1>4 DEF TodosFit, Self, Todo
<1>6. Self = Cpu => CpuSyncs(Head(Todo).peer)
  BY <1>2, <1>3 DEF CpuSyncs, Todo
<1> QED
  BY <1>1, <1>2, <1>3, <1>5, <1>6

\* The CPU comes to synchronize a thread of the system, or one that it finds listed.
LEMMA CpuBeginsSync ==
  ASSUME ConstantsAssumption, RestartAssumption, DevicePrograms, LifeInv, LifeInv', TodosFit,
         ThreadStep, ~SwitchTo, NEW u, CpuSyncs(u)'
  PROVE  \/ CpuSyncs(u) /\ active # handle[Cpu]
         \/ u \in Core
         \/ active = handle[Cpu] /\ stack[active].at = "main" /\ Self = Cpu /\ handle[u] # Null
<1>1. /\ \A h \in Handle \ {active} : stack'[h] = stack[h] \/ stack'[h].todo = <<>>
      /\ \A k \in DOMAIN stack'[active].todo :
           \/ DeviceCall(stack'[active].owner, stack'[active].todo[k])
           \/ /\ k = 1 /\ stack'[active].owner = Cpu
              /\ stack'[active].todo[1].do = "sync"
              /\ stack[active].at = "main" /\ Self = Cpu
              /\ handle[stack'[active].todo[1].peer] # Null
  BY ThreadStepTodos
<1>2. handle'[Cpu] = handle[Cpu]
  BY CpuStays
<1>3. /\ stack'[handle'[Cpu]].owner = Cpu /\ 1 \in DOMAIN stack'[handle'[Cpu]].todo
      /\ stack'[handle'[Cpu]].todo[1].do = "sync" /\ stack'[handle'[Cpu]].todo[1].peer = u
  <2> DEFINE c == stack'[handle'[Cpu]]
  <2>1. /\ c \in GoodCell /\ c.at = "main" /\ Head(c.todo).do = "sync"
        /\ Head(c.todo).peer = u /\ RunsOwnEntry' /\ Apart' /\ handle'[Cpu] \in Handle
        /\ Cpu \in Thread
    BY DEF CpuSyncs, LifeInv, SaveInv, Owners, OwnInv, Ready, ConstantsAssumption
  <2>2. c.todo \in Seq(Op) /\ c.todo # <<>> /\ c.owner \in Thread
    BY <2>1 DEF GoodCell, Continuation
  <2>3. c.owner = Cpu
    BY <2>1, <2>2 DEF RunsOwnEntry, Apart
  <2>4. 1 \in DOMAIN c.todo /\ Head(c.todo) = c.todo[1]
    BY <2>2
  <2> QED
    BY <2>1, <2>3, <2>4
<1>4. CASE active = handle[Cpu]
  BY <1>1, <1>2, <1>3, <1>4 DEF DeviceCall
<1>5. CASE active # handle[Cpu]
  <2>1. handle[Cpu] \in Handle
    BY <1>2 DEF CpuSyncs
  <2>2. stack'[handle[Cpu]] = stack[handle[Cpu]]
    BY <1>1, <1>2, <1>3, <1>5, <2>1
  <2> QED
    BY <1>2, <1>5, <2>2 DEF CpuSyncs
<1> QED
  BY <1>4, <1>5

\* Whatever the threads do, what they are about to switch to is there.
LEMMA ThreadStepFits ==
  ASSUME ConstantsAssumption, RestartAssumption, DevicePrograms, LifeInv, LifeInv', Fits,
         ThreadStep
  PROVE  Fits' /\ powered /\ host.at \in {"run", "primary", "auxiliary"}
<1>0. /\ TypeOK /\ ListOK /\ stack \in [Handle -> GoodCell] /\ HostTurn /\ Ready
      /\ RunsOwnEntry /\ PowerOK /\ Cpu \in Thread /\ Null \notin Handle /\ Host \notin Handle
      /\ TodosFit /\ CpuFindsLiving /\ SwitchesToLive
  BY DEF LifeInv, SaveInv, OwnInv, Ready, Fits, ConstantsAssumption
<1>1. /\ active \in Handle /\ UNCHANGED <<host, powered>>
      /\ \A t \in Thread : handle[t] \in Handle <=> handle'[t] \in Handle
      /\ handle'[Cpu] = handle[Cpu]
  BY <1>0, WhoExits, ThreadStepLives, CpuStays
<1>2. host.at \in {"run", "primary", "auxiliary"} /\ powered
  BY <1>0, <1>1 DEF HostTurn, TypeOK, HostState, HostPlaces, PowerOK
<1>3. \A t \in Core : handle[t] \in Handle
  BY <1>0, <1>1, RunningCore
<1>4. CASE SwitchTo
  <2> DEFINE u == Head(Todo).peer
  <2>1. /\ active' = handle[u] /\ UNCHANGED <<handle, stack>>
        /\ Head(Todo).do = "sync" /\ (DeviceCall(Self, Head(Todo)) \/ Self = Cpu)
        /\ Self = Cpu => CpuSyncs(u)
    BY <1>0, <1>4, SwitchToPeer
  <2>2. u \in Thread /\ handle[u] \in Handle
    <3>1. CASE Self = Cpu
      BY <1>0, <1>2, <2>1, <3>1, CpuCell DEF CpuFindsLiving
    <3>2. CASE Self # Cpu
      BY <1>3, <2>1, <3>2 DEF DeviceCall, Core
    <3> QED
      BY <3>1, <3>2
  <2> HIDE DEF u
  <2>3. SwitchesToLive' /\ TodosFit'
    BY <1>0, <2>1, <2>2 DEF SwitchesToLive, Live, TodosFit
  <2>4. CpuFindsLiving'
    BY <1>0, <1>1, <2>1 DEF CpuFindsLiving, CpuSyncs
  <2> QED
    BY <1>2, <2>3, <2>4 DEF Fits
<1>5. CASE ~SwitchTo
  <2>1. TodosFit'
    <3>1. /\ \A h \in Handle \ {active} : stack'[h] = stack[h] \/ stack'[h].todo = <<>>
          /\ \A k \in DOMAIN stack'[active].todo :
               \/ DeviceCall(stack'[active].owner, stack'[active].todo[k])
               \/ /\ k = 1 /\ stack'[active].owner = Cpu
                  /\ stack'[active].todo[1].do = "sync"
      BY <1>0, <1>5, ThreadStepTodos
    <3> QED
      BY <1>0, <3>1 DEF TodosFit
  <2>2. active' \in {active, Host}
    BY <1>0, <1>5, WhoExits
  <2>3. SwitchesToLive'
    <3>1. CASE active' = Host
      BY <3>1 DEF SwitchesToLive
    <3>2. CASE active' = active /\ ~RenewThread
      <4>1. UNCHANGED handle
        BY <1>0, <3>2, OwnStackOnly DEF RestartThread, objects
      <4> QED
        BY <1>0, <3>2, <4>1 DEF SwitchesToLive, Live
    <3>3. CASE active' = active /\ RenewThread
      <4>1. Self = Cpu /\ stack[active].at = "main"
        BY <1>0, <3>3, Restarters DEF RenewThread, At
      <4>2. handle[Cpu] = active
        BY <1>0, <1>1, <4>1 DEF RunsOwnEntry, Self
      <4> QED
        BY <1>0, <1>1, <3>3, <4>2 DEF SwitchesToLive, Live
    <3> QED
      BY <2>2, <3>1, <3>2, <3>3
  <2>4. ASSUME NEW u \in Thread, CpuSyncs(u)'
        PROVE  handle'[u] \in Handle
    <3>1. \/ CpuSyncs(u) \/ u \in Core \/ handle[u] # Null
      BY <1>0, <1>5, <2>4, CpuBeginsSync
    <3> QED
      BY <1>0, <1>1, <1>2, <1>3, <3>1 DEF CpuFindsLiving, TypeOK
  <2>5. CpuFindsLiving'
    BY <1>1, <1>2, <2>4 DEF CpuFindsLiving
  <2> QED
    BY <1>2, <2>1, <2>3, <2>5 DEF Fits
<1> QED
  BY <1>4, <1>5

LEMMA ThreadStepDevices ==
  ASSUME ConstantsAssumption, RestartAssumption, HostAssumption, DevicePrograms,
         LifeInv, LifeInv', DeviceInv, ThreadStep
  PROVE  DeviceInv'
<1>0. /\ TypeOK /\ stack \in [Handle -> GoodCell] /\ Ready
      /\ Apart /\ RunsOwnEntry /\ Cpu \in Thread /\ Cpu \notin Pluggable
      /\ Host \notin Handle /\ Null \notin Handle
      /\ Fits /\ TodosFit /\ OnlyRuns /\ ResumesLasting /\ CpuAlone
  BY DEF LifeInv, SaveInv, OwnInv, Owners, Ready, DeviceInv, Fits, ConstantsAssumption,
     HostAssumption
<1>1. /\ active \in Handle /\ UNCHANGED <<mode, primary, host, powered>>
      /\ handle'[Cpu] = handle[Cpu]
  BY <1>0, WhoExits, ThreadStepLives, CpuStays
<1>2. Fits' /\ OnlyRuns'
  BY <1>0, <1>1, ThreadStepFits DEF OnlyRuns
<1>3. ~Park
  BY <1>0 DEF Park, MustPark, OnlyRuns
<1>4. CASE SwitchTo
  <2> DEFINE u == Head(Todo).peer
  <2>1. /\ active' = handle[u] /\ UNCHANGED <<handle, stack>> /\ Head(Todo).do = "sync"
        /\ Self \in Thread /\ handle[Self] = active
        /\ DeviceCall(Self, Head(Todo)) \/ Self = Cpu
        /\ Self = Cpu => CpuSyncs(u)
    BY <1>0, <1>4, SwitchToPeer
  <2>2. active' # Host
    BY <1>0, <1>4, WhoExits, <1>1, <2>1 DEF CpuSyncs, SwitchTo, Park, EndFrame, At
  <2>3. \A v \in Pluggable : CpuSyncs(v) => active' \in {handle[Cpu], handle[v]}
    <3> SUFFICES ASSUME NEW v \in Pluggable, CpuSyncs(v)
                 PROVE  active' \in {handle[Cpu], handle[v]}
      OBVIOUS
    <3>1. CASE Self = Cpu
      BY <2>1, <3>1 DEF CpuSyncs
    <3>2. CASE Self # Cpu
      <4>1. active = handle[v] /\ v \in Thread
        BY <1>0, <1>1, <2>1, <3>2 DEF CpuAlone, Apart, HostAssumption
      <4>2. Self = v
        BY <1>0, <1>1, <2>1, <4>1 DEF Apart
      <4> QED
        BY <2>1, <3>2, <4>2 DEF DeviceCall
    <3> QED
      BY <3>1, <3>2
  <2> HIDE DEF u
  <2>4. CpuAlone' /\ ResumesLasting'
    BY <2>1, <2>2, <2>3 DEF CpuAlone, CpuSyncs, ResumesLasting
  <2> QED
    BY <1>2, <2>4 DEF DeviceInv
<1>5. CASE ~SwitchTo
  <2>1. (active' = active /\ resume' = resume) \/ (active' = Host /\ resume' = active)
    BY <1>0, <1>5, WhoExits
  <2>2. EndFrame => Self \in Thread \ Pluggable /\ handle[Self] = active
    <3> SUFFICES ASSUME EndFrame
                 PROVE  Self \in Thread \ Pluggable /\ handle[Self] = active
      OBVIOUS
    <3>1. At("exit") /\ Head(Todo).do = "exit"
      BY DEF EndFrame, At
    <3>2. Todo \in Seq(Op) /\ Todo # <<>> /\ Self \in Thread /\ handle[Self] = active
      BY <1>0, <1>1, <3>1 DEF At, GoodCell, Continuation, Todo, Self, RunsOwnEntry
    <3>3. Head(Todo) = Todo[1] /\ 1 \in DOMAIN Todo
      BY <3>2
    <3>4. DeviceCall(Self, Head(Todo))
      BY <1>0, <1>1, <3>1, <3>3 DEF TodosFit, Self, Todo
    <3> QED
      BY <3>1, <3>2, <3>4 DEF DeviceCall
  <2>3. active' = Host => EndFrame /\ UNCHANGED handle /\ stack'[active] = Running(Self, Tail(Todo))
    <3>1. active' = Host => EndFrame
      BY <1>0, <1>3, WhoExits
    <3> QED
      BY <1>0, <1>1, <3>1 DEF EndFrame, Exit
  <2>4. ResumesLasting'
    BY <1>0, <1>1, <2>1, <2>2, <2>3 DEF ResumesLasting
  <2>5. ASSUME NEW u \in Pluggable, CpuSyncs(u)'
        PROVE  active' \in {handle'[Cpu], handle'[u]}
    <3>0. \/ CpuSyncs(u) /\ active # handle[Cpu]
          \/ active = handle[Cpu] /\ stack[active].at = "main" /\ Self = Cpu
      BY <1>0, <1>5, <2>5, CpuBeginsSync DEF Core
    <3>1. u \notin Core /\ u \in Thread
      BY DEF Core, HostAssumption
    <3>2. CASE active' = active /\ active = handle[Cpu]
      BY <1>1, <3>2
    <3>3. CASE active' = active /\ active # handle[Cpu]
      <4>1. CpuSyncs(u) /\ active = handle[u]
        BY <1>0, <3>0, <3>3 DEF CpuAlone
      <4>2. ~RenewThread
        BY <1>0, <1>1, <3>3, Restarters DEF RenewThread, At, RunsOwnEntry, Self
      <4>3. UNCHANGED handle
        BY <1>0, <1>5, <4>2, OwnStackOnly DEF RestartThread, objects
      <4> QED
        BY <3>3, <4>1, <4>3
    <3>4. CASE active' = Host
      <4>1. EndFrame /\ Self \in Thread \ Pluggable /\ handle[Self] = active
        BY <2>2, <2>3, <3>4
      <4>2. Self # Cpu
        <5> SUFFICES ASSUME Self = Cpu
                     PROVE  FALSE
          OBVIOUS
        <5>1. active = handle[Cpu] /\ stack'[active] = Running(Self, Tail(Todo))
          BY <2>3, <3>4, <4>1
        <5>2. Tail(Todo) # <<>> /\ Head(Tail(Todo)).do = "sync" /\ Head(Tail(Todo)).peer = u
          BY <1>1, <2>5, <5>1 DEF CpuSyncs, Running
        <5>3. Todo \in Seq(Op) /\ Todo # <<>>
          BY <1>0, <1>1, <4>1 DEF EndFrame, At, GoodCell, Continuation, Todo
        <5>4. 2 \in DOMAIN Todo /\ Head(Tail(Todo)) = Todo[2]
          BY <5>2, <5>3
        <5>5. DeviceCall(Self, Todo[2])
          BY <1>0, <1>1, <5>4 DEF TodosFit, Self, Todo
        <5> QED
          BY <3>1, <5>2, <5>4, <5>5 DEF DeviceCall
      <4>3. active = handle[u]
        BY <1>0, <3>0, <4>2 DEF CpuAlone
      <4> QED
        BY <1>0, <1>1, <3>1, <4>1, <4>3 DEF Apart
    <3> QED
      BY <2>1, <3>2, <3>3, <3>4
  <2> QED
    BY <1>2, <2>4, <2>5 DEF CpuAlone, DeviceInv
<1> QED
  BY <1>4, <1>5

LEMMA ThreadStepOff ==
  ASSUME ConstantsAssumption, RestartAssumption, DevicePrograms, LifeInv, LifeInv', OffInv,
         ThreadStep
  PROVE  OffInv'
<1>0. Ready /\ Fits /\ PlugsOff /\ SwitchesToLive /\ Host \notin Handle
  BY DEF LifeInv, SaveInv, OffInv, Fits, ConstantsAssumption
<1>1. Fits' /\ active \in Handle /\ UNCHANGED <<host, powered>>
  BY <1>0, ThreadStepFits, WhoExits, ThreadStepLives
<1>2. ResumesLiving'
  <2> SUFFICES ASSUME active' = Host
               PROVE  resume' \in Live'
    BY DEF ResumesLiving
  <2>1. Park \/ EndFrame
    BY <1>0, WhoExits
  <2>2. resume' = active /\ UNCHANGED handle
    BY <2>1 DEF Park, EndFrame, Exit
  <2> QED
    BY <1>0, <1>1, <2>2 DEF SwitchesToLive, Live
<1> QED
  BY <1>0, <1>1, <1>2 DEF OffInv, PlugsOff

\* Steps of the host that touch no coroutine.
LEMMA UntouchedFits ==
  ASSUME Fits, UNCHANGED <<handle, stack>>, active' \in Live \cup {Host},
         powered' /\ host'.at # "power" => powered /\ host.at # "power",
         host'.at = "power" => Cpu \in Elems(host'.list)
  PROVE  Fits' /\ Live' = Live /\ \A u : CpuSyncs(u)' = CpuSyncs(u)
<1>1. \A u : CpuSyncs(u)' = CpuSyncs(u)
  BY DEF CpuSyncs
<1>2. Live' = Live
  BY DEF Live
<1> QED
  BY <1>1, <1>2 DEF Fits, TodosFit, CpuFindsLiving, SwitchesToLive

\* A coroutine is derived.
LEMMA CreateFits ==
  ASSUME ConstantsAssumption, LifeInv, TodosFit, NEW t \in Thread, Create(t)
  PROVE  /\ TodosFit'
         /\ \A v \in Thread : handle[v] \in Handle => handle'[v] = handle[v]
         /\ handle'[t] \in Handle /\ stack'[handle'[t]].at = "entry"
         /\ \A v \in Thread \ {t} : handle'[v] = handle[v]
         /\ \A v \in Thread \ {t} : handle[v] \in Handle => stack'[handle[v]] = stack[handle[v]]
         /\ \A u : CpuSyncs(u)' => CpuSyncs(u)
<1>0. TypeOK /\ Apart /\ Null \notin Handle /\ Cpu \in Thread
  BY DEF LifeInv, SaveInv, Owners, Ready, ConstantsAssumption
<1>1. PICK n \in AddressFor(t) :
        handle' = [handle EXCEPT ![t] = n] /\ stack' = [stack EXCEPT ![n] = Derived]
  BY DEF Create
<1>2. /\ n \in Handle /\ handle[t] \in {Null, n}
      /\ \A v \in Thread \ {t} : handle[v] # n
  BY <1>0 DEF AddressFor, Live, TypeOK, Apart
<1>3. \A v \in Thread : handle'[v] = IF v = t THEN n ELSE handle[v]
  BY <1>0, <1>1 DEF TypeOK
<1>4. \A h \in Handle : stack'[h] = IF h = n THEN Derived ELSE stack[h]
  BY <1>0, <1>1 DEF TypeOK
<1>5. TodosFit'
  BY <1>4 DEF TodosFit, Derived
<1>6. \A v \in Thread : handle[v] \in Handle => handle'[v] = handle[v]
  BY <1>0, <1>2, <1>3
<1>7. handle'[t] \in Handle /\ stack'[handle'[t]].at = "entry"
  BY <1>2, <1>3, <1>4 DEF Derived
<1>8. \A v \in Thread \ {t} : handle[v] \in Handle => stack'[handle[v]] = stack[handle[v]]
  BY <1>2, <1>4
<1>9. \A u : CpuSyncs(u)' => CpuSyncs(u)
  BY <1>0, <1>3, <1>7, <1>8 DEF CpuSyncs
<1> QED
  BY <1>3, <1>5, <1>6, <1>7, <1>8, <1>9

\* A chip or a device is deleted.
LEMMA DestroyFits ==
  ASSUME ConstantsAssumption, LifeInv, TodosFit, NEW t \in Thread \ {Cpu}, Destroy(t)
  PROVE  /\ TodosFit'
         /\ \A v \in Thread : handle'[v] = IF v = t THEN Null ELSE handle[v]
         /\ \A u : CpuSyncs(u)' => CpuSyncs(u)
<1>0. TypeOK /\ Apart /\ Null \notin Handle /\ Cpu \in Thread
  BY DEF LifeInv, SaveInv, Owners, Ready, ConstantsAssumption
<1>1. \A v \in Thread : handle'[v] = IF v = t THEN Null ELSE handle[v]
  BY <1>0 DEF Destroy, TypeOK
<1>2. \A h \in Handle : stack'[h] = IF h = handle[t] THEN Freed ELSE stack[h]
  BY <1>0 DEF Destroy, TypeOK
<1>3. TodosFit'
  BY <1>2 DEF TodosFit, Freed
<1>4. \A u : CpuSyncs(u)' => CpuSyncs(u)
  <2>1. handle[Cpu] \in Handle => handle'[Cpu] = handle[Cpu] /\ stack'[handle[Cpu]] = stack[handle[Cpu]]
    BY <1>0, <1>1, <1>2 DEF Apart
  <2>2. handle'[Cpu] = handle[Cpu]
    BY <1>0, <1>1
  <2> QED
    BY <2>1, <2>2 DEF CpuSyncs
<1> QED
  BY <1>1, <1>3, <1>4

\* power() creates the threads of a boot order one after the other.
LEMMA CreateThreadFits ==
  ASSUME ConstantsAssumption, LifeInv, Fits, CreateThread
  PROVE  Fits' /\ active' = Host /\ host'.at = "power" /\ UNCHANGED <<mode, resume, powered>>
<1> DEFINE t == Head(host.list)
<1>0. host \in HostState /\ TodosFit /\ Cpu \in Thread /\ host.at = "power" /\ CpuFindsLiving
  BY DEF LifeInv, SaveInv, Ready, TypeOK, Fits, CreateThread, HostAt, ConstantsAssumption
<1>1. /\ host'.at = "power" /\ host.list # <<>> /\ host'.list = Tail(host.list)
      /\ UNCHANGED <<mode, active, resume, powered>> /\ active = Host /\ Create(t)
  BY <1>0 DEF CreateThread, HostAt, HostState, sched
<1>2. Elems(host.list) = {t} \cup Elems(Tail(host.list)) /\ t \in Thread
  BY <1>0, <1>1, HeadTailElems DEF HostState
<1> HIDE DEF t
<1>3. /\ TodosFit'
      /\ handle'[t] \in Handle /\ stack'[handle'[t]].at = "entry"
      /\ \A v \in Thread \ {t} : handle'[v] = handle[v]
      /\ \A v \in Thread \ {t} : handle[v] \in Handle => stack'[handle[v]] = stack[handle[v]]
  BY <1>0, <1>1, <1>2, CreateFits
<1>4. \/ Cpu \in Elems(host'.list)
      \/ handle'[Cpu] \in Handle /\ stack'[handle'[Cpu]].at = "entry"
  BY <1>0, <1>1, <1>2, <1>3 DEF CpuFindsLiving
<1> QED
  BY <1>1, <1>3, <1>4 DEF Fits, CpuFindsLiving, SwitchesToLive

\* Scheduler::power makes the CPU the thread to be resumed, which has not begun.
LEMMA PowerSchedulerFits ==
  ASSUME ConstantsAssumption, LifeInv, Fits, PowerScheduler
  PROVE  /\ Fits' /\ active' = Host /\ host'.at = "idle" /\ UNCHANGED <<handle, mode, powered>>
         /\ resume' = handle[Cpu] /\ resume' \in Handle /\ \A u : ~CpuSyncs(u)'
<1>1. /\ UNCHANGED <<handle, stack, mode, active, powered>> /\ resume' = handle[Cpu]
      /\ host.at = "power" /\ host.list = <<>> /\ host'.at = "idle" /\ active = Host
  BY DEF PowerScheduler, HostAt, Idle, Place
<1>2. Elems(host.list) = {}
  BY <1>1 DEF Elems
<1>3. handle[Cpu] \in Handle /\ stack[handle[Cpu]].at = "entry"
  BY <1>1, <1>2 DEF Fits, CpuFindsLiving
<1>4. \A u : ~CpuSyncs(u)'
  BY <1>1, <1>3 DEF CpuSyncs
<1> QED
  BY <1>1, <1>3, <1>4 DEF Fits, TodosFit, CpuFindsLiving, SwitchesToLive

\* The places between which the host moves without touching a coroutine.
LEMMA PowerMoves ==
  ASSUME HostAssumption, PowerOn \/ RunReturns \/ PowerOff
  PROVE  /\ UNCHANGED <<handle, stack, mode, resume, active>> /\ active = Host
         /\ host'.at \in {"power", "idle"}
         /\ host'.at = "power" => Cpu \in Elems(host'.list)
         /\ powered' /\ host'.at # "power" => powered /\ host.at # "power"
<1>1. \A boot \in Boots : Cpu \in Elems(boot)
  BY DEF HostAssumption
<1>2. CASE PowerOn
  BY <1>1, <1>2 DEF PowerOn, HostAt, Power, Place, objects, sched
<1>3. CASE RunReturns
  BY <1>1, <1>3 DEF RunReturns, HostAt, Power, Idle, Place, objects, sched
<1>4. CASE PowerOff
  BY <1>4 DEF PowerOff, HostAt, Idle, Place, objects, sched
<1> QED
  BY <1>2, <1>3, <1>4

LEMMA HostStepDevices ==
  ASSUME ConstantsAssumption, HostAssumption, "save" \notin HostOps,
         LifeInv, DeviceInv, HostStep
  PROVE  DeviceInv'
<1>0. /\ TypeOK /\ Ready /\ host \in HostState /\ PowerOK /\ Cpu \in Thread
      /\ Cpu \notin Pluggable /\ Host \notin Handle /\ Null \notin Handle /\ active = Host
      /\ Fits /\ TodosFit /\ OnlyRuns /\ ResumesLasting /\ CpuAlone
  BY HostStepKinds DEF LifeInv, SaveInv, Ready, TypeOK, DeviceInv, Fits, ConstantsAssumption,
     HostAssumption
<1>1. \A u \in Pluggable : ~CpuSyncs(u)
  <2> SUFFICES ASSUME NEW u \in Pluggable, CpuSyncs(u)
               PROVE  FALSE
    OBVIOUS
  <2>1. Host \in {handle[Cpu], handle[u]} /\ u \in Thread
    BY <1>0 DEF CpuAlone, HostAssumption
  <2> QED
    BY <1>0, <2>1 DEF TypeOK, ConstantsAssumption
\* Steps that touch no coroutine.
<1>2. ASSUME UNCHANGED <<handle, stack>>, OnlyRuns', ResumesLasting', active' \in {Host, resume},
             active' = resume => resume \in Live,
             powered' /\ host'.at # "power" => powered /\ host.at # "power",
             host'.at = "power" => Cpu \in Elems(host'.list)
      PROVE  DeviceInv'
  BY <1>0, <1>1, <1>2, UntouchedFits DEF DeviceInv, CpuAlone
<1>3. CASE PowerOn \/ RunReturns \/ PowerOff
  <2>1. /\ UNCHANGED <<handle, stack, mode, resume, active>>
        /\ host'.at \in {"power", "idle"}
        /\ host'.at = "power" => Cpu \in Elems(host'.list)
        /\ powered' /\ host'.at # "power" => powered /\ host.at # "power"
    BY <1>3, PowerMoves
  <2> QED
    BY <1>0, <1>2, <2>1 DEF OnlyRuns, ResumesLasting, TypeOK
<1>4. CASE Run
  <2>1. /\ UNCHANGED <<handle, stack, resume, powered>> /\ mode' = "Run" /\ active' = resume
        /\ host'.at = "run" /\ host.at = "idle" /\ powered
    BY <1>4 DEF Run, SwitchIn, HostAt, Place, Idle, objects
  <2>2. resume \in Live /\ resume # Host
    BY <1>0, <2>1 DEF ResumesLasting, Live
  <2> QED
    BY <1>0, <1>2, <2>1, <2>2 DEF OnlyRuns, ResumesLasting
<1>5. CASE SaveState \/ EnterAgain \/ (\E i \in 1 .. Len(threads) : EnterAuxiliary(i))
           \/ EverySynchronized \/ SaveReturns
  BY <1>0, <1>5 DEF SaveState, EnterAgain, EnterAuxiliary, EverySynchronized, SaveReturns, HostAt,
     Place, OnlyRuns
<1>6. CASE PowerScheduler
  BY <1>0, <1>6, PowerSchedulerFits DEF DeviceInv, OnlyRuns, ResumesLasting, CpuAlone
<1>7. CASE CreateThread
  <2>1. \A u \in Pluggable : CpuSyncs(u)' => CpuSyncs(u)
    <3>1. Create(Head(host.list)) /\ Head(host.list) \in Thread
      BY <1>0, <1>7 DEF CreateThread, HostState
    <3> QED
      BY <1>0, <3>1, CreateFits
  <2> QED
    BY <1>0, <1>1, <1>7, <2>1, CreateThreadFits DEF DeviceInv, OnlyRuns, ResumesLasting, CpuAlone
<1>8. ASSUME NEW t \in Pluggable, PlugGamepad(t)
      PROVE  DeviceInv'
  <2>1. /\ UNCHANGED <<handle, stack, mode, resume, active, powered>>
        /\ host.at = "idle" /\ host'.at = "plug"
    BY <1>8 DEF PlugGamepad, HostAt, Idle, Place, objects, sched
  <2> QED
    BY <1>0, <1>2, <2>1 DEF OnlyRuns, ResumesLasting, TypeOK
<1>9. ASSUME NEW t \in Pluggable, PlugIn(t)
      PROVE  DeviceInv'
  <2>1. /\ t \in Thread /\ Create(t) /\ UNCHANGED <<mode, resume, active, powered>>
        /\ host.at = "idle" /\ host'.at = "plug"
    BY <1>9 DEF PlugIn, HostAt, Idle, Place, HostAssumption, sched
  <2>2. /\ TodosFit' /\ \A u : CpuSyncs(u)' => CpuSyncs(u)
        /\ \A v \in Thread : handle[v] \in Handle => handle'[v] = handle[v]
    BY <1>0, <2>1, CreateFits
  <2>3. ResumesLasting'
    BY <1>0, <2>1, <2>2 DEF ResumesLasting
  <2>4. Fits'
    BY <1>0, <2>1, <2>2 DEF Fits, CpuFindsLiving, SwitchesToLive
  <2> QED
    BY <1>0, <1>1, <2>1, <2>2, <2>3, <2>4 DEF DeviceInv, OnlyRuns, CpuAlone
\* Steps that delete a coroutine.
<1>10. ASSUME NEW t \in Chip \cup Pluggable, Destroy(t), UNCHANGED <<mode, resume, active, powered>>,
              host.at \in {"idle", "plug"}, host'.at = "idle", t \in Pluggable \/ ~powered
       PROVE  DeviceInv'
  <2>1. t \in Thread \ {Cpu}
    BY DEF HostAssumption
  <2>2. /\ TodosFit' /\ \A u : CpuSyncs(u)' => CpuSyncs(u)
        /\ \A v \in Thread : handle'[v] = IF v = t THEN Null ELSE handle[v]
    BY <1>0, <1>10, <2>1, DestroyFits
  <2>3. ResumesLasting'
    BY <1>0, <1>10, <2>2 DEF ResumesLasting
  <2>4. Fits'
    BY <1>0, <1>1, <1>10, <2>2 DEF Fits, CpuFindsLiving, SwitchesToLive
  <2> QED
    BY <1>0, <1>1, <1>10, <2>2, <2>3, <2>4 DEF DeviceInv, OnlyRuns, CpuAlone
<1>11. CASE Eject
  <2>1. PICK t \in Chip : Destroy(t)
    BY <1>11 DEF Eject
  <2>2. UNCHANGED <<mode, resume, active, powered>> /\ host.at = "idle" /\ host'.at = "idle" /\ ~powered
    BY <1>11 DEF Eject, HostAt, Idle, Place, sched
  <2> QED
    BY <1>10, <2>1, <2>2
<1>12. CASE DeleteOld
  <2>1. UNCHANGED <<mode, resume, active, powered>> /\ host.at = "plug" /\ host'.at = "idle"
    BY <1>12 DEF DeleteOld, HostAt, Idle, Place, sched
  <2>2. CASE host.list = <<>>
    <3>1. UNCHANGED <<handle, stack>>
      BY <1>12, <2>2 DEF DeleteOld, objects
    <3> QED
      BY <1>0, <1>2, <2>1, <3>1 DEF OnlyRuns, ResumesLasting, TypeOK
  <2>3. CASE host.list # <<>>
    <3>1. Head(host.list) \in Pluggable /\ Destroy(Head(host.list))
      BY <1>0, <1>12, <2>1, <2>3, HeadTailElems DEF DeleteOld, PowerOK, HostState
    <3> QED
      BY <1>10, <2>1, <3>1
  <2> QED
    BY <2>2, <2>3
<1> QED
  BY <1>3, <1>4, <1>5, <1>6, <1>7, <1>8, <1>9, <1>11, <1>12 DEF HostStep

LEMMA HostStepOff ==
  ASSUME ConstantsAssumption, HostAssumption, "plug" \notin HostOps,
         LifeInv, OffInv, HostStep
  PROVE  OffInv'
<1>0. /\ TypeOK /\ Ready /\ ListOK /\ host \in HostState /\ PowerOK /\ Cpu \in Thread
      /\ Host \notin Handle /\ Null \notin Handle /\ active = Host
      /\ Fits /\ TodosFit /\ PlugsOff /\ ResumesLiving
  BY HostStepKinds DEF LifeInv, SaveInv, Ready, TypeOK, OffInv, Fits, ConstantsAssumption
\* Steps that touch no coroutine.
<1>1. ASSUME UNCHANGED <<handle, stack>>, PlugsOff',
             \/ active' = Host /\ resume' = resume
             \/ active' = resume' /\ resume' \in Live,
             powered' /\ host'.at # "power" => powered /\ host.at # "power",
             host'.at = "power" => Cpu \in Elems(host'.list)
      PROVE  OffInv'
  <2>1. Fits' /\ Live' = Live
    BY <1>0, <1>1, UntouchedFits
  <2>2. ResumesLiving'
    BY <1>0, <1>1, <2>1 DEF ResumesLiving
  <2> QED
    BY <1>1, <2>1, <2>2 DEF OffInv
<1>2. CASE PowerOn \/ RunReturns \/ PowerOff
  <2>1. /\ UNCHANGED <<handle, stack, resume, active>>
        /\ host'.at \in {"power", "idle"}
        /\ host'.at = "power" => Cpu \in Elems(host'.list)
        /\ powered' /\ host'.at # "power" => powered /\ host.at # "power"
    BY <1>2, PowerMoves
  <2> QED
    BY <1>0, <1>1, <2>1 DEF PlugsOff
<1>3. CASE Run \/ SaveState \/ EnterAgain
  <2>1. /\ UNCHANGED <<handle, stack, resume, powered>> /\ active' = resume
        /\ host'.at \in {"run", "primary", "auxiliary"} /\ powered /\ host.at # "power"
    <3>1. CASE Run
      BY <3>1 DEF Run, SwitchIn, HostAt, Place, objects
    <3>2. CASE SaveState
      BY <3>2 DEF SaveState, SwitchIn, HostAt, Place, objects
    <3>3. CASE EnterAgain
      BY <1>0, <3>3 DEF EnterAgain, SwitchIn, objects, sched, PowerOK
    <3> QED
      BY <1>3, <3>1, <3>2, <3>3
  <2>2. resume \in Live
    BY <1>0, <2>1 DEF ResumesLiving
  <2> QED
    BY <1>1, <2>1, <2>2 DEF PlugsOff
<1>4. ASSUME NEW i \in 1 .. Len(threads), EnterAuxiliary(i)
      PROVE  OffInv'
  <2>1. /\ UNCHANGED <<handle, stack, powered>> /\ resume' = handle[threads[i]]
        /\ active' = resume' /\ host'.at = "auxiliary" /\ host.at \in {"primary", "auxiliary"}
    BY <1>4 DEF EnterAuxiliary, SwitchIn, Place, objects
  <2>2. threads[i] \in Scheduled
    BY <1>0, LenProperties DEF TypeOK, Scheduled, Elems
  <2>3. resume' \in Live
    BY <1>0, <2>1, <2>2, ScheduledThreads DEF Live, ListOK
  <2> QED
    BY <1>0, <1>1, <2>1, <2>3 DEF PlugsOff
<1>5. CASE EverySynchronized \/ SaveReturns
  <2>1. /\ UNCHANGED <<handle, stack, powered, active, resume>>
        /\ host'.at \in {"saved", "idle"} /\ host.at # "power"
    <3>1. CASE EverySynchronized
      BY <3>1 DEF EverySynchronized, Place, objects, sched
    <3>2. CASE SaveReturns
      BY <3>2 DEF SaveReturns, HostAt, Idle, Place, objects, sched
    <3> QED
      BY <1>5, <3>1, <3>2
  <2> QED
    BY <1>0, <1>1, <2>1 DEF PlugsOff
<1>6. CASE PowerScheduler
  BY <1>0, <1>6, PowerSchedulerFits DEF OffInv, PlugsOff, ResumesLiving, Live
<1>7. CASE CreateThread
  BY <1>0, <1>7, CreateThreadFits DEF OffInv, PlugsOff, ResumesLiving
\* Devices come and go while the power is off.
<1>8. ASSUME Fits', ~powered', active' = Host
      PROVE  OffInv'
  BY <1>8 DEF OffInv, PlugsOff, ResumesLiving
<1>9. ASSUME NEW t \in Pluggable, PlugGamepad(t)
      PROVE  OffInv'
  <2>1. /\ UNCHANGED <<handle, stack, active, powered>> /\ ~powered /\ host'.at = "plug"
    BY <1>9 DEF PlugGamepad, MayPlug, HostAt, Idle, Place, objects
  <2> QED
    BY <1>0, <1>8, <2>1, UntouchedFits
<1>10. ASSUME NEW t \in Pluggable, PlugIn(t)
       PROVE  OffInv'
  <2>1. /\ t \in Thread /\ Create(t) /\ UNCHANGED <<active, powered>> /\ ~powered
        /\ host'.at = "plug"
    BY <1>10 DEF PlugIn, MayPlug, HostAt, Place, HostAssumption
  <2>2. TodosFit'
    BY <1>0, <2>1, CreateFits
  <2> QED
    BY <1>0, <1>8, <2>1, <2>2 DEF Fits, CpuFindsLiving, SwitchesToLive
<1>11. ASSUME NEW t \in Thread \ {Cpu}, Destroy(t), ~powered, host'.at = "idle",
              UNCHANGED <<active, powered>>
       PROVE  OffInv'
  <2>1. TodosFit'
    BY <1>0, <1>11, DestroyFits
  <2> QED
    BY <1>0, <1>8, <1>11, <2>1 DEF Fits, CpuFindsLiving, SwitchesToLive
<1>12. CASE Eject
  <2>1. PICK t \in Chip : Destroy(t)
    BY <1>12 DEF Eject
  <2>2. UNCHANGED <<active, powered>> /\ host'.at = "idle" /\ ~powered /\ t \in Thread \ {Cpu}
    BY <1>12 DEF Eject, HostAt, HostAssumption
  <2> QED
    BY <1>11, <2>1, <2>2
<1>13. CASE DeleteOld
  <2>1. UNCHANGED <<active, powered>> /\ host.at = "plug" /\ host'.at = "idle" /\ ~powered
    BY <1>0, <1>13 DEF DeleteOld, HostAt, Idle, Place, PlugsOff
  <2>2. CASE host.list = <<>>
    <3>1. UNCHANGED <<handle, stack>>
      BY <1>13, <2>2 DEF DeleteOld, objects
    <3> QED
      BY <1>0, <1>8, <2>1, <3>1, UntouchedFits
  <2>3. CASE host.list # <<>>
    <3>1. Head(host.list) \in Pluggable /\ Destroy(Head(host.list))
      BY <1>0, <1>13, <2>1, <2>3, HeadTailElems DEF DeleteOld, PowerOK, HostState
    <3> QED
      BY <1>11, <2>1, <3>1 DEF HostAssumption
  <2> QED
    BY <2>2, <2>3
<1> QED
  BY <1>2, <1>3, <1>4, <1>5, <1>6, <1>7, <1>9, <1>10, <1>12, <1>13 DEF HostStep

LEMMA InitDevices ==
  ASSUME ConstantsAssumption, Init
  PROVE  DeviceInv /\ OffInv
<1>1. \A h \in Handle : stack[h].todo = <<>>
  BY DEF Init, Freed
<1>2. handle[Cpu] = Null /\ Null \notin Handle
  BY DEF Init, ConstantsAssumption
<1>3. Fits
  BY <1>1, <1>2 DEF Init, Fits, TodosFit, CpuSyncs, CpuFindsLiving, SwitchesToLive, Idle, Place
<1> QED
  BY <1>2, <1>3 DEF Init, DeviceInv, OnlyRuns, ResumesLasting, CpuSyncs, CpuAlone, OffInv,
     PlugsOff, ResumesLiving, Idle, Place

\* With programs like those of the Super Famicom only living threads are switched to,
\* whatever devices are exchanged, if states are not saved or if devices are exchanged
\* while the power is off. With both, a device may be the thread to be resumed when it
\* is deleted.
THEOREM LivingAreSwitchedTo ==
  ASSUME Settled, RenewsAlone, DevicePrograms, "save" \notin HostOps \/ "plug" \notin HostOps
  PROVE  Spec => []SwitchesToLive
<1>1. Spec => []LifeInv
  BY AlwaysLife
<1>2. CASE "save" \notin HostOps
  <2>1. Init => DeviceInv
    BY ConstantsAssumption, InitDevices
  <2>2. LifeInv /\ LifeInv' /\ DeviceInv /\ [Next]_vars => DeviceInv'
    <3>1. DeviceInv /\ UNCHANGED vars => DeviceInv'
      BY DEF vars, DeviceInv, Fits, OnlyRuns, ResumesLasting, TodosFit, CpuSyncs, CpuAlone,
         CpuFindsLiving, SwitchesToLive, Live
    <3> QED
      BY <1>2, <3>1, ConstantsAssumption, RestartAssumption, HostAssumption, ThreadStepDevices,
         HostStepDevices DEF Next
  <2>3. DeviceInv => SwitchesToLive
    BY DEF DeviceInv, Fits
  <2> QED
    BY <1>1, <2>1, <2>2, <2>3, PTL DEF Spec
<1>3. CASE "plug" \notin HostOps
  <2>1. Init => OffInv
    BY ConstantsAssumption, InitDevices
  <2>2. LifeInv /\ LifeInv' /\ OffInv /\ [Next]_vars => OffInv'
    <3>1. OffInv /\ UNCHANGED vars => OffInv'
      BY DEF vars, OffInv, Fits, PlugsOff, ResumesLiving, TodosFit, CpuSyncs, CpuFindsLiving,
         SwitchesToLive, Live
    <3> QED
      BY <1>3, <3>1, ConstantsAssumption, RestartAssumption, HostAssumption, ThreadStepOff,
         HostStepOff DEF Next
  <2>3. OffInv => SwitchesToLive
    BY DEF OffInv, Fits
  <2> QED
    BY <1>1, <2>1, <2>2, <2>3, PTL DEF Spec
<1> QED
  BY <1>2, <1>3

-----------------------------------------------------------------------------
(***************************************************************************)
(* Systems that are saved, loaded and reloaded                             *)
(***************************************************************************)
\* While the power is on, what is saved is in the scheduler's list, or power() is
\* about to append it.
Listing ==
  /\ powered /\ host.at # "power" => Serialized \subseteq Scheduled
  /\ host.at = "power" => Serialized \subseteq Scheduled \cup Elems(host.list)

\* The clocks of a state file lead the identifiers they were made with.
FileOK ==
  /\ file.members \subseteq Thread \ Pluggable
  /\ \A t \in file.members :
       /\ file.clock[t] \in 0 .. W - 1 /\ file.uid[t] \in 0 .. MaxID
       /\ file.uid[t] <= file.clock[t] /\ file.clock[t] - file.uid[t] <= MaxClock

\* unserialize's power() creates the threads that are there, and keeps their identifiers.
Loading ==
  load = "power" =>
    /\ powered /\ host.at \in {"power", "idle"} /\ active = Host
    /\ file.members = Serialized /\ Serialized \subseteq Scheduled
    /\ \A t \in file.members : file.uid[t] = uid[t]
    /\ host.at = "power" => Elems(host.list) \subseteq Serialized

StateInv == SaveInv /\ PowerOK /\ Listing /\ FileOK /\ Loading

LEMMA CreateMembers ==
  ASSUME ConstantsAssumption, Ready, NEW t \in Thread, Create(t)
  PROVE  /\ Scheduled' = Scheduled \cup {t}
         /\ \A s \in Thread \ {t} : clock'[s] = clock[s] /\ handle'[s] = handle[s]
         /\ t \in Scheduled => UNCHANGED <<uid, handle>>
<1>0. TypeOK /\ ListOK
  BY DEF Ready
<1>1. /\ \A s \in Thread \ {t} : handle'[s] = handle[s]
      /\ handle[t] \in Handle => handle' = handle
  <2>1. PICK h \in AddressFor(t) : handle' = [handle EXCEPT ![t] = h]
    BY DEF Create
  <2>2. handle[t] \in Handle => h = handle[t]
    BY DEF AddressFor, ConstantsAssumption
  <2> QED
    BY <1>0, <2>1, <2>2 DEF TypeOK
<1>2. CASE t \in Scheduled
  <2>1. clock' = [clock EXCEPT ![t] = 0] /\ UNCHANGED <<uid, threads>>
    BY <1>2 DEF Create, Register
  <2>2. handle[t] \in Handle
    BY <1>0, <1>2 DEF ListOK
  <2> QED
    BY <1>0, <1>1, <1>2, <2>1, <2>2 DEF Scheduled, TypeOK
<1>3. CASE t \notin Scheduled
  <2>1. AppendTo(threads, t)
    BY <1>3 DEF Create, Register
  <2> QED
    BY <1>0, <1>1, <1>3, <2>1, AppendToFacts DEF Scheduled, ListOK, TypeOK
<1> QED
  BY <1>2, <1>3

LEMMA NextListing ==
  ASSUME ConstantsAssumption, RestartAssumption, HostAssumption, Ready, PowerOK, Listing, Next
  PROVE  Listing'
<1>0. TypeOK /\ host \in HostState
  BY DEF Ready, TypeOK
<1>1. CASE ThreadStep
  <2>1. /\ Scheduled' = Scheduled /\ UNCHANGED <<host, powered>>
        /\ \A t \in Thread : handle[t] \in Handle <=> handle'[t] \in Handle
    BY <1>1, ThreadStepMembers, ThreadStepLives
  <2>2. TypeOK'
    BY <1>1, ThreadStepReady DEF Ready
  <2>3. Serialized' = Serialized
    BY <1>0, <2>1, <2>2 DEF Serialized, TypeOK, ConstantsAssumption
  <2> QED
    BY <2>1, <2>3 DEF Listing
<1>2. ASSUME NEW boot \in Boots, Power(boot)
      PROVE  Listing'
  <2>1. /\ UNCHANGED <<handle, threads>> /\ host'.at = "power" /\ host'.list = boot
        /\ Serialized \subseteq Elems(boot)
    BY <1>2 DEF Power, Place, objects, Serialized
  <2> QED
    BY <2>1 DEF Listing, Serialized, Scheduled
<1>3. CASE PowerOn \/ RunReturns
  <2>1. CASE \E boot \in Boots : Power(boot)
    BY <1>2, <2>1
  <2>2. CASE RunReturns /\ host' = Idle /\ UNCHANGED <<objects, sched, entryPoints, stack, active>>
    BY <2>2 DEF RunReturns, HostAt, Idle, Place, objects, Listing, Serialized, Scheduled
  <2> QED
    BY <1>3, <2>1, <2>2 DEF PowerOn, RunReturns
<1>4. CASE PowerScheduler \/ PowerOff \/ Run \/ SaveState \/ EnterAgain \/ EverySynchronized
           \/ SaveReturns \/ (\E i \in 1 .. Len(threads) : EnterAuxiliary(i))
  <2>1. /\ UNCHANGED <<handle, threads>>
        /\ host'.at # "power" \/ host' = host
        /\ powered' => powered
        /\ host.at = "power" => host.list = <<>>
    BY <1>4 DEF PowerScheduler, PowerOff, Run, SaveState, EnterAgain, EverySynchronized,
       SaveReturns, EnterAuxiliary, SwitchIn, HostAt, Idle, Place, objects
  <2>2. Scheduled' = Scheduled /\ Serialized' = Serialized
    BY <2>1 DEF Serialized, Scheduled
  <2>3. CASE host.at = "power"
    <3>1. Elems(host.list) = {}
      BY <2>1, <2>3 DEF Elems
    <3>2. Serialized \subseteq Scheduled
      BY <2>3, <3>1 DEF Listing
    <3> QED
      BY <2>2, <3>2 DEF Listing
  <2>4. CASE host.at # "power"
    <3>1. host'.at # "power"
      BY <2>1, <2>4
    <3> QED
      BY <2>1, <2>2, <2>4, <3>1 DEF Listing
  <2> QED
    BY <2>3, <2>4
<1>5. CASE CreateThread
  <2> DEFINE t == Head(host.list)
  <2>1. /\ Create(t) /\ host.list # <<>> /\ host.at = "power"
        /\ host'.at = "power" /\ host'.list = Tail(host.list)
    BY <1>0, <1>5 DEF CreateThread, HostAt, HostState
  <2>2. Elems(host.list) = {t} \cup Elems(Tail(host.list)) /\ t \in Thread
    BY <1>0, <2>1, HeadTailElems DEF HostState
  <2> HIDE DEF t
  <2>3. /\ Scheduled' = Scheduled \cup {t}
        /\ \A s \in Thread \ {t} : handle'[s] = handle[s]
    BY <2>1, <2>2, CreateMembers
  <2>4. Serialized' \subseteq Serialized \cup {t}
    BY <2>3 DEF Serialized
  <2> QED
    BY <2>1, <2>2, <2>3, <2>4 DEF Listing
<1>6. CASE Eject
  BY <1>6 DEF Eject, HostAt, Idle, Place, Listing
<1>7. ASSUME NEW t \in Pluggable, PlugIn(t)
      PROVE  Listing'
  <2>1. t \in Thread /\ Create(t) /\ UNCHANGED powered /\ host.at = "idle" /\ host'.at = "plug"
    BY <1>7 DEF PlugIn, HostAt, Idle, Place, HostAssumption
  <2>2. Scheduled' = Scheduled \cup {t} /\ \A s \in Thread \ {t} : handle'[s] = handle[s]
    BY <2>1, CreateMembers
  <2>3. Serialized' = Serialized
    BY <2>2 DEF Serialized
  <2> QED
    BY <2>1, <2>2, <2>3 DEF Listing
<1>8. ASSUME NEW t \in Pluggable, PlugGamepad(t)
      PROVE  Listing'
  BY <1>8 DEF PlugGamepad, HostAt, Idle, Place, objects, Listing, Serialized, Scheduled
<1>9. CASE DeleteOld
  <2>1. host.at = "plug" /\ host'.at = "idle" /\ UNCHANGED powered
    BY <1>9 DEF DeleteOld, HostAt, Idle, Place
  <2>2. CASE host.list = <<>>
    BY <1>9, <2>1, <2>2 DEF DeleteOld, objects, Listing, Serialized, Scheduled
  <2>3. CASE host.list # <<>>
    <3> DEFINE t == Head(host.list)
    <3>1. t \in Pluggable /\ t \in Thread /\ Destroy(t)
      BY <1>0, <1>9, <2>1, <2>3, HeadTailElems DEF PowerOK, HostState, DeleteOld
    <3> HIDE DEF t
    <3>2. Scheduled' = Scheduled \ {t}
      BY <3>1, DestroyFacts
    <3>3. Serialized' = Serialized
      BY <1>0, <3>1 DEF Destroy, Serialized, TypeOK
    <3> QED
      BY <2>1, <3>1, <3>2, <3>3 DEF Listing, Serialized
  <2> QED
    BY <2>2, <2>3
<1> QED
  BY <1>1, <1>3, <1>4, <1>5, <1>6, <1>7, <1>8, <1>9 DEF Next, HostStep

LEMMA NextSaveInv ==
  ASSUME ConstantsAssumption, RestartAssumption, HostAssumption, SaveInv, PowerOK, Next
  PROVE  SaveInv' /\ PowerOK'
<1>0. Ready /\ Owners /\ Saving
  BY DEF SaveInv
<1>1. CASE ThreadStep
  BY <1>0, <1>1, ThreadStepReady, ThreadStepOwners, ThreadStepSaving, ThreadStepPower DEF SaveInv
<1>2. CASE HostStep
  BY <1>0, <1>2, HostStepReady, HostStepOwners, HostStepSaving, HostStepPower DEF SaveInv
<1> QED
  BY <1>1, <1>2 DEF Next

\* During power() the host creates threads, then sets the scheduler up.
LEMMA PowerSteps ==
  ASSUME ConstantsAssumption, Ready, Next, host.at = "power"
  PROVE  CreateThread \/ PowerScheduler
<1>1. active = Host /\ Host \notin Handle
  BY DEF Ready, HostTurn, ConstantsAssumption
<1>2. ~ThreadStep
  BY <1>1, WhoExits
<1> QED
  BY <1>1, <1>2 DEF Next, HostStep, PowerOn, PowerOff, Run, RunReturns, SaveState, EnterAgain,
     EnterAuxiliary, EverySynchronized, SaveReturns, Eject, PlugIn, PlugGamepad, DeleteOld,
     HostAt, Idle, Place

LEMMA EmulateState ==
  ASSUME ConstantsAssumption, RestartAssumption, HostAssumption, StateInv, Emulate
  PROVE  StateInv'
<1>0. /\ Ready /\ TypeOK /\ PowerOK /\ Listing /\ Next /\ ListOK /\ HostTurn
      /\ UNCHANGED file /\ Host \notin Handle /\ Null \notin Handle
  BY DEF StateInv, SaveInv, Ready, Emulate, ConstantsAssumption
<1>1. SaveInv' /\ PowerOK' /\ Listing'
  BY <1>0, NextSaveInv, NextListing DEF StateInv
<1>2. FileOK'
  BY <1>0 DEF StateInv, FileOK
<1>3. Loading'
  <2> SUFFICES ASSUME load' = "power"
               PROVE  Loading'
    BY DEF Loading
  <2>1. load = "power" /\ host.at = "power" /\ active = Host
    BY <1>0 DEF Emulate, HostTurn
  <2>2. CASE CreateThread
    <3> DEFINE t == Head(host.list)
    <3>1. /\ Create(t) /\ host.list # <<>> /\ host'.at = "power" /\ host'.list = Tail(host.list)
          /\ UNCHANGED <<active, powered>>
      BY <1>0, <2>1, <2>2 DEF CreateThread, HostAt, TypeOK, HostState
    <3>2. Elems(host.list) = {t} \cup Elems(Tail(host.list)) /\ t \in Thread
      BY <1>0, <3>1, HeadTailElems DEF TypeOK, HostState
    <3> HIDE DEF t
    <3>3. t \in Scheduled
      BY <2>1, <3>2 DEF StateInv, Loading
    <3>4. Scheduled' = Scheduled \cup {t} /\ (t \in Scheduled => UNCHANGED <<uid, handle>>)
      BY <1>0, <3>1, <3>2, CreateMembers DEF StateInv
    <3> QED
      BY <1>0, <2>1, <3>1, <3>2, <3>3, <3>4 DEF StateInv, Loading, Serialized
  <2>3. CASE PowerScheduler
    <3>1. /\ UNCHANGED <<handle, uid, threads, active, powered>> /\ host'.at = "idle"
      BY <2>3 DEF PowerScheduler, Idle, Place
    <3> QED
      BY <1>0, <2>1, <3>1 DEF StateInv, Loading, Serialized, Scheduled
  <2>4. CreateThread \/ PowerScheduler
    BY <1>0, <2>1, PowerSteps
  <2> QED
    BY <2>2, <2>3, <2>4
<1> QED
  BY <1>1, <1>2, <1>3 DEF StateInv

\* System::serialize(true): what is written are the clocks of scheduled threads.
LEMMA WriteStateState ==
  ASSUME ConstantsAssumption, RestartAssumption, HostAssumption, StateInv, WriteState
  PROVE  StateInv'
<1>0. /\ Ready /\ TypeOK /\ PowerOK /\ Listing /\ ClocksOK /\ Next /\ host.at = "saved"
      /\ file' = State(Serialized) /\ UNCHANGED <<load, uid, clock, threads, handle>>
  BY DEF StateInv, SaveInv, Ready, WriteState, SaveReturns, HostAt, Next, HostStep, objects
<1>1. SaveInv' /\ PowerOK' /\ Listing'
  BY <1>0, NextSaveInv, NextListing DEF StateInv
<1>2. Serialized \subseteq Scheduled /\ Serialized \subseteq Thread \ Pluggable
  BY <1>0 DEF PowerOK, Listing, Serialized
<1>3. FileOK'
  <2>1. /\ file'.members = Serialized
        /\ \A t \in Serialized : file'.clock[t] = clock[t] /\ file'.uid[t] = uid[t]
    BY <1>0 DEF State, ClocksOf
  <2>2. \A t \in Serialized : uid[t] <= clock[t] /\ clock[t] - uid[t] <= MaxClock
    BY <1>0, <1>2 DEF ClocksOK
  <2>3. \A t \in Serialized : clock[t] \in 0 .. W - 1 /\ uid[t] \in 0 .. MaxID
    BY <1>0, <1>2 DEF TypeOK
  <2> QED
    BY <1>2, <2>1, <2>2, <2>3 DEF FileOK
<1>4. Loading'
  BY <1>0 DEF StateInv, Loading
<1> QED
  BY <1>1, <1>3, <1>4 DEF StateInv

\* System::unserialize as far as power(false): the threads in the file are those that
\* power() is about to create again.
LEMMA ReadStateState ==
  ASSUME ConstantsAssumption, HostAssumption, SameIDs, StateInv, ReadState
  PROVE  StateInv'
<1>0. /\ Ready /\ TypeOK /\ PowerOK /\ Listing /\ HostAt("idle") /\ powered
      /\ file.members = Serialized /\ \A t \in file.members : file.uid[t] = uid[t]
      /\ load' = "power" /\ UNCHANGED <<file, powered>>
  BY DEF StateInv, SaveInv, Ready, ReadState
<1>1. PICK boot \in Boots : Elems(boot) = Serialized /\ Power(boot)
  BY DEF ReadState
<1>2. /\ UNCHANGED <<objects, sched, entryPoints, stack, active>>
      /\ host' = Place("power", boot, 0) /\ host'.at = "power" /\ host'.list = boot
      /\ host' \in HostState
  BY <1>1, PowerHost DEF Power, Place
<1>3. SaveInv'
  <2>1. Ready'
    BY <1>0, <1>2, HostMoves DEF TypeOK, HostAt, sched
  <2>2. Owners'
    BY <1>2 DEF StateInv, SaveInv, Owners, Apart, CpuAtHome, PrimaryIsCpu, objects, sched
  <2>3. Saving'
    BY <1>2 DEF Saving, SavingPrimary, SavingAuxiliary, SnapshotConsistent
  <2> QED
    BY <2>1, <2>2, <2>3 DEF SaveInv
<1>4. PowerOK'
  BY <1>0, <1>2 DEF PowerOK, HostAt, objects
<1>5. Serialized \subseteq Scheduled
  BY <1>0 DEF Listing, HostAt
<1>6. Listing' /\ Loading'
  BY <1>0, <1>1, <1>2, <1>5 DEF Listing, Loading, Serialized, Scheduled, objects, HostAt
<1>7. FileOK'
  BY <1>0 DEF StateInv, FileOK
<1> QED
  BY <1>3, <1>4, <1>6, <1>7 DEF StateInv

\* ... and the rest of it: the clocks that are loaded fit the identifiers.
LEMMA RestoreStateState ==
  ASSUME ConstantsAssumption, StateInv, RestoreState
  PROVE  StateInv'
<1>0. /\ Ready /\ TypeOK /\ FileOK /\ Loading /\ load = "power" /\ host.at = "idle"
      /\ load' = "fresh"
      /\ clock' = [t \in Thread |-> IF t \in file.members THEN file.clock[t] ELSE clock[t]]
      /\ UNCHANGED <<handle, threads, uid, entryPoints, stack, active, sched, host, powered, file>>
  BY DEF StateInv, SaveInv, Ready, RestoreState, Loaded, HostAt
<1>1. TypeOK'
  <2>1. clock' \in [Thread -> 0 .. W - 1]
    BY <1>0 DEF TypeOK, FileOK
  <2> QED
    BY <1>0, <2>1 DEF TypeOK, sched
<1>2. ClocksOK'
  <2>1. ASSUME NEW t \in Scheduled
        PROVE  uid[t] <= clock'[t] /\ clock'[t] - uid[t] <= MaxClock
    <3>1. t \in Thread /\ uid[t] <= clock[t] /\ clock[t] - uid[t] <= MaxClock
      BY <1>0, ScheduledThreads DEF Ready, ClocksOK
    <3>2. t \in file.members =>
            file.uid[t] = uid[t] /\ file.uid[t] <= file.clock[t] /\ file.clock[t] - file.uid[t] <= MaxClock
      BY <1>0 DEF FileOK, Loading
    <3> QED
      BY <1>0, <3>1, <3>2
  <2> QED
    BY <1>0, <2>1 DEF ClocksOK, Scheduled
<1>3. Ready'
  BY <1>0, <1>1, <1>2 DEF Ready, HostTurn, ListOK, UniqueIDs, Scheduled
<1>4. Owners' /\ Saving'
  BY <1>0 DEF StateInv, SaveInv, Owners, Apart, CpuAtHome, PrimaryIsCpu, Saving, SavingPrimary,
     SavingAuxiliary, SnapshotConsistent, sched
<1>5. PowerOK' /\ Listing' /\ FileOK' /\ Loading'
  BY <1>0 DEF StateInv, PowerOK, Listing, FileOK, Loading, Serialized, Scheduled
<1> QED
  BY <1>3, <1>4, <1>5 DEF StateInv, SaveInv

\* System::unload and load leave no thread in the list.
LEMMA ReloadState ==
  ASSUME ConstantsAssumption, HostAssumption, StateInv, Reload
  PROVE  StateInv'
<1> DEFINE deleted == {t \in Chip \cup Pluggable : handle[t] # Null}
<1>0. /\ TypeOK /\ Ready /\ stack \in [Handle -> GoodCell] /\ Cpu \notin deleted /\ Cpu \in Thread
      /\ Null \notin Handle /\ HostAt("idle")
      /\ handle' = [t \in Thread |-> IF t \in deleted THEN Null ELSE handle[t]]
      /\ stack' = [h \in Handle |-> IF \E t \in deleted : handle[t] = h THEN Freed ELSE stack[h]]
      /\ threads' = <<>> /\ ~powered' /\ powered' \in BOOLEAN /\ load' = "none"
      /\ UNCHANGED <<uid, clock, entryPoints, active, sched, host, file>>
  BY DEF StateInv, SaveInv, Ready, Reload, ResetList, HostAssumption, ConstantsAssumption
<1> HIDE DEF deleted
<1>1. stack' \in [Handle -> GoodCell] /\ stack' \in [Handle -> Continuation]
  <2>1. stack' \in [Handle -> GoodCell]
    BY <1>0, CellsGood
  <2> QED
    BY <1>0, <2>1 DEF GoodCell
<1>2. TypeOK'
  <2>1. handle' \in [Thread -> Handle \cup {Null}] /\ <<>> \in Seq(Thread)
    BY <1>0 DEF TypeOK
  <2> QED
    BY <1>0, <1>1, <2>1 DEF TypeOK, sched
<1>3. Scheduled' = {} /\ Distinct(threads')
  BY <1>0 DEF Scheduled, Elems, Distinct
<1>4. Ready'
  BY <1>0, <1>1, <1>2, <1>3 DEF Ready, HostTurn, ListOK, UniqueIDs, ClocksOK
<1>5. \A t \in Thread : handle'[t] = handle[t] \/ handle'[t] = Null
  BY <1>0
<1>6. Owners'
  <2>1. Apart'
    BY <1>0, <1>5 DEF StateInv, SaveInv, Owners, Apart
  <2>2. handle'[Cpu] = handle[Cpu] /\ Freed.owner # Cpu
    BY <1>0 DEF Freed, ConstantsAssumption
  <2>3. CpuAtHome'
    BY <1>0, <2>2 DEF StateInv, SaveInv, Owners, CpuAtHome
  <2> QED
    BY <1>0, <2>1, <2>2, <2>3 DEF StateInv, SaveInv, Owners, PrimaryIsCpu, HostAt, sched
<1>7. Saving' /\ PowerOK' /\ Listing' /\ Loading'
  BY <1>0 DEF Saving, SavingPrimary, SavingAuxiliary, SnapshotConsistent, PowerOK, Listing,
     Loading, HostAt
<1>8. FileOK'
  BY <1>0 DEF StateInv, FileOK
<1> QED
  BY <1>4, <1>6, <1>7, <1>8 DEF StateInv, SaveInv

LEMMA InitState ==
  ASSUME ConstantsAssumption, LoadInit
  PROVE  StateInv
<1>1. SaveInv
  BY InitSaveInv DEF LoadInit
<1>2. PowerOK /\ Listing
  BY DEF LoadInit, Init, PowerOK, Listing, Idle, Place
<1>3. FileOK /\ Loading
  BY DEF LoadInit, NoFile, FileOK, Loading
<1> QED
  BY <1>1, <1>2, <1>3 DEF StateInv

LEMMA StutterState ==
  ASSUME StateInv, UNCHANGED loadVars
  PROVE  StateInv'
<1>1. UNCHANGED vars /\ UNCHANGED <<file, load>>
  BY DEF loadVars
<1>2. SaveInv'
  BY <1>1, StutterSaveInv DEF StateInv
<1> QED
  BY <1>1, <1>2 DEF StateInv, PowerOK, Listing, FileOK, Loading, Serialized, Scheduled, vars

\* The invariant of a system that is saved, loaded, unloaded and loaded again, whose
\* states are loaded into the same threads that saved them.
THEOREM AlwaysState ==
  ASSUME SameIDs
  PROVE  LoadSpec => []StateInv
<1>1. LoadInit => StateInv
  BY ConstantsAssumption, InitState
<1>2. StateInv /\ [LoadNext]_loadVars => StateInv'
  <2> SUFFICES ASSUME StateInv, [LoadNext]_loadVars
               PROVE  StateInv'
    OBVIOUS
  <2>1. CASE Emulate
    BY <2>1, ConstantsAssumption, RestartAssumption, HostAssumption, EmulateState
  <2>2. CASE WriteState
    BY <2>2, ConstantsAssumption, RestartAssumption, HostAssumption, WriteStateState
  <2>3. CASE ReadState
    BY <2>3, ConstantsAssumption, HostAssumption, ReadStateState
  <2>4. CASE RestoreState
    BY <2>4, ConstantsAssumption, RestoreStateState
  <2>5. CASE Reload
    BY <2>5, ConstantsAssumption, HostAssumption, ReloadState
  <2>6. CASE UNCHANGED loadVars
    BY <2>6, StutterState
  <2> QED
    BY <2>1, <2>2, <2>3, <2>4, <2>5, <2>6 DEF LoadNext
<1> QED
  BY <1>1, <1>2, PTL DEF LoadSpec

\* What the scheduler's list contains has a coroutine: unloading deletes chips and
\* devices with the list still full, but the list is reset before anything runs.
THEOREM ScheduledLive ==
  ASSUME SameIDs
  PROVE  LoadSpec => []ScheduledAlive
<1>1. StateInv => ScheduledAlive
  BY ConstantsAssumption DEF StateInv, SaveInv, Ready, ListOK, ScheduledAlive, ConstantsAssumption
<1> QED
  BY <1>1, AlwaysState, PTL

\* Every variable keeps its type also in a system that loads states.
THEOREM LoadedTypes ==
  ASSUME SameIDs
  PROVE  LoadSpec => []TypeOK
<1>1. StateInv => TypeOK
  BY DEF StateInv, SaveInv, Ready
<1> QED
  BY <1>1, AlwaysState, PTL

\* Thread::serialize puts clocks back that were made with the same identifiers, so that
\* they stay above them; loaded with other ones, exit() would wrap them.
THEOREM LoadedClocks ==
  ASSUME SameIDs
  PROVE  LoadSpec => []ClockAboveID
<1>1. StateInv => ClockAboveID
  BY DEF StateInv, SaveInv, Ready, ClocksOK, ClockAboveID
<1> QED
  BY <1>1, AlwaysState, PTL

\* A state that is written is one of threads at their safe points, also in a system
\* whose states were loaded before, and which was unloaded and loaded again.
THEOREM WrittenConsistent ==
  ASSUME SameIDs
  PROVE  LoadSpec => []SnapshotConsistent
<1>1. StateInv => SnapshotConsistent
  BY DEF StateInv, SaveInv, Saving
<1> QED
  BY <1>1, AlwaysState, PTL

-----------------------------------------------------------------------------
(***************************************************************************)
(* Saving what was just loaded                                             *)
(***************************************************************************)
\* How far the members of the file are apart.
LeadsLoaded ==
  \A s, t \in file.members : clock[s] + file.clock[t] = clock[t] + file.clock[s]

OnlyDevicesAtWork == \A h \in Handle : stack[h].at = "main" => stack[h].owner \in Pluggable

\* unserialize's power() takes every component out of its entry point.
Restarting ==
  load = "power" =>
    \A h \in Handle : stack[h].at = "main" =>
      stack[h].owner \in Pluggable \/ (host.at = "power" /\ stack[h].owner \in Elems(host.list))

\* Until a component works, the loaded clocks are shifted, and all alike.
Fresh ==
  load = "fresh" =>
    /\ host.at # "power"
    /\ powered => file.members \subseteq Scheduled
    /\ LeadsLoaded /\ OnlyDevicesAtWork

LoadInv == StateInv /\ OwnInv /\ Restarting /\ Fresh

LEMMA FreshThreadStep ==
  ASSUME ConstantsAssumption, RestartAssumption, HostAssumption, StateInv, Fresh,
         load = "fresh", ThreadStep, ~Works, UNCHANGED file
  PROVE  LeadsLoaded' /\ OnlyDevicesAtWork'
<1>0. /\ Ready /\ TypeOK /\ stack \in [Handle -> GoodCell] /\ active \in Handle
      /\ LeadsLoaded /\ OnlyDevicesAtWork
  <2>1. Ready
    BY DEF StateInv, SaveInv
  <2> QED
    BY <2>1, WhoExits DEF Ready, Fresh
<1>1. /\ file.members \subseteq Scheduled /\ file.members \subseteq Thread \ Pluggable
      /\ host.at # "power" /\ \A t \in file.members : clock[t] \in Nat /\ file.clock[t] \in Nat
  <2>1. powered
    BY <1>0 DEF StateInv, PowerOK, Ready, HostTurn, ConstantsAssumption
  <2> QED
    BY <1>0, <2>1 DEF StateInv, FileOK, Fresh, TypeOK
<1>2. /\ stack[active].at = "main" => Self \in Pluggable
      /\ stack[active].at = "start" => Self \in Pluggable
  BY <1>0 DEF OnlyDevicesAtWork, Works, Self
<1>3. ~RestartThread /\ ~RenewThread
  BY <1>0, <1>2, Restarters DEF RestartThread, RenewThread, At, HostAssumption
<1>4. LeadsLoaded'
  <2>1. CASE Park \/ EndFrame
    <3>1. PICK m \in Nat : \A t \in Scheduled : clock'[t] = clock[t] - m
      BY <1>0, <1>1, <2>1, ExitClocks DEF Park, EndFrame
    <3>2. \A t \in file.members : clock'[t] = clock[t] - m
      BY <1>1, <3>1
    <3> QED
      BY <1>0, <1>1, <3>2 DEF LeadsLoaded
  <2>2. CASE Step
    <3>1. Self \in Pluggable /\ clock' = [clock EXCEPT ![Self] = @ + Head(Todo).n]
      BY <1>2, <2>2 DEF Step, At
    <3>2. \A t \in file.members : clock'[t] = clock[t]
      BY <1>0, <1>1, <3>1 DEF TypeOK
    <3> QED
      BY <1>0, <3>2 DEF LeadsLoaded
  <2>3. CASE ~Park /\ ~EndFrame /\ ~Step
    <3>1. UNCHANGED clock
      BY <1>3, <2>3 DEF ThreadStep, Enter, PassSafePoint, CallEntryPoint, Synchronized, SwitchTo,
         SynchronizeAll, SynchronizeSlot, SynchronizePeripheral, FlagSet, KeepWaiting,
         StopWaiting, objects
    <3> QED
      BY <1>0, <3>1 DEF LeadsLoaded
  <2> QED
    BY <2>1, <2>2, <2>3
<1>5. OnlyDevicesAtWork'
  <2>1. \A h \in Handle \ {active} : stack'[h] = stack[h]
    BY <1>0, <1>3, OwnStackOnly
  <2>2. CASE Enter
    <3>1. stack'[active].at \in {"threw", "top"}
      BY <1>0, <2>2 DEF Enter, Running, GoodCell, Continuation
    <3> QED
      BY <1>0, <2>1, <3>1 DEF OnlyDevicesAtWork
  <2>3. CASE ~Enter
    <3>1. stack'[active].owner = Self
      BY <1>0, <1>3, <2>3, OwnStackOnly DEF Self
    <3>2. CASE stack[active].at \in {"main", "start"}
      BY <1>0, <1>2, <2>1, <3>1, <3>2 DEF OnlyDevicesAtWork
    <3>3. CASE stack[active].at \notin {"main", "start"}
      <4>1. Park \/ PassSafePoint
        BY <1>3, <2>3, <3>3 DEF ThreadStep, CallEntryPoint, Step, Synchronized, SwitchTo,
           SynchronizeAll, SynchronizeSlot, SynchronizePeripheral, EndFrame, FlagSet,
           KeepWaiting, StopWaiting, At
      <4>2. stack'[active].at = "start"
        BY <1>0, <4>1 DEF Park, PassSafePoint, Exit, GoodCell, Continuation
      <4> QED
        BY <1>0, <2>1, <4>2 DEF OnlyDevicesAtWork
    <3> QED
      BY <3>2, <3>3
  <2> QED
    BY <2>2, <2>3
<1> QED
  BY <1>4, <1>5

LEMMA FreshHostStep ==
  ASSUME ConstantsAssumption, HostAssumption, StateInv, Fresh,
         load = "fresh", HostStep, host'.at # "power", UNCHANGED file
  PROVE  /\ powered' => file.members \subseteq Scheduled'
         /\ LeadsLoaded' /\ OnlyDevicesAtWork'
<1>0. /\ Ready /\ TypeOK /\ stack \in [Handle -> GoodCell] /\ host.at # "power"
      /\ powered => file.members \subseteq Scheduled
      /\ file.members \subseteq Thread \ Pluggable
      /\ LeadsLoaded /\ OnlyDevicesAtWork
  BY DEF StateInv, SaveInv, Ready, Fresh, FileOK
<1>1. ASSUME UNCHANGED <<clock, threads, stack>>, powered' => powered
      PROVE  /\ powered' => file.members \subseteq Scheduled'
             /\ LeadsLoaded' /\ OnlyDevicesAtWork'
  BY <1>0, <1>1 DEF LeadsLoaded, OnlyDevicesAtWork, Scheduled
<1>2. ASSUME NEW t \in Thread, Destroy(t), ~powered' \/ (t \in Pluggable /\ UNCHANGED powered)
      PROVE  /\ powered' => file.members \subseteq Scheduled'
             /\ LeadsLoaded' /\ OnlyDevicesAtWork'
  <2>1. Scheduled' = Scheduled \ {t} /\ UNCHANGED clock
    BY <1>0, <1>2, DestroyFacts
  <2>2. stack' = [stack EXCEPT ![handle[t]] = Freed]
    BY <1>2 DEF Destroy
  <2>3. \A h \in Handle : stack'[h] = stack[h] \/ stack'[h].at = "freed"
    BY <1>0, <2>2 DEF Freed
  <2> QED
    BY <1>0, <1>2, <2>1, <2>3 DEF LeadsLoaded, OnlyDevicesAtWork
<1>3. CASE PowerOn \/ CreateThread \/ PowerScheduler
  BY <1>0, <1>3 DEF PowerOn, CreateThread, PowerScheduler, Power, HostAt, Place
<1>4. CASE \/ PowerOff \/ Run \/ RunReturns \/ SaveState \/ EnterAgain
           \/ (\E i \in 1 .. Len(threads) : EnterAuxiliary(i)) \/ EverySynchronized \/ SaveReturns
  <2>1. UNCHANGED <<clock, threads, stack>> /\ (powered' => powered)
    BY <1>4 DEF PowerOff, Run, RunReturns, Power, SaveState, EnterAgain, EnterAuxiliary,
       EverySynchronized, SaveReturns, SwitchIn, objects
  <2> QED
    BY <1>1, <2>1
<1>5. CASE Eject
  <2>1. PICK t \in Chip : Destroy(t) /\ ~powered /\ UNCHANGED powered
    BY <1>5 DEF Eject
  <2>2. t \in Thread
    BY DEF HostAssumption
  <2> QED
    BY <1>2, <2>1, <2>2
<1>6. ASSUME NEW t \in Pluggable, PlugIn(t)
      PROVE  /\ powered' => file.members \subseteq Scheduled'
             /\ LeadsLoaded' /\ OnlyDevicesAtWork'
  <2>1. t \in Thread /\ Create(t) /\ UNCHANGED powered
    BY <1>6 DEF PlugIn, HostAssumption
  <2>2. Scheduled' = Scheduled \cup {t} /\ \A s \in Thread \ {t} : clock'[s] = clock[s]
    BY <1>0, <2>1, CreateMembers
  <2>3. \A s \in file.members : clock'[s] = clock[s]
    BY <1>0, <1>6, <2>2
  <2>4. PICK h \in Handle \cup {Null} : stack' = [stack EXCEPT ![h] = Derived]
    BY <1>0, <2>1 DEF Create, AddressFor, TypeOK
  <2>5. \A g \in Handle : stack'[g] = stack[g] \/ stack'[g].at = "entry"
    BY <1>0, <2>4 DEF Derived
  <2> QED
    BY <1>0, <2>1, <2>2, <2>3, <2>5 DEF LeadsLoaded, OnlyDevicesAtWork
<1>7. ASSUME NEW t \in Pluggable, PlugGamepad(t)
      PROVE  /\ powered' => file.members \subseteq Scheduled'
             /\ LeadsLoaded' /\ OnlyDevicesAtWork'
  BY <1>1, <1>7 DEF PlugGamepad, objects
<1>8. CASE DeleteOld
  <2>1. CASE host.list = <<>>
    BY <1>1, <1>8, <2>1 DEF DeleteOld, objects
  <2>2. CASE host.list # <<>>
    <3>1. Head(host.list) \in Pluggable /\ Destroy(Head(host.list)) /\ UNCHANGED powered
      BY <1>0, <1>8, <2>2, HeadTailElems DEF DeleteOld, HostAt, StateInv, PowerOK, TypeOK, HostState
    <3> QED
      BY <1>2, <3>1 DEF HostAssumption
  <2> QED
    BY <2>1, <2>2
<1> QED
  BY <1>3, <1>4, <1>5, <1>6, <1>7, <1>8 DEF HostStep

LEMMA EmulateLoad ==
  ASSUME ConstantsAssumption, RestartAssumption, HostAssumption, Settled, RenewsAlone, LoadInv,
         Emulate
  PROVE  LoadInv'
<1>0. /\ StateInv /\ OwnInv /\ Ready /\ TypeOK /\ Owners /\ PowerOK /\ Next /\ UNCHANGED file
      /\ stack \in [Handle -> GoodCell]
  BY DEF LoadInv, StateInv, SaveInv, Ready, Emulate
<1>1. StateInv'
  BY <1>0, EmulateState
<1>2. OwnInv'
  BY <1>0, ThreadStepOwn, HostStepOwn DEF Next
<1>3. Restarting'
  <2> SUFFICES ASSUME load' = "power"
               PROVE  Restarting'
    BY DEF Restarting
  <2>1. load = "power" /\ host.at = "power"
    BY DEF Emulate
  <2>2. CASE PowerScheduler
    <3>1. host.list = <<>> /\ UNCHANGED stack
      BY <2>2 DEF PowerScheduler
    <3>2. Elems(host.list) = {}
      BY <3>1 DEF Elems
    <3> QED
      BY <2>1, <3>1, <3>2 DEF LoadInv, Restarting
  <2>3. CASE CreateThread
    <3> DEFINE t == Head(host.list)
    <3>1. /\ Create(t) /\ host.list # <<>> /\ host'.at = "power" /\ host'.list = Tail(host.list)
      BY <1>0, <2>1, <2>3 DEF CreateThread, TypeOK, HostState
    <3>2. Elems(host.list) = {t} \cup Elems(Tail(host.list)) /\ t \in Thread
      BY <1>0, <3>1, HeadTailElems DEF TypeOK, HostState
    <3> HIDE DEF t
    <3>3. handle[t] \in Handle
      BY <1>0, <2>1, <3>2 DEF StateInv, Loading, Serialized, TypeOK
    <3>4. stack' = [stack EXCEPT ![handle[t]] = Derived]
      BY <1>0, <3>1, <3>3 DEF Create, AddressFor, ConstantsAssumption
    <3>5. ASSUME NEW h \in Handle, stack'[h].at = "main"
          PROVE  stack'[h].owner \in Pluggable \cup Elems(Tail(host.list))
      <4>1. h # handle[t] /\ stack'[h] = stack[h]
        BY <1>0, <3>3, <3>4, <3>5 DEF Derived
      <4>2. stack[h].owner # t
        BY <1>0, <3>5, <4>1 DEF OwnInv, RunsOwnEntry
      <4> QED
        BY <2>1, <3>2, <3>5, <4>1, <4>2 DEF LoadInv, Restarting
    <3> QED
      BY <3>1, <3>5 DEF Restarting
  <2> QED
    BY <1>0, <2>1, <2>2, <2>3, PowerSteps
<1>4. Fresh'
  <2> SUFFICES ASSUME load' = "fresh"
               PROVE  Fresh'
    BY DEF Fresh
  <2>1. load = "fresh" /\ ~Works /\ host.at # "power" /\ host'.at # "power" /\ Fresh
    BY DEF Emulate, Works, LoadInv, Fresh
  <2>2. CASE ThreadStep
    <3>1. UNCHANGED powered /\ Scheduled' = Scheduled
      BY <1>0, <2>2, ThreadStepLives, ThreadStepMembers
    <3> QED
      BY <1>0, <2>1, <2>2, <3>1, FreshThreadStep DEF Fresh
  <2>3. CASE HostStep
    BY <1>0, <2>1, <2>3, FreshHostStep DEF Fresh
  <2> QED
    BY <1>0, <2>2, <2>3 DEF Next
<1> QED
  BY <1>1, <1>2, <1>3, <1>4 DEF LoadInv

LEMMA WriteStateLoad ==
  ASSUME ConstantsAssumption, RestartAssumption, HostAssumption, Settled, RenewsAlone, LoadInv,
         WriteState
  PROVE  LoadInv'
<1>0. /\ StateInv /\ OwnInv /\ Ready /\ TypeOK /\ Owners /\ PowerOK /\ Listing /\ Loading
      /\ HostStep /\ host.at = "saved" /\ host'.at = "idle" /\ file' = State(Serialized)
      /\ UNCHANGED <<load, clock, threads, stack, powered>>
  BY DEF LoadInv, StateInv, SaveInv, Ready, WriteState, SaveReturns, HostAt, HostStep, objects,
     Idle, Place
<1>1. StateInv' /\ OwnInv'
  BY <1>0, WriteStateState, HostStepOwn
<1>2. Restarting'
  BY <1>0 DEF Loading, Restarting
<1>3. Fresh'
  <2>1. Serialized \subseteq Scheduled /\ Serialized \subseteq Thread
    BY <1>0 DEF Listing, PowerOK, Serialized
  <2>2. file'.members = Serialized /\ \A t \in Serialized : file'.clock[t] = clock[t]
    BY <1>0 DEF State, ClocksOf
  <2>3. LeadsLoaded'
    BY <1>0, <2>1, <2>2 DEF LeadsLoaded, TypeOK
  <2> QED
    BY <1>0, <2>1, <2>2, <2>3 DEF LoadInv, Fresh, OnlyDevicesAtWork, Scheduled
<1> QED
  BY <1>1, <1>2, <1>3 DEF LoadInv

LEMMA ReadStateLoad ==
  ASSUME ConstantsAssumption, HostAssumption, SameIDs, LoadInv, ReadState
  PROVE  LoadInv'
<1>1. StateInv'
  BY ReadStateState DEF LoadInv
<1>2. PICK boot \in Boots : Elems(boot) = Serialized /\ Power(boot)
  BY DEF ReadState
<1>3. /\ UNCHANGED <<handle, entryPoints, stack>> /\ load' = "power"
      /\ host'.at = "power" /\ host'.list = boot
  BY <1>2 DEF ReadState, Power, Place, objects
<1>4. OwnInv'
  BY <1>3 DEF LoadInv, OwnInv, EntriesApart, EntriesOwned, CellsLive, DeletedEntered, RunsOwnEntry
<1>5. \A h \in Handle : stack[h].at = "main" => stack[h].owner \in Pluggable \cup Serialized
  <2>1. stack \in [Handle -> GoodCell] /\ Null \notin Handle
    BY DEF LoadInv, StateInv, SaveInv, Ready, ConstantsAssumption
  <2> QED
    BY <2>1 DEF LoadInv, OwnInv, RunsOwnEntry, Serialized, GoodCell
<1>6. Restarting' /\ Fresh'
  BY <1>2, <1>3, <1>5 DEF Restarting, Fresh
<1> QED
  BY <1>1, <1>4, <1>6 DEF LoadInv

LEMMA RestoreStateLoad ==
  ASSUME ConstantsAssumption, LoadInv, RestoreState
  PROVE  LoadInv'
<1>0. /\ StateInv /\ Loading /\ FileOK /\ load = "power" /\ host.at = "idle" /\ load' = "fresh"
      /\ clock' = [t \in Thread |-> IF t \in file.members THEN file.clock[t] ELSE clock[t]]
      /\ UNCHANGED <<handle, threads, entryPoints, stack, host, powered, file>>
  BY DEF LoadInv, StateInv, RestoreState, Loaded, HostAt
<1>1. StateInv'
  BY <1>0, RestoreStateState
<1>2. OwnInv' /\ Restarting'
  BY <1>0 DEF LoadInv, OwnInv, EntriesApart, EntriesOwned, CellsLive, DeletedEntered,
     RunsOwnEntry, Restarting
<1>3. LeadsLoaded'
  <2>1. \A t \in file.members : clock'[t] = file.clock[t] /\ file.clock[t] \in Nat
    BY <1>0 DEF FileOK
  <2>2. \A s, t \in file.members : clock'[s] + file.clock[t] = clock'[t] + file.clock[s]
    BY <2>1
  <2> QED
    BY <1>0, <2>2 DEF LeadsLoaded
<1>4. Fresh'
  BY <1>0, <1>3 DEF Fresh, Loading, LoadInv, Restarting, OnlyDevicesAtWork, Scheduled
<1> QED
  BY <1>1, <1>2, <1>4 DEF LoadInv

\* Unloading deletes chips and devices none of which has an entry point pending.
LEMMA ReloadLoad ==
  ASSUME ConstantsAssumption, HostAssumption, Settled, RenewsAlone, LoadInv, Reload
  PROVE  LoadInv'
<1> DEFINE deleted == {t \in Chip \cup Pluggable : handle[t] # Null}
<1>0. /\ StateInv /\ OwnInv /\ TypeOK /\ stack \in [Handle -> GoodCell] /\ Null \notin Handle
      /\ host.at = "idle" /\ UNCHANGED <<entryPoints, host>> /\ load' = "none"
      /\ handle' = [t \in Thread |-> IF t \in deleted THEN Null ELSE handle[t]]
      /\ stack' = [h \in Handle |-> IF \E t \in deleted : handle[t] = h THEN Freed ELSE stack[h]]
  BY DEF LoadInv, StateInv, SaveInv, Ready, Reload, HostAt, ConstantsAssumption
<1>1. /\ \A t \in deleted, k \in DOMAIN entryPoints : entryPoints[k].handle # handle[t]
      /\ deleted \subseteq Thread
      /\ FixedBoard => deleted = {}
  BY DEF Reload, Removable, HostAssumption, FixedBoard
<1> HIDE DEF deleted
<1>2. \A k \in DOMAIN entryPoints : entryPoints[k].handle \in Handle /\ entryPoints[k].owner \in Thread
  BY <1>0, EntryTypes
<1>3. \A t \in Thread : handle'[t] = handle[t] \/ handle'[t] = Null
  BY <1>0
<1>4. EntriesApart'
  <2>1. CASE Renewed = {}
    <3>1. \A k \in DOMAIN entryPoints : handle[entryPoints[k].owner] = entryPoints[k].handle
      BY <1>0, <2>1 DEF OwnInv, EntriesApart
    <3>2. \A k \in DOMAIN entryPoints : handle'[entryPoints[k].owner] = entryPoints[k].handle
      BY <1>0, <1>1, <1>2, <3>1
    <3> QED
      BY <1>0, <1>2, <1>3, <2>1, <3>2 DEF OwnInv, EntriesApart
  <2>2. CASE FixedBoard
    <3>1. handle' = handle
      BY <1>0, <1>1, <2>2 DEF TypeOK
    <3> QED
      BY <1>0, <3>1 DEF OwnInv, EntriesApart, EntriesOwned
  <2> QED
    BY <2>1, <2>2 DEF RenewsAlone
<1>5. ASSUME NEW h \in Handle, stack'[h].at # "freed"
      PROVE  stack'[h] = stack[h] /\ \A t \in Thread : handle[t] = h => handle'[t] = h
  BY <1>0, <1>5 DEF Freed
<1>6. CellsLive' /\ RunsOwnEntry'
  <2>1. CellsLive'
    BY <1>0, <1>5 DEF OwnInv, CellsLive
  <2>2. ASSUME NEW h \in Handle, stack'[h].at \in {"top", "start", "main"}
        PROVE  handle'[stack'[h].owner] = h
    <3>1. stack'[h] = stack[h] /\ handle[stack[h].owner] = h /\ stack[h].owner \in Thread
      BY <1>0, <1>5, <2>2 DEF OwnInv, RunsOwnEntry, GoodCell
    <3> QED
      BY <1>5, <2>2, <3>1
  <2> QED
    BY <2>1, <2>2 DEF RunsOwnEntry
<1>7. StateInv' /\ DeletedEntered' /\ Restarting' /\ Fresh'
  BY <1>0, ReloadState DEF DeletedEntered, Restarting, Fresh
<1> QED
  BY <1>4, <1>6, <1>7 DEF LoadInv, OwnInv

\* The invariant behind loading: whose code runs, who is restarted, who may move.
THEOREM AlwaysLoad ==
  ASSUME SameIDs, Settled, RenewsAlone
  PROVE  LoadSpec => []LoadInv
<1>1. LoadInit => LoadInv
  <2> SUFFICES ASSUME LoadInit
               PROVE  LoadInv
    OBVIOUS
  <2>1. StateInv /\ OwnInv
    BY ConstantsAssumption, InitState, InitOwn DEF LoadInit
  <2> QED
    BY <2>1 DEF LoadInit, LoadInv, Restarting, Fresh
<1>2. LoadInv /\ [LoadNext]_loadVars => LoadInv'
  <2> SUFFICES ASSUME LoadInv, [LoadNext]_loadVars
               PROVE  LoadInv'
    OBVIOUS
  <2>1. CASE Emulate
    BY <2>1, ConstantsAssumption, RestartAssumption, HostAssumption, EmulateLoad
  <2>2. CASE WriteState
    BY <2>2, ConstantsAssumption, RestartAssumption, HostAssumption, WriteStateLoad
  <2>3. CASE ReadState
    BY <2>3, ConstantsAssumption, HostAssumption, ReadStateLoad
  <2>4. CASE RestoreState
    BY <2>4, ConstantsAssumption, RestoreStateLoad
  <2>5. CASE Reload
    BY <2>5, ConstantsAssumption, HostAssumption, ReloadLoad
  <2>6. CASE UNCHANGED loadVars
    <3>1. StateInv' /\ OwnInv' /\ UNCHANGED <<vars, file, load>>
      BY <2>6, StutterState, StutterOwn DEF LoadInv, StateInv, loadVars
    <3> QED
      BY <3>1 DEF LoadInv, Restarting, Fresh, LeadsLoaded, OnlyDevicesAtWork, Scheduled, vars
  <2> QED
    BY <2>1, <2>2, <2>3, <2>4, <2>5, <2>6 DEF LoadNext
<1> QED
  BY <1>1, <1>2, PTL DEF LoadSpec

\* Saving what was just loaded saves the same order: between the two no component works,
\* so nothing but a shift of all the clocks happens to them, whatever devices do.
THEOREM RoundTrips ==
  ASSUME SameIDs, Settled, RenewsAlone
  PROVE  LoadSpec => []RoundTrip
<1>1. LoadInv => RoundTrip
  BY DEF LoadInv, Fresh, LeadsLoaded, RoundTrip
<1> QED
  BY <1>1, AlwaysLoad, PTL

\* Coroutines run the entry points of their own threads also when states are loaded and
\* the system is unloaded and loaded again.
THEOREM LoadedOwnEntries ==
  ASSUME SameIDs, Settled, RenewsAlone
  PROVE  LoadSpec => []RunsOwnEntry
<1>1. LoadInv => RunsOwnEntry
  BY DEF LoadInv, OwnInv
<1> QED
  BY <1>1, AlwaysLoad, PTL
=============================================================================
