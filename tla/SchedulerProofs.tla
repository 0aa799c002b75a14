-------------------------- MODULE SchedulerProofs --------------------------
(***************************************************************************)
(* Theorems of SystemHost, for every set of threads, handles and programs  *)
(* and for every bound.  Ready is the inductive invariant behind the types *)
(* and the clocks.                                                         *)
(***************************************************************************)
EXTENDS SystemHost, SequenceTheorems, TLAPS

-----------------------------------------------------------------------------
(***************************************************************************)
(* Lists without duplicates                                                *)
(***************************************************************************)
Distinct(s) == \A i, j \in DOMAIN s : s[i] = s[j] => i = j

\* vector::append of a new element keeps a list distinct.
LEMMA AppendDistinct ==
  ASSUME NEW S, NEW s \in Seq(S), NEW e \in S, Distinct(s), e \notin Elems(s)
  PROVE  /\ Append(s, e) \in Seq(S)
         /\ Distinct(Append(s, e))
         /\ Elems(Append(s, e)) = Elems(s) \cup {e}
<1>1. /\ Append(s, e) \in Seq(S)
      /\ DOMAIN Append(s, e) = 1 .. Len(s) + 1
      /\ DOMAIN s = 1 .. Len(s) /\ Len(s) \in Nat
      /\ \A i \in 1 .. Len(s) : Append(s, e)[i] = s[i]
      /\ Append(s, e)[Len(s) + 1] = e
  BY AppendProperties, LenProperties
<1>2. \A i \in 1 .. Len(s) : s[i] # e
  BY <1>1 DEF Elems
<1>3. Distinct(Append(s, e))
  <2> SUFFICES ASSUME NEW i \in 1 .. Len(s) + 1, NEW j \in 1 .. Len(s) + 1,
                      Append(s, e)[i] = Append(s, e)[j]
               PROVE  i = j
    BY <1>1 DEF Distinct
  <2>1. (i = Len(s) + 1 \/ i \in 1 .. Len(s)) /\ (j = Len(s) + 1 \/ j \in 1 .. Len(s))
    BY <1>1
  <2> QED
    BY <1>1, <1>2, <2>1 DEF Distinct
<1>4. Elems(Append(s, e)) = Elems(s) \cup {e}
  BY <1>1 DEF Elems
<1> QED
  BY <1>1, <1>3, <1>4

\* vector::remove shortens a sequence by the one element at the index.
LEMMA DropAtFacts ==
  ASSUME NEW S, NEW s \in Seq(S), NEW k \in DOMAIN s
  PROVE  /\ DropAt(s, k) \in Seq(S)
         /\ DOMAIN DropAt(s, k) = 1 .. Len(s) - 1
         /\ \A i \in 1 .. Len(s) - 1 :
              DropAt(s, k)[i] = IF i < k THEN s[i] ELSE s[i + 1]
<1>1. /\ DOMAIN s = 1 .. Len(s) /\ Len(s) \in Nat /\ k \in 1 .. Len(s)
      /\ \A i \in 1 .. Len(s) : s[i] \in S
  BY LenProperties, ElementOfSeq
<1>2. Len(s) - 1 \in Nat
  BY <1>1
<1>3. \A i \in 1 .. Len(s) - 1 : (IF i < k THEN s[i] ELSE s[i + 1]) \in S
  BY <1>1
<1> QED
  BY <1>2, <1>3, IsASeq DEF DropAt

\* vector::removeByValue takes the value out of a distinct list, and nothing else.
LEMMA WithoutDistinct ==
  ASSUME NEW S, NEW s \in Seq(S), Distinct(s), NEW e
  PROVE  /\ Without(s, e) \in Seq(S)
         /\ Distinct(Without(s, e))
         /\ Elems(Without(s, e)) = Elems(s) \ {e}
<1>1. CASE e \notin Elems(s)
  BY <1>1 DEF Without
<1>2. CASE e \in Elems(s)
  <2> DEFINE k == CHOOSE k \in DOMAIN s : s[k] = e /\ \A j \in 1 .. k - 1 : s[j] # e
  <2>0. DOMAIN s = 1 .. Len(s) /\ Len(s) \in Nat
    BY LenProperties
  <2>1. PICK n \in DOMAIN s : s[n] = e
    BY <1>2 DEF Elems
  <2>2. \A j \in 1 .. n - 1 : s[j] # e
    BY <2>0, <2>1 DEF Distinct
  <2>3. k \in DOMAIN s /\ s[k] = e
    BY <2>1, <2>2
  <2>4. Without(s, e) = DropAt(s, k)
    BY <1>2 DEF Without
  <2> HIDE DEF k
  <2>5. /\ DropAt(s, k) \in Seq(S)
        /\ DOMAIN DropAt(s, k) = 1 .. Len(s) - 1
        /\ \A i \in 1 .. Len(s) - 1 :
             DropAt(s, k)[i] = IF i < k THEN s[i] ELSE s[i + 1]
    BY <2>3, DropAtFacts
  <2>6. Distinct(DropAt(s, k))
    <3> SUFFICES ASSUME NEW i \in 1 .. Len(s) - 1, NEW j \in 1 .. Len(s) - 1,
                        DropAt(s, k)[i] = DropAt(s, k)[j]
                 PROVE  i = j
      BY <2>5 DEF Distinct
    <3> DEFINE src(x) == IF x < k THEN x ELSE x + 1
    <3>1. src(i) \in DOMAIN s /\ src(j) \in DOMAIN s /\ s[src(i)] = s[src(j)]
      BY <2>0, <2>3, <2>5
    <3>2. src(i) = src(j)
      BY <3>1 DEF Distinct
    <3> QED
      BY <2>0, <2>3, <3>2
  <2>7. Elems(DropAt(s, k)) \subseteq Elems(s) \ {e}
    <3> SUFFICES ASSUME NEW i \in 1 .. Len(s) - 1
                 PROVE  DropAt(s, k)[i] \in Elems(s) \ {e}
      BY <2>5 DEF Elems
    <3> DEFINE m == IF i < k THEN i ELSE i + 1
    <3>1. m \in DOMAIN s /\ m # k /\ DropAt(s, k)[i] = s[m]
      BY <2>0, <2>3, <2>5
    <3>2. s[m] # e
      BY <2>3, <3>1 DEF Distinct
    <3> QED
      BY <3>1, <3>2 DEF Elems
  <2>8. Elems(s) \ {e} \subseteq Elems(DropAt(s, k))
    <3> SUFFICES ASSUME NEW n2 \in DOMAIN s, s[n2] # e
                 PROVE  s[n2] \in Elems(DropAt(s, k))
      BY DEF Elems
    <3> DEFINE m == IF n2 < k THEN n2 ELSE n2 - 1
    <3>1. n2 # k
      BY <2>3
    <3>2. m \in 1 .. Len(s) - 1 /\ DropAt(s, k)[m] = s[n2]
      BY <2>0, <2>3, <2>5, <3>1
    <3> QED
      BY <2>5, <3>2 DEF Elems
  <2> QED
    BY <2>4, <2>5, <2>6, <2>7, <2>8
<1> QED
  BY <1>1, <1>2
-----------------------------------------------------------------------------
(***************************************************************************)
(* The invariant                                                           *)
(***************************************************************************)
\* What can be on a coroutine's stack: code of a thread, and only code of the CPU
\* that restarts a thread, which is another one, and renews one of its program's.
OnlyCpuRestarts(owner, todo) ==
  \A k \in DOMAIN todo :
    /\ todo[k].do \in {"restart", "renew"} => owner = Cpu /\ todo[k].peer # Cpu
    /\ todo[k].do = "renew" => todo[k].peer \in Renewed

GoodCell ==
  {c \in Continuation :
     /\ c.at \in {"top", "start", "main"} => c.owner \in Thread
     /\ c.at = "main" <=> c.todo # <<>>
     /\ OnlyCpuRestarts(c.owner, c.todo)}

\* The host acts on the threads only while no other coroutine is active.
HostTurn == host.at \in {"idle", "power", "saved", "plug"} => active = Host

\* A thread is in the scheduler's list at most once, and only with a coroutine.
ListOK ==
  /\ Distinct(threads)
  /\ \A t \in Scheduled : handle[t] \in Handle

\* Outside of power(), every clock leads its identifier, within the bound.
ClocksOK ==
  host.at # "power" =>
    \A t \in Scheduled : uid[t] <= clock[t] /\ clock[t] - uid[t] <= MaxClock

Ready ==
  /\ TypeOK
  /\ stack \in [Handle -> GoodCell]
  /\ HostTurn
  /\ ListOK
  /\ UniqueIDs
  /\ ClocksOK

-----------------------------------------------------------------------------
(***************************************************************************)
(* What the active coroutine leaves on its stack                           *)
(***************************************************************************)
LEMMA CellsGood ==
  /\ Derived \in GoodCell
  /\ Freed \in GoodCell
  /\ \A t \in Thread : Running(t, <<>>) \in GoodCell
  /\ \A t \in Thread, rest \in Seq(Op) :
       OnlyCpuRestarts(t, rest) => Running(t, rest) \in GoodCell
<1>1. <<>> \in Seq(Op) /\ DOMAIN <<>> = {}
  OBVIOUS
<1> QED
  BY <1>1 DEF Derived, Freed, Running, GoodCell, Continuation, Places, OnlyCpuRestarts

\* The operation a coroutine is at, and what is left after it.
LEMMA CurrentOp ==
  ASSUME stack \in [Handle -> GoodCell], NEW call, At(call)
  PROVE  /\ Self \in Thread
         /\ Head(Todo) \in Op
         /\ Tail(Todo) \in Seq(Op)
         /\ OnlyCpuRestarts(Self, Tail(Todo))
         /\ Head(Todo).do \in {"restart", "renew"} => Self = Cpu /\ Head(Todo).peer # Cpu
         /\ Head(Todo).do = "renew" => Head(Todo).peer \in Renewed
<1>1. stack[active] \in GoodCell /\ stack[active].at = "main" /\ active \in Handle
  BY DEF At
<1>2. Self \in Thread /\ Todo \in Seq(Op) /\ Todo # <<>> /\ OnlyCpuRestarts(Self, Todo)
  BY <1>1 DEF GoodCell, Continuation, Self, Todo
<1>3. /\ Head(Todo) \in Op /\ Tail(Todo) \in Seq(Op)
      /\ 1 \in DOMAIN Todo /\ Head(Todo) = Todo[1]
      /\ \A k \in DOMAIN Tail(Todo) : k + 1 \in DOMAIN Todo /\ Tail(Todo)[k] = Todo[k + 1]
  BY <1>2
<1> QED
  BY <1>2, <1>3 DEF OnlyCpuRestarts

\* An operation may be replaced by others that restart no thread.
LEMMA ContinueGood ==
  ASSUME stack \in [Handle -> GoodCell], NEW call, At(call),
         NEW pre \in Seq(Op),
         \A k \in DOMAIN pre : pre[k].do \notin {"restart", "renew"}
  PROVE  Running(Self, pre \o Tail(Todo)) \in GoodCell
<1> DEFINE rest == Tail(Todo)
<1>1. Self \in Thread /\ rest \in Seq(Op) /\ OnlyCpuRestarts(Self, rest)
  BY CurrentOp
<1> HIDE DEF rest
<1>2. /\ pre \o rest \in Seq(Op)
      /\ DOMAIN (pre \o rest) = 1 .. Len(pre) + Len(rest)
      /\ Len(pre) \in Nat /\ Len(rest) \in Nat
      /\ DOMAIN pre = 1 .. Len(pre) /\ DOMAIN rest = 1 .. Len(rest)
      /\ \A k \in 1 .. Len(pre) + Len(rest) :
           (pre \o rest)[k] = IF k <= Len(pre) THEN pre[k] ELSE rest[k - Len(pre)]
  BY <1>1, ConcatProperties, LenProperties
<1>3. OnlyCpuRestarts(Self, pre \o rest)
  <2> SUFFICES ASSUME NEW k \in 1 .. Len(pre) + Len(rest),
                      (pre \o rest)[k].do \in {"restart", "renew"}
               PROVE  /\ Self = Cpu /\ (pre \o rest)[k].peer # Cpu
                      /\ (pre \o rest)[k].do = "renew" => (pre \o rest)[k].peer \in Renewed
    BY <1>2 DEF OnlyCpuRestarts
  <2>1. CASE k <= Len(pre)
    BY <1>2, <2>1
  <2>2. CASE ~(k <= Len(pre))
    BY <1>1, <1>2, <2>2 DEF OnlyCpuRestarts
  <2> QED
    BY <2>1, <2>2
<1> QED
  BY <1>1, <1>2, <1>3, CellsGood DEF rest

\* Whatever a thread does, every stack holds a cell that can be resumed.
LEMMA ThreadStacks ==
  ASSUME ConstantsAssumption, RestartAssumption, Ready, ThreadStep
  PROVE  stack' \in [Handle -> GoodCell]
<1> USE DEF Ready
<1>0. /\ stack \in [Handle -> GoodCell]
      /\ \A c \in GoodCell : [stack EXCEPT ![active] = c] \in [Handle -> GoodCell]
  OBVIOUS
<1>a. ASSUME NEW call, At(call)
      PROVE  /\ Running(Self, Tail(Todo)) \in GoodCell
             /\ Continue(Tail(Todo)) \in [Handle -> GoodCell]
  BY <1>0, <1>a, CurrentOp, CellsGood DEF Continue
<1>b. ASSUME NEW call, At(call), NEW pre \in Seq(Op),
             \A k \in DOMAIN pre : pre[k].do \notin {"restart", "renew"}
      PROVE  Continue(pre \o Tail(Todo)) \in [Handle -> GoodCell]
  BY <1>0, <1>b, ContinueGood DEF Continue
<1>1. CASE Enter
  <2>1. CASE Mine = {}
    <3>1. /\ stack' = [stack EXCEPT ![active].at = "threw"] /\ active \in Handle
          /\ stack[active].at = "entry"
      BY <1>1, <2>1 DEF Enter
    <3>2. [stack[active] EXCEPT !.at = "threw"] \in GoodCell
      BY <3>1 DEF GoodCell, Continuation, Places
    <3> QED
      BY <1>0, <3>1, <3>2
  <2>2. CASE Mine # {}
    <3>1. PICK k \in Mine : stack' = [stack EXCEPT ![active] = Running(entryPoints[k].owner, <<>>)]
      BY <1>1, <2>2 DEF Enter
    <3>2. entryPoints[k].owner \in Thread
      <4>1. entryPoints \in Seq(EntryPoint) /\ k \in DOMAIN entryPoints
        BY <3>1 DEF TypeOK, Mine
      <4>2. entryPoints[k] \in EntryPoint
        BY <4>1, ElementOfSeq, LenProperties
      <4> QED
        BY <4>2 DEF EntryPoint
    <3>3. Running(entryPoints[k].owner, <<>>) \in GoodCell
      BY <3>2, CellsGood
    <3> QED
      BY <1>0, <3>1, <3>3
  <2> QED
    BY <2>1, <2>2
<1>2. CASE Park
  <2>1. [stack[active] EXCEPT !.at = "start"] \in GoodCell
    BY <1>2 DEF Park, GoodCell, Continuation, Places
  <2> QED
    BY <1>0, <1>2, <2>1 DEF Park, Exit
<1>3. CASE PassSafePoint
  <2>1. [stack[active] EXCEPT !.at = "start"] \in GoodCell
    BY <1>3 DEF PassSafePoint, GoodCell, Continuation, Places
  <2> QED
    BY <1>0, <1>3, <2>1 DEF PassSafePoint
<1>4. CASE CallEntryPoint
  <2>1. Self \in Thread /\ active \in Handle
    BY <1>4 DEF CallEntryPoint, GoodCell, Self
  <2>2. PICK p \in Program[Self] : stack' = [stack EXCEPT ![active] = Running(Self, p)]
    BY <1>4 DEF CallEntryPoint
  <2>3. p \in Seq(Op)
    BY <2>1, <2>2, ConstantsAssumption DEF ConstantsAssumption
  <2>4. OnlyCpuRestarts(Self, p)
    <3> SUFFICES ASSUME NEW k \in DOMAIN p, p[k].do \in {"restart", "renew"}
                 PROVE  /\ Self = Cpu /\ p[k].peer # Cpu
                        /\ p[k].do = "renew" => p[k].peer \in Renewed
      BY DEF OnlyCpuRestarts
    <3>1. Self = Cpu /\ p[k].peer # Cpu
      BY <2>1, <2>2, RestartAssumption DEF RestartAssumption
    <3>2. p[k] \in Op
      BY <2>3
    <3>3. p[k].peer \in Thread
      BY <3>2 DEF Op, Call
    <3> QED
      BY <2>1, <2>2, <3>1, <3>3 DEF Renewed
  <2> QED
    BY <1>0, <2>1, <2>2, <2>3, <2>4, CellsGood
<1>5. CASE Step
  BY <1>5, <1>a DEF Step
<1>6. CASE Synchronized
  BY <1>6, <1>a DEF Synchronized
<1>7. CASE SwitchTo
  BY <1>7 DEF SwitchTo
<1>8. CASE SynchronizeAll
  <2> DEFINE pre == [i \in DOMAIN threads |-> SyncAt(i)]
  <2>1. DOMAIN threads = 1 .. Len(threads) /\ Len(threads) \in Nat
    BY LenProperties DEF TypeOK
  <2>2. \A i \in 1 .. Len(threads) : SyncAt(i) \in Op
    BY <2>1 DEF SyncAt, Op, Call
  <2>3. pre \in Seq(Op)
    BY <2>1, <2>2, IsASeq
  <2>4. \A k \in DOMAIN pre : pre[k].do \notin {"restart", "renew"}
    BY DEF SyncAt
  <2>5. At("syncAll") /\ stack' = Continue(pre \o Tail(Todo))
    BY <1>8 DEF SynchronizeAll
  <2> HIDE DEF pre
  <2> QED
    BY <1>b, <2>3, <2>4, <2>5
<1>9. CASE SynchronizeSlot
  <2>1. PICK u \in Slot(Head(Todo).n) :
          At("syncAt") /\ stack' = Continue(<<SyncWith(u)>> \o Tail(Todo))
    BY <1>9 DEF SynchronizeSlot
  <2>2. u \in Thread
    BY <2>1, ElementOfSeq DEF Slot, TypeOK
  <2> DEFINE pre == <<SyncWith(u)>>
  <2>3. pre \in Seq(Op)
    BY <2>2 DEF SyncWith, Op, PeerCall
  <2>4. \A k \in DOMAIN pre : pre[k].do \notin {"restart", "renew"}
    BY DEF SyncWith
  <2>5. stack' = Continue(pre \o Tail(Todo))
    BY <2>1
  <2> HIDE DEF pre
  <2> QED
    BY <1>b, <2>1, <2>3, <2>4, <2>5
<1>10. CASE SynchronizePeripheral
  <2> DEFINE u == Head(Todo).peer
             pre == <<SyncWith(u)>>
  <2>1. /\ At("syncAlive")
        /\ stack' = Continue(Tail(Todo)) \/ stack' = Continue(pre \o Tail(Todo))
    BY <1>10 DEF SynchronizePeripheral
  <2>2. u \in Thread
    BY <2>1, CurrentOp DEF Op, At, Call
  <2>3. pre \in Seq(Op)
    BY <2>2 DEF SyncWith, Op, PeerCall
  <2>4. \A k \in DOMAIN pre : pre[k].do \notin {"restart", "renew"}
    BY DEF SyncWith
  <2> HIDE DEF pre
  <2> QED
    BY <1>a, <1>b, <2>1, <2>3, <2>4
<1>11. CASE EndFrame
  BY <1>0, <1>11, <1>a DEF EndFrame, Exit
<1>12. CASE FlagSet
  BY <1>12, <1>a DEF FlagSet
<1>13. CASE KeepWaiting
  <2> DEFINE w == Head(Todo)
             pre == <<StepBy(w.n), SyncWith(w.peer), Recheck(w.n, w.peer)>>
  <2>1. At("wait") /\ stack' = Continue(pre \o Tail(Todo))
    BY <1>13 DEF KeepWaiting
  <2>2. w.peer \in Thread /\ w.n \in Nat
    BY <2>1, CurrentOp DEF Op, At, Call
  <2>3. pre \in Seq(Op)
    BY <2>2 DEF StepBy, SyncWith, Recheck, Op, Call, PeerCall
  <2>4. \A k \in DOMAIN pre : pre[k].do \notin {"restart", "renew"}
    BY DEF StepBy, SyncWith, Recheck
  <2> HIDE DEF pre
  <2> QED
    BY <1>b, <2>1, <2>3, <2>4
<1>14. CASE StopWaiting
  <2> DEFINE w == Head(Todo)
             pre == <<WaitFor(w.n, w.peer)>>
  <2>1. /\ At("recheck")
        /\ stack' = Continue(Tail(Todo)) \/ stack' = Continue(pre \o Tail(Todo))
    BY <1>14 DEF StopWaiting
  <2>2. w.peer \in Thread /\ w.n \in Nat
    BY <2>1, CurrentOp DEF Op, At, Call
  <2>3. pre \in Seq(Op)
    BY <2>2 DEF WaitFor, Op, PeerCall
  <2>4. \A k \in DOMAIN pre : pre[k].do \notin {"restart", "renew"}
    BY DEF WaitFor
  <2> HIDE DEF pre
  <2> QED
    BY <1>a, <1>b, <2>1, <2>3, <2>4
<1>15. CASE RestartThread
  BY <1>15, <1>a, CellsGood DEF RestartThread
<1>16. CASE RenewThread
  <2>1. PICK h \in Handle \cup {handle[Head(Todo).peer]} :
          stack' = [Continue(Tail(Todo)) EXCEPT ![handle[Head(Todo).peer]] = Freed, ![h] = Derived]
    BY <1>16 DEF RenewThread
  <2> QED
    BY <1>16, <1>a, <2>1, CellsGood DEF RenewThread
<1> QED
  BY <1>1, <1>2, <1>3, <1>4, <1>5, <1>6, <1>7, <1>8, <1>9, <1>10, <1>11, <1>12,
     <1>13, <1>14, <1>15, <1>16 DEF ThreadStep
-----------------------------------------------------------------------------
(***************************************************************************)
(* Clocks and identifiers                                                  *)
(***************************************************************************)
LEMMA LagType ==
  ASSUME ConstantsAssumption, TypeOK, NEW t \in Thread
  PROVE  /\ uid[t] \in 0 .. MaxID /\ clock[t] \in 0 .. W - 1
         /\ Lag(t) \in 0 .. W - 1
         /\ uid[t] <= clock[t] => Lag(t) = clock[t] - uid[t]
         /\ Lag(t) <= MaxClock => uid[t] <= clock[t]
<1>1. uid[t] \in 0 .. MaxID /\ clock[t] \in 0 .. W - 1
  BY DEF TypeOK
<1>2. W \in Nat /\ MaxClock \in Nat /\ MaxID \in Nat /\ MaxClock + MaxID < W
  BY DEF ConstantsAssumption
<1> QED
  BY <1>1, <1>2 DEF Lag, USub

\* Scheduler::append gives the thread an identifier no listed thread has, and a
\* clock that leads it by no more than the furthest thread.
LEMMA AppendToFacts ==
  ASSUME ConstantsAssumption, TypeOK,
         NEW list \in Seq(Thread), Distinct(list),
         NEW t \in Thread, t \notin Elems(list),
         AppendTo(list, t)
  PROVE  /\ uid' \in [Thread -> 0 .. MaxID]
         /\ clock' \in [Thread -> 0 .. W - 1]
         /\ threads' \in Seq(Thread)
         /\ Distinct(threads')
         /\ Elems(threads') = Elems(list) \cup {t}
         /\ \A s \in Thread \ {t} : uid'[s] = uid[s] /\ clock'[s] = clock[s]
         /\ \A s \in Elems(list) : uid[s] # uid'[t]
         /\ (\A s \in Elems(list) : uid[s] <= clock[s] /\ clock[s] - uid[s] <= MaxClock)
            => uid'[t] <= clock'[t] /\ clock'[t] - uid'[t] <= MaxClock
<1>1. PICK u \in 0 .. MaxID, m \in {0} \cup {Lag(s) : s \in Elems(list)} :
        /\ IsUniqueID(u, list)
        /\ uid' = [uid EXCEPT ![t] = u]
        /\ clock' = [clock EXCEPT ![t] = UAdd(m, u)]
        /\ threads' = Append(list, t)
  BY DEF AppendTo
<1>2. W \in Nat /\ MaxClock \in Nat /\ MaxID \in Nat /\ MaxClock + MaxID < W
  BY DEF ConstantsAssumption
<1>3. \A s \in Elems(list) : s \in Thread
  BY ElementOfSeq, LenProperties DEF Elems
<1>4. m \in 0 .. W - 1
  BY <1>1, <1>2, <1>3, LagType
<1>5. UAdd(m, u) \in 0 .. W - 1
  BY <1>1, <1>2, <1>4 DEF UAdd
<1>6. uid' \in [Thread -> 0 .. MaxID] /\ clock' \in [Thread -> 0 .. W - 1]
  BY <1>1, <1>5 DEF TypeOK
<1>7. /\ threads' \in Seq(Thread) /\ Distinct(threads')
      /\ Elems(threads') = Elems(list) \cup {t}
  BY <1>1, AppendDistinct
<1>8. /\ \A s \in Thread \ {t} : uid'[s] = uid[s] /\ clock'[s] = clock[s]
      /\ uid'[t] = u /\ clock'[t] = UAdd(m, u)
  BY <1>1 DEF TypeOK
<1>9. \A s \in Elems(list) : uid[s] # uid'[t]
  BY <1>1, <1>8 DEF IsUniqueID
<1>10. ASSUME \A s \in Elems(list) : uid[s] <= clock[s] /\ clock[s] - uid[s] <= MaxClock
       PROVE  uid'[t] <= clock'[t] /\ clock'[t] - uid'[t] <= MaxClock
  <2>1. m \in Nat /\ m <= MaxClock
    BY <1>1, <1>2, <1>3, <1>4, <1>10, LagType
  <2>2. UAdd(m, u) = m + u
    BY <1>1, <1>2, <2>1 DEF UAdd
  <2> QED
    BY <1>1, <1>8, <2>1, <2>2
<1> QED
  BY <1>6, <1>7, <1>8, <1>9, <1>10

\* Scheduler::exit takes the same from every clock, and never more than its lead.
LEMMA ExitClocks ==
  ASSUME ConstantsAssumption, Ready, NEW e, NEW c, Exit(e, c), host.at # "power"
  PROVE  /\ clock' \in [Thread -> 0 .. W - 1]
         /\ \A t \in Scheduled :
              uid[t] <= clock'[t] /\ clock'[t] - uid[t] <= MaxClock
         /\ \E m \in Nat : \A t \in Scheduled : clock'[t] = clock[t] - m
<1>0. TypeOK /\ ClocksOK
  BY DEF Ready
<1>1. PICK m \in {W - 1} \cup {Lag(s) : s \in Scheduled} :
        /\ IsMinimum(m)
        /\ clock' = [t \in Thread |->
                       IF t \in Scheduled THEN USub(clock[t], m) ELSE clock[t]]
  BY DEF Exit
<1>2. W \in Nat /\ MaxClock \in Nat /\ MaxID \in Nat /\ MaxClock + MaxID < W
  BY DEF ConstantsAssumption
<1>3. \A s \in Scheduled : s \in Thread
  BY <1>0, ElementOfSeq, LenProperties DEF Scheduled, Elems, TypeOK
<1>4. m \in 0 .. W - 1
  BY <1>0, <1>1, <1>2, <1>3, LagType
<1>5. ASSUME NEW t \in Thread
      PROVE  USub(clock[t], m) \in 0 .. W - 1
  BY <1>0, <1>2, <1>4, LagType DEF USub
<1>6. ASSUME NEW t \in Scheduled
      PROVE  /\ uid[t] <= clock'[t] /\ clock'[t] - uid[t] <= MaxClock
             /\ clock'[t] = clock[t] - m
  <2>1. uid[t] <= clock[t] /\ clock[t] - uid[t] <= MaxClock
    BY <1>0 DEF ClocksOK
  <2>2. /\ uid[t] \in 0 .. MaxID /\ clock[t] \in 0 .. W - 1
        /\ m <= clock[t] - uid[t]
    BY <1>0, <1>1, <1>3, <2>1, LagType DEF IsMinimum
  <2>3. clock'[t] = clock[t] - m
    BY <1>1, <1>2, <1>3, <1>4, <2>2 DEF USub
  <2> QED
    BY <1>2, <1>4, <2>1, <2>2, <2>3
<1>7. clock' \in [Thread -> 0 .. W - 1]
  <2>1. ASSUME NEW t \in Thread
        PROVE  (IF t \in Scheduled THEN USub(clock[t], m) ELSE clock[t]) \in 0 .. W - 1
    BY <1>0, <1>5 DEF TypeOK
  <2> QED
    BY <1>1, <2>1
<1>8. m \in Nat
  BY <1>2, <1>4
<1> QED
  BY <1>6, <1>7, <1>8

-----------------------------------------------------------------------------
(***************************************************************************)
(* Creating and destroying threads                                         *)
(***************************************************************************)
LEMMA ScheduledThreads ==
  ASSUME TypeOK
  PROVE  Scheduled \subseteq Thread
BY ElementOfSeq, LenProperties DEF Scheduled, Elems, TypeOK

LEMMA CreateFacts ==
  ASSUME ConstantsAssumption, Ready, NEW t \in Thread, Create(t)
  PROVE  /\ handle' \in [Thread -> Handle \cup {Null}]
         /\ uid' \in [Thread -> 0 .. MaxID] /\ clock' \in [Thread -> 0 .. W - 1]
         /\ threads' \in Seq(Thread) /\ entryPoints' \in Seq(EntryPoint)
         /\ stack' \in [Handle -> GoodCell]
         /\ ListOK' /\ UniqueIDs'
         /\ handle[t] = Null /\ host.at # "power" =>
              \A s \in Scheduled' : uid'[s] <= clock'[s] /\ clock'[s] - uid'[s] <= MaxClock
<1>0. TypeOK /\ ListOK /\ UniqueIDs /\ ClocksOK /\ stack \in [Handle -> GoodCell]
  BY DEF Ready
<1>1. PICK h \in AddressFor(t) :
        /\ handle' = [handle EXCEPT ![t] = h]
        /\ stack' = [stack EXCEPT ![h] = Derived]
        /\ entryPoints' = Append(entryPoints, [handle |-> h, owner |-> t])
  BY DEF Create, Registered
<1>2. h \in Handle
  BY <1>0 DEF AddressFor, TypeOK
<1>3. handle' \in [Thread -> Handle \cup {Null}] /\ stack' \in [Handle -> GoodCell]
  BY <1>0, <1>1, <1>2, CellsGood DEF TypeOK
<1>4. entryPoints' \in Seq(EntryPoint)
  <2>1. [handle |-> h, owner |-> t] \in EntryPoint
    BY <1>2 DEF EntryPoint
  <2> QED
    BY <1>0, <1>1, <2>1 DEF TypeOK
<1>5. CASE t \in Scheduled
  <2>1. clock' = [clock EXCEPT ![t] = 0] /\ UNCHANGED <<uid, threads>>
    BY <1>5 DEF Create, Register
  <2>2. clock' \in [Thread -> 0 .. W - 1]
    BY <1>0, <2>1 DEF TypeOK, ConstantsAssumption
  <2>3. ListOK' /\ UniqueIDs'
    BY <1>0, <1>1, <1>2, <2>1, ScheduledThreads DEF ListOK, UniqueIDs, Scheduled, TypeOK
  <2>4. handle[t] # Null
    BY <1>0, <1>5 DEF ListOK, ConstantsAssumption
  <2> QED
    BY <1>0, <1>3, <1>4, <2>1, <2>2, <2>3, <2>4 DEF TypeOK
<1>6. CASE t \notin Scheduled
  <2>1. AppendTo(threads, t)
    BY <1>6 DEF Create, Register
  <2>2. /\ uid' \in [Thread -> 0 .. MaxID] /\ clock' \in [Thread -> 0 .. W - 1]
        /\ threads' \in Seq(Thread) /\ Distinct(threads')
        /\ Scheduled' = Scheduled \cup {t}
        /\ \A s \in Thread \ {t} : uid'[s] = uid[s] /\ clock'[s] = clock[s]
        /\ \A s \in Scheduled : uid[s] # uid'[t]
        /\ (\A s \in Scheduled : uid[s] <= clock[s] /\ clock[s] - uid[s] <= MaxClock)
           => uid'[t] <= clock'[t] /\ clock'[t] - uid'[t] <= MaxClock
    BY <1>0, <1>6, <2>1, AppendToFacts DEF Scheduled, ListOK, TypeOK
  <2>3. ListOK'
    BY <1>0, <1>1, <1>2, <2>2, ScheduledThreads DEF ListOK, TypeOK
  <2>4. UniqueIDs'
    BY <1>0, <1>6, <2>2, ScheduledThreads DEF UniqueIDs
  <2>5. ASSUME host.at # "power", NEW s \in Scheduled'
        PROVE  uid'[s] <= clock'[s] /\ clock'[s] - uid'[s] <= MaxClock
    BY <1>0, <1>6, <2>2, <2>5, ScheduledThreads DEF ClocksOK
  <2> QED
    BY <1>3, <1>4, <2>2, <2>3, <2>4, <2>5
<1> QED
  BY <1>5, <1>6

LEMMA DestroyFacts ==
  ASSUME Ready, NEW t \in Thread, Destroy(t)
  PROVE  /\ handle' \in [Thread -> Handle \cup {Null}]
         /\ uid' = uid /\ clock' = clock /\ entryPoints' = entryPoints
         /\ threads' \in Seq(Thread)
         /\ stack' \in [Handle -> GoodCell]
         /\ Scheduled' = Scheduled \ {t}
         /\ ListOK' /\ UniqueIDs'
<1>0. TypeOK /\ ListOK /\ UniqueIDs /\ stack \in [Handle -> GoodCell]
  BY DEF Ready
<1>1. /\ threads' = Without(threads, t)
      /\ handle' = [handle EXCEPT ![t] = Null]
      /\ stack' = [stack EXCEPT ![handle[t]] = Freed]
      /\ UNCHANGED <<uid, clock, entryPoints>>
  BY DEF Destroy
<1>2. /\ threads' \in Seq(Thread) /\ Distinct(threads')
      /\ Scheduled' = Scheduled \ {t}
  BY <1>0, <1>1, WithoutDistinct DEF Scheduled, ListOK, TypeOK
<1>3. handle' \in [Thread -> Handle \cup {Null}] /\ stack' \in [Handle -> GoodCell]
  BY <1>0, <1>1, CellsGood DEF TypeOK
<1>4. ListOK' /\ UniqueIDs'
  BY <1>0, <1>1, <1>2, ScheduledThreads DEF ListOK, UniqueIDs, TypeOK
<1> QED
  BY <1>1, <1>2, <1>3, <1>4

-----------------------------------------------------------------------------
(***************************************************************************)
(* Ready is inductive                                                      *)
(***************************************************************************)
LEMMA PlaceType ==
  \A at \in HostPlaces, list \in Seq(Thread), i \in Nat :
    Place(at, list, i) \in HostState /\ Place(at, list, i).at = at
BY DEF Place, HostState

LEMMA IdleType ==
  /\ Idle \in HostState /\ Idle.at = "idle"
  /\ \A at \in HostPlaces, i \in Nat :
       Place(at, <<>>, i) \in HostState /\ Place(at, <<>>, i).at = at
<1>1. <<>> \in Seq(Thread)
  OBVIOUS
<1> QED
  BY <1>1, PlaceType DEF Idle, HostPlaces

LEMMA InitReady ==
  ASSUME ConstantsAssumption, Init
  PROVE  Ready
<1> USE DEF Init
<1>1. TypeOK
  <2>1. Freed \in Continuation
    BY CellsGood DEF GoodCell
  <2>2. 0 \in 0 .. MaxID /\ 0 \in 0 .. W - 1
    BY DEF ConstantsAssumption
  <2>3. <<>> \in Seq(Thread) /\ <<>> \in Seq(EntryPoint)
    OBVIOUS
  <2>4. host \in HostState
    BY IdleType
  <2> QED
    BY <2>1, <2>2, <2>3, <2>4 DEF TypeOK, Modes, Events
<1>2. stack \in [Handle -> GoodCell]
  BY CellsGood
<1>3. HostTurn
  BY DEF HostTurn, Idle
<1>4. Scheduled = {} /\ Distinct(threads)
  BY DEF Scheduled, Elems, Distinct
<1> QED
  BY <1>1, <1>2, <1>3, <1>4 DEF Ready, ListOK, UniqueIDs, ClocksOK

\* Steps that leave the thread objects and the host alone.
LEMMA QuietStep ==
  ASSUME Ready, UNCHANGED <<handle, threads, uid, clock, host>>, active \in Handle,
         ConstantsAssumption
  PROVE  HostTurn' /\ ListOK' /\ UniqueIDs' /\ ClocksOK'
BY DEF Ready, HostTurn, ListOK, UniqueIDs, ClocksOK, Scheduled, ConstantsAssumption

LEMMA ThreadStepReady ==
  ASSUME ConstantsAssumption, RestartAssumption, Ready, ThreadStep
  PROVE  Ready'
<1>0. /\ TypeOK /\ ListOK /\ UniqueIDs /\ ClocksOK /\ HostTurn
      /\ stack \in [Handle -> GoodCell]
  BY DEF Ready
<1>1. stack' \in [Handle -> GoodCell] /\ stack' \in [Handle -> Continuation]
  BY ThreadStacks DEF GoodCell
<1>2. active \in Handle /\ UNCHANGED <<host, powered>>
  BY DEF ThreadStep, Enter, Park, PassSafePoint, CallEntryPoint, Step, Synchronized,
     SwitchTo, SynchronizeAll, SynchronizeSlot, SynchronizePeripheral, EndFrame,
     FlagSet, KeepWaiting, StopWaiting, RestartThread, RenewThread, At, Exit, KeepHost
<1>3. host.at # "power"
  BY <1>0, <1>2 DEF HostTurn, ConstantsAssumption
<1>4. CASE Enter
  <2>1. UNCHANGED <<objects, sched, active>>
    BY <1>4 DEF Enter
  <2>2. entryPoints' \in Seq(EntryPoint)
    <3>1. CASE UNCHANGED entryPoints
      BY <1>0, <3>1 DEF TypeOK
    <3>2. CASE \E k \in DOMAIN entryPoints : entryPoints' = DropAt(entryPoints, k)
      BY <1>0, <3>2, DropAtFacts DEF TypeOK
    <3> QED
      BY <1>4, <3>1, <3>2 DEF Enter, Mine, PendingAfter
  <2> QED
    BY <1>0, <1>1, <1>2, <2>1, <2>2, QuietStep DEF Ready, TypeOK, objects, sched
<1>5. ASSUME NEW e \in Events, NEW c, Exit(e, c)
      PROVE  Ready'
  <2>1. /\ UNCHANGED <<handle, threads, uid, entryPoints, primary, mode>>
        /\ event' = e /\ resume' = active /\ active' = Host
    BY <1>5 DEF Exit
  <2>2. /\ clock' \in [Thread -> 0 .. W - 1]
        /\ \A t \in Scheduled : uid[t] <= clock'[t] /\ clock'[t] - uid[t] <= MaxClock
    BY <1>3, <1>5, ExitClocks
  <2>3. TypeOK'
    BY <1>0, <1>1, <1>2, <2>1, <2>2 DEF TypeOK
  <2> QED
    BY <1>0, <1>1, <1>2, <2>1, <2>2, <2>3
       DEF Ready, HostTurn, ListOK, UniqueIDs, ClocksOK, Scheduled
<1>6. CASE Park
  BY <1>5, <1>6 DEF Park, Events
<1>7. CASE EndFrame
  BY <1>5, <1>7 DEF EndFrame, Events
<1>8. CASE Step
  <2>1. At("step") /\ Self \in Thread /\ Head(Todo).n \in Nat
    BY <1>0, <1>8, CurrentOp DEF Step, Op
  <2>2. /\ clock[Self] + Head(Todo).n <= MaxClock
        /\ clock' = [clock EXCEPT ![Self] = @ + Head(Todo).n]
        /\ UNCHANGED <<active, sched, handle, threads, uid, entryPoints>>
    BY <1>8 DEF Step, KeepObjects
  <2>3. /\ W \in Nat /\ MaxClock \in Nat /\ MaxID \in Nat /\ MaxClock + MaxID < W
        /\ uid[Self] \in 0 .. MaxID /\ clock[Self] \in 0 .. W - 1
    BY <1>0, <2>1 DEF ConstantsAssumption, TypeOK
  <2>4. clock[Self] + Head(Todo).n \in 0 .. W - 1
    BY <2>1, <2>2, <2>3
  <2>5. TypeOK'
    BY <1>0, <1>1, <1>2, <2>2, <2>4 DEF TypeOK, sched
  <2>6. ClocksOK'
    <3> SUFFICES ASSUME NEW t \in Scheduled
                 PROVE  uid[t] <= clock'[t] /\ clock'[t] - uid[t] <= MaxClock
      BY <1>2, <2>2 DEF ClocksOK, Scheduled
    <3>1. CASE t = Self
      <4>1. uid[Self] <= clock[Self]
        BY <1>0, <1>3, <3>1 DEF ClocksOK
      <4> QED
        BY <1>0, <2>1, <2>2, <2>3, <3>1, <4>1 DEF TypeOK
    <3>2. CASE t # Self
      BY <1>0, <1>3, <2>2, <3>2, ScheduledThreads DEF ClocksOK, TypeOK
    <3> QED
      BY <3>1, <3>2
  <2> QED
    BY <1>0, <1>1, <1>2, <2>2, <2>5, <2>6 DEF Ready, HostTurn, ListOK, UniqueIDs, Scheduled
<1>9. CASE SwitchTo
  <2>1. Head(Todo).peer \in Thread
    BY <1>0, <1>9, CurrentOp DEF SwitchTo, Op, At, Call
  <2>2. /\ active' = handle[Head(Todo).peer]
        /\ UNCHANGED <<clock, sched, handle, threads, uid, entryPoints>>
    BY <1>9 DEF SwitchTo, KeepObjects
  <2> QED
    BY <1>0, <1>1, <1>2, <2>1, <2>2, QuietStep DEF Ready, TypeOK, sched
<1>10. CASE \/ PassSafePoint \/ CallEntryPoint \/ Synchronized \/ SynchronizeAll
            \/ SynchronizeSlot \/ SynchronizePeripheral \/ FlagSet \/ KeepWaiting
            \/ StopWaiting
  <2>1. UNCHANGED <<objects, sched, entryPoints, active>>
    BY <1>10 DEF PassSafePoint, CallEntryPoint, Synchronized, SynchronizeAll,
       SynchronizeSlot, SynchronizePeripheral, FlagSet, KeepWaiting, StopWaiting,
       KeepObjects, objects
  <2> QED
    BY <1>0, <1>1, <1>2, <2>1, QuietStep DEF Ready, TypeOK, objects, sched
<1>11. CASE RestartThread
  <2> DEFINE u == Head(Todo).peer
  <2>1. /\ u \in Scheduled /\ UNCHANGED <<objects, sched, active>>
        /\ entryPoints' = Append(entryPoints, [handle |-> handle[u], owner |-> u])
    BY <1>11 DEF RestartThread, Registered
  <2>2. [handle |-> handle[u], owner |-> u] \in EntryPoint
    BY <1>0, <2>1, ScheduledThreads DEF EntryPoint, ListOK
  <2>3. entryPoints' \in Seq(EntryPoint)
    BY <1>0, <2>1, <2>2 DEF TypeOK
  <2> QED
    BY <1>0, <1>1, <1>2, <2>1, <2>3, QuietStep DEF Ready, TypeOK, objects, sched
<1>12. CASE RenewThread
  <2> DEFINE u == Head(Todo).peer
             list == Without(threads, u)
  <2>1. u \in Scheduled /\ AppendTo(list, u) /\ UNCHANGED <<sched, active>>
    BY <1>12 DEF RenewThread
  <2>2. PICK h \in (Handle \ Live) \cup {handle[u]} :
          /\ handle' = [handle EXCEPT ![u] = h]
          /\ entryPoints' = Append(entryPoints, [handle |-> h, owner |-> u])
    BY <1>12 DEF RenewThread, Registered
  <2>3. u \in Thread /\ h \in Handle
    BY <1>0, <2>1, <2>2, ScheduledThreads DEF ListOK
  <2>4. [handle |-> h, owner |-> u] \in EntryPoint
    BY <2>3 DEF EntryPoint
  <2>5. entryPoints' \in Seq(EntryPoint) /\ handle' \in [Thread -> Handle \cup {Null}]
    BY <1>0, <2>2, <2>3, <2>4 DEF TypeOK
  <2>6. list \in Seq(Thread) /\ Distinct(list) /\ Elems(list) = Scheduled \ {u}
    BY <1>0, WithoutDistinct DEF TypeOK, ListOK, Scheduled
  <2> HIDE DEF list, u
  <2>7. /\ uid' \in [Thread -> 0 .. MaxID] /\ clock' \in [Thread -> 0 .. W - 1]
        /\ threads' \in Seq(Thread) /\ Distinct(threads')
        /\ Scheduled' = Elems(list) \cup {u}
        /\ \A s \in Thread \ {u} : uid'[s] = uid[s] /\ clock'[s] = clock[s]
        /\ \A s \in Elems(list) : uid[s] # uid'[u]
        /\ (\A s \in Elems(list) : uid[s] <= clock[s] /\ clock[s] - uid[s] <= MaxClock)
           => uid'[u] <= clock'[u] /\ clock'[u] - uid'[u] <= MaxClock
    BY <1>0, <2>1, <2>3, <2>6, AppendToFacts DEF Scheduled
  <2>8. ListOK'
    <3>1. \A s \in Scheduled : s \in Thread /\ handle[s] \in Handle
      BY <1>0, ScheduledThreads DEF ListOK
    <3>2. handle'[u] \in Handle /\ \A s \in Thread \ {u} : handle'[s] = handle[s]
      BY <1>0, <2>2, <2>3 DEF TypeOK
    <3> QED
      BY <2>6, <2>7, <3>1, <3>2 DEF ListOK
  <2>9. UniqueIDs'
    <3> SUFFICES ASSUME NEW s \in Scheduled', NEW t \in Scheduled', uid'[s] = uid'[t]
                 PROVE  s = t
      BY DEF UniqueIDs
    <3>1. \A v \in Scheduled' : v = u \/ (v \in Scheduled /\ v \in Elems(list) /\ uid'[v] = uid[v])
      BY <1>0, <2>6, <2>7, ScheduledThreads
    <3> QED
      BY <1>0, <2>7, <3>1 DEF UniqueIDs
  <2>10. ClocksOK'
    BY <1>0, <1>2, <1>3, <2>3, <2>6, <2>7, ScheduledThreads DEF ClocksOK
  <2>11. TypeOK'
    BY <1>0, <1>1, <1>2, <2>1, <2>5, <2>7 DEF TypeOK, sched
  <2> QED
    BY <1>0, <1>1, <1>2, <2>1, <2>8, <2>9, <2>10, <2>11 DEF Ready, HostTurn
<1> QED
  BY <1>4, <1>6, <1>7, <1>8, <1>9, <1>10, <1>11, <1>12 DEF ThreadStep

\* Only exit leaves the scheduler, and only Park leaves it as synchronized.
LEMMA WhoExits ==
  ASSUME ConstantsAssumption, Ready, ThreadStep
  PROVE  /\ UNCHANGED <<mode, primary, host>> /\ active \in Handle
         /\ Parked' => Park
         /\ active' = Host => Park \/ EndFrame
         /\ ~SwitchTo => (active' = active /\ resume' = resume) \/ (active' = Host /\ resume' = active)
<1>0. TypeOK /\ stack \in [Handle -> GoodCell]
  BY DEF Ready
<1>1. CASE Park
  BY <1>1 DEF Park, Exit
<1>2. CASE EndFrame
  BY <1>2 DEF EndFrame, Exit, At, Parked
<1>3. CASE SwitchTo
  <2>1. Head(Todo).peer \in Thread
    BY <1>0, <1>3, CurrentOp DEF SwitchTo, Op, At, Call
  <2>2. active' # Host
    BY <1>0, <1>3, <2>1 DEF SwitchTo, TypeOK, ConstantsAssumption
  <2> QED
    BY <1>3, <2>2 DEF SwitchTo, At, Parked, sched, KeepHost
<1>4. CASE ~Park /\ ~EndFrame /\ ~SwitchTo
  <2>1. UNCHANGED <<active, mode, primary, resume, host>> /\ active \in Handle
    BY <1>4 DEF ThreadStep, Enter, PassSafePoint, CallEntryPoint, Step, Synchronized,
       SynchronizeAll, SynchronizeSlot, SynchronizePeripheral, FlagSet, KeepWaiting,
       StopWaiting, RestartThread, RenewThread, At, KeepHost, sched
  <2> QED
    BY <1>4, <2>1 DEF Parked, ConstantsAssumption
<1> QED
  BY <1>1, <1>2, <1>3, <1>4

\* Host actions that only move the host, or switch to a coroutine, or change a mode.
LEMMA HostMoves ==
  ASSUME Ready, UNCHANGED <<objects, entryPoints, stack>>,
         host' \in HostState,
         active' \in Handle \cup {Host, Null}, primary' \in Handle \cup {Null},
         resume' \in Handle \cup {Null}, mode' \in Modes, event' \in Events,
         powered' \in BOOLEAN,
         host'.at \in {"idle", "power", "saved", "plug"} => active' = Host,
         host.at = "power" => host'.at = "power"
  PROVE  Ready'
BY DEF Ready, TypeOK, HostTurn, ListOK, UniqueIDs, ClocksOK, Scheduled, objects

\* Where Power(boot) leaves the host.
LEMMA PowerHost ==
  ASSUME HostAssumption, NEW boot \in Boots
  PROVE  Place("power", boot, 0) \in HostState /\ Place("power", boot, 0).at = "power"
<1>1. boot \in Seq(Thread)
  BY SeqMonotonic DEF HostAssumption
<1> QED
  BY <1>1, PlaceType DEF HostPlaces

LEMMA HostStepReady ==
  ASSUME ConstantsAssumption, HostAssumption, Ready, HostStep
  PROVE  Ready'
<1>0. /\ TypeOK /\ ListOK /\ UniqueIDs /\ ClocksOK /\ HostTurn
      /\ stack \in [Handle -> GoodCell]
  BY DEF Ready
<1>1. active = Host
  BY DEF HostStep, PowerOn, CreateThread, PowerScheduler, PowerOff, Run, RunReturns,
     SaveState, EnterAgain, EnterAuxiliary, EverySynchronized, SaveReturns, Eject,
     PlugIn, PlugGamepad, DeleteOld, HostAt
<1>2. Idle \in HostState /\ Idle.at = "idle"
  BY IdleType
<1>3. \A t \in Thread : handle[t] \in Handle \cup {Null}
  BY <1>0 DEF TypeOK
<1>4. CASE PowerOn
  <2>1. PICK boot \in Boots : host' = Place("power", boot, 0)
    BY <1>4 DEF PowerOn, Power
  <2> QED
    BY <1>0, <1>1, <1>4, <2>1, PowerHost, HostMoves
       DEF PowerOn, Power, HostAt, TypeOK, sched
<1>5. CASE CreateThread
  <2>1. /\ host.at = "power" /\ host.list # <<>> /\ Create(Head(host.list))
        /\ host' = [host EXCEPT !.list = Tail(@)]
        /\ UNCHANGED <<sched, active, powered>>
    BY <1>5 DEF CreateThread, HostAt
  <2>2. host.list \in Seq(Thread) /\ host \in HostState
    BY <1>0 DEF TypeOK, HostState
  <2>3. Head(host.list) \in Thread /\ Tail(host.list) \in Seq(Thread)
    BY <2>1, <2>2
  <2>4. host' \in HostState /\ host'.at = "power"
    BY <2>1, <2>2, <2>3 DEF HostState
  <2>5. /\ handle' \in [Thread -> Handle \cup {Null}]
        /\ uid' \in [Thread -> 0 .. MaxID] /\ clock' \in [Thread -> 0 .. W - 1]
        /\ threads' \in Seq(Thread) /\ entryPoints' \in Seq(EntryPoint)
        /\ stack' \in [Handle -> GoodCell]
        /\ ListOK' /\ UniqueIDs'
    BY <2>1, <2>3, CreateFacts
  <2>6. stack' \in [Handle -> Continuation]
    BY <2>5 DEF GoodCell
  <2>7. TypeOK'
    BY <1>0, <2>1, <2>4, <2>5, <2>6 DEF TypeOK, sched
  <2> QED
    BY <1>1, <2>1, <2>4, <2>5, <2>7 DEF Ready, HostTurn, ClocksOK
<1>6. CASE PowerScheduler
  <2>1. /\ primary' = handle[Cpu] /\ resume' = handle[Cpu]
        /\ clock' = [t \in Thread |-> IF t \in Scheduled THEN uid[t] ELSE clock[t]]
        /\ host' = Idle
        /\ UNCHANGED <<handle, uid, threads, entryPoints, stack, active, mode, event, powered>>
    BY <1>6 DEF PowerScheduler
  <2>2. clock' \in [Thread -> 0 .. W - 1]
    <3>1. \A t \in Thread : uid[t] \in 0 .. W - 1 /\ clock[t] \in 0 .. W - 1
      BY <1>0 DEF TypeOK, ConstantsAssumption
    <3> QED
      BY <2>1, <3>1
  <2>3. \A t \in Scheduled : uid[t] <= clock'[t] /\ clock'[t] - uid[t] <= MaxClock
    BY <1>0, <2>1, ScheduledThreads DEF TypeOK, ConstantsAssumption
  <2>4. TypeOK'
    BY <1>0, <1>2, <1>3, <2>1, <2>2 DEF TypeOK, ConstantsAssumption
  <2> QED
    BY <1>0, <1>1, <2>1, <2>3, <2>4
       DEF Ready, HostTurn, ListOK, UniqueIDs, ClocksOK, Scheduled
<1>7. CASE PowerOff
  BY <1>0, <1>1, <1>7, HostMoves DEF PowerOff, TypeOK, HostAt, sched
<1>8. CASE Run
  <2>2. host' \in HostState /\ host'.at = "run"
    BY <1>8, IdleType DEF Run, HostPlaces
  <2> QED
    BY <1>0, <1>8, <2>2, HostMoves DEF Run, SwitchIn, TypeOK, HostAt, Modes
<1>9. CASE RunReturns
  <2>1. CASE host' = Idle /\ UNCHANGED <<objects, sched, entryPoints, stack, active>>
    BY <1>0, <1>1, <1>2, <1>9, <2>1, HostMoves DEF RunReturns, TypeOK, HostAt, sched
  <2>2. CASE \E boot \in Boots : Power(boot)
    <3>1. PICK boot \in Boots : Power(boot)
      BY <2>2
    <3> QED
      BY <1>0, <1>1, <1>9, <3>1, PowerHost, HostMoves
         DEF RunReturns, Power, TypeOK, HostAt, sched
  <2> QED
    BY <1>9, <2>1, <2>2 DEF RunReturns
<1>10. CASE SaveState
  <2>1. PICK i \in DOMAIN threads : host' = Place("primary", <<>>, i)
    BY <1>10 DEF SaveState
  <2>2. i \in Nat
    BY <1>0, LenProperties DEF TypeOK
  <2>3. host' \in HostState /\ host'.at = "primary"
    BY <2>1, <2>2, IdleType DEF HostPlaces
  <2> QED
    BY <1>0, <1>10, <2>3, HostMoves DEF SaveState, SwitchIn, TypeOK, HostAt, Modes
<1>11. CASE EnterAgain
  BY <1>0, <1>11, HostMoves DEF EnterAgain, SwitchIn, TypeOK, sched
<1>12. ASSUME NEW i \in 1 .. Len(threads), EnterAuxiliary(i)
       PROVE  Ready'
  <2>1. threads[i] \in Thread /\ i \in Nat
    BY <1>0, ElementOfSeq DEF TypeOK
  <2>2. host' \in HostState /\ host'.at = "auxiliary"
    BY <1>12, <2>1, IdleType DEF EnterAuxiliary, HostPlaces
  <2>3. threads[i] \in Scheduled
    BY <1>0, LenProperties DEF Scheduled, Elems, TypeOK
  <2>4. handle[threads[i]] \in Handle
    BY <1>0, <2>3 DEF ListOK
  <2> QED
    BY <1>0, <1>12, <2>2, <2>4, HostMoves DEF EnterAuxiliary, SwitchIn, TypeOK, Modes
<1>13. CASE EverySynchronized
  <2>1. host' \in HostState /\ host'.at = "saved"
    BY <1>13, IdleType DEF EverySynchronized, HostPlaces
  <2> QED
    BY <1>0, <1>1, <1>13, <2>1, HostMoves DEF EverySynchronized, TypeOK, sched
<1>14. CASE SaveReturns
  BY <1>0, <1>1, <1>2, <1>14, HostMoves DEF SaveReturns, TypeOK, HostAt, sched
<1>15. CASE Eject
  <2>1. PICK t \in Chip : Destroy(t)
    BY <1>15 DEF Eject
  <2>2. t \in Thread
    BY <2>1 DEF HostAssumption
  <2>3. /\ handle' \in [Thread -> Handle \cup {Null}]
        /\ uid' = uid /\ clock' = clock /\ entryPoints' = entryPoints
        /\ threads' \in Seq(Thread) /\ stack' \in [Handle -> GoodCell]
        /\ Scheduled' = Scheduled \ {t} /\ ListOK' /\ UniqueIDs'
    BY <2>1, <2>2, DestroyFacts
  <2>4. UNCHANGED <<sched, active, host, powered>>
    BY <1>15 DEF Eject
  <2>5. TypeOK'
    BY <1>0, <2>3, <2>4 DEF TypeOK, sched, GoodCell
  <2> QED
    BY <1>0, <2>3, <2>4, <2>5 DEF Ready, HostTurn, ClocksOK
<1>16. ASSUME NEW t \in Pluggable, PlugIn(t)
       PROVE  Ready'
  <2>1. /\ t \in Thread /\ handle[t] = Null /\ host.at = "idle" /\ Create(t)
        /\ UNCHANGED <<sched, active, powered>>
    BY <1>16 DEF PlugIn, Plugged, HostAt, HostAssumption
  <2>2. PICK list \in {<<>>} \cup {<<old>> : old \in Plugged} :
          host' = Place("plug", list, 0)
    BY <1>16 DEF PlugIn
  <2>3. list \in Seq(Thread)
    <3>1. CASE list = <<>>
      BY <3>1
    <3>2. CASE list # <<>>
      <4>1. PICK old \in Plugged : list = <<old>>
        BY <2>2, <3>2
      <4> QED
        BY <4>1 DEF Plugged, HostAssumption
    <3> QED
      BY <3>1, <3>2
  <2>4. host' \in HostState /\ host'.at = "plug"
    BY <2>2, <2>3, PlaceType DEF HostPlaces
  <2>5. /\ handle' \in [Thread -> Handle \cup {Null}]
        /\ uid' \in [Thread -> 0 .. MaxID] /\ clock' \in [Thread -> 0 .. W - 1]
        /\ threads' \in Seq(Thread) /\ entryPoints' \in Seq(EntryPoint)
        /\ stack' \in [Handle -> GoodCell]
        /\ ListOK' /\ UniqueIDs'
        /\ \A s \in Scheduled' : uid'[s] <= clock'[s] /\ clock'[s] - uid'[s] <= MaxClock
    BY <2>1, CreateFacts
  <2>6. stack' \in [Handle -> Continuation]
    BY <2>5 DEF GoodCell
  <2>7. TypeOK'
    BY <1>0, <2>1, <2>4, <2>5, <2>6 DEF TypeOK, sched
  <2> QED
    BY <1>1, <2>1, <2>5, <2>7 DEF Ready, HostTurn, ClocksOK
<1>17. ASSUME NEW t \in Pluggable, PlugGamepad(t)
       PROVE  Ready'
  <2>1. <<t>> \in Seq(Thread)
    BY DEF HostAssumption
  <2>2. host' \in HostState
    BY <1>17, <2>1, PlaceType DEF PlugGamepad, HostPlaces
  <2> QED
    BY <1>0, <1>1, <1>17, <2>2, HostMoves DEF PlugGamepad, HostAt, TypeOK, sched
<1>18. CASE DeleteOld
  <2>1. host.at = "plug" /\ host' = Idle /\ UNCHANGED <<sched, active, powered>>
    BY <1>18 DEF DeleteOld, HostAt
  <2>2. CASE host.list = <<>>
    BY <1>0, <1>1, <1>2, <1>18, <2>1, <2>2, HostMoves DEF DeleteOld, TypeOK, sched
  <2>3. CASE host.list # <<>>
    <3> DEFINE t == Head(host.list)
    <3>1. Destroy(t)
      BY <1>18, <2>3 DEF DeleteOld
    <3>2. t \in Thread
      BY <1>0, <2>3 DEF TypeOK, HostState
    <3> HIDE DEF t
    <3>3. /\ handle' \in [Thread -> Handle \cup {Null}]
          /\ uid' = uid /\ clock' = clock /\ entryPoints' = entryPoints
          /\ threads' \in Seq(Thread) /\ stack' \in [Handle -> GoodCell]
          /\ Scheduled' = Scheduled \ {t} /\ ListOK' /\ UniqueIDs'
      BY <3>1, <3>2, DestroyFacts
    <3>4. TypeOK'
      BY <1>0, <1>2, <2>1, <3>3 DEF TypeOK, sched, GoodCell
    <3> QED
      BY <1>0, <1>1, <2>1, <3>3, <3>4 DEF Ready, HostTurn, ClocksOK
  <2> QED
    BY <2>2, <2>3
<1> QED
  BY <1>4, <1>5, <1>6, <1>7, <1>8, <1>9, <1>10, <1>11, <1>12, <1>13, <1>14, <1>15,
     <1>16, <1>17, <1>18 DEF HostStep

LEMMA StutterReady ==
  ASSUME Ready, UNCHANGED vars
  PROVE  Ready'
BY DEF Ready, TypeOK, HostTurn, ListOK, UniqueIDs, ClocksOK, Scheduled, vars

\* The types, the coroutines' stacks, the list and the clocks stay in order however
\* threads, frames, saves, resets, cartridges and devices follow each other.
THEOREM AlwaysReady == Spec => []Ready
<1>1. Init => Ready
  BY ConstantsAssumption, InitReady
<1>2. Ready /\ [Next]_vars => Ready'
  BY ConstantsAssumption, RestartAssumption, HostAssumption,
     ThreadStepReady, HostStepReady, StutterReady DEF Next
<1> QED
  BY <1>1, <1>2, PTL DEF Spec

\* Every variable keeps the type of the field it stands for.
THEOREM Types == Spec => []TypeOK
<1>1. Ready => TypeOK
  BY DEF Ready
<1> QED
  BY <1>1, AlwaysReady, PTL

\* No two threads of the list share an identifier, whatever has been removed from
\* it and appended to it (Scheduler::uniqueID and append).
THEOREM IdentifiersUnique == Spec => []UniqueIDs
<1>1. Ready => UniqueIDs
  BY DEF Ready
<1> QED
  BY <1>1, AlwaysReady, PTL

\* Outside of power() no clock is below its identifier: the unsigned differences of
\* Scheduler::minimum and maximum never wrap.
THEOREM ClocksAboveIDs == Spec => []ClockAboveID
<1>1. Ready => ClockAboveID
  BY DEF Ready, ClocksOK, ClockAboveID
<1> QED
  BY <1>1, AlwaysReady, PTL

\* Only Thread::step moves a thread relative to the others: exit subtracts the same from
\* every clock, the least lead, and the subtraction never wraps.
THEOREM LeadsAreKept == Spec => LeadsKept
<1>1. Ready /\ [Next]_vars =>
        ((active \in Handle /\ active' = Host) =>
           \A s, t \in Scheduled : clock'[s] + clock[t] = clock[s] + clock'[t])
  <2> SUFFICES ASSUME Ready, [Next]_vars, active \in Handle, active' = Host,
                      NEW s \in Scheduled, NEW t \in Scheduled
               PROVE  clock'[s] + clock[t] = clock[s] + clock'[t]
    OBVIOUS
  <2>1. TypeOK /\ HostTurn /\ Host \notin Handle
    BY ConstantsAssumption DEF Ready, ConstantsAssumption
  <2>2. ThreadStep
    BY <2>1 DEF Next, vars, HostStep, PowerOn, CreateThread, PowerScheduler, PowerOff, Run,
       RunReturns, SaveState, EnterAgain, EnterAuxiliary, EverySynchronized, SaveReturns,
       Eject, PlugIn, PlugGamepad, DeleteOld, HostAt
  <2>3. PICK e \in Events : \E c : Exit(e, c)
    BY <2>2, ConstantsAssumption, WhoExits DEF Park, EndFrame, Events
  <2>4. host.at # "power"
    BY <2>1 DEF HostTurn
  <2>5. PICK m \in Nat : clock'[s] = clock[s] - m /\ clock'[t] = clock[t] - m
    BY <2>3, <2>4, ConstantsAssumption, ExitClocks
  <2>6. clock[s] \in Nat /\ clock[t] \in Nat
    BY <2>1, ScheduledThreads, ConstantsAssumption DEF TypeOK, ConstantsAssumption
  <2> QED
    BY <2>5, <2>6
<1> QED
  BY <1>1, AlwaysReady, PTL DEF Spec, LeadsKept
=============================================================================
