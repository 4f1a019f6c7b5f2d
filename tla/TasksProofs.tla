----------------------------- MODULE TasksProofs -----------------------------
(***************************************************************************)
(* Proofs about Throttler, for every set of handlers, processes and        *)
(* percentages and every bound on the request queue, and about Tasks, for  *)
(* any number of threads, cores, calls and ticks: a move or a change of    *)
(* priority reaches every thread that it can know, the core usage is right *)
(* within a second, and no instruction is lost.                            *)
(***************************************************************************)
EXTENDS Throttler, Tasks, FiniteSetTheorems, SequenceTheorems, TLAPS

-----------------------------------------------------------------------------
(* Throttler.                                                              *)

\* The share of a slot added to the time slept so far is a time.
LEMMA NatPlusValue == \A n \in Nat, v \in 0..100 : n + v \in Nat
  OBVIOUS

\* Type correctness: every call and every step of run() keeps the state in
\* the types of the fields of ThrottlerThread.
THEOREM TypeCorrect == Spec => []TypeOK
<1>1. Init => TypeOK
  <2> SUFFICES ASSUME Init PROVE TypeOK
    OBVIOUS
  <2>1. runFlag \in BOOLEAN /\ updated \in BOOLEAN
    BY Zenon DEF Init
  <2>2. /\ throttlingValues \in [Handlers -> Values]
        /\ processesToAdd \in Seq(Requests)
    BY DEF Init, Values
  <2>3. /\ allocated \in [Handlers -> BOOLEAN]
        /\ proc \in [Pids -> {"running", "stopped", "dead"}]
    BY Zenon DEF Init
  <2> QED
    BY <2>1, <2>2, <2>3 DEF Init, TypeOK
<1>2. TypeOK /\ [Next]_vars => TypeOK'
  <2> SUFFICES ASSUME TypeOK, [Next]_vars PROVE TypeOK'
    OBVIOUS
  <2> USE ThrottlerAssumption DEF TypeOK, Values, loopVars, mapVars, queueVars, heapVars, askVars
  <2>1. ASSUME NEW h \in Handlers, NEW p \in Pids, GetProcessHandler(h, p) PROVE TypeOK'
    BY <2>1 DEF GetProcessHandler
  <2>2. ASSUME NEW h \in Handlers, NEW pct \in Percentages, Throttle(h, pct) PROVE TypeOK'
    <3>1. [process |-> h, percentage |-> pct] \in Requests
      BY DEF Requests
    <3>2. processesToAdd' \in Seq(Requests)
      BY <2>2, <3>1 DEF Throttle
    <3> QED
      BY <2>2, <3>2 DEF Throttle
  <2>3. ASSUME NEW h \in Handlers, RemoveThrottling(h) PROVE TypeOK'
    BY <2>3 DEF RemoveThrottling
  <2>4. ASSUME NEW h \in Handlers, ReleaseProcessHandler(h) PROVE TypeOK'
    BY <2>4 DEF ReleaseProcessHandler
  <2>5. ASSUME NEW h \in Handlers, NEW signal \in ClientSignals, SendSignal(h, signal) PROVE TypeOK'
    BY <2>5 DEF SendSignal
  <2>6. ASSUME NEW p \in Pids, ProcessExit(p) PROVE TypeOK'
    BY <2>6 DEF ProcessExit
  <2>6a. ASSUME NEW p \in Pids, PidReused(p) PROVE TypeOK'
    <3>1. /\ proc' = [proc EXCEPT ![p] = "running"] /\ asked' = asked \ {p}
          /\ misled' \in {misled \cup {p}, misled \ {p}}
          /\ UNCHANGED <<manager, runFlag, loopVars, mapVars, queueVars, heapVars>>
      BY <2>6a DEF PidReused
    <3> QED
      BY <3>1
  <2>7. CASE Stop \/ Join
    BY <2>7 DEF Stop, Join
  <2>8. CASE TestRun
    BY <2>8 DEF TestRun, Mapped
  <2>9. CASE DrainAdd
    <3>1. /\ Head(processesToAdd) \in Requests
          /\ processesToAdd' \in Seq(Requests)
      BY <2>9 DEF DrainAdd
    <3> DEFINE g == Head(processesToAdd).process
               q == Head(processesToAdd).percentage
    <3>2. g \in Handlers /\ q \in 1..100
      BY <3>1 DEF Requests
    <3>3. AddProcess(g, q)
      BY <2>9 DEF DrainAdd
    <3> HIDE DEF g, q
    <3>4. throttlingValues' \in [Handlers -> 0..100] /\ sumPercentages' \in Int
      <4>1. /\ throttlingValues' \in {throttlingValues, [throttlingValues EXCEPT ![g] = q]}
            /\ sumPercentages' \in {sumPercentages, sumPercentages + q}
        BY <3>3, Zenon DEF AddProcess
      <4>2. throttlingValues \in [Handlers -> 0..100] /\ sumPercentages \in Int
        BY Zenon
      <4> HIDE ThrottlerAssumption DEF TypeOK
      <4> QED
        BY <3>2, <4>1, <4>2
    <3>5. updated' \in BOOLEAN
      BY <3>3, Zenon DEF AddProcess
    <3> QED
      BY <2>9, <3>1, <3>4, <3>5 DEF DrainAdd
  <2>10. ASSUME NEW h \in Handlers, DrainRemove(h) PROVE TypeOK'
    BY <2>10 DEF DrainRemove, RemoveProcess
  <2>11. CASE StartSlots
    BY <2>11 DEF StartSlots, Mapped
  <2>12. ASSUME NEW h \in Handlers, SlotBegin(h) PROVE TypeOK'
    BY <2>12 DEF SlotBegin, Deliver
  <2>13. ASSUME NEW h \in Handlers, SlotEnd(h) PROVE TypeOK'
    <3>1. slept' \in Nat
      <4>1. slept' = slept + throttlingValues[h]
        BY <2>13, Zenon DEF SlotEnd
      <4>2. throttlingValues[h] \in 0..100
        OBVIOUS
      <4>3. slept \in Nat
        BY Zenon
      <4> QED
        BY <4>1, <4>2, <4>3, NatPlusValue, Zenon
    <3>2. proc' \in [Pids -> {"running", "stopped", "dead"}]
      BY <2>13 DEF SlotEnd, Deliver
    <3>3. terminated' \subseteq Handlers
      BY <2>13 DEF SlotEnd
    <3> QED
      BY <2>13, <3>1, <3>2, <3>3 DEF SlotEnd
  <2>14. ASSUME NEW h \in Handlers, FinalResume(h) PROVE TypeOK'
    BY <2>14 DEF FinalResume, Deliver
  <2>15. ASSUME NEW h \in Handlers, Crash(h) PROVE TypeOK'
    BY <2>15 DEF Crash
  <2>16. CASE DrainAddDone \/ SlotsDone
    BY <2>16 DEF DrainAddDone, SlotsDone
  <2>19. CASE IntervalSleep
    BY <2>19 DEF IntervalSleep
  <2>20. CASE ThreadEnd
    BY <2>20 DEF ThreadEnd
  <2>17. CASE EraseTerminated
    BY <2>17 DEF EraseTerminated
  <2>18. CASE UNCHANGED vars
    BY <2>18 DEF vars
  <2> QED
    BY <2>1, <2>2, <2>3, <2>4, <2>5, <2>6, <2>6a, <2>7, <2>8, <2>9, <2>10, <2>11, <2>12, <2>13,
       <2>14, <2>15, <2>16, <2>17, <2>18, <2>19, <2>20 DEF Next, ClientStep, ThreadStep
<1> QED
  BY <1>1, <1>2, PTL DEF Spec

-----------------------------------------------------------------------------
\* The steps of the clients, of the processes and of the thread outside the
\* drain do not touch the sum.
LEMMA SumSteps ==
  ASSUME [Next]_vars, ~DrainAdd, \A h \in Handlers : ~DrainRemove(h)
  PROVE  UNCHANGED sumPercentages
  BY DEF Next, ClientStep, ThreadStep, vars, mapVars, GetProcessHandler, Throttle,
         RemoveThrottling, ReleaseProcessHandler, SendSignal, ProcessExit, PidReused, Stop, Join, TestRun,
         DrainAddDone, StartSlots, SlotBegin, SlotEnd, SlotsDone, EraseTerminated,
         IntervalSleep, FinalResume, ThreadEnd, Crash

\* _sumPercentages never exceeds 100: addProcess() repeats the test of
\* throttle() at the time the request is drained.
THEOREM BudgetInvariant == Spec => []BudgetNotExceeded
<1>1. Init => BudgetNotExceeded
  BY DEF Init, BudgetNotExceeded
<1>2. TypeOK /\ BudgetNotExceeded /\ [Next]_vars => BudgetNotExceeded'
  <2> SUFFICES ASSUME TypeOK, BudgetNotExceeded, [Next]_vars PROVE BudgetNotExceeded'
    OBVIOUS
  <2>1. CASE DrainAdd
    <3> DEFINE g == Head(processesToAdd).process
               q == Head(processesToAdd).percentage
    <3>1. AddProcess(g, q)
      BY <2>1 DEF DrainAdd
    <3> HIDE DEF g, q
    <3>2. sumPercentages' = sumPercentages \/ sumPercentages' <= 100
      BY <3>1, Zenon DEF AddProcess, mapVars
    <3> QED
      BY <3>2 DEF BudgetNotExceeded
  <2>2. ASSUME NEW h \in Handlers, DrainRemove(h) PROVE BudgetNotExceeded'
    <3>1. sumPercentages' = sumPercentages - throttlingValues[h]
      BY <2>2, Zenon DEF DrainRemove, RemoveProcess
    <3>2. throttlingValues[h] \in 0..100 /\ sumPercentages \in Int
      BY DEF TypeOK, Values
    <3> QED
      BY <3>1, <3>2 DEF BudgetNotExceeded
  <2>3. CASE ~DrainAdd /\ \A h \in Handlers : ~DrainRemove(h)
    BY <2>3, SumSteps DEF BudgetNotExceeded
  <2> QED
    BY <2>1, <2>2, <2>3
<1> QED
  BY <1>1, <1>2, TypeCorrect, PTL DEF Spec

-----------------------------------------------------------------------------
\* What makes DanglingOnlyUntilDrain inductive: all additions are drained
\* before the first removal, so a removal never leaves a queued addition of
\* the same handler behind it.
DrainOrder == pc = "removing" => processesToAdd = <<>>

DanglingInv == DanglingOnlyUntilDrain /\ DrainOrder

\* Draining one addition leaves the other queued requests queued.
LEMMA QueuedAfterDrain ==
  ASSUME TypeOK, DrainAdd, NEW h \in Handlers
  PROVE  /\ Queued(h)' => Queued(h)
         /\ h \in Mapped' => h \in Mapped \/ Queued(h)
<1> DEFINE g == Head(processesToAdd).process
           q == Head(processesToAdd).percentage
<1>1. /\ processesToAdd \in Seq(Requests) /\ processesToAdd # <<>>
      /\ processesToAdd' = Tail(processesToAdd)
  BY DEF DrainAdd, TypeOK
<1>2. Queued(h)' => Queued(h)
  <2> SUFFICES ASSUME NEW i \in 1..Len(processesToAdd'), processesToAdd'[i].process = h
               PROVE  Queued(h)
    BY DEF Queued
  <2>1. i + 1 \in 1..Len(processesToAdd) /\ processesToAdd[i + 1].process = h
    BY <1>1
  <2> QED
    BY <2>1 DEF Queued
<1>3. Queued(g)
  <2>1. 1 \in 1..Len(processesToAdd) /\ processesToAdd[1].process = g
    BY <1>1
  <2> QED
    BY <2>1 DEF Queued
<1>4. g \in Handlers
  <2>1. Head(processesToAdd) \in Requests
    BY <1>1
  <2> QED
    BY <2>1 DEF Requests
<1>5. AddProcess(g, q)
  BY DEF DrainAdd
<1> HIDE DEF g, q
<1>6. throttlingValues' \in {throttlingValues, [throttlingValues EXCEPT ![g] = q]}
  BY <1>5, Zenon DEF AddProcess, mapVars
<1>7. throttlingValues \in [Handlers -> 0..100]
  BY DEF TypeOK, Values
<1>8. h # g => throttlingValues'[h] = throttlingValues[h]
  BY <1>4, <1>6, <1>7
<1> QED
  BY <1>2, <1>3, <1>8 DEF Mapped

\* The destructor of a handler queues its removal, and the drain reaches it
\* before the map is used again: no handler that clients have freed is mapped
\* or queued without a pending removal.
LEMMA DanglingStays == Spec => []DanglingInv
<1>1. Init => DanglingInv
  <2> SUFFICES ASSUME Init PROVE DanglingInv
    OBVIOUS
  <2>1. Mapped = {}
    BY DEF Init, Mapped
  <2>2. Len(processesToAdd) = 0
    BY DEF Init
  <2> QED
    BY <2>1, <2>2 DEF Init, DanglingInv, DanglingOnlyUntilDrain, DrainOrder, Queued
<1>2. TypeOK /\ DanglingInv /\ [Next]_vars => DanglingInv'
  <2> SUFFICES ASSUME TypeOK, DanglingInv, [Next]_vars PROVE DanglingInv'
    OBVIOUS
  <2>0. /\ throttlingValues \in [Handlers -> 0..100]
        /\ allocated \in [Handlers -> BOOLEAN]
        /\ processesToAdd \in Seq(Requests)
    BY DEF TypeOK, Values
  <2>d. \A h \in Handlers : h \in Mapped \/ Queued(h) => allocated[h] \/ h \in processesToRemove
    BY DEF DanglingInv, DanglingOnlyUntilDrain, Queued
  <2>o. DrainOrder
    BY DEF DanglingInv
  <2> USE DEF loopVars, mapVars, queueVars, heapVars, askVars
  <2>1. ASSUME NEW h \in Handlers, NEW p \in Pids, GetProcessHandler(h, p)
        PROVE  DanglingInv'
    BY <2>1, <2>0, <2>d, <2>o
       DEF GetProcessHandler, Mapped, Queued, DrainOrder, DanglingInv, DanglingOnlyUntilDrain
  <2>2. ASSUME NEW h \in Handlers, NEW pct \in Percentages, Throttle(h, pct)
        PROVE  DanglingInv'
    <3>1. /\ processesToAdd' = Append(processesToAdd, [process |-> h, percentage |-> pct])
          /\ pc' = pc /\ pc \notin {"adding", "removing"}
          /\ allocated[h] /\ UNCHANGED <<throttlingValues, allocated, processesToRemove>>
      BY <2>2 DEF Throttle, Locked
    <3>2. \A g \in Handlers : Queued(g)' => Queued(g) \/ g = h
      BY <2>0, <3>1 DEF Queued
    <3> QED
      BY <3>1, <3>2, <2>d DEF Mapped, Queued, DrainOrder, DanglingInv, DanglingOnlyUntilDrain
  <2>3. ASSUME NEW h \in Handlers, RemoveThrottling(h) \/ ReleaseProcessHandler(h)
        PROVE  DanglingInv'
    BY <2>3, <2>0, <2>d, <2>o
       DEF RemoveThrottling, ReleaseProcessHandler, Mapped, Queued, DrainOrder, DanglingInv,
           DanglingOnlyUntilDrain
  <2>4. CASE DrainAdd
    <3>1. UNCHANGED <<allocated, processesToRemove>> /\ pc' = "adding"
      BY <2>4 DEF DrainAdd
    <3>2. \A h \in Handlers : h \in Mapped' \/ Queued(h)' => h \in Mapped \/ Queued(h)
      BY <2>4, QueuedAfterDrain
    <3> QED
      BY <3>1, <3>2, <2>d DEF Queued, DrainOrder, DanglingInv, DanglingOnlyUntilDrain
  <2>5. ASSUME NEW h \in Handlers, DrainRemove(h)
        PROVE  DanglingInv'
    <3>1. /\ processesToAdd = <<>> /\ processesToAdd' = <<>>
          /\ throttlingValues' = [throttlingValues EXCEPT ![h] = 0]
          /\ processesToRemove' = processesToRemove \ {h}
          /\ UNCHANGED allocated
      BY <2>5, <2>o DEF DrainRemove, RemoveProcess, DrainOrder
    <3>2. \A g \in Handlers : g \in Mapped' => g # h /\ g \in Mapped
      BY <3>1, <2>0 DEF Mapped
    <3> QED
      BY <3>1, <3>2, <2>d DEF Queued, DrainOrder, DanglingInv, DanglingOnlyUntilDrain
  <2>6. CASE EraseTerminated
    BY <2>6, <2>0, <2>d
       DEF EraseTerminated, Mapped, Queued, DrainOrder, DanglingInv, DanglingOnlyUntilDrain
  <2>7. CASE DrainAddDone
    BY <2>7, <2>d
       DEF DrainAddDone, Mapped, Queued, DrainOrder, DanglingInv, DanglingOnlyUntilDrain
  <2>8. CASE \/ \E h \in Handlers, signal \in ClientSignals : SendSignal(h, signal)
             \/ \E p \in Pids : ProcessExit(p) \/ PidReused(p)
             \/ Stop \/ Join \/ TestRun \/ StartSlots \/ SlotsDone \/ IntervalSleep \/ ThreadEnd
             \/ \E h \in Handlers : SlotBegin(h) \/ SlotEnd(h) \/ FinalResume(h) \/ Crash(h)
             \/ UNCHANGED vars
    <3>1. /\ UNCHANGED <<throttlingValues, allocated, processesToAdd, processesToRemove>>
          /\ pc' = "removing" => pc = "removing"
      BY <2>8 DEF SendSignal, ProcessExit, PidReused, Stop, Join, TestRun, StartSlots, SlotsDone,
                  IntervalSleep, ThreadEnd, SlotBegin, SlotEnd, FinalResume, Crash, vars
    <3> QED
      BY <3>1, <2>d, <2>o DEF Mapped, Queued, DrainOrder, DanglingInv, DanglingOnlyUntilDrain
  <2> QED
    BY <2>1, <2>2, <2>3, <2>4, <2>5, <2>6, <2>7, <2>8
       DEF Next, ClientStep, ThreadStep, DanglingInv, DanglingOnlyUntilDrain, Queued
<1> QED
  BY <1>1, <1>2, TypeCorrect, PTL DEF Spec

\* A freed handler that the throttler still knows is removed in the next drain.
THEOREM DanglingInvariant == Spec => []DanglingOnlyUntilDrain
<1>1. DanglingInv => DanglingOnlyUntilDrain
  BY DEF DanglingInv
<1> QED
  BY <1>1, DanglingStays, PTL

-----------------------------------------------------------------------------
\* The resume loop runs only once the manager is being destroyed, when no
\* client call can map, allocate or signal anything any more; the processes it
\* has passed are not stopped again.
ShutdownInv ==
    /\ ~runFlag => manager # "up"
    /\ pc \in {"final", "done"} => manager # "up"
    /\ pc = "final" => \A h \in Mapped \ todo : proc[pidOf[h]] # "stopped"
    /\ ResumedAtShutdown

\* When run() returns, every process in the map has been resumed.
THEOREM ResumedInvariant == Spec => []ResumedAtShutdown
<1>1. Init => ShutdownInv
  BY DEF Init, ShutdownInv, ResumedAtShutdown
<1>2. TypeOK /\ ShutdownInv /\ [Next]_vars => ShutdownInv'
  <2> SUFFICES ASSUME TypeOK, ShutdownInv, [Next]_vars PROVE ShutdownInv'
    OBVIOUS
  <2>0. /\ pidOf \in [Handlers -> Pids]
        /\ proc \in [Pids -> {"running", "stopped", "dead"}]
    BY DEF TypeOK
  <2>s. /\ ~runFlag => manager # "up"
        /\ pc \in {"final", "done"} => manager # "up"
        /\ pc = "final" => \A h \in Mapped \ todo : proc[pidOf[h]] # "stopped"
        /\ pc = "done" => \A h \in Mapped : proc[pidOf[h]] # "stopped"
    BY DEF ShutdownInv, ResumedAtShutdown
  <2> USE DEF loopVars, mapVars, queueVars, heapVars, askVars
  <2>1. CASE ClientStep
    <3>1. /\ manager = "up" /\ UNCHANGED <<manager, runFlag, pc>>
      BY <2>1 DEF ClientStep, GetProcessHandler, Throttle, RemoveThrottling,
                  ReleaseProcessHandler, SendSignal
    <3> QED
      BY <3>1, <2>s DEF ShutdownInv, ResumedAtShutdown
  <2>2. ASSUME NEW p \in Pids, ProcessExit(p) \/ PidReused(p) PROVE ShutdownInv'
    BY <2>2, <2>0, <2>s DEF ProcessExit, PidReused, ShutdownInv, ResumedAtShutdown, Mapped
  <2>3. CASE Stop \/ Join
    BY <2>3, <2>s DEF Stop, Join, ShutdownInv, ResumedAtShutdown, Mapped
  <2>4. CASE TestRun
    <3>1. /\ runFlag' = TRUE /\ manager' = manager /\ UNCHANGED <<throttlingValues, pidOf, proc>>
          /\ pc' \in {"adding", "final"}
          /\ pc' = "final" => ~runFlag /\ todo' = Mapped
      BY <2>4 DEF TestRun
    <3> QED
      BY <3>1, <2>s DEF ShutdownInv, ResumedAtShutdown, Mapped
  <2>5. ASSUME NEW h \in Handlers, FinalResume(h) PROVE ShutdownInv'
    <3>1. /\ pc = "final" /\ pc' = "final" /\ todo' = todo \ {h}
          /\ UNCHANGED <<manager, runFlag, throttlingValues, pidOf>>
          /\ proc' = IF proc[pidOf[h]] # "dead" THEN [proc EXCEPT ![pidOf[h]] = "running"] ELSE proc
      BY <2>5 DEF FinalResume, Deliver, Alive
    <3>2. \A g \in Mapped \ todo' : proc'[pidOf[g]] # "stopped"
      BY <3>1, <2>0, <2>s DEF Mapped
    <3> QED
      BY <3>1, <3>2, <2>s DEF ShutdownInv, ResumedAtShutdown, Mapped
  <2>6. CASE ThreadEnd
    BY <2>6, <2>s DEF ThreadEnd, ShutdownInv, ResumedAtShutdown, Mapped
  <2>7. CASE \/ DrainAdd \/ DrainAddDone \/ StartSlots \/ SlotsDone \/ EraseTerminated
             \/ IntervalSleep
             \/ \E h \in Handlers : DrainRemove(h) \/ SlotBegin(h) \/ SlotEnd(h) \/ Crash(h)
    <3>1. pc' \notin {"final", "done"} /\ UNCHANGED <<manager, runFlag>>
      BY <2>7 DEF DrainAdd, DrainAddDone, StartSlots, SlotsDone, EraseTerminated, IntervalSleep,
                  DrainRemove, SlotBegin, SlotEnd, Crash
    <3> QED
      BY <3>1, <2>s DEF ShutdownInv, ResumedAtShutdown
  <2>8. CASE UNCHANGED vars
    BY <2>8, <2>s DEF vars, ShutdownInv, ResumedAtShutdown, Mapped
  <2> QED
    BY <2>1, <2>2, <2>3, <2>4, <2>5, <2>6, <2>7, <2>8 DEF Next, ThreadStep
<1> QED
  BY <1>1, <1>2, TypeCorrect, PTL DEF Spec, ShutdownInv

-----------------------------------------------------------------------------
TodoIsMapped == pc = "signal" => todo \subseteq Mapped

\* Every mapped handler whose removal is not queued is a live object.
MappedAreLive == \A h \in Mapped \ processesToRemove : allocated[h]

ServedInv == TodoIsMapped /\ ServedAreStopped

\* If clients send no SIGCONT themselves, a process that had its slot runs
\* until the next interval only in the slot of another of its handlers, or if
\* its handler lost it, whatever handlers are released, freed and allocated
\* again and whatever processes end in the meantime.
THEOREM ServedInvariant ==
  ASSUME "SIGCONT" \notin ClientSignals
  PROVE  Spec => []ServedAreStopped
<1>1. Init => ServedInv
  BY DEF Init, ServedInv, TodoIsMapped, ServedAreStopped
<1>2. TypeOK /\ DanglingOnlyUntilDrain /\ ServedInv /\ [Next]_vars => ServedInv'
  <2> SUFFICES ASSUME TypeOK, DanglingOnlyUntilDrain, ServedInv, [Next]_vars PROVE ServedInv'
    OBVIOUS
  <2>0. /\ pidOf \in [Handlers -> Pids]
        /\ proc \in [Pids -> {"running", "stopped", "dead"}]
        /\ allocated \in [Handlers -> BOOLEAN]
        /\ throttlingValues \in [Handlers -> 0..100]
        /\ Mapped \subseteq Handlers /\ cur \in Handlers \cup {NoHandler}
    BY DEF TypeOK, Values, Mapped
  <2>l. MappedAreLive
    BY DEF DanglingOnlyUntilDrain, MappedAreLive, Mapped
  <2>i. TodoIsMapped /\ ServedAreStopped
    BY DEF ServedInv
  <2> USE DEF loopVars, mapVars, queueVars, heapVars, askVars
  <2>1. ASSUME NEW k \in Handlers, NEW p \in Pids, GetProcessHandler(k, p) PROVE ServedInv'
    <3>1. /\ ~allocated[k]
          /\ pidOf' = [pidOf EXCEPT ![k] = p]
          /\ misled' = IF k = cur THEN misled \cup {pidOf[k]} ELSE misled
          /\ UNCHANGED <<pc, todo, cur, throttlingValues, processesToRemove, proc>>
      BY <2>1 DEF GetProcessHandler
    <3>2. Mapped' = Mapped
      BY <3>1 DEF Mapped
    <3>3. k \notin Mapped \ processesToRemove
      BY <3>1, <2>l DEF MappedAreLive
    <3>4. \A h \in Mapped \ processesToRemove : pidOf'[h] = pidOf[h]
      BY <3>1, <3>3, <2>0
    <3>5. k # cur => pidOf'[cur] = pidOf[cur] \/ cur = NoHandler
      BY <3>1, <2>0
    <3>6. ServedAreStopped'
      BY <3>1, <3>2, <3>4, <3>5, <2>i DEF ServedAreStopped
    <3> QED
      BY <3>1, <3>2, <3>6, <2>i DEF ServedInv, TodoIsMapped
  <2>2. ASSUME NEW k \in Handlers, RemoveThrottling(k) \/ ReleaseProcessHandler(k) PROVE ServedInv'
    <3>1. /\ UNCHANGED <<pc, todo, cur, throttlingValues, pidOf, proc, misled>>
          /\ processesToRemove' = processesToRemove \cup {k}
      BY <2>2 DEF RemoveThrottling, ReleaseProcessHandler
    <3>2. Mapped' = Mapped
      BY <3>1 DEF Mapped
    <3> QED
      BY <3>1, <3>2, <2>i DEF ServedInv, TodoIsMapped, ServedAreStopped
  <2>3. ASSUME NEW k \in Handlers, NEW signal \in ClientSignals, SendSignal(k, signal)
        PROVE  ServedInv'
    <3>1. /\ UNCHANGED <<pc, todo, cur, throttlingValues, processesToRemove, pidOf, misled>>
          /\ proc' = [proc EXCEPT ![pidOf[k]] = "stopped"]
      BY <2>3, ThrottlerAssumption DEF SendSignal
    <3>2. ServedAreStopped'
      BY <3>1, <2>0, <2>i DEF ServedAreStopped, Mapped
    <3> QED
      BY <3>1, <3>2, <2>i DEF ServedInv, TodoIsMapped, Mapped
  <2>4. ASSUME NEW p \in Pids, ProcessExit(p) PROVE ServedInv'
    <3>1. /\ UNCHANGED <<pc, todo, cur, throttlingValues, processesToRemove, pidOf, misled>>
          /\ proc' = [proc EXCEPT ![p] = "dead"]
      BY <2>4 DEF ProcessExit
    <3>2. ServedAreStopped'
      BY <3>1, <2>0, <2>i DEF ServedAreStopped, Mapped
    <3> QED
      BY <3>1, <3>2, <2>i DEF ServedInv, TodoIsMapped, Mapped
  <2>4a. ASSUME NEW p \in Pids, PidReused(p) PROVE ServedInv'
    <3>1. /\ UNCHANGED <<pc, todo, cur, throttlingValues, processesToRemove, pidOf>>
          /\ proc' = [proc EXCEPT ![p] = "running"]
          /\ misled \ {p} \subseteq misled'
          /\ (\E h \in Mapped : pidOf[h] = p) => p \in misled'
      BY <2>4a, <2>0 DEF PidReused
    <3>2. Mapped' = Mapped
      BY <3>1 DEF Mapped
    <3>3. ASSUME NEW h \in Mapped, pidOf[h] # p
          PROVE  proc'[pidOf[h]] = proc[pidOf[h]] /\ (pidOf[h] \in misled => pidOf[h] \in misled')
      BY <3>1, <3>3, <2>0
    <3>4. ServedAreStopped'
      BY <3>1, <3>2, <3>3, <2>i DEF ServedAreStopped
    <3> QED
      BY <3>1, <3>2, <3>4, <2>i DEF ServedInv, TodoIsMapped
  <2>5. CASE StartSlots
    BY <2>5 DEF StartSlots, ServedInv, TodoIsMapped, ServedAreStopped, Mapped
  <2>6. ASSUME NEW k \in Handlers, SlotBegin(k) PROVE ServedInv'
    <3>1. /\ pc = "signal" /\ cur = NoHandler /\ k \in todo /\ todo' = todo \ {k}
          /\ proc' = IF Alive(pidOf[k]) THEN [proc EXCEPT ![pidOf[k]] = "running"] ELSE proc
          /\ cur' = IF Alive(pidOf[k]) THEN k ELSE NoHandler
          /\ UNCHANGED <<pc, throttlingValues, processesToRemove, pidOf, misled>>
      BY <2>6, ThrottlerAssumption DEF SlotBegin, Signalling, Deliver
    <3>2. Mapped' = Mapped
      BY <3>1 DEF Mapped
    <3>3. ASSUME NEW h \in Mapped \ (todo' \cup {cur'} \cup processesToRemove),
                 proc'[pidOf[h]] = "running"
          PROVE  pidOf[h] \in misled \/ (cur' # NoHandler /\ pidOf[cur'] = pidOf[h])
      <4>1. CASE h = k
        BY <4>1, <3>1, <3>3, <2>0 DEF Alive
      <4>2. CASE h # k /\ Alive(pidOf[k]) /\ pidOf[h] = pidOf[k]
        BY <4>2, <3>1, ThrottlerAssumption
      <4>3. CASE h # k /\ (Alive(pidOf[k]) => pidOf[h] # pidOf[k])
        <5>1. h \notin {NoHandler} /\ h \notin todo
          BY <2>0, <3>1, <3>3, <4>3, ThrottlerAssumption
        <5>2. proc[pidOf[h]] = "running"
          BY <3>1, <3>3, <4>3, <2>0
        <5> QED
          BY <5>1, <5>2, <3>1, <3>3, <2>i DEF ServedAreStopped
      <4> QED
        BY <4>1, <4>2, <4>3
    <3>4. ServedAreStopped'
      BY <3>1, <3>2, <3>3 DEF ServedAreStopped
    <3> QED
      BY <3>1, <3>2, <3>4, <2>i DEF ServedInv, TodoIsMapped
  <2>7. ASSUME NEW k \in Handlers, SlotEnd(k) PROVE ServedInv'
    <3>1. /\ pc = "signal" /\ cur = k
          /\ proc' = IF Alive(pidOf[k]) THEN [proc EXCEPT ![pidOf[k]] = "stopped"] ELSE proc
          /\ misled \subseteq misled'
          /\ UNCHANGED <<pc, todo, throttlingValues, processesToRemove, pidOf>>
      BY <2>7 DEF SlotEnd, Deliver
    <3>2. Mapped' = Mapped
      BY <3>1 DEF Mapped
    <3>3. ASSUME NEW h \in Mapped \ (todo \cup processesToRemove), proc'[pidOf[h]] = "running"
          PROVE  pidOf[h] \in misled'
      <4>1. proc[pidOf[h]] = "running" /\ pidOf[h] # pidOf[k]
        BY <3>1, <3>3, <2>0 DEF Alive
      <4> QED
        BY <4>1, <3>1, <3>3, <2>i DEF ServedAreStopped
    <3>4. ServedAreStopped'
      BY <3>1, <3>2, <3>3 DEF ServedAreStopped
    <3> QED
      BY <3>1, <3>2, <3>4, <2>i DEF ServedInv, TodoIsMapped
  <2>8. CASE SlotsDone
    BY <2>8, <2>i DEF SlotsDone, ServedInv, TodoIsMapped, ServedAreStopped, Mapped
  <2>9. CASE EraseTerminated
    <3>1. /\ pc = "erase" /\ pc' = "sleep"
          /\ UNCHANGED <<todo, cur, processesToRemove, pidOf, proc, misled>>
          /\ Mapped' \subseteq Mapped
      BY <2>9, <2>0 DEF EraseTerminated, Mapped
    <3> QED
      BY <3>1, <2>i DEF ServedInv, TodoIsMapped, ServedAreStopped
  <2>10. CASE \/ Stop \/ Join
              \/ \E h \in Handlers, pct \in Percentages : Throttle(h, pct)
              \/ UNCHANGED vars
    <3>1. UNCHANGED <<pc, todo, cur, throttlingValues, processesToRemove, pidOf, proc, misled>>
      BY <2>10 DEF Stop, Join, Throttle, vars
    <3> QED
      BY <3>1, <2>i DEF ServedInv, TodoIsMapped, ServedAreStopped, Mapped
  <2>11. CASE \/ TestRun \/ DrainAdd \/ DrainAddDone \/ IntervalSleep \/ ThreadEnd
              \/ \E h \in Handlers : DrainRemove(h) \/ FinalResume(h) \/ Crash(h)
    <3>1. pc' \notin {"signal", "erase", "sleep"}
      BY <2>11 DEF TestRun, DrainAdd, DrainAddDone, IntervalSleep, ThreadEnd, DrainRemove,
                   FinalResume, Crash
    <3> QED
      BY <3>1, <2>i DEF ServedInv, TodoIsMapped, ServedAreStopped
  <2> QED
    BY <2>1, <2>2, <2>3, <2>4, <2>4a, <2>5, <2>6, <2>7, <2>8, <2>9, <2>10, <2>11
       DEF Next, ClientStep, ThreadStep
<1> QED
  BY <1>1, <1>2, TypeCorrect, DanglingInvariant, PTL DEF Spec, ServedInv

-----------------------------------------------------------------------------
\* Every handler that is mapped or queued is that of a process that a client
\* asked to throttle, or lost it, or is on its way out of the map.
AskedHandlers ==
    \A h \in Handlers :
        h \in Mapped \/ Queued(h) => pidOf[h] \in asked \cup misled \/ h \in processesToRemove

\* The slots are those of mapped handlers.
SlotIsMapped ==
    /\ pc = "signal" => cur = NoHandler \/ cur \in Mapped
    /\ pc \notin {"signal", "crashed"} => cur = NoHandler

StoppedAsked == \A p \in Pids : proc[p] = "stopped" => p \in asked \cup misled

AskedInv == AskedHandlers /\ TodoIsMapped /\ SlotIsMapped /\ StoppedAsked

\* Whatever clients release, and whenever, and whatever identifiers are used
\* again, the throttler stops a process that nobody asked to throttle only
\* through a handler that lost its process, and the drain takes each handler
\* whose memory was given away out of the map: none of them is used twice.
THEOREM AskedInvariant == Spec => []OnlyAskedAreStopped
<1>1. Init => AskedInv
  <2> SUFFICES ASSUME Init PROVE AskedInv
    OBVIOUS
  <2>1. Mapped = {} /\ Len(processesToAdd) = 0 /\ pc = "test" /\ cur = NoHandler
    BY DEF Init, Mapped
  <2>2. \A p \in Pids : proc[p] = "running"
    BY DEF Init
  <2> QED
    BY <2>1, <2>2 DEF AskedInv, AskedHandlers, Queued, TodoIsMapped, SlotIsMapped, StoppedAsked
<1>2. TypeOK /\ DanglingInv /\ AskedInv /\ [Next]_vars => AskedInv'
  <2> SUFFICES ASSUME TypeOK, DanglingInv, AskedInv, [Next]_vars PROVE AskedInv'
    OBVIOUS
  <2>0. /\ pidOf \in [Handlers -> Pids]
        /\ proc \in [Pids -> {"running", "stopped", "dead"}]
        /\ throttlingValues \in [Handlers -> 0..100]
        /\ processesToAdd \in Seq(Requests)
        /\ Mapped \subseteq Handlers
    BY DEF TypeOK, Values, Mapped
  <2>i. AskedHandlers /\ TodoIsMapped /\ SlotIsMapped /\ StoppedAsked
    BY DEF AskedInv
  <2>d. DanglingOnlyUntilDrain /\ DrainOrder
    BY DEF DanglingInv
  <2> USE DEF loopVars, mapVars, queueVars, heapVars, askVars
  <2>1. ASSUME NEW k \in Handlers, NEW p \in Pids, GetProcessHandler(k, p) PROVE AskedInv'
    <3>1. /\ ~allocated[k] /\ pidOf' = [pidOf EXCEPT ![k] = p]
          /\ misled \subseteq misled'
          /\ UNCHANGED <<pc, todo, cur, throttlingValues, queueVars, proc, asked>>
      BY <2>1 DEF GetProcessHandler
    <3>2. k \in Mapped \/ Queued(k) => k \in processesToRemove
      BY <3>1, <2>d DEF DanglingOnlyUntilDrain
    <3>3. AskedHandlers'
      BY <3>1, <3>2, <2>0, <2>i DEF AskedHandlers, Mapped, Queued
    <3> QED
      BY <3>1, <3>3, <2>i DEF AskedInv, TodoIsMapped, SlotIsMapped, StoppedAsked, Mapped
  <2>2. ASSUME NEW k \in Handlers, NEW pct \in Percentages, Throttle(k, pct) PROVE AskedInv'
    <3>1. /\ asked' = asked \cup {pidOf[k]}
          /\ processesToAdd' = Append(processesToAdd, [process |-> k, percentage |-> pct])
          /\ UNCHANGED <<pc, todo, cur, throttlingValues, processesToRemove, pidOf, proc, misled>>
      BY <2>2 DEF Throttle
    <3>2. \A g \in Handlers : Queued(g)' => Queued(g) \/ g = k
      BY <2>0, <3>1 DEF Queued
    <3>3. AskedHandlers'
      BY <3>1, <3>2, <2>i DEF AskedHandlers, Mapped
    <3> QED
      BY <3>1, <3>3, <2>i DEF AskedInv, TodoIsMapped, SlotIsMapped, StoppedAsked, Mapped
  <2>3. ASSUME NEW k \in Handlers, RemoveThrottling(k) \/ ReleaseProcessHandler(k) PROVE AskedInv'
    <3>1. /\ processesToRemove' = processesToRemove \cup {k}
          /\ UNCHANGED <<pc, todo, cur, throttlingValues, processesToAdd, pidOf, proc, askVars>>
      BY <2>3 DEF RemoveThrottling, ReleaseProcessHandler
    <3>2. AskedHandlers'
      BY <3>1, <2>i DEF AskedHandlers, Mapped, Queued
    <3> QED
      BY <3>1, <3>2, <2>i DEF AskedInv, TodoIsMapped, SlotIsMapped, StoppedAsked, Mapped
  <2>4. ASSUME NEW k \in Handlers, NEW signal \in ClientSignals, SendSignal(k, signal)
        PROVE  AskedInv'
    <3>1. /\ UNCHANGED <<pc, todo, cur, throttlingValues, queueVars, pidOf, misled>>
          /\ proc' = [proc EXCEPT ![pidOf[k]] = IF signal = "SIGSTOP" THEN "stopped" ELSE "running"]
          /\ asked' = IF signal = "SIGSTOP" THEN asked \cup {pidOf[k]} ELSE asked
      BY <2>4 DEF SendSignal
    <3>2. StoppedAsked'
      BY <3>1, <2>0, <2>i DEF StoppedAsked
    <3>3. AskedHandlers'
      BY <3>1, <2>i DEF AskedHandlers, Mapped, Queued
    <3> QED
      BY <3>1, <3>2, <3>3, <2>i DEF AskedInv, TodoIsMapped, SlotIsMapped, Mapped
  <2>5. ASSUME NEW p \in Pids, ProcessExit(p) PROVE AskedInv'
    <3>1. /\ UNCHANGED <<pc, todo, cur, throttlingValues, queueVars, pidOf, askVars>>
          /\ proc' = [proc EXCEPT ![p] = "dead"]
      BY <2>5 DEF ProcessExit
    <3>2. StoppedAsked'
      BY <3>1, <2>0, <2>i DEF StoppedAsked
    <3> QED
      BY <3>1, <3>2, <2>i DEF AskedInv, AskedHandlers, TodoIsMapped, SlotIsMapped, Mapped, Queued
  <2>5a. ASSUME NEW p \in Pids, PidReused(p) PROVE AskedInv'
    <3>1. /\ UNCHANGED <<pc, todo, cur, throttlingValues, queueVars, pidOf>>
          /\ proc' = [proc EXCEPT ![p] = "running"]
          /\ asked' = asked \ {p}
          /\ misled \ {p} \subseteq misled'
          /\ \A h \in Handlers : (h \in Mapped \/ Queued(h)) /\ pidOf[h] = p => p \in misled'
      BY <2>5a DEF PidReused
    <3>2. StoppedAsked'
      BY <3>1, <2>0, <2>i DEF StoppedAsked
    <3>3. AskedHandlers'
      BY <3>1, <2>i DEF AskedHandlers, Mapped, Queued
    <3> QED
      BY <3>1, <3>2, <3>3, <2>i DEF AskedInv, TodoIsMapped, SlotIsMapped, Mapped
  <2>6. CASE DrainAdd
    <3>1. pc = "adding" /\ UNCHANGED <<pc, cur, processesToRemove, pidOf, proc, askVars>>
      BY <2>6 DEF DrainAdd
    <3>2. \A h \in Handlers : h \in Mapped' \/ Queued(h)' => h \in Mapped \/ Queued(h)
      BY <2>6, QueuedAfterDrain
    <3> QED
      BY <3>1, <3>2, <2>i
         DEF AskedInv, AskedHandlers, TodoIsMapped, SlotIsMapped, StoppedAsked
  <2>7. CASE EraseTerminated
    <3>1. /\ UNCHANGED <<cur, queueVars, pidOf, proc, askVars>>
          /\ pc \notin {"signal", "crashed"} /\ pc' \notin {"signal", "crashed"}
          /\ Mapped' \subseteq Mapped
      BY <2>7, <2>0 DEF EraseTerminated, Mapped
    <3> QED
      BY <3>1, <2>i
         DEF AskedInv, AskedHandlers, Queued, TodoIsMapped, SlotIsMapped, StoppedAsked
  <2>7a. ASSUME NEW k \in Handlers, DrainRemove(k) PROVE AskedInv'
    <3>1. /\ processesToAdd = <<>> /\ processesToAdd' = <<>>
          /\ throttlingValues' = [throttlingValues EXCEPT ![k] = 0]
          /\ processesToRemove' = processesToRemove \ {k}
          /\ pc = "removing" /\ UNCHANGED <<pc, cur, pidOf, proc, askVars>>
      BY <2>7a, <2>d DEF DrainRemove, RemoveProcess, DrainOrder
    <3>2. \A g \in Handlers : g \in Mapped' => g # k /\ g \in Mapped
      BY <3>1, <2>0 DEF Mapped
    <3>3. \A g \in Handlers : ~Queued(g)'
      BY <3>1 DEF Queued
    <3> QED
      BY <3>1, <3>2, <3>3, <2>i
         DEF AskedInv, AskedHandlers, TodoIsMapped, SlotIsMapped, StoppedAsked
  <2>8. ASSUME NEW k \in Handlers, SlotBegin(k) PROVE AskedInv'
    <3>1. /\ pc = "signal" /\ k \in todo /\ todo' = todo \ {k}
          /\ proc' = IF Alive(pidOf[k]) THEN [proc EXCEPT ![pidOf[k]] = "running"] ELSE proc
          /\ cur' \in {k, NoHandler}
          /\ UNCHANGED <<pc, throttlingValues, queueVars, pidOf, askVars>>
      BY <2>8, ThrottlerAssumption DEF SlotBegin, Signalling, Deliver
    <3>2. StoppedAsked'
      BY <3>1, <2>0, <2>i DEF StoppedAsked
    <3> QED
      BY <3>1, <3>2, <2>i DEF AskedInv, AskedHandlers, Queued, TodoIsMapped, SlotIsMapped, Mapped
  <2>9. ASSUME NEW k \in Handlers, SlotEnd(k) PROVE AskedInv'
    <3>1. /\ pc = "signal" /\ cur = k /\ cur' = NoHandler
          /\ proc' = IF Alive(pidOf[k]) THEN [proc EXCEPT ![pidOf[k]] = "stopped"] ELSE proc
          /\ misled' = IF k \in processesToRemove /\ pidOf[k] \notin asked
                       THEN misled \cup {pidOf[k]} ELSE misled
          /\ UNCHANGED <<pc, todo, throttlingValues, queueVars, pidOf, asked>>
      BY <2>9 DEF SlotEnd, Deliver
    <3>2. pidOf[k] \in asked \cup misled' /\ misled \subseteq misled'
      BY <3>1, <2>i, ThrottlerAssumption DEF SlotIsMapped, AskedHandlers
    <3>3. StoppedAsked'
      BY <3>1, <3>2, <2>0, <2>i DEF StoppedAsked
    <3>4. AskedHandlers'
      BY <3>1, <3>2, <2>i DEF AskedHandlers, Queued, Mapped
    <3> QED
      BY <3>1, <3>3, <3>4, <2>i DEF AskedInv, TodoIsMapped, SlotIsMapped, Mapped
  <2>10. ASSUME NEW k \in Handlers, FinalResume(k) PROVE AskedInv'
    <3>1. /\ pc = "final"
          /\ proc' = IF Alive(pidOf[k]) THEN [proc EXCEPT ![pidOf[k]] = "running"] ELSE proc
          /\ UNCHANGED <<pc, cur, throttlingValues, queueVars, pidOf, askVars>>
      BY <2>10 DEF FinalResume, Deliver
    <3>2. StoppedAsked'
      BY <3>1, <2>0, <2>i DEF StoppedAsked
    <3> QED
      BY <3>1, <3>2, <2>i DEF AskedInv, AskedHandlers, Queued, TodoIsMapped, SlotIsMapped, Mapped
  <2>11. CASE \/ Stop \/ Join \/ TestRun \/ DrainAddDone \/ StartSlots \/ SlotsDone
              \/ IntervalSleep \/ ThreadEnd
              \/ \E h \in Handlers : Crash(h)
              \/ UNCHANGED vars
    <3>1. /\ UNCHANGED <<cur, throttlingValues, queueVars, pidOf, proc, askVars>>
          /\ pc' = "signal" => todo' = Mapped \/ (pc = "signal" /\ todo' = todo)
          /\ pc' \notin {"signal", "crashed"} => pc \notin {"signal", "crashed"} \/ cur = NoHandler
      BY <2>11 DEF Stop, Join, TestRun, DrainAddDone, StartSlots, SlotsDone, IntervalSleep,
                   ThreadEnd, Crash, vars
    <3>2. SlotIsMapped'
      <4>1. pc' = "signal" => pc \in {"signal", "removing"}
        BY <2>11 DEF Stop, Join, TestRun, DrainAddDone, StartSlots, SlotsDone, IntervalSleep,
                     ThreadEnd, Crash, vars
      <4> QED
        BY <4>1, <3>1, <2>i DEF SlotIsMapped, Mapped
    <3> QED
      BY <3>1, <3>2, <2>i
         DEF AskedInv, AskedHandlers, Queued, TodoIsMapped, StoppedAsked, Mapped
  <2> QED
    BY <2>1, <2>2, <2>3, <2>4, <2>5, <2>5a, <2>6, <2>7, <2>7a, <2>8, <2>9, <2>10, <2>11
       DEF Next, ClientStep, ThreadStep
<1>3. AskedInv => OnlyAskedAreStopped
  BY DEF AskedInv, AskedHandlers, StoppedAsked, OnlyAskedAreStopped, Mapped
<1> QED
  BY <1>1, <1>2, <1>3, TypeCorrect, DanglingStays, PTL DEF Spec

-----------------------------------------------------------------------------
\* weight gives the total of the values v over every subset of M.
Weighs(weight, M, v) ==
    /\ weight \in [SUBSET M -> Nat]
    /\ weight[{}] = 0
    /\ \A S \in SUBSET M : \A h \in S : weight[S] = weight[S \ {h}] + v[h]
    /\ \A S, T \in SUBSET M : S \subseteq T => weight[S] <= weight[T]

\* The totals when one element is added.
LEMMA WeighsMore ==
  ASSUME NEW M, NEW v, NEW weight, Weighs(weight, M, v), NEW h, h \notin M, NEW p \in Nat,
         NEW w, w[h] = p, \A g \in M : w[g] = v[g] /\ v[g] \in Nat
  PROVE  \E more : Weighs(more, M \cup {h}, w) /\ more[M \cup {h}] = weight[M] + p
<1> DEFINE N == M \cup {h}
           more == [S \in SUBSET N |-> IF h \in S THEN weight[S \ {h}] + p ELSE weight[S]]
<1>1. /\ weight \in [SUBSET M -> Nat] /\ weight[{}] = 0
      /\ \A S \in SUBSET M : \A g \in S : weight[S] = weight[S \ {g}] + v[g]
      /\ \A S, T \in SUBSET M : S \subseteq T => weight[S] <= weight[T]
  BY DEF Weighs
<1>2. \A S \in SUBSET N : S \ {h} \in SUBSET M /\ (h \notin S => S \in SUBSET M /\ S \ {h} = S)
  OBVIOUS
<1>3. \A S \in SUBSET N : more[S] = IF h \in S THEN weight[S \ {h}] + p ELSE weight[S]
  OBVIOUS
<1>4. \A S \in SUBSET M : weight[S] \in Nat
  BY <1>1
<1>5. more \in [SUBSET N -> Nat]
  <2>1. \A S \in SUBSET N : (IF h \in S THEN weight[S \ {h}] + p ELSE weight[S]) \in Nat
    BY <1>2, <1>4
  <2> QED
    BY <2>1
<1> HIDE DEF more, N
<1>6. more[{}] = 0
  BY <1>1, <1>3
<1>7. ASSUME NEW S \in SUBSET N, NEW g \in S PROVE more[S] = more[S \ {g}] + w[g]
  <2>0. S \ {g} \in SUBSET N /\ (g # h => g \in M)
    BY <1>2 DEF N
  <2>1. CASE g = h
    BY <1>2, <1>3, <2>0, <2>1
  <2>2. CASE g # h /\ h \notin S
    <3>1. S \in SUBSET M /\ h \notin S \ {g}
      BY <1>2, <2>2
    <3> QED
      BY <1>1, <1>3, <2>0, <2>2, <3>1
  <2>3. CASE g # h /\ h \in S
    <3> DEFINE R == S \ {h}
    <3>1. R \in SUBSET M /\ g \in R /\ (S \ {g}) \ {h} = R \ {g} /\ h \in S \ {g} /\ R \ {g} \in SUBSET M
      BY <1>2, <2>3
    <3>2. more[S] = weight[R] + p /\ more[S \ {g}] = weight[R \ {g}] + p
      BY <1>3, <2>0, <2>3, <3>1
    <3> HIDE DEF R
    <3>3. weight[R] = weight[R \ {g}] + v[g] /\ w[g] = v[g] /\ v[g] \in Nat
      BY <1>1, <2>0, <2>3, <3>1
    <3>4. weight[R \ {g}] \in Nat
      BY <1>4, <3>1
    <3> QED
      BY <3>2, <3>3, <3>4
  <2> QED
    BY <2>1, <2>2, <2>3
<1>8. ASSUME NEW S \in SUBSET N, NEW T \in SUBSET N, S \subseteq T PROVE more[S] <= more[T]
  <2>1. S \ {h} \in SUBSET M /\ T \ {h} \in SUBSET M /\ S \ {h} \subseteq T \ {h}
    BY <1>2, <1>8
  <2>2. weight[S \ {h}] <= weight[T \ {h}] /\ weight[S \ {h}] \in Nat /\ weight[T \ {h}] \in Nat
    BY <1>1, <1>4, <2>1
  <2>3. more[S] = (IF h \in S THEN weight[S \ {h}] + p ELSE weight[S \ {h}])
        /\ more[T] = (IF h \in T THEN weight[T \ {h}] + p ELSE weight[T \ {h}])
    BY <1>2, <1>3
  <2> QED
    BY <1>8, <2>2, <2>3
<1>9. more[N] = weight[M] + p
  <2>1. N \in SUBSET N /\ h \in N /\ N \ {h} = M
    BY DEF N
  <2> QED
    BY <1>3, <2>1
<1>10. Weighs(more, N, w)
  BY <1>5, <1>6, <1>7, <1>8 DEF Weighs
<1> QED
  BY <1>9, <1>10 DEF N

\* The totals when elements are taken away.
LEMMA WeighsLess ==
  ASSUME NEW M, NEW v, NEW weight, Weighs(weight, M, v), NEW N \in SUBSET M,
         NEW w, \A g \in N : w[g] = v[g]
  PROVE  \E less : Weighs(less, N, w) /\ \A S \in SUBSET N : less[S] = weight[S]
<1> DEFINE less == [S \in SUBSET N |-> weight[S]]
<1>1. \A S \in SUBSET N : less[S] = weight[S] /\ S \in SUBSET M
  OBVIOUS
<1>2. less \in [SUBSET N -> Nat]
  BY DEF Weighs
<1> HIDE DEF less
<1>3. less[{}] = 0
  BY <1>1 DEF Weighs
<1>4. ASSUME NEW S \in SUBSET N, NEW g \in S PROVE less[S] = less[S \ {g}] + w[g]
  <2>1. S \ {g} \in SUBSET N /\ g \in N
    OBVIOUS
  <2> QED
    BY <1>1, <2>1 DEF Weighs
<1>5. ASSUME NEW S \in SUBSET N, NEW T \in SUBSET N, S \subseteq T PROVE less[S] <= less[T]
  BY <1>1, <1>5 DEF Weighs
<1>6. Weighs(less, N, w)
  BY <1>2, <1>3, <1>4, <1>5 DEF Weighs
<1> QED
  BY <1>1, <1>6

\* The handlers whose slot is not over.
Left == {h \in Handlers : h \in todo \/ h = cur}

\* The mapped percentages are within _sumPercentages (which keeps the shares of
\* terminated processes), and what is left of them still fits.
Budgeted(weight) ==
    /\ Weighs(weight, Mapped, throttlingValues)
    /\ weight[Mapped] <= sumPercentages
    /\ pc = "signal" => slept + weight[Left] <= sumPercentages

SlotsInv ==
    /\ TodoIsMapped /\ SlotIsMapped
    /\ pc = "signal" => cur \notin todo
    /\ pc \in {"test", "adding", "removing"} => slept = 0
    /\ ~updated => slept <= 100 /\ \E weight : Budgeted(weight)

\* A step that touches neither the map nor the slots.
LEMMA SlotsUntouched ==
  ASSUME SlotsInv, UNCHANGED <<throttlingValues, sumPercentages, updated>>,
         pc' = "signal" => pc = "signal" /\ UNCHANGED <<todo, cur, slept>>,
         pc' \notin {"signal", "crashed"} => cur' = NoHandler,
         pc' \in {"test", "adding", "removing"} => slept' = 0,
         slept' = slept \/ slept' = 0
  PROVE  SlotsInv'
<1>1. TodoIsMapped' /\ SlotIsMapped' /\ (pc' = "signal" => cur' \notin todo')
  BY DEF SlotsInv, TodoIsMapped, SlotIsMapped, Mapped
<1>2. ASSUME ~updated' PROVE slept' <= 100 /\ \E weight : Budgeted(weight)'
  <2>1. PICK weight : Budgeted(weight)
    BY <1>2 DEF SlotsInv
  <2>2. Budgeted(weight)'
    BY <2>1 DEF Budgeted, Mapped, Left
  <2> QED
    BY <1>2, <2>2 DEF SlotsInv
<1> QED
  BY <1>1, <1>2 DEF SlotsInv

\* A step of the drain, or the erasure of the terminated processes.
LEMMA SlotsDrained ==
  ASSUME SlotsInv, pc \notin {"signal", "crashed"}, pc' \notin {"signal", "crashed"},
         pc' \in {"test", "adding", "removing"} => pc \in {"test", "adding", "removing"},
         UNCHANGED <<cur, slept>>, ~updated' => ~updated,
         ASSUME NEW weight, ~updated', Weighs(weight, Mapped, throttlingValues), weight[Mapped] <= sumPercentages
         PROVE  \E new : Weighs(new, Mapped', throttlingValues') /\ new[Mapped'] <= sumPercentages'
  PROVE  SlotsInv'
<1>1. TodoIsMapped' /\ SlotIsMapped'
  BY DEF SlotsInv, TodoIsMapped, SlotIsMapped
<1>2. ASSUME ~updated' PROVE slept' <= 100 /\ \E weight : Budgeted(weight)'
  <2>1. PICK weight : Weighs(weight, Mapped, throttlingValues) /\ weight[Mapped] <= sumPercentages
    BY <1>2 DEF SlotsInv, Budgeted
  <2>2. PICK new : Weighs(new, Mapped', throttlingValues') /\ new[Mapped'] <= sumPercentages'
    BY <1>2, <2>1
  <2>3. Weighs(new, Mapped, throttlingValues)'
    BY <2>2
  <2>4. Budgeted(new)'
    BY <2>2, <2>3 DEF Budgeted
  <2> QED
    BY <1>2, <2>4 DEF SlotsInv
<1> QED
  BY <1>1, <1>2 DEF SlotsInv

\* As long as no mapped process has its percentage changed, the slots of one
\* interval take at most the interval: run() never asks usleep() for a negative
\* time, whatever is added, removed, terminated or released meanwhile.
THEOREM SlotsInvariant == Spec => []SlotsFitInterval
<1>1. Init => SlotsInv
  <2> SUFFICES ASSUME Init PROVE SlotsInv
    OBVIOUS
  <2>1. Mapped = {} /\ pc = "test" /\ cur = NoHandler /\ slept = 0 /\ sumPercentages = 0
    BY DEF Init, Mapped
  <2> DEFINE weight == [S \in SUBSET {} |-> 0]
  <2>2. Weighs(weight, {}, throttlingValues)
    BY DEF Weighs
  <2>3. weight[{}] <= 0
    OBVIOUS
  <2> HIDE DEF weight
  <2>4. Budgeted(weight)
    BY <2>1, <2>2, <2>3 DEF Budgeted
  <2> QED
    BY <2>1, <2>4 DEF SlotsInv, TodoIsMapped, SlotIsMapped
<1>2. TypeOK /\ BudgetNotExceeded /\ SlotsInv /\ [Next]_vars => SlotsInv'
  <2> SUFFICES ASSUME TypeOK, BudgetNotExceeded, SlotsInv, [Next]_vars PROVE SlotsInv'
    OBVIOUS
  <2>0. /\ throttlingValues \in [Handlers -> 0..100] /\ sumPercentages \in Int /\ slept \in Nat
        /\ processesToAdd \in Seq(Requests) /\ todo \subseteq Handlers
        /\ Mapped \subseteq Handlers /\ sumPercentages <= 100
        /\ Percentages \subseteq 1..100 /\ NoHandler \notin Handlers
    BY ThrottlerAssumption DEF TypeOK, Values, Mapped, BudgetNotExceeded
  <2>i. /\ TodoIsMapped /\ SlotIsMapped
        /\ pc = "signal" => cur \notin todo
        /\ pc \in {"test", "adding", "removing"} => slept = 0
        /\ ~updated => slept <= 100 /\ \E weight : Budgeted(weight)
    BY DEF SlotsInv
  <2> USE DEF loopVars, mapVars, queueVars, heapVars, askVars
  <2>1. CASE DrainAdd
    <3> DEFINE g == Head(processesToAdd).process
               q == Head(processesToAdd).percentage
    <3>1. g \in Handlers /\ q \in 1..100 /\ AddProcess(g, q)
      <4>1. Head(processesToAdd) \in Requests
        BY <2>0, <2>1 DEF DrainAdd
      <4> QED
        BY <2>0, <2>1, <4>1 DEF Requests, DrainAdd
    <3>2. pc = "adding" /\ UNCHANGED <<pc, cur, slept>>
      BY <2>1 DEF DrainAdd
    <3> HIDE DEF g, q
    <3>3. ~updated' => ~updated
      BY <3>1 DEF AddProcess
    <3>4. ASSUME NEW weight, ~updated', Weighs(weight, Mapped, throttlingValues), weight[Mapped] <= sumPercentages
          PROVE  \E new : Weighs(new, Mapped', throttlingValues') /\ new[Mapped'] <= sumPercentages'
      <4>1. CASE UNCHANGED <<throttlingValues, sumPercentages>>
        BY <3>4, <4>1 DEF Mapped
      <4>2. CASE g \in Mapped
        <5>1. throttlingValues' = [throttlingValues EXCEPT ![g] = q] /\ sumPercentages' = sumPercentages /\ throttlingValues[g] = q
          BY <3>1, <3>4, <4>2 DEF AddProcess
        <5> QED
          BY <2>0, <3>1, <4>1, <5>1
      <4>3. CASE g \notin Mapped /\ sumPercentages + q <= 100
        <5>1. throttlingValues' = [throttlingValues EXCEPT ![g] = q] /\ sumPercentages' = sumPercentages + q
          BY <3>1, <4>3 DEF AddProcess
        <5>2. throttlingValues'[g] = q /\ \A h \in Handlers \ {g} : throttlingValues'[h] = throttlingValues[h]
          BY <2>0, <3>1, <5>1
        <5>3. Mapped' = Mapped \cup {g}
          BY <3>1, <5>2 DEF Mapped
        <5>4. \A h \in Mapped : throttlingValues'[h] = throttlingValues[h] /\ throttlingValues[h] \in Nat
          <6>1. \A h \in Mapped : h \in Handlers \ {g} /\ throttlingValues[h] \in 0..100
            BY <2>0, <4>3
          <6>2. \A n \in 0..100 : n \in Nat
            OBVIOUS
          <6> QED
            BY <5>2, <6>1, <6>2, Zenon
        <5>5. PICK new : Weighs(new, Mapped \cup {g}, throttlingValues') /\ new[Mapped \cup {g}] = weight[Mapped] + q
          BY <3>1, <3>4, <4>3, <5>2, <5>4, WeighsMore
        <5>6. weight[Mapped] \in Nat
          BY <3>4 DEF Weighs
        <5>7. new[Mapped'] <= sumPercentages'
          BY <2>0, <3>1, <3>4, <5>1, <5>3, <5>5, <5>6
        <5> QED
          BY <5>3, <5>5, <5>7
      <4> QED
        BY <3>1, <4>1, <4>2, <4>3 DEF AddProcess
    <3> QED
      BY <3>2, <3>3, <3>4, SlotsDrained
  <2>2. ASSUME NEW k \in Handlers, DrainRemove(k) PROVE SlotsInv'
    <3>1. /\ pc = "removing" /\ UNCHANGED <<pc, cur, slept, updated>>
          /\ throttlingValues' = [throttlingValues EXCEPT ![k] = 0] /\ sumPercentages' = sumPercentages - throttlingValues[k]
      BY <2>2 DEF DrainRemove, RemoveProcess
    <3>2. Mapped' = Mapped \ {k} /\ \A h \in Mapped' : throttlingValues'[h] = throttlingValues[h]
      BY <2>0, <3>1 DEF Mapped
    <3>3. ASSUME NEW weight, Weighs(weight, Mapped, throttlingValues), weight[Mapped] <= sumPercentages
          PROVE  \E new : Weighs(new, Mapped', throttlingValues') /\ new[Mapped'] <= sumPercentages'
      <4>1. PICK new : Weighs(new, Mapped', throttlingValues') /\ \A S \in SUBSET Mapped' : new[S] = weight[S]
        <5>1. Mapped' \in SUBSET Mapped
          BY <3>2
        <5> QED
          BY <3>2, <3>3, <5>1, WeighsLess
      <4>2. new[Mapped'] = weight[Mapped \ {k}]
        BY <3>2, <4>1
      <4>3. weight[Mapped] = weight[Mapped \ {k}] + throttlingValues[k] /\ weight[Mapped \ {k}] \in Nat
            /\ throttlingValues[k] \in 0..100
        <5>1. throttlingValues[k] \in 0..100
          BY <2>0
        <5>2. CASE k \in Mapped
          BY <3>3, <5>1, <5>2 DEF Weighs
        <5>3. CASE k \notin Mapped
          <6>1. Mapped \ {k} = Mapped /\ throttlingValues[k] = 0 /\ weight[Mapped] \in Nat
            BY <3>3, <5>1, <5>3 DEF Mapped, Weighs
          <6> QED
            BY <5>1, <6>1
        <5> QED
          BY <5>2, <5>3
      <4>4. new[Mapped'] <= sumPercentages'
        <5>1. sumPercentages \in Int /\ sumPercentages' = sumPercentages - throttlingValues[k]
          BY <2>0, <3>1, Zenon
        <5> QED
          BY <3>3, <4>2, <4>3, <5>1
      <4> QED
        BY <4>1, <4>4
    <3> QED
      BY <3>1, <3>3, SlotsDrained
  <2>3. CASE EraseTerminated
    <3>1. /\ pc = "erase" /\ pc' = "sleep" /\ UNCHANGED <<cur, slept, updated, sumPercentages>>
          /\ throttlingValues' = [h \in Handlers |-> IF h \in terminated THEN 0 ELSE throttlingValues[h]]
      BY <2>3 DEF EraseTerminated
    <3>2. Mapped' \in SUBSET Mapped /\ \A h \in Mapped' : throttlingValues'[h] = throttlingValues[h]
      BY <2>0, <3>1 DEF Mapped
    <3>3. ASSUME NEW weight, Weighs(weight, Mapped, throttlingValues), weight[Mapped] <= sumPercentages
          PROVE  \E new : Weighs(new, Mapped', throttlingValues') /\ new[Mapped'] <= sumPercentages'
      <4>1. PICK new : Weighs(new, Mapped', throttlingValues') /\ \A S \in SUBSET Mapped' : new[S] = weight[S]
        BY <3>2, <3>3, WeighsLess
      <4>2. weight[Mapped'] <= weight[Mapped] /\ weight[Mapped'] \in Nat /\ weight[Mapped] \in Nat
        BY <3>2, <3>3 DEF Weighs
      <4>3. new[Mapped'] = weight[Mapped']
        BY <4>1
      <4>4. sumPercentages' = sumPercentages /\ sumPercentages \in Int
        BY <2>0, <3>1
      <4>5. new[Mapped'] <= sumPercentages'
        BY <3>3, <4>2, <4>3, <4>4
      <4> QED
        BY <4>1, <4>5
    <3> QED
      BY <3>1, <3>3, SlotsDrained
  <2>4. ASSUME NEW k \in Handlers, SlotBegin(k) PROVE SlotsInv'
    <3>1. /\ pc = "signal" /\ pc' = "signal" /\ k \in todo /\ todo' = todo \ {k} /\ cur = NoHandler
          /\ cur' \in {k, NoHandler} /\ UNCHANGED <<slept, throttlingValues, sumPercentages, updated>>
      BY <2>0, <2>4 DEF SlotBegin, Signalling
    <3>2. Left' \in SUBSET Left /\ Left \in SUBSET Mapped /\ Mapped' = Mapped
      BY <2>0, <2>i, <3>1 DEF Left, TodoIsMapped, Mapped
    <3>3. TodoIsMapped' /\ SlotIsMapped' /\ cur' \notin todo'
      BY <2>0, <2>i, <3>1, <3>2 DEF TodoIsMapped, SlotIsMapped
    <3>4. ASSUME ~updated' PROVE slept' <= 100 /\ \E weight : Budgeted(weight)'
      <4>1. PICK weight : Budgeted(weight)
        BY <2>i, <3>1, <3>4
      <4>2. weight[Left'] <= weight[Left] /\ weight[Left'] \in Nat /\ weight[Left] \in Nat
        BY <3>2, <4>1 DEF Budgeted, Weighs
      <4>3. slept + weight[Left'] <= sumPercentages
        BY <2>0, <3>1, <4>1, <4>2 DEF Budgeted
      <4>4. Budgeted(weight)'
        BY <3>1, <3>2, <4>1, <4>3 DEF Budgeted
      <4> QED
        BY <2>i, <3>1, <3>4, <4>4
    <3> QED
      BY <3>1, <3>3, <3>4 DEF SlotsInv
  <2>5. ASSUME NEW k \in Handlers, SlotEnd(k) PROVE SlotsInv'
    <3>1. /\ pc = "signal" /\ pc' = "signal" /\ todo' = todo /\ cur = k /\ cur' = NoHandler
          /\ slept' = slept + throttlingValues[k] /\ UNCHANGED <<throttlingValues, sumPercentages, updated>>
      BY <2>5 DEF SlotEnd
    <3>2. Left' = Left \ {k} /\ k \in Left /\ Left \in SUBSET Mapped /\ Mapped' = Mapped
      BY <2>0, <2>i, <3>1 DEF Left, TodoIsMapped, SlotIsMapped, Mapped
    <3>3. TodoIsMapped' /\ SlotIsMapped' /\ cur' \notin todo'
      BY <2>0, <2>i, <3>1, <3>2 DEF TodoIsMapped, SlotIsMapped
    <3>4. ASSUME ~updated' PROVE slept' <= 100 /\ \E weight : Budgeted(weight)'
      <4>1. PICK weight : Budgeted(weight)
        BY <2>i, <3>1, <3>4
      <4>2. weight[Left] = weight[Left'] + throttlingValues[k] /\ weight[Left'] \in Nat
        BY <3>2, <4>1 DEF Budgeted, Weighs
      <4>3. throttlingValues[k] \in 0..100
        BY <2>0
      <4>4. slept' + weight[Left'] <= sumPercentages
        <5>1. slept + weight[Left] <= sumPercentages
          BY <3>1, <4>1 DEF Budgeted
        <5>2. slept \in Nat /\ sumPercentages \in Int /\ slept' = slept + throttlingValues[k]
          BY <2>0, <3>1, Zenon
        <5> QED
          BY <4>2, <4>3, <5>1, <5>2
      <4>5. Budgeted(weight)'
        BY <3>1, <3>2, <4>1, <4>4 DEF Budgeted
      <4>6. slept' <= 100
        BY <2>0, <3>1, <4>2, <4>3, <4>4
      <4> QED
        BY <4>5, <4>6
    <3> QED
      BY <3>1, <3>3, <3>4 DEF SlotsInv
  <2>6. CASE StartSlots
    <3>1. /\ pc = "removing" /\ pc' = "signal" /\ todo' = Mapped
          /\ UNCHANGED <<cur, slept, throttlingValues, sumPercentages, updated>>
      BY <2>6 DEF StartSlots
    <3>2. cur = NoHandler /\ slept = 0
      BY <2>i, <3>1 DEF SlotIsMapped
    <3>3. Left' = Mapped /\ Mapped' = Mapped
      BY <2>0, <3>1, <3>2 DEF Left, Mapped
    <3>4. TodoIsMapped' /\ SlotIsMapped' /\ cur' \notin todo'
      BY <2>0, <3>1, <3>2, <3>3 DEF TodoIsMapped, SlotIsMapped
    <3>5. ASSUME ~updated' PROVE slept' <= 100 /\ \E weight : Budgeted(weight)'
      <4>1. PICK weight : Budgeted(weight)
        BY <2>i, <3>1, <3>5
      <4>2. weight[Mapped] \in Nat
        BY <4>1 DEF Budgeted, Weighs
      <4>3. slept' + weight[Left'] <= sumPercentages
        BY <3>1, <3>2, <3>3, <4>1, <4>2 DEF Budgeted
      <4>4. Budgeted(weight)'
        BY <3>1, <3>3, <4>1, <4>3 DEF Budgeted
      <4> QED
        BY <3>1, <3>2, <4>4
    <3> QED
      BY <3>1, <3>4, <3>5 DEF SlotsInv
  <2>7. CASE \/ Stop \/ Join \/ TestRun \/ DrainAddDone \/ SlotsDone \/ IntervalSleep \/ ThreadEnd
             \/ ClientStep \/ \E p \in Pids : ProcessExit(p) \/ PidReused(p)
             \/ \E h \in Handlers : FinalResume(h) \/ Crash(h)
             \/ UNCHANGED vars
    <3>1. UNCHANGED <<cur, throttlingValues, sumPercentages, updated>> /\ (slept' = slept \/ slept' = 0)
      BY <2>7 DEF Stop, Join, TestRun, DrainAddDone, SlotsDone, IntervalSleep, ThreadEnd, ClientStep, ProcessExit, PidReused,
                  GetProcessHandler, Throttle, RemoveThrottling, ReleaseProcessHandler, SendSignal,
                  FinalResume, Crash, vars
    <3>2. /\ pc' = "signal" => pc = "signal" /\ UNCHANGED <<todo, slept>>
          /\ pc' \notin {"signal", "crashed"} => pc \notin {"signal", "crashed"} \/ cur = NoHandler
          /\ pc' \in {"test", "adding", "removing"} => slept' = 0 \/ (pc \in {"test", "adding", "removing"} /\ slept' = slept)
      BY <2>7 DEF Stop, Join, TestRun, DrainAddDone, SlotsDone, IntervalSleep, ThreadEnd, ClientStep, ProcessExit, PidReused,
                  GetProcessHandler, Throttle, RemoveThrottling, ReleaseProcessHandler, SendSignal,
                  FinalResume, Crash, vars
    <3>3. pc' \notin {"signal", "crashed"} => cur' = NoHandler
      BY <2>i, <3>1, <3>2 DEF SlotIsMapped
    <3> QED
      BY <2>i, <3>1, <3>2, <3>3, SlotsUntouched
  <2> QED
    BY <2>1, <2>2, <2>3, <2>4, <2>5, <2>6, <2>7 DEF Next, ThreadStep
<1>3. SlotsInv => SlotsFitInterval
  BY DEF SlotsInv, SlotsFitInterval
<1> QED
  BY <1>1, <1>2, <1>3, TypeCorrect, BudgetInvariant, PTL DEF Spec

-----------------------------------------------------------------------------
(* Tasks.                                                                  *)

Usages  == {"new", "getCoreUsage", "resetCoreUsage"}
Counts  == {"getInstructions", "resetInstructions", "getAndResetInstructions"}
Spreads == {"setPriority", "move"}
Ops     == {"none", "getPriority", "getVirtualCoreId", "getVirtualCoreIds"} \cup Usages \cup Counts \cup Spreads
Steps   == {"idle", "up", "cpu", "check", "attach", "stat", "list", "look", "refuse", "spread", "first", "mask",
            "read", "alive"}

\* The operations that come to each step.
OpsOf == [s \in Steps |->
  CASE s \in {"up", "cpu"} -> Usages
    [] s = "attach" -> {"new"}
    [] s = "stat" -> {"getPriority", "getVirtualCoreId"}
    [] s \in {"list", "look", "spread"} -> Spreads
    [] s = "refuse" -> {"setPriority"}
    [] s = "first" -> {"move"}
    [] s = "mask" -> {"getVirtualCoreIds"}
    [] s \in {"read", "alive"} -> Counts
    [] OTHER -> Ops]

InRange == MAMMUT_PROCESS_PRIORITY_MIN..MAMMUT_PROCESS_PRIORITY_MAX
Sets    == {m.online : m \in Machines} \cup Moves
Args    == {0} \cup Priorities \cup Moves
CallRecords == [op : Ops, h : UnitIds, step : Steps, todo : Seq(Tids), arg : Args, up : Nat, at : Nat,
                failed : BOOLEAN, gen : Nat]
Units   == [made : BOOLEAN, lastUp : Nat, lastCpu : Nat, gen : Nat]

ProcessOK ==
  /\ machine \in Machines
  /\ live \subseteq machine.ids /\ (live # {} => Pid \in live)
  /\ gen \in [Tids -> Nat] /\ gen[Pid] >= 1 /\ \A t \in live : gen[t] >= 1
  /\ aff \in [Tids -> Sets] /\ nice \in [Tids -> Int]
  /\ up \in Nat /\ cpu \in [Tids \ {Pid} -> Nat] /\ spent \in Nat /\ counted \in Nat

MembersOK ==
  /\ unit \in [UnitIds -> Units]
  /\ papi \in [available : {"unset", "yes", "no"}, values : Int, old : Int, gen : Nat]
  /\ base \in Int

CallerOK ==
  /\ MembersOK
  /\ call \in CallRecords /\ call.op \in OpsOf[call.step]
  /\ call.op = "move" => call.arg \in Moves
  /\ call.step \in {"list", "look", "spread"} /\ call.op = "setPriority" => call.arg \in InRange
  /\ ret.h \in UnitIds /\ ret.gen \in Nat

\* A call and a result belong to a task that has been there; there is no result
\* while a call is under way.
GenInv ==
  /\ call.gen <= gen[call.h] /\ ret.gen <= gen[ret.h]
  /\ call.step # "idle" => ret.op = "none"
  /\ \A h \in UnitIds : unit[h].gen <= gen[h]

\* The thread t has what was asked for.
Has(t, op, arg) == IF op = "move" THEN aff[t] = arg ELSE nice[t] = NiceOf(arg)

\* While a call goes through the threads of the process that it was made for,
\* each of them is still to come, has what was asked for, or is a stray.
SpreadInv ==
  call.step \in {"look", "spread"} /\ call.h = Pid /\ call.gen = gen[Pid] =>
    \A t \in live \ strays : \/ \E i \in DOMAIN call.todo : call.todo[i] = t
                             \/ Has(t, call.op, call.arg)

\* What such a call has brought about.
ReachedInv ==
  /\ ret.op \in Spreads /\ ret.ok = "true" /\ ret.h = Pid /\ ret.gen = gen[Pid] =>
       \A t \in live \ strays : Has(t, ret.op, ret.value)
  /\ ret.op = "setPriority" /\ ret.ok = "true" => ret.value \in InRange
  /\ ret.op = "getVirtualCoreIds" /\ ret.ok = "true" =>
       /\ ret.value.ids = {i \in 0..(Cardinality(online) - 1) : i \in ret.value.mask}
       /\ ret.value.mask \subseteq online

CountInv == papi.available = "yes" => papi.old = base

\* The cores that the task of a handler can keep busy.
Width(h) == IF h = Pid THEN Min({Cardinality(machine.ids), Cardinality(online)}) ELSE 1

\* The constructor or resetCoreUsage() is at work: _lastUpTime and _lastCpuTime
\* do not belong together.
Resetting(h) == call.h = h /\ call.op # "getCoreUsage" /\ call.step \in {"up", "cpu"}

\* The time a task has run since _lastCpuTime was read is bounded by the time
\* since the second in which _lastUpTime was read, for the task of the reset;
\* for one that came after a reset that found no task, too.
UnitInv(h) ==
  /\ unit[h].lastUp * Hertz <= up
  /\ unit[h].gen = 0 => unit[h].lastCpu = 0
  /\ unit[h].made /\ IsActive(h) /\ unit[h].gen \in {0, gen[h]} /\ spaces = 0 /\ ~Resetting(h) =>
       /\ CpuTime(h) - unit[h].lastCpu >= 0
       /\ CpuTime(h) - unit[h].lastCpu <= Width(h) * (up - unit[h].lastUp * Hertz)

UsageInv ==
  /\ call.at <= up /\ (call.step = "cpu" => call.up = call.at \div Hertz)
  /\ call.step # "idle" => unit[call.h].made
  /\ \A h \in UnitIds : UnitInv(h)

\* The inductive invariant.
TasksInv ==
  ProcessOK /\ CallerOK /\ GenInv /\ SpreadInv /\ ReachedInv /\ CountInv /\ UsageInv /\ UsageWithinASecond

-----------------------------------------------------------------------------
\* What is known of a machine.
LEMMA MachineFacts ==
  ASSUME machine \in Machines
  PROVE  /\ Pid \in machine.ids /\ machine.ids \subseteq Tids /\ machine.handlers \subseteq UnitIds
         /\ IsFiniteSet(machine.ids) /\ IsFiniteSet(online) /\ online # {}
         /\ Pid \in Tids /\ Tid \in Tids /\ Tid # Pid /\ UnitIds \subseteq Tids
         /\ online \in Sets
<1>1. machine.ids \subseteq Tids /\ IsFiniteSet(Tids)
  BY TasksAssumption
<1>2. IsFiniteSet(machine.ids)
  BY <1>1, FS_Subset
<1> QED
  BY <1>1, <1>2, TasksAssumption DEF UnitIds, online, Sets

\* The operations that come to a step.
LEMMA OpsOfStep ==
  /\ OpsOf["idle"] = Ops /\ OpsOf["check"] = Ops
  /\ OpsOf["up"] = Usages /\ OpsOf["cpu"] = Usages /\ OpsOf["attach"] = {"new"}
  /\ OpsOf["stat"] = {"getPriority", "getVirtualCoreId"}
  /\ OpsOf["list"] = Spreads /\ OpsOf["look"] = Spreads /\ OpsOf["spread"] = Spreads
  /\ OpsOf["refuse"] = {"setPriority"} /\ OpsOf["first"] = {"move"}
  /\ OpsOf["mask"] = {"getVirtualCoreIds"}
  /\ OpsOf["read"] = Counts /\ OpsOf["alive"] = Counts
  BY DEF OpsOf, Steps

\* A number of seconds, and the ticks in it.
LEMMA Seconds ==
  ASSUME NEW n \in Nat
  PROVE  /\ n \div Hertz \in Nat
         /\ (n \div Hertz) * Hertz <= n /\ n < (n \div Hertz) * Hertz + Hertz
<1>1. Hertz \in Nat \ {0}
  BY TasksAssumption
<1> QED
  BY <1>1

\* Multiplication keeps the order.
LEMMA TimesMonotone ==
  ASSUME NEW k \in Nat, NEW a \in Int, NEW b \in Int, a <= b
  PROVE  k * a <= k * b
  OBVIOUS

\* Multiplication by a successor.
LEMMA TimesNext ==
  ASSUME NEW k \in Nat, NEW a \in Int
  PROVE  k * (a + 1) = k * a + k
  OBVIOUS

\* The smaller and the larger of two numbers.
LEMMA MinOfTwo ==
  ASSUME NEW a \in Int, NEW b \in Int
  PROVE  Min({a, b}) \in {a, b} /\ Min({a, b}) <= a /\ Min({a, b}) <= b
<1>1. \E x \in {a, b} : \A y \in {a, b} : x =< y
  OBVIOUS
<1> QED
  BY <1>1 DEF Min

\* The larger of two numbers.
LEMMA MaxOfTwo ==
  ASSUME NEW a \in Int, NEW b \in Int
  PROVE  Max({a, b}) \in {a, b} /\ Max({a, b}) >= a /\ Max({a, b}) >= b
<1>1. \E x \in {a, b} : \A y \in {a, b} : x >= y
  OBVIOUS
<1> QED
  BY <1>1 DEF Max

\* getPriority() undoes what setPriority() does, but for the lowest priority.
LEMMA PriorityIsKept ==
  ASSUME NEW p \in InRange
  PROVE  NiceOf(p) \in Int /\ PriorityOf(NiceOf(p)) = Max({p, 1})
<1>1. p \in 0..40
  BY DEF InRange, MAMMUT_PROCESS_PRIORITY_MIN, MAMMUT_PROCESS_PRIORITY_MAX
<1>2. NiceOf(p) = Min({20 - p, 19})
  BY <1>1 DEF NiceOf, PRIO_MIN
<1>3. /\ Min({20 - p, 19}) \in {20 - p, 19}
      /\ Min({20 - p, 19}) <= 20 - p /\ Min({20 - p, 19}) <= 19
  BY <1>1, MinOfTwo
<1>4. Max({p, 1}) \in {p, 1} /\ Max({p, 1}) >= p /\ Max({p, 1}) >= 1
  BY <1>1, MaxOfTwo
<1> QED
  BY <1>1, <1>2, <1>3, <1>4 DEF PriorityOf, PRIO_MIN

\* The cores that a task can keep busy.
LEMMA WidthFacts ==
  ASSUME machine \in Machines, NEW h \in UnitIds
  PROVE  /\ Width(h) \in Nat /\ Width(h) >= 1
         /\ h # Pid => Width(h) = 1
         /\ \A k \in Nat : h = Pid /\ k <= Cardinality(machine.ids) /\ k <= Cardinality(online) => k <= Width(h)
<1> DEFINE a == Cardinality(machine.ids)
           b == Cardinality(online)
<1>1. /\ IsFiniteSet(machine.ids) /\ IsFiniteSet(online) /\ machine.ids # {} /\ online # {}
  BY MachineFacts
<1>2. a \in Nat /\ a # 0 /\ b \in Nat /\ b # 0
  BY <1>1, FS_CardinalityType, FS_EmptySet
<1>3. h = Pid => Width(h) = Min({a, b})
  BY DEF Width
<1>4. h # Pid => Width(h) = 1
  BY DEF Width
<1> HIDE DEF a, b
<1>5. Min({a, b}) \in {a, b}
  <2>1. a \in Int /\ b \in Int
    BY <1>2
  <2> QED
    BY <2>1, MinOfTwo, Zenon
<1>6. \A k \in Nat : k <= a /\ k <= b => k <= Min({a, b})
  BY <1>2, <1>5
<1>7. Min({a, b}) \in Nat /\ Min({a, b}) >= 1
  BY <1>2, <1>5
<1>8. CASE h = Pid
  BY <1>3, <1>6, <1>7, <1>8 DEF a, b
<1>9. CASE h # Pid
  BY <1>4, <1>9
<1> QED
  BY <1>8, <1>9

-----------------------------------------------------------------------------
\* What Begin does.
LEMMA BeginFacts ==
  ASSUME ProcessOK, CallerOK, NEW family, NEW op \in Ops, NEW h \in UnitIds, NEW arg \in Args,
         NEW step \in Steps, Begin(family, op, h, arg, step)
  PROVE  /\ call.step = "idle" /\ call' \in CallRecords
         /\ call'.op = op /\ call'.h = h /\ call'.arg = arg /\ call'.step = step /\ call'.gen = gen[h]
         /\ call'.at = 0
         /\ ret' = Nothing /\ strays' = {}
<1>1. gen[h] \in Nat
  BY MachineFacts DEF ProcessOK
<1>2. Idle \in CallRecords
  BY DEF Idle, CallRecords, Ops, UnitIds, Steps, Args
<1> QED
  BY <1>1, <1>2 DEF Begin, CallRecords, Idle

\* What Return does.
LEMMA ReturnFacts ==
  ASSUME ProcessOK, CallerOK, NEW ok, NEW value, Return(ok, value)
  PROVE  /\ call' = Idle /\ call' \in CallRecords
         /\ ret'.op = call.op /\ ret'.h = call.h /\ ret'.ok = ok /\ ret'.value = value
         /\ ret'.h \in UnitIds /\ ret'.gen \in Nat /\ ret'.gen <= gen[call.h]
         /\ ret'.gen = (IF call.gen = gen[call.h] THEN call.gen ELSE 0)
<1>1. Idle \in CallRecords
  BY DEF Idle, CallRecords, Ops, UnitIds, Steps, Args
<1>2. call.gen \in Nat /\ call.h \in UnitIds
  BY DEF CallerOK, CallRecords
<1>3. gen[call.h] \in Nat
  BY <1>2, MachineFacts DEF ProcessOK
<1> QED
  BY <1>1, <1>2, <1>3 DEF Return

\* A call begins, or a handler is made and its constructor begins.
Begun(op, h, arg, step) ==
  /\ call.step = "idle" /\ call' \in CallRecords
  /\ call'.op = op /\ call'.h = h /\ call'.arg = arg /\ call'.step = step /\ call'.gen = gen[h]
  /\ call'.at = 0
  /\ ret' = Nothing /\ strays' = {}
  /\ op \in OpsOf[step] /\ step \notin {"idle", "look", "spread", "cpu"}
  /\ op = "move" => arg \in Moves
  /\ step = "list" => arg \in InRange
  /\ \/ unit' = unit
     \/ op = "new" /\ step = "up" /\ unit' = [unit EXCEPT ![h] = [NotMade EXCEPT !.made = TRUE]]
  /\ unit'[h].made
  /\ UNCHANGED <<machine, process, clock, papi, base>>

Begins == \E op \in Ops, h \in UnitIds, arg \in Args, step \in Steps : Begun(op, h, arg, step)

\* The actions with which a call begins.
LEMMA BeginsWith ==
  ASSUME ProcessOK, CallerOK, NEW h \in UnitIds,
         \/ GetHandler(h) \/ GetCoreUsage(h) \/ ResetCoreUsage(h) \/ GetPriority(h)
         \/ GetVirtualCoreId(h) \/ GetVirtualCoreIds(h)
         \/ \E priority \in Priorities : SetPriority(h, priority)
         \/ \E cores \in Moves : Move(h, cores)
         \/ GetInstructions \/ ResetInstructions \/ GetAndResetInstructions
  PROVE  Begins
<1>0. ASSUME NEW op \in Ops, NEW g \in UnitIds, NEW arg \in Args, NEW step \in Steps, NEW family,
             Begin(family, op, g, arg, step), UNCHANGED <<machine, process, clock, papi, base>>,
             op \in OpsOf[step], step \notin {"idle", "look", "spread", "cpu"}, op = "move" => arg \in Moves,
             step = "list" => arg \in InRange,
             \/ unit' = unit
             \/ op = "new" /\ step = "up" /\ unit' = [unit EXCEPT ![g] = [NotMade EXCEPT !.made = TRUE]],
             unit'[g].made
      PROVE  Begins
  <2>1. Begun(op, g, arg, step)
    BY <1>0, BeginFacts DEF Begun
  <2> QED
    BY <2>1 DEF Begins
<1>1. ASSUME NEW op \in Ops, NEW g \in UnitIds, NEW arg \in Args, NEW step \in Steps, NEW family,
             Call(family, op, g, arg, step),
             op \in OpsOf[step], step \notin {"idle", "look", "spread", "cpu", "list"}, op = "move" => arg \in Moves
      PROVE  Begins
  <2>1. /\ Begin(family, op, g, arg, step) /\ UNCHANGED <<machine, process, clock, unit, papi, base>>
        /\ unit'[g].made
    BY <1>1 DEF Call
  <2> QED
    BY <2>1, <1>0, <1>1
<1>2. 0 \in Args /\ Priorities \subseteq Args /\ Moves \subseteq Args /\ Pid \in UnitIds
  BY DEF Args, UnitIds
<1>3. {"up", "stat", "first", "mask", "read", "list", "refuse"} \subseteq Steps
  BY DEF Steps
<1>4. /\ Usages \subseteq Ops /\ Counts \subseteq Ops /\ Spreads \subseteq Ops
      /\ {"getPriority", "getVirtualCoreId", "getVirtualCoreIds"} \subseteq Ops
  BY DEF Ops
<1>5. CASE GetCoreUsage(h) \/ ResetCoreUsage(h)
  <2>1. PICK op \in {"getCoreUsage", "resetCoreUsage"} : Call("usage", op, h, 0, "up")
    BY <1>5 DEF GetCoreUsage, ResetCoreUsage
  <2>2. op \in Usages /\ op # "move"
    BY DEF Usages
  <2> QED
    BY <1>1, <1>2, <1>3, <1>4, <2>1, <2>2, OpsOfStep
<1>6. CASE GetPriority(h) \/ GetVirtualCoreId(h)
  <2>1. PICK op \in {"getPriority", "getVirtualCoreId"}, family \in {"priority", "place"} :
          Call(family, op, h, 0, "stat")
    BY <1>6 DEF GetPriority, GetVirtualCoreId
  <2> QED
    BY <1>1, <1>2, <1>3, <1>4, <2>1, OpsOfStep
<1>7. ASSUME NEW cores \in Moves, Move(h, cores) PROVE Begins
  BY <1>1, <1>2, <1>3, <1>4, <1>7, OpsOfStep DEF Move, Spreads
<1>8. CASE GetInstructions \/ ResetInstructions \/ GetAndResetInstructions
  <2>1. PICK op \in Counts : Call("count", op, Pid, 0, "read")
    BY <1>8 DEF GetInstructions, ResetInstructions, GetAndResetInstructions, Counts
  <2>2. op # "move"
    BY DEF Counts
  <2> QED
    BY <1>1, <1>2, <1>3, <1>4, <2>1, <2>2, OpsOfStep
<1>9. CASE GetVirtualCoreIds(h)
  <2>1. /\ Begin("place", "getVirtualCoreIds", h, 0, "mask")
        /\ UNCHANGED <<machine, process, clock, unit, papi, base>> /\ unit'[h].made
    BY <1>9 DEF GetVirtualCoreIds
  <2>2. "getVirtualCoreIds" \in Ops /\ "mask" \in Steps
    BY <1>3, <1>4
  <2> QED
    BY <2>1, <2>2, <1>0, <1>2, OpsOfStep
<1>10. CASE GetHandler(h)
  <2>1. /\ Begin(caller, "new", h, 0, "up") /\ UNCHANGED <<machine, process, clock, papi, base>>
        /\ unit' = [unit EXCEPT ![h] = [NotMade EXCEPT !.made = TRUE]]
    BY <1>10 DEF GetHandler
  <2>m. unit'[h].made
    BY <2>1 DEF CallerOK, MembersOK, NotMade
  <2>2. "new" \in Usages /\ "new" \in Ops /\ "up" \in Steps
    BY DEF Usages, Ops, Steps
  <2> QED
    BY <2>1, <2>m, <2>2, <1>0, <1>2, OpsOfStep
<1>11. ASSUME NEW priority \in Priorities, SetPriority(h, priority) PROVE Begins
  <2>1. UNCHANGED <<machine, process, clock, unit, papi, base>> /\ unit'[h].made
    BY <1>11 DEF SetPriority
  <2>2. "setPriority" \in Spreads /\ "setPriority" \in Ops /\ priority \in Args
    BY <1>2 DEF Spreads, Ops
  <2>3. CASE priority \in InRange
    <3>1. Begin("priority", "setPriority", h, priority, "list")
      BY <1>11, <2>3 DEF SetPriority, InRange
    <3>2. "list" \in Steps
      BY <1>3
    <3> QED
      BY <3>1, <3>2, <2>1, <2>2, <2>3, <1>0, OpsOfStep
  <2>4. CASE priority \notin InRange
    <3>1. Begin("priority", "setPriority", h, priority, "refuse")
      BY <1>11, <2>4 DEF SetPriority, InRange
    <3>2. "refuse" \in Steps
      BY <1>3
    <3> QED
      BY <3>1, <3>2, <2>1, <2>2, <1>0, OpsOfStep
  <2> QED
    BY <2>3, <2>4
<1> QED
  BY <1>5, <1>6, <1>7, <1>8, <1>9, <1>10, <1>11

\* What the process does, what the caller does, and a step of a call under way.
Outside ==
  \/ \E parent, t \in Tids : Create(parent, t)
  \/ \E t \in Tids : ThreadExit(t)
  \/ ProcessEnds \/ Reuse
  \/ \E running \in SUBSET live : Tick(running)

Skips    == \E i \in DOMAIN call.todo : SkipEntry(i)
Looks    == ListFails \/ StatFails \/ CheckActive \/ ReadCpuTime \/ ReadStat \/ Refuse \/ SpreadDone \/ ReadMask
UnderWay == ReadUpTime \/ KeepCpuTime \/ List \/ Skips \/ ListDone \/ Spread \/ MoveFirst \/ Attach \/ PapiRead \/ PapiReturn

\* The steps, by what they may touch.
LEMMA NextCases ==
  ASSUME ProcessOK, CallerOK, [TasksNext]_tasksVars
  PROVE  \/ Outside \/ Begins \/ (\E h \in UnitIds : ReleaseHandler(h))
         \/ Looks \/ UnderWay \/ UNCHANGED tasksVars
<1>1. machine.handlers \subseteq UnitIds /\ Pid \in UnitIds
  BY MachineFacts DEF ProcessOK, UnitIds
<1>2. CASE \E h \in machine.handlers :
            \/ GetHandler(h) \/ GetCoreUsage(h) \/ ResetCoreUsage(h) \/ GetPriority(h)
            \/ GetVirtualCoreId(h) \/ GetVirtualCoreIds(h)
            \/ \E priority \in Priorities : SetPriority(h, priority)
            \/ \E cores \in Moves : Move(h, cores)
  BY <1>1, <1>2, BeginsWith
<1>3. CASE GetInstructions \/ ResetInstructions \/ GetAndResetInstructions
  BY <1>1, <1>3, BeginsWith
<1> QED
  BY <1>1, <1>2, <1>3 DEF TasksNext, Outside, Looks, UnderWay, Skips

\* A step of the process keeps the caller's state.
LEMMA OutsideFrame ==
  ASSUME Outside
  PROVE  UNCHANGED <<machine, unit, papi, call, ret, calls, base>>
  BY DEF Outside, Create, ThreadExit, ProcessEnds, Reuse, Tick, clock, process

\* The threads that run in a tick are as many as the machine and the process have.
LEMMA RunningFacts ==
  ASSUME ProcessOK, NEW running \in SUBSET live, Cardinality(running) <= Cardinality(online)
  PROVE  /\ Cardinality(running) \in Nat
         /\ Cardinality(running) <= Width(Pid)
<1>1. IsFiniteSet(machine.ids) /\ running \subseteq machine.ids
  BY MachineFacts DEF ProcessOK
<1>2. /\ IsFiniteSet(running) /\ Cardinality(running) <= Cardinality(machine.ids)
  BY <1>1, FS_Subset
<1>3. Cardinality(running) \in Nat
  BY <1>2, FS_CardinalityType
<1> HIDE DEF online
<1> QED
  BY <1>2, <1>3, WidthFacts DEF ProcessOK, UnitIds

\* Every step keeps the types of the process.
LEMMA ProcessStep ==
  ASSUME ProcessOK, CallerOK, [TasksNext]_tasksVars
  PROVE  ProcessOK'
<1>0. /\ Pid \in Tids /\ machine.ids \subseteq Tids /\ Pid \in machine.ids /\ UnitIds \subseteq Tids
      /\ online \in Sets
  BY MachineFacts DEF ProcessOK
<1>1. ASSUME NEW parent \in Tids, NEW t \in Tids, Create(parent, t) PROVE ProcessOK'
  <2>1. t # Pid /\ t \in machine.ids /\ parent \in live
    BY <1>1 DEF Create, ProcessOK
  <2>2. /\ gen' \in [Tids -> Nat] /\ gen'[Pid] >= 1 /\ \A u \in live' : gen'[u] >= 1
    BY <1>1, <2>1, <1>0 DEF Create, ProcessOK
  <2>3. aff' \in [Tids -> Sets] /\ nice' \in [Tids -> Int] /\ cpu' \in [Tids \ {Pid} -> Nat]
    BY <1>1, <2>1 DEF Create, ProcessOK
  <2> QED
    BY <1>1, <2>1, <2>2, <2>3 DEF Create, ProcessOK
<1>2. ASSUME NEW t \in Tids, ThreadExit(t) PROVE ProcessOK'
  BY <1>2 DEF ThreadExit, ProcessOK, clock
<1>3. CASE ProcessEnds
  BY <1>3 DEF ProcessEnds, ProcessOK, clock
<1>4. CASE Reuse
  <2>1. /\ gen' \in [Tids -> Nat] /\ gen'[Pid] >= 1 /\ \A u \in live' : gen'[u] >= 1
    BY <1>4, <1>0 DEF Reuse, ProcessOK
  <2>2. aff' \in [Tids -> Sets] /\ nice' \in [Tids -> Int]
    BY <1>4, <1>0 DEF Reuse, ProcessOK
  <2> QED
    BY <1>4, <1>0, <2>1, <2>2 DEF Reuse, ProcessOK
<1>5. ASSUME NEW running \in SUBSET live, Tick(running) PROVE ProcessOK'
  <2>1. Cardinality(running) \in Nat
    BY <1>5, RunningFacts DEF Tick
  <2>2. up' \in Nat /\ spent' \in Nat /\ counted' \in Nat /\ cpu' \in [Tids \ {Pid} -> Nat]
    BY <1>5, <2>1 DEF Tick, ProcessOK
  <2> QED
    BY <1>5, <2>2 DEF Tick, ProcessOK, process
<1>6. CASE Spread
  <2> DEFINE t == Head(call.todo)
  <2>1. /\ call.op \in Spreads /\ call.todo \in Seq(Tids) /\ call.todo # <<>>
        /\ call.op = "move" => call.arg \in Moves
        /\ call.op = "setPriority" => call.arg \in InRange
    BY <1>6, OpsOfStep DEF Spread, CallerOK, CallRecords
  <2>2. t \in Tids
    BY <2>1
  <2> HIDE DEF t
  <2>3. UNCHANGED <<machine, live, gen, up, cpu, spent, counted>>
    BY <1>6 DEF Spread, clock
  <2>4. CASE call.op = "setPriority"
    <3>1. NiceOf(call.arg) \in Int
      BY <2>1, <2>4, PriorityIsKept
    <3>2. aff' = aff /\ (nice' = nice \/ nice' = [nice EXCEPT ![t] = NiceOf(call.arg)])
      BY <1>6, <2>4 DEF Spread, t
    <3> QED
      BY <2>2, <2>3, <3>1, <3>2 DEF ProcessOK
  <2>5. CASE call.op # "setPriority"
    <3>1. call.arg \in Sets
      BY <2>1, <2>5 DEF Spreads, Sets
    <3>2. nice' = nice /\ (aff' = aff \/ aff' = [aff EXCEPT ![t] = call.arg])
      BY <1>6, <2>5 DEF Spread, t
    <3> QED
      BY <2>2, <2>3, <3>1, <3>2 DEF ProcessOK
  <2> QED
    BY <2>4, <2>5
<1>7. CASE MoveFirst
  <2>1. call.arg \in Sets /\ call.h \in Tids
    BY <1>7, <1>0, OpsOfStep DEF MoveFirst, CallerOK, CallRecords, Sets
  <2>2. /\ UNCHANGED <<machine, live, gen, nice, up, cpu, spent, counted>>
        /\ aff' = aff \/ aff' = [aff EXCEPT ![call.h] = call.arg]
    BY <1>7 DEF MoveFirst, clock
  <2> QED
    BY <2>1, <2>2 DEF ProcessOK
<1>8. CASE \/ Begins \/ (\E h \in UnitIds : ReleaseHandler(h)) \/ Looks \/ UNCHANGED tasksVars
           \/ ReadUpTime \/ KeepCpuTime \/ List \/ Skips \/ ListDone \/ Attach \/ PapiRead \/ PapiReturn
  <2>1. UNCHANGED <<machine, process, clock>>
    BY <1>8 DEF Begins, Begun, ReleaseHandler, Looks, StatFails, CheckActive, ReadCpuTime, ReadStat, Refuse,
       SpreadDone, ReadMask, ReadUpTime, KeepCpuTime, List, Skips, SkipEntry, ListFails, ListDone, Attach, PapiRead, PapiReturn, tasksVars
  <2> QED
    BY <2>1 DEF ProcessOK, process, clock
<1> QED
  BY <1>1, <1>2, <1>3, <1>4, <1>5, <1>6, <1>7, <1>8, NextCases DEF Outside, UnderWay

\* A call that has returned.
LEMMA ReturnedOK ==
  ASSUME ProcessOK, CallerOK, NEW ok, NEW value, Return(ok, value), MembersOK'
  PROVE  CallerOK'
<1>1. call' = Idle /\ call' \in CallRecords /\ ret'.h \in UnitIds /\ ret'.gen \in Nat
  BY ReturnFacts
<1>2. call'.op = "none" /\ call'.step = "idle" /\ "none" \in Ops
  BY <1>1 DEF Idle, Ops
<1> QED
  BY <1>1, <1>2, OpsOfStep DEF CallerOK

\* A call that has come to another step.
LEMMA AdvancedOK ==
  ASSUME CallerOK, MembersOK', call' \in CallRecords, UNCHANGED ret,
         call'.op = call.op, call'.arg = call.arg, call.op \in OpsOf[call'.step],
         call'.step \in {"list", "look", "spread"} => call.step \in {"list", "look", "spread"} \/ call.op = "move"
  PROVE  CallerOK'
  BY DEF CallerOK

\* The fields of a call that has come to another step.
LEMMA AdvancedCall ==
  ASSUME CallerOK, NEW step \in Steps, call' = [call EXCEPT !.step = step]
  PROVE  /\ call' \in CallRecords /\ call'.op = call.op /\ call'.arg = call.arg /\ call'.step = step
         /\ call'.h = call.h /\ call'.gen = call.gen /\ call'.at = call.at /\ call'.up = call.up
         /\ call'.todo = call.todo
  BY DEF CallerOK, CallRecords

\* A call that makes its list: an entry that is skipped is none of a thread that
\* is there.
LEMMA ListMoves ==
  ASSUME ProcessOK, call \in CallRecords, List \/ Skips \/ ListDone
  PROVE  /\ call' \in CallRecords /\ ret' = ret
         /\ call'.op = call.op /\ call'.arg = call.arg /\ call'.h = call.h /\ call'.gen = call.gen /\ call'.at = call.at
         /\ call.step \in {"list", "look"} /\ call'.step \in {"look", "spread"}
         /\ List => call'.todo \in Listed(call.h)
         /\ Skips \/ ListDone =>
              /\ call.step = "look"
              /\ \A t \in live : (\E i \in DOMAIN call.todo : call.todo[i] = t) =>
                                 \E i \in DOMAIN call'.todo : call'.todo[i] = t
<1>0. {"look", "spread"} \subseteq Steps
  BY DEF Steps
<1>1. CASE List
  <2>1. PICK left \in Listed(call.h) :
          call' = [call EXCEPT !.todo = left, !.step = IF call.h = Pid THEN "look" ELSE "spread",
                               !.failed = left = <<>>]
    BY <1>1 DEF List
  <2>2. left \in Seq(Tids)
    <3>1. live \subseteq Tids /\ IsFiniteSet(live) /\ call.h \in Tids
      BY MachineFacts, FS_Subset DEF ProcessOK, CallRecords
    <3>2. Cardinality(live) \in Nat
      BY <3>1, FS_CardinalityType
    <3>3. CASE call.h = Pid
      <4> DEFINE n == Cardinality(live)
      <4>1. n \in Nat /\ left \in [1..n -> live]
        BY <3>2, <3>3, <2>1 DEF Listed
      <4> HIDE DEF n
      <4>2. left \in [1..n -> Tids]
        BY <4>1, <3>1
      <4> QED
        BY <4>1, <4>2, SeqDef
    <3>4. CASE call.h # Pid
      <4>1. left = <<call.h>>
        BY <3>4, <2>1 DEF Listed
      <4> QED
        BY <3>1, <4>1
    <3> QED
      BY <3>3, <3>4
  <2>3. call.step = "list" /\ ret' = ret /\ ~Skips /\ ~ListDone
    BY <1>1 DEF List, Skips, SkipEntry, ListDone
  <2> QED
    BY <1>0, <2>1, <2>2, <2>3 DEF CallRecords
<1>2. ASSUME NEW i \in DOMAIN call.todo, SkipEntry(i)
      PROVE  /\ call' \in CallRecords
             /\ call'.op = call.op /\ call'.arg = call.arg /\ call'.h = call.h /\ call'.gen = call.gen /\ call'.at = call.at
             /\ call'.step = "look"
             /\ \A t \in live : (\E j \in DOMAIN call.todo : call.todo[j] = t) =>
                                \E j \in DOMAIN call'.todo : call'.todo[j] = t
  <2> DEFINE s == call.todo
             rest == SubSeq(s, 1, i - 1) \o SubSeq(s, i + 1, Len(s))
  <2>1. s \in Seq(Tids) /\ i \in 1..Len(s) /\ Len(s) \in Nat /\ DOMAIN s = 1..Len(s)
    <3>1. s \in Seq(Tids)
      BY DEF CallRecords
    <3> QED
      BY <3>1
  <2>2. /\ rest \in Seq(Tids) /\ Len(rest) = Len(s) - 1
        /\ \A j \in 1..Len(s) : j < i => j \in DOMAIN rest /\ rest[j] = s[j]
        /\ \A j \in 1..Len(s) : j > i => j - 1 \in DOMAIN rest /\ rest[j - 1] = s[j]
    <3> DEFINE a == SubSeq(s, 1, i - 1)
               b == SubSeq(s, i + 1, Len(s))
    <3> HIDE DEF s
    <3>1. a \in Seq(Tids) /\ Len(a) = i - 1 /\ \A j \in 1..(i - 1) : a[j] = s[j]
      BY <2>1
    <3>2. b \in Seq(Tids) /\ Len(b) = Len(s) - i /\ \A j \in 1..(Len(s) - i) : b[j] = s[i + j]
      BY <2>1
    <3>0. rest = a \o b
      OBVIOUS
    <3> HIDE DEF a, b, rest
    <3>7. /\ rest \in Seq(Tids) /\ Len(rest) = Len(a) + Len(b)
          /\ \A j \in 1..Len(a) + Len(b) : rest[j] = IF j <= Len(a) THEN a[j] ELSE b[j - Len(a)]
      BY <3>0, <3>1, <3>2, ConcatProperties
    <3>3. rest \in Seq(Tids) /\ Len(rest) = Len(s) - 1 /\ DOMAIN rest = 1..(Len(s) - 1)
      BY <2>1, <3>1, <3>2, <3>7
    <3>4. /\ \A j \in 1..(i - 1) : rest[j] = a[j]
          /\ \A j \in 1..(Len(s) - i) : rest[i - 1 + j] = b[j]
      <4>1. ASSUME NEW j \in 1..(i - 1) PROVE rest[j] = a[j]
        BY <2>1, <3>1, <3>2, <3>7
      <4>2. ASSUME NEW j \in 1..(Len(s) - i) PROVE rest[i - 1 + j] = b[j]
        <5>1. i - 1 + j \in 1..(i - 1) + (Len(s) - i) /\ ~(i - 1 + j <= i - 1) /\ (i - 1 + j) - (i - 1) = j
          BY <2>1
        <5> QED
          BY <3>1, <3>2, <3>7, <5>1
      <4> QED
        BY <4>1, <4>2
    <3>5. ASSUME NEW j \in 1..Len(s), j < i PROVE j \in DOMAIN rest /\ rest[j] = s[j]
      BY <2>1, <3>1, <3>3, <3>4, <3>5
    <3>6. ASSUME NEW j \in 1..Len(s), j > i PROVE j - 1 \in DOMAIN rest /\ rest[j - 1] = s[j]
      <4>1. j - i \in 1..(Len(s) - i) /\ i - 1 + (j - i) = j - 1 /\ i + (j - i) = j
        BY <2>1, <3>6
      <4>2. rest[i - 1 + (j - i)] = b[j - i] /\ b[j - i] = s[i + (j - i)]
        BY <3>2, <3>4, <4>1
      <4>3. j - 1 \in 1..(Len(s) - 1)
        BY <2>1, <3>6
      <4> QED
        BY <3>3, <4>1, <4>2, <4>3
    <3> QED
      BY <3>3, <3>5, <3>6
  <2>3. call' = [call EXCEPT !.todo = rest] /\ call.step = "look" /\ s[i] \notin live
    BY <1>2 DEF SkipEntry
  <2> HIDE DEF rest
  <2>4. call' \in CallRecords /\ call'.todo = rest /\ call'.step = "look"
        /\ call'.op = call.op /\ call'.arg = call.arg /\ call'.h = call.h /\ call'.gen = call.gen /\ call'.at = call.at
    BY <2>2, <2>3 DEF CallRecords
  <2>5. ASSUME NEW t \in live, NEW j \in DOMAIN s, s[j] = t PROVE \E k \in DOMAIN rest : rest[k] = t
    <3>1. j \in 1..Len(s) /\ (j < i \/ j > i)
      BY <2>1, <2>3, <2>5
    <3> QED
      BY <2>2, <2>5, <3>1
  <2> QED
    BY <2>4, <2>5
<1>3. CASE Skips
  <2>1. ret' = ret /\ call.step = "look" /\ ~List
    BY <1>3 DEF Skips, SkipEntry, List
  <2> QED
    BY <1>2, <1>3, <2>1 DEF Skips
<1>4. CASE ListDone
  <2>1. /\ call' = [call EXCEPT !.step = "spread", !.failed = call.op = "setPriority" /\ call.todo = <<>>]
        /\ ret' = ret /\ call.step = "look" /\ ~List
    BY <1>4 DEF ListDone, List
  <2> QED
    BY <1>0, <1>4, <2>1 DEF CallRecords
<1> QED
  BY <1>1, <1>3, <1>4

\* Every step keeps the types of the members of the handlers.
LEMMA MembersStep ==
  ASSUME ProcessOK, CallerOK, [TasksNext]_tasksVars
  PROVE  MembersOK'
<1>0. /\ MembersOK /\ call \in CallRecords /\ call.h \in UnitIds
      /\ \A h \in UnitIds : gen[h] \in Nat
  BY MachineFacts DEF CallerOK, CallRecords, ProcessOK
<1>1. CASE Begins
  <2>1. PICK op \in Ops, h \in UnitIds, arg \in Args, step \in Steps : Begun(op, h, arg, step)
    BY <1>1 DEF Begins
  <2>2. [NotMade EXCEPT !.made = TRUE] \in Units
    BY DEF NotMade, Units
  <2>3. /\ UNCHANGED <<papi, base>>
        /\ unit' = unit \/ unit' = [unit EXCEPT ![h] = [NotMade EXCEPT !.made = TRUE]]
    BY <2>1 DEF Begun
  <2> HIDE DEF NotMade
  <2> QED
    BY <2>2, <2>3, <1>0 DEF MembersOK
<1>2. ASSUME NEW h \in UnitIds, ReleaseHandler(h) PROVE MembersOK'
  <2>1. NotMade \in Units
    BY DEF NotMade, Units
  <2>2. NoCounters \in [available : {"unset", "yes", "no"}, values : Int, old : Int, gen : Nat]
    BY DEF NoCounters
  <2> QED
    BY <1>2, <2>1, <2>2, <1>0 DEF ReleaseHandler, MembersOK
<1>3. CASE ReadUpTime
  <2>1. GetUpTime \in Nat
    BY Seconds DEF GetUpTime, ProcessOK
  <2>2. unit' \in [UnitIds -> Units]
    BY <1>3, <2>1, <1>0 DEF ReadUpTime, MembersOK, Units
  <2> QED
    BY <1>3, <2>2, <1>0 DEF ReadUpTime, MembersOK
<1>4. CASE KeepCpuTime
  <2>1. \A now \in GetCpuTime(call.h) : now \in Nat
    <3>1. CpuTime(call.h) \in Nat
      BY <1>0, MachineFacts DEF CpuTime, ProcessOK, UnitIds
    <3> QED
      BY <3>1 DEF GetCpuTime
  <2>2. PICK now \in GetCpuTime(call.h) :
          unit' = [unit EXCEPT ![call.h].lastCpu = now, ![call.h].gen = gen[call.h]]
    BY <1>4 DEF KeepCpuTime
  <2>3. unit' \in [UnitIds -> Units]
    BY <2>1, <2>2, <1>0 DEF MembersOK, Units
  <2> QED
    BY <1>4, <2>3, <1>0 DEF KeepCpuTime, MembersOK
<1>5. CASE Attach \/ PapiRead \/ PapiReturn
  <2>1. /\ papi' \in [available : {"unset", "yes", "no"}, values : Int, old : Int, gen : Nat]
        /\ base' \in Int
    <3>1. counted \in Int /\ gen[Pid] \in Nat
      BY <1>0 DEF ProcessOK, UnitIds
    <3>2. CASE Attach
      BY <3>1, <3>2, <1>0 DEF Attach, MembersOK
    <3>3. CASE PapiRead
      BY <3>1, <3>3, <1>0 DEF PapiRead, MembersOK
    <3>4. CASE PapiReturn
      BY <3>1, <3>4, <1>0 DEF PapiReturn, PapiResult, MembersOK
    <3> QED
      BY <1>5, <3>2, <3>3, <3>4
  <2>2. unit' = unit
    BY <1>5 DEF Attach, PapiRead, PapiReturn
  <2> QED
    BY <2>1, <2>2, <1>0 DEF MembersOK
<1>6. CASE Outside \/ Looks \/ List \/ Skips \/ ListDone \/ Spread \/ MoveFirst \/ UNCHANGED tasksVars
  <2>1. UNCHANGED <<unit, papi, base>>
    BY <1>6, OutsideFrame DEF Looks, StatFails, CheckActive, ReadCpuTime, ReadStat, Refuse,
       SpreadDone, ReadMask, List, Skips, SkipEntry, ListFails, ListDone, Spread, MoveFirst, tasksVars
  <2> QED
    BY <2>1, <1>0 DEF MembersOK
<1> QED
  BY <1>1, <1>2, <1>3, <1>4, <1>5, <1>6, NextCases DEF UnderWay

\* Every step keeps the types of the calls.
LEMMA CallerStep ==
  ASSUME ProcessOK, CallerOK, [TasksNext]_tasksVars
  PROVE  CallerOK'
<1>0. call \in CallRecords /\ call.op \in OpsOf[call.step] /\ call.step \in Steps /\ MembersOK'
  BY MembersStep DEF CallerOK, CallRecords
<1>1. CASE Begins
  <2>1. PICK op \in Ops, h \in UnitIds, arg \in Args, step \in Steps : Begun(op, h, arg, step)
    BY <1>1 DEF Begins
  <2>2. ret'.h \in UnitIds /\ ret'.gen \in Nat
    BY <2>1 DEF Begun, Nothing, UnitIds
  <2> QED
    BY <2>1, <2>2, <1>0 DEF Begun, CallerOK
<1>2. ASSUME NEW h \in UnitIds, ReleaseHandler(h) PROVE CallerOK'
  <2>1. ret'.h \in UnitIds /\ ret'.gen \in Nat /\ call' = call
    BY <1>2 DEF ReleaseHandler, Nothing, UnitIds
  <2> QED
    BY <2>1, <1>0 DEF CallerOK
<1>3. CASE Outside \/ UNCHANGED tasksVars
  <2>1. UNCHANGED <<call, ret>>
    BY <1>3, OutsideFrame DEF tasksVars
  <2> QED
    BY <2>1, <1>0 DEF CallerOK
<1>4. ASSUME NEW ok, NEW value, Return(ok, value) PROVE CallerOK'
  BY <1>0, <1>4, ReturnedOK
<1>5. ASSUME NEW step \in Steps, call' = [call EXCEPT !.step = step], ret' = ret, call.op \in OpsOf[step],
             step \in {"list", "look", "spread"} => call.op = "move"
      PROVE  CallerOK'
  BY <1>0, <1>5, AdvancedCall, AdvancedOK
<1>6. CASE StatFails
  <2>1. call' = [call EXCEPT !.step = "check"] /\ ret' = ret
    BY <1>6 DEF StatFails
  <2> QED
    BY <2>1, <1>0, <1>5, OpsOfStep DEF Steps, CallRecords
<1>7. CASE CheckActive \/ KeepCpuTime
  <2>1. CASE call.op = "new"
    <3>1. call' = [call EXCEPT !.step = "attach"] /\ ret' = ret
      BY <1>7, <2>1 DEF CheckActive, KeepCpuTime
    <3> QED
      BY <2>1, <3>1, <1>5, OpsOfStep DEF Steps
  <2>2. CASE call.op # "new"
    BY <1>4, <1>7, <2>2 DEF CheckActive, KeepCpuTime
  <2> QED
    BY <2>1, <2>2
<1>8. CASE ListFails \/ ReadCpuTime \/ ReadStat \/ Refuse \/ SpreadDone \/ ReadMask \/ Attach \/ PapiReturn
  BY <1>4, <1>8 DEF ListFails, ReadCpuTime, ReadStat, Refuse, SpreadDone, ReadMask, Attach, PapiReturn
<1>9. CASE ReadUpTime
  <2>1. GetUpTime \in Nat /\ up \in Nat
    BY Seconds DEF GetUpTime, ProcessOK
  <2>2. /\ call' = [call EXCEPT !.up = GetUpTime, !.at = up, !.step = "cpu"] /\ ret' = ret
        /\ call.step = "up" /\ "cpu" \in Steps
    BY <1>9 DEF ReadUpTime, Steps
  <2> HIDE DEF GetUpTime
  <2>3. call' \in CallRecords /\ call'.op = call.op /\ call'.arg = call.arg /\ call'.step = "cpu"
    BY <2>1, <2>2, <1>0 DEF CallRecords
  <2> QED
    BY <2>2, <2>3, <1>0, AdvancedOK, OpsOfStep
<1>10. CASE List \/ Skips \/ ListDone
  <2>1. /\ call' \in CallRecords /\ call'.op = call.op /\ call'.arg = call.arg /\ ret' = ret
        /\ call.step \in {"list", "look"} /\ call'.step \in {"look", "spread"}
    BY <1>0, <1>10, ListMoves
  <2>2. call.op \in OpsOf[call'.step]
    BY <2>1, <1>0, OpsOfStep
  <2> QED
    BY <2>1, <2>2, <1>0, AdvancedOK
<1>11. CASE Spread
  <2>1. /\ call' = [call EXCEPT !.todo = Tail(@), !.failed = @ \/ (call.op = "setPriority" /\ Head(call.todo) \notin live)]
        /\ call.step = "spread" /\ call.todo # <<>> /\ ret' = ret
    BY <1>11 DEF Spread
  <2>2. Tail(call.todo) \in Seq(Tids)
    BY <2>1, <1>0 DEF CallRecords
  <2>3. call' \in CallRecords /\ call'.op = call.op /\ call'.arg = call.arg /\ call'.step = "spread"
    BY <2>1, <2>2, <1>0 DEF CallRecords
  <2> QED
    BY <2>1, <2>3, <1>0, AdvancedOK
<1>12. CASE MoveFirst
  <2>1. \/ \E ok, value : Return(ok, value)
        \/ call' = [call EXCEPT !.step = "list"] /\ ret' = ret /\ call.op = "move" /\ "list" \in Steps
    BY <1>12, <1>0, OpsOfStep DEF MoveFirst, Steps
  <2>2. "move" \in OpsOf["list"]
    BY OpsOfStep DEF Spreads
  <2> QED
    BY <2>1, <2>2, <1>4, <1>5
<1>13. CASE PapiRead
  <2>1. /\ \/ call' = [call EXCEPT !.step = "alive"]
           \/ \E b \in BOOLEAN : call' = [call EXCEPT !.step = "alive", !.failed = b]
        /\ ret' = ret /\ call.step = "read" /\ "alive" \in Steps
    BY <1>13 DEF PapiRead, Steps
  <2>2. call' \in CallRecords /\ call'.op = call.op /\ call'.arg = call.arg /\ call'.step = "alive"
    BY <2>1, <1>0 DEF CallRecords
  <2> QED
    BY <2>1, <2>2, <1>0, AdvancedOK, OpsOfStep
<1> QED
  BY <1>1, <1>2, <1>3, <1>6, <1>7, <1>8, <1>9, <1>10, <1>11, <1>12, <1>13, NextCases DEF Looks, UnderWay

\* A step of a call goes on with the same call, or returns.
LEMMA Proceeds ==
  ASSUME ProcessOK, CallerOK, Looks \/ UnderWay
  PROVE  /\ call.step # "idle" /\ UNCHANGED <<machine, live, gen, clock>>
         /\ \/ \E ok, value : Return(ok, value)
            \/ /\ ret' = ret /\ call'.step # "idle"
               /\ call'.op = call.op /\ call'.h = call.h /\ call'.gen = call.gen /\ call'.arg = call.arg
<1>0. call \in CallRecords
  BY DEF CallerOK
<1>1. call.step # "idle" /\ UNCHANGED <<machine, live, gen, clock>>
  BY DEF Looks, UnderWay, StatFails, CheckActive, ReadCpuTime, ReadStat, Refuse, SpreadDone, ReadMask,
     ReadUpTime, KeepCpuTime, List, Skips, SkipEntry, ListFails, ListDone, Spread, MoveFirst, Attach, PapiRead, PapiReturn, process
<1>2. CASE ListFails \/ ReadCpuTime \/ ReadStat \/ Refuse \/ SpreadDone \/ ReadMask \/ Attach \/ PapiReturn
  BY <1>1, <1>2 DEF ListFails, ReadCpuTime, ReadStat, Refuse, SpreadDone, ReadMask, Attach, PapiReturn
<1>3. ASSUME NEW step \in Steps \ {"idle"}, call' = [call EXCEPT !.step = step], ret' = ret
      PROVE  /\ call'.step # "idle"
             /\ call'.op = call.op /\ call'.h = call.h /\ call'.gen = call.gen /\ call'.arg = call.arg
  BY <1>3, AdvancedCall
<1>4. CASE StatFails \/ CheckActive \/ KeepCpuTime \/ MoveFirst
  <2>1. \/ \E ok, value : Return(ok, value)
        \/ \E step \in {"check", "attach", "list"} : call' = [call EXCEPT !.step = step] /\ ret' = ret
    BY <1>4 DEF StatFails, CheckActive, KeepCpuTime, MoveFirst
  <2>2. {"check", "attach", "list"} \subseteq Steps \ {"idle"}
    BY DEF Steps
  <2> QED
    BY <1>1, <1>3, <2>1, <2>2
<1>5. CASE ReadUpTime
  <2>1. call' = [call EXCEPT !.up = GetUpTime, !.at = up, !.step = "cpu"] /\ ret' = ret
    BY <1>5 DEF ReadUpTime
  <2> QED
    BY <1>0, <1>1, <2>1 DEF CallRecords
<1>6. CASE List \/ Skips \/ ListDone
  BY <1>0, <1>1, <1>6, ListMoves
<1>7. CASE Spread
  <2>1. /\ \E left, failed : call' = [call EXCEPT !.todo = left, !.failed = failed]
        /\ ret' = ret
    BY <1>7 DEF Spread
  <2> QED
    BY <1>0, <1>1, <2>1 DEF CallRecords
<1>8. CASE PapiRead
  <2>1. /\ \/ call' = [call EXCEPT !.step = "alive"]
           \/ \E b \in BOOLEAN : call' = [call EXCEPT !.step = "alive", !.failed = b]
        /\ ret' = ret
    BY <1>8 DEF PapiRead
  <2> QED
    BY <1>0, <1>1, <2>1 DEF CallRecords
<1> QED
  BY <1>2, <1>4, <1>5, <1>6, <1>7, <1>8 DEF Looks, UnderWay

\* The tasks of an identifier are counted upwards.
LEMMA GenGrows ==
  ASSUME ProcessOK, Outside
  PROVE  \A t \in Tids : gen'[t] \in Nat /\ gen'[t] >= gen[t]
<1>1. Pid \in Tids /\ gen \in [Tids -> Nat]
  BY MachineFacts DEF ProcessOK
<1>2. gen' = gen \/ \E t \in Tids : gen' = [gen EXCEPT ![t] = @ + 1]
  BY <1>1 DEF Outside, Create, ThreadExit, ProcessEnds, Reuse, Tick, process
<1> QED
  BY <1>1, <1>2

\* Every step keeps calls, results and handlers to tasks that have been there.
LEMMA GenStep ==
  ASSUME ProcessOK, CallerOK, GenInv, [TasksNext]_tasksVars
  PROVE  GenInv'
<1>0. /\ call \in CallRecords /\ call.h \in UnitIds /\ call.gen \in Nat /\ ret.h \in UnitIds /\ ret.gen \in Nat
      /\ UnitIds \subseteq Tids /\ gen \in [Tids -> Nat] /\ unit \in [UnitIds -> Units] /\ Pid \in UnitIds
      /\ \A h \in UnitIds : unit[h].gen \in Nat
  BY MachineFacts DEF CallerOK, MembersOK, CallRecords, ProcessOK, Units, UnitIds
<1>1. CASE Outside
  <2>1. UNCHANGED <<unit, call, ret>>
    BY <1>1, OutsideFrame
  <2>2. \A t \in Tids : gen'[t] \in Nat /\ gen'[t] >= gen[t]
    BY <1>1, GenGrows
  <2>3. \A h \in UnitIds, k \in Nat : k <= gen[h] => k <= gen'[h]
    BY <2>2, <1>0
  <2> QED
    BY <2>1, <2>3, <1>0 DEF GenInv
<1>2. CASE Begins
  <2>1. PICK op \in Ops, h \in UnitIds, arg \in Args, step \in Steps : Begun(op, h, arg, step)
    BY <1>2 DEF Begins
  <2>2. /\ gen' = gen /\ call'.gen = gen[h] /\ call'.h = h
        /\ ret'.op = "none" /\ ret'.h = Pid /\ ret'.gen = 0
    BY <2>1 DEF Begun, process, Nothing
  <2>3. \A g \in UnitIds : unit'[g].gen = unit[g].gen \/ unit'[g].gen = 0
    <3>1. unit' = unit \/ unit' = [unit EXCEPT ![h] = [NotMade EXCEPT !.made = TRUE]]
      BY <2>1 DEF Begun
    <3>2. [NotMade EXCEPT !.made = TRUE].gen = 0
      BY DEF NotMade
    <3> QED
      BY <3>1, <3>2, <1>0
  <2> QED
    BY <2>2, <2>3, <1>0 DEF GenInv
<1>3. ASSUME NEW h \in UnitIds, ReleaseHandler(h) PROVE GenInv'
  <2>1. /\ gen' = gen /\ call' = call /\ ret'.op = "none" /\ ret'.h = Pid /\ ret'.gen = 0
        /\ unit' = [unit EXCEPT ![h] = NotMade] /\ NotMade.gen = 0
    BY <1>3 DEF ReleaseHandler, process, Nothing, NotMade
  <2> QED
    BY <2>1, <1>0 DEF GenInv
<1>4. CASE Looks \/ UnderWay
  <2>1. gen' = gen /\ call.step # "idle" /\ ret.op = "none"
    BY <1>4, Proceeds DEF GenInv
  <2>2. \A h \in UnitIds : unit'[h].gen <= gen[h]
    <3>1. CASE ReadUpTime
      <4>1. unit' = unit \/ unit' = [unit EXCEPT ![call.h].lastUp = GetUpTime]
        BY <3>1 DEF ReadUpTime
      <4> QED
        BY <4>1, <1>0 DEF GenInv, Units
    <3>2. CASE KeepCpuTime
      <4>1. \E now : unit' = [unit EXCEPT ![call.h].lastCpu = now, ![call.h].gen = gen[call.h]]
        BY <3>2 DEF KeepCpuTime
      <4> QED
        BY <4>1, <1>0 DEF GenInv, Units
    <3>3. CASE ~ReadUpTime /\ ~KeepCpuTime
      <4>1. unit' = unit
        BY <1>4, <3>3 DEF Looks, UnderWay, StatFails, CheckActive, ReadCpuTime, ReadStat, Refuse, SpreadDone,
           ReadMask, List, Skips, SkipEntry, ListFails, ListDone, Spread, MoveFirst, Attach, PapiRead, PapiReturn
      <4> QED
        BY <4>1 DEF GenInv
    <3> QED
      BY <3>1, <3>2, <3>3
  <2>3. ASSUME NEW ok, NEW value, Return(ok, value) PROVE GenInv'
    <3>1. call' = Idle /\ ret'.h = call.h /\ ret'.gen <= gen[call.h]
      BY <2>3, ReturnFacts
    <3>2. call'.gen = 0 /\ call'.h = Pid /\ call'.step = "idle"
      BY <3>1 DEF Idle
    <3> QED
      BY <2>1, <2>2, <3>1, <3>2, <1>0 DEF GenInv
  <2>4. CASE ret' = ret /\ call'.h = call.h /\ call'.gen = call.gen
    BY <2>1, <2>2, <2>4 DEF GenInv
  <2> QED
    BY <1>4, <2>3, <2>4, Proceeds
<1>5. CASE UNCHANGED tasksVars
  BY <1>5 DEF GenInv, tasksVars, process
<1> QED
  BY <1>1, <1>2, <1>3, <1>4, <1>5, NextCases

-----------------------------------------------------------------------------
\* A thread that is no stray was there before and has changed nothing, or has
\* inherited from one that was no stray and that the call had already reached.
LEMMA Inherits ==
  ASSUME ProcessOK, Outside, gen'[Pid] = gen[Pid], NEW u \in live' \ strays'
  PROVE  \E w \in live \ strays :
           /\ aff'[u] = aff[w] /\ nice'[u] = nice[w]
           /\ u = w \/ ~(call.step \in {"look", "spread"} /\ \E i \in DOMAIN call.todo : call.todo[i] = w)
<1>0. Pid \in Tids /\ gen \in [Tids -> Nat] /\ live \subseteq Tids
      /\ aff \in [Tids -> Sets] /\ nice \in [Tids -> Int]
  BY MachineFacts DEF ProcessOK
<1>1. ~Reuse
  BY <1>0 DEF Reuse
<1>2. ASSUME NEW parent \in Tids, NEW t \in Tids, Create(parent, t)
      PROVE  \E w \in live \ strays :
               /\ aff'[u] = aff[w] /\ nice'[u] = nice[w]
               /\ u = w \/ ~(call.step \in {"look", "spread"} /\ \E i \in DOMAIN call.todo : call.todo[i] = w)
  <2> DEFINE late == call.step \in {"look", "spread"} /\ \E i \in DOMAIN call.todo : call.todo[i] = parent
  <2>1. /\ parent \in live /\ live' = live \cup {t}
        /\ aff' = [aff EXCEPT ![t] = aff[parent]] /\ nice' = [nice EXCEPT ![t] = nice[parent]]
        /\ strays' = IF late \/ parent \in strays THEN strays \cup {t} ELSE strays \ {t}
    BY <1>2 DEF Create
  <2>2. CASE u = t
    <3>1. ~late /\ parent \notin strays
      BY <2>1, <2>2
    <3>2. aff'[u] = aff[parent] /\ nice'[u] = nice[parent]
      BY <2>1, <2>2, <1>0
    <3> QED
      BY <2>1, <3>1, <3>2
  <2>3. CASE u # t
    <3>1. u \in live \ strays /\ aff'[u] = aff[u] /\ nice'[u] = nice[u]
      BY <2>1, <2>3, <1>0
    <3> QED
      BY <3>1
  <2> QED
    BY <2>2, <2>3
<1>3. CASE \/ \E t \in Tids : ThreadExit(t)
           \/ ProcessEnds
           \/ \E running \in SUBSET live : Tick(running)
  <2>1. u \in live \ strays /\ UNCHANGED <<aff, nice>>
    BY <1>3 DEF ThreadExit, ProcessEnds, Tick, process
  <2> QED
    BY <2>1
<1> QED
  BY <1>1, <1>2, <1>3 DEF Outside

\* A task whose count has not changed is the one of the call.
LEMMA SameTask ==
  ASSUME ProcessOK, Outside, NEW k \in Nat, k <= gen[Pid], k = gen'[Pid]
  PROVE  gen'[Pid] = gen[Pid] /\ k = gen[Pid]
<1>1. Pid \in Tids /\ gen[Pid] \in Nat
  BY MachineFacts DEF ProcessOK
<1>2. gen'[Pid] \in Nat /\ gen'[Pid] >= gen[Pid]
  BY <1>1, GenGrows
<1> QED
  BY <1>1, <1>2

\* While a call goes through its list, the threads it has not reached are on it.
LEMMA SpreadStep ==
  ASSUME ProcessOK, CallerOK, GenInv, SpreadInv, [TasksNext]_tasksVars
  PROVE  SpreadInv'
<1>0. call \in CallRecords
  BY DEF CallerOK
<1> SUFFICES ASSUME call'.step \in {"look", "spread"}, call'.h = Pid, call'.gen = gen'[Pid],
                    NEW u \in live' \ strays'
             PROVE  \/ \E i \in DOMAIN call'.todo : call'.todo[i] = u
                    \/ Has(u, call.op, call.arg)'
  BY DEF SpreadInv
<1>1. CASE Outside
  <2>1. call' = call
    BY <1>1, OutsideFrame
  <2>2. gen'[Pid] = gen[Pid] /\ call.gen = gen[Pid]
    BY <1>0, <1>1, <2>1, SameTask DEF GenInv, CallRecords
  <2>3. PICK w \in live \ strays :
           /\ aff'[u] = aff[w] /\ nice'[u] = nice[w]
           /\ u = w \/ ~(call.step \in {"look", "spread"} /\ \E i \in DOMAIN call.todo : call.todo[i] = w)
    BY <1>1, <2>2, Inherits
  <2>4. \/ \E i \in DOMAIN call.todo : call.todo[i] = w
        \/ Has(w, call.op, call.arg)
    BY <2>1, <2>2 DEF SpreadInv
  <2>5. Has(w, call.op, call.arg) => Has(u, call.op, call.arg)'
    BY <2>1, <2>3 DEF Has, NiceOf
  <2> QED
    BY <2>1, <2>3, <2>4, <2>5
<1>2. CASE Begins
  BY <1>2 DEF Begins, Begun
<1>3. CASE List
  <2>1. PICK left \in Listed(call.h) : call'.todo = left /\ call'.h = call.h
    BY <1>0, <1>3, ListMoves
  <2>2. UNCHANGED <<live, strays>>
    BY <1>3 DEF List, process
  <2>3. \A t \in live : \E i \in DOMAIN left : left[i] = t
    BY <2>1 DEF Listed
  <2> QED
    BY <2>1, <2>2, <2>3
<1>7. CASE Skips \/ ListDone
  <2>1. /\ call.step = "look" /\ call'.h = call.h /\ call'.gen = call.gen /\ call'.op = call.op /\ call'.arg = call.arg
        /\ \A t \in live : (\E i \in DOMAIN call.todo : call.todo[i] = t) => \E i \in DOMAIN call'.todo : call'.todo[i] = t
    BY <1>0, <1>7, ListMoves
  <2>2. UNCHANGED <<live, strays, aff, nice, gen>>
    BY <1>7 DEF Skips, SkipEntry, ListDone, process
  <2>3. \/ \E i \in DOMAIN call.todo : call.todo[i] = u
        \/ Has(u, call.op, call.arg)
    BY <2>1, <2>2 DEF SpreadInv
  <2>4. Has(u, call.op, call.arg) => Has(u, call.op, call.arg)'
    BY <2>1, <2>2 DEF Has, NiceOf
  <2> QED
    BY <2>1, <2>2, <2>3, <2>4
<1>4. CASE Spread
  <2> DEFINE t == Head(call.todo)
             rest == Tail(call.todo)
  <2>1. /\ call.step = "spread" /\ call.todo # <<>> /\ call.todo \in Seq(Tids)
        /\ call' = [call EXCEPT !.todo = Tail(@), !.failed = @ \/ (call.op = "setPriority" /\ Head(call.todo) \notin live)]
        /\ UNCHANGED <<live, gen>>
    BY <1>0, <1>4 DEF Spread, CallRecords
  <2>2. call'.todo = rest /\ call'.h = call.h /\ call'.gen = call.gen /\ call'.op = call.op /\ call'.arg = call.arg
    BY <2>1, <1>0 DEF CallRecords
  <2>3. t \in Tids /\ \A i \in DOMAIN call.todo : call.todo[i] = t \/ \E j \in DOMAIN rest : rest[j] = call.todo[i]
    <3>1. t \in Tids /\ t = call.todo[1] /\ DOMAIN call.todo = 1..Len(call.todo)
      BY <2>1
    <3>2. \A i \in 1..Len(call.todo) : i # 1 => i - 1 \in DOMAIN rest /\ rest[i - 1] = call.todo[i]
      BY <2>1
    <3> QED
      BY <3>1, <3>2
  <2> HIDE DEF t, rest
  <2>4. CASE t \notin live
    <3>1. UNCHANGED <<aff, nice, strays>> /\ u # t
      BY <1>4, <2>1, <2>4 DEF Spread, t
    <3>2. \/ \E i \in DOMAIN call.todo : call.todo[i] = u
          \/ Has(u, call.op, call.arg)
      BY <2>1, <2>2, <3>1 DEF SpreadInv
    <3>3. Has(u, call.op, call.arg) => Has(u, call.op, call.arg)'
      BY <2>2, <3>1 DEF Has, NiceOf
    <3> QED
      BY <2>2, <2>3, <3>1, <3>2, <3>3
  <2>5. CASE t \in live
    <3>1. /\ strays' = strays \ {t}
          /\ IF call.op = "setPriority" THEN nice' = [nice EXCEPT ![t] = NiceOf(call.arg)] /\ UNCHANGED aff
             ELSE aff' = [aff EXCEPT ![t] = call.arg] /\ UNCHANGED nice
      BY <1>4, <2>5 DEF Spread, t
    <3>2. call.op \in Spreads /\ aff \in [Tids -> Sets] /\ nice \in [Tids -> Int]
      BY <2>1, OpsOfStep DEF CallerOK, ProcessOK
    <3>3. CASE u = t
      <4>1. IF call.op = "move" THEN aff'[u] = call.arg ELSE nice'[u] = NiceOf(call.arg)
        BY <3>1, <3>2, <3>3, <2>3 DEF Spreads
      <4> QED
        BY <4>1, <2>2 DEF Has, NiceOf
    <3>4. CASE u # t
      <4>0. u \in Tids /\ u \in live \ strays
        BY <3>1, <3>4, <2>1, MachineFacts DEF ProcessOK
      <4>1. aff'[u] = aff[u] /\ nice'[u] = nice[u] /\ u \in live \ strays
        BY <3>1, <3>2, <3>4, <4>0
      <4>2. \/ \E i \in DOMAIN call.todo : call.todo[i] = u
            \/ Has(u, call.op, call.arg)
        BY <2>1, <2>2, <4>1 DEF SpreadInv
      <4>3. Has(u, call.op, call.arg) => Has(u, call.op, call.arg)'
        BY <2>2, <4>1 DEF Has, NiceOf
      <4>4. CASE \E i \in DOMAIN call.todo : call.todo[i] = u
        BY <2>2, <2>3, <3>4, <4>4
      <4> QED
        BY <4>2, <4>3, <4>4
    <3> QED
      BY <3>3, <3>4
  <2> QED
    BY <2>4, <2>5
<1>5. CASE (Looks \/ UnderWay) /\ ~List /\ ~Skips /\ ~ListDone /\ ~Spread
  <2>1. ASSUME NEW ok, NEW value, Return(ok, value) PROVE FALSE
    BY <2>1, ReturnFacts DEF Idle
  <2>2. ASSUME NEW step \in Steps \ {"look", "spread"}, call' = [call EXCEPT !.step = step] PROVE FALSE
    BY <2>2, <1>0 DEF CallRecords
  <2>3. {"check", "attach", "list", "cpu", "alive"} \subseteq Steps \ {"look", "spread"}
    BY DEF Steps
  <2>4. ~StatFails /\ ~CheckActive /\ ~KeepCpuTime /\ ~MoveFirst
    BY <2>1, <2>2, <2>3 DEF StatFails, CheckActive, KeepCpuTime, MoveFirst
  <2>5. ~ReadUpTime
    BY <1>0 DEF ReadUpTime, CallRecords
  <2>6. ~PapiRead
    BY <1>0 DEF PapiRead, CallRecords
  <2>7. ~ListFails /\ ~ReadCpuTime /\ ~ReadStat /\ ~Refuse /\ ~SpreadDone /\ ~ReadMask /\ ~Attach /\ ~PapiReturn
    BY <2>1 DEF ListFails, ReadCpuTime, ReadStat, Refuse, SpreadDone, ReadMask, Attach, PapiReturn
  <2> QED
    BY <1>5, <2>4, <2>5, <2>6, <2>7 DEF Looks, UnderWay
<1>6. CASE (\E h \in UnitIds : ReleaseHandler(h)) \/ UNCHANGED tasksVars
  <2>1. UNCHANGED <<call, live, strays, aff, nice, gen>>
    BY <1>6 DEF ReleaseHandler, tasksVars, process
  <2> QED
    BY <2>1 DEF SpreadInv, Has, NiceOf
<1> QED
  BY <1>1, <1>2, <1>3, <1>4, <1>5, <1>6, <1>7, NextCases

\* A result that is none of a spread or of a mask says nothing here.
LEMMA OtherResult ==
  ASSUME ret'.ok # "true" \/ ret'.op \notin Spreads \cup {"getVirtualCoreIds"}
  PROVE  ReachedInv'
  BY DEF ReachedInv, Spreads

\* A call that has ended has reached the threads it listed.
LEMMA ReachedStep ==
  ASSUME ProcessOK, CallerOK, GenInv, SpreadInv, ReachedInv, [TasksNext]_tasksVars
  PROVE  ReachedInv'
<1>0. call \in CallRecords /\ call.op \in OpsOf[call.step]
  BY DEF CallerOK
<1>1. CASE Outside
  <2>1. ret' = ret /\ machine' = machine
    BY <1>1, OutsideFrame
  <2>2. ASSUME ret.op \in Spreads, ret.ok = "true", ret.h = Pid, ret.gen = gen'[Pid], NEW u \in live' \ strays'
        PROVE  Has(u, ret.op, ret.value)'
    <3>1. gen'[Pid] = gen[Pid] /\ ret.gen = gen[Pid]
      BY <1>1, <2>2, SameTask DEF GenInv, CallerOK
    <3>2. PICK w \in live \ strays : aff'[u] = aff[w] /\ nice'[u] = nice[w]
      BY <1>1, <3>1, Inherits
    <3>3. Has(w, ret.op, ret.value)
      BY <2>2, <3>1 DEF ReachedInv
    <3> QED
      BY <2>1, <3>2, <3>3 DEF Has, NiceOf
  <2> QED
    BY <2>1, <2>2 DEF ReachedInv, online
<1>2. CASE Begins \/ (\E h \in UnitIds : ReleaseHandler(h))
  <2>1. ret' = Nothing
    BY <1>2 DEF Begins, Begun, ReleaseHandler
  <2>2. ret'.op \notin Spreads \cup {"getVirtualCoreIds"}
    BY <2>1 DEF Nothing, Spreads
  <2> QED
    BY <2>2, OtherResult
<1>3. CASE SpreadDone
  <2>1. /\ call.step = "spread" /\ call.todo = <<>> /\ UNCHANGED <<machine, live, gen, aff, nice, strays>>
        /\ \E ok : Return(ok, call.arg)
    BY <1>3 DEF SpreadDone, process
  <2>2. /\ ret'.op = call.op /\ ret'.h = call.h /\ ret'.value = call.arg
        /\ ret'.gen = (IF call.gen = gen[call.h] THEN call.gen ELSE 0)
    BY <2>1, ReturnFacts
  <2>3. call.op \in Spreads /\ (call.op = "setPriority" => call.arg \in InRange)
    BY <2>1, <1>0, OpsOfStep DEF CallerOK
  <2>4. ASSUME ret'.h = Pid, ret'.gen = gen[Pid], NEW u \in live \ strays PROVE Has(u, ret.op, ret.value)'
    <3>1. gen[Pid] >= 1 /\ gen[Pid] \in Nat
      BY MachineFacts DEF ProcessOK
    <3>2. call.h = Pid /\ call.gen = gen[Pid]
      BY <2>2, <2>4, <3>1
    <3>3. Has(u, call.op, call.arg)
      BY <2>1, <3>2 DEF SpreadInv
    <3> QED
      BY <2>1, <2>2, <3>3 DEF Has, NiceOf
  <2> QED
    BY <2>1, <2>2, <2>3, <2>4 DEF ReachedInv, Spreads
<1>4. CASE ReadMask
  <2>1. call.op = "getVirtualCoreIds" /\ machine' = machine
    BY <1>4, <1>0, OpsOfStep DEF ReadMask
  <2>2. CASE IsActive(call.h)
    <3> DEFINE mask == aff[call.h] \cap online
               value == [ids |-> {i \in 0..(Cardinality(online) - 1) : i \in mask}, mask |-> mask]
    <3>1. Return("true", value)
      BY <1>4, <2>2 DEF ReadMask
    <3>2. ret'.op = "getVirtualCoreIds" /\ ret'.value = value
      BY <2>1, <3>1, ReturnFacts
    <3>3. /\ ret'.value.ids = {i \in 0..(Cardinality(online) - 1) : i \in ret'.value.mask}
          /\ ret'.value.mask \subseteq online /\ online' = online
      BY <2>1, <3>2 DEF online
    <3> QED
      BY <3>2, <3>3 DEF ReachedInv, Spreads
  <2>3. CASE ~IsActive(call.h)
    <3>1. Return("false", 0)
      BY <1>4, <2>3 DEF ReadMask
    <3> QED
      BY <3>1, ReturnFacts, OtherResult
  <2> QED
    BY <2>2, <2>3
<1>5. ASSUME NEW ok, NEW value, Return(ok, value), ok # "true" \/ call.op \notin Spreads \cup {"getVirtualCoreIds"}
      PROVE  ReachedInv'
  BY <1>5, ReturnFacts, OtherResult
<1>6. CASE ret' = ret /\ ret.op = "none"
  BY <1>6, OtherResult DEF Spreads
<1>7. CASE MoveFirst
  <2>1. CASE call.h # Pid /\ Return("true", call.arg)
    <3>1. ret'.op = "move" /\ ret'.h # Pid
      BY <1>7, <2>1, <1>0, ReturnFacts, OpsOfStep DEF MoveFirst
    <3> QED
      BY <3>1 DEF ReachedInv
  <2>2. \/ call.h # Pid /\ Return("true", call.arg)
        \/ Return("false", 0)
        \/ ret' = ret /\ call.step # "idle"
    BY <1>7 DEF MoveFirst
  <2> QED
    BY <1>5, <1>6, <2>1, <2>2 DEF GenInv
<1>8. CASE Refuse \/ ListFails
  BY <1>5, <1>8 DEF Refuse, ListFails
<1>9. CASE CheckActive
  <2>1. \/ \E ok \in {"thrown", "false"} : Return(ok, 0)
        \/ ret' = ret /\ call.step # "idle"
    BY <1>9 DEF CheckActive
  <2> QED
    BY <1>5, <1>6, <2>1 DEF GenInv
<1>10. CASE ReadCpuTime \/ KeepCpuTime \/ ReadStat \/ Attach \/ PapiReturn
  <2>1. call.step \in {"cpu", "stat", "attach", "alive"}
    BY <1>10 DEF ReadCpuTime, KeepCpuTime, ReadStat, Attach, PapiReturn
  <2>2. call.op \notin Spreads \cup {"getVirtualCoreIds"}
    BY <2>1, <1>0, OpsOfStep DEF Spreads, Usages, Counts
  <2>3. \/ \E ok, value : Return(ok, value)
        \/ ret' = ret /\ call.step # "idle"
    BY <1>10 DEF ReadCpuTime, KeepCpuTime, ReadStat, Attach, PapiReturn
  <2> QED
    BY <1>5, <1>6, <2>2, <2>3 DEF GenInv
<1>11. CASE StatFails \/ ReadUpTime \/ List \/ Skips \/ ListDone \/ Spread \/ PapiRead
  <2>1. ret' = ret /\ call.step # "idle"
    BY <1>11 DEF StatFails, ReadUpTime, List, Skips, SkipEntry, ListDone, Spread, PapiRead
  <2> QED
    BY <1>6, <2>1 DEF GenInv
<1>12. CASE UNCHANGED tasksVars
  <2>1. UNCHANGED <<machine, ret, live, strays, aff, nice, gen>>
    BY <1>12 DEF tasksVars, process
  <2> QED
    BY <2>1 DEF ReachedInv, Has, NiceOf, online
<1> QED
  BY <1>1, <1>2, <1>3, <1>4, <1>7, <1>8, <1>9, <1>10, <1>11, <1>12, NextCases DEF Looks, UnderWay

-----------------------------------------------------------------------------
\* What was read is what is taken: the count starts where the last one ended.
LEMMA CountStep ==
  ASSUME ProcessOK, CallerOK, CountInv, [TasksNext]_tasksVars
  PROVE  CountInv'
<1>0. /\ papi \in [available : {"unset", "yes", "no"}, values : Int, old : Int, gen : Nat]
      /\ base \in Int
  BY DEF CallerOK, MembersOK
<1>1. CASE Attach
  BY <1>0, <1>1 DEF Attach, CountInv
<1>2. CASE PapiRead
  BY <1>0, <1>2 DEF PapiRead, CountInv
<1>3. CASE PapiReturn
  <2>1. CASE IsActive(Pid) /\ papi.available = "yes" /\ ~call.failed
    <3>1. /\ papi' = PapiResult(papi, call.op) /\ papi.old = base
          /\ base' = IF call.op = "getAndResetInstructions" THEN base + papi.values - papi.old ELSE base
      BY <1>3, <2>1 DEF PapiReturn, CountInv
    <3> QED
      BY <1>0, <3>1 DEF PapiResult, CountInv
  <2>2. CASE ~(IsActive(Pid) /\ papi.available = "yes" /\ ~call.failed)
    BY <1>3, <2>2 DEF PapiReturn, CountInv
  <2> QED
    BY <2>1, <2>2
<1>4. ASSUME NEW h \in UnitIds, ReleaseHandler(h) PROVE CountInv'
  BY <1>4 DEF ReleaseHandler, NoCounters, CountInv
<1>5. CASE \/ Outside \/ Begins \/ Looks \/ ReadUpTime \/ KeepCpuTime \/ List \/ Skips \/ ListDone \/ Spread \/ MoveFirst
           \/ UNCHANGED tasksVars
  <2>1. UNCHANGED <<papi, base>>
    BY <1>5, OutsideFrame DEF Begins, Begun, Looks, StatFails, CheckActive, ReadCpuTime, ReadStat, Refuse,
       SpreadDone, ReadMask, ReadUpTime, KeepCpuTime, List, Skips, SkipEntry, ListFails, ListDone, Spread, MoveFirst, tasksVars
  <2> QED
    BY <2>1 DEF CountInv
<1> QED
  BY <1>1, <1>2, <1>3, <1>4, <1>5, NextCases DEF UnderWay

-----------------------------------------------------------------------------
\* Where a call can be after a step.
LEMMA AfterStep ==
  ASSUME ProcessOK, CallerOK, Looks \/ UnderWay, ~ReadUpTime
  PROVE  call'.step \notin {"up", "cpu"} /\ call'.at \in {0, call.at}
<1>0. call \in CallRecords
  BY DEF CallerOK
<1>1. ASSUME NEW ok, NEW value, Return(ok, value) PROVE call'.step \notin {"up", "cpu"} /\ call'.at \in {0, call.at}
  BY <1>1, ReturnFacts DEF Idle
<1>2. ASSUME NEW step \in Steps \ {"up", "cpu"}, call' = [call EXCEPT !.step = step]
      PROVE  call'.step \notin {"up", "cpu"} /\ call'.at \in {0, call.at}
  BY <1>2, AdvancedCall
<1>3. {"check", "attach", "list"} \subseteq Steps \ {"up", "cpu"}
  BY DEF Steps
<1>4. CASE StatFails \/ CheckActive \/ KeepCpuTime \/ MoveFirst
  BY <1>1, <1>2, <1>3, <1>4 DEF StatFails, CheckActive, KeepCpuTime, MoveFirst
<1>5. CASE List \/ Skips \/ ListDone
  BY <1>0, <1>5, ListMoves
<1>6. CASE Spread
  BY <1>0, <1>6 DEF Spread, CallRecords
<1>7. CASE PapiRead
  BY <1>0, <1>7 DEF PapiRead, CallRecords
<1>8. CASE ListFails \/ ReadCpuTime \/ ReadStat \/ Refuse \/ SpreadDone \/ ReadMask \/ Attach \/ PapiReturn
  BY <1>1, <1>8 DEF ListFails, ReadCpuTime, ReadStat, Refuse, SpreadDone, ReadMask, Attach, PapiReturn
<1> QED
  BY <1>4, <1>5, <1>6, <1>7, <1>8 DEF Looks, UnderWay

\* The numbers of a handler.
LEMMA UnitTypes ==
  ASSUME ProcessOK, CallerOK, NEW h \in UnitIds
  PROVE  /\ unit[h] \in Units /\ unit[h].lastUp \in Nat /\ unit[h].lastCpu \in Nat /\ unit[h].gen \in Nat
         /\ CpuTime(h) \in Nat /\ gen[h] \in Nat /\ Width(h) \in Nat /\ Width(h) >= 1
         /\ up \in Nat /\ Hertz \in Nat /\ unit[h].lastUp * Hertz \in Nat
         /\ IsActive(h) => gen[h] >= 1
<1>1. unit[h] \in Units /\ unit[h].lastUp \in Nat /\ unit[h].lastCpu \in Nat /\ unit[h].gen \in Nat
  BY DEF CallerOK, MembersOK, Units
<1>2. CpuTime(h) \in Nat /\ gen[h] \in Nat /\ (IsActive(h) => gen[h] >= 1)
  BY MachineFacts DEF CpuTime, IsActive, ProcessOK, UnitIds
<1>3. Width(h) \in Nat /\ Width(h) >= 1
  BY WidthFacts DEF ProcessOK
<1>4. up \in Nat /\ Hertz \in Nat
  BY TasksAssumption DEF ProcessOK
<1>5. unit[h].lastUp * Hertz \in Nat
  <2>1. \A a, b \in Nat : a * b \in Nat
    OBVIOUS
  <2> QED
    BY <1>1, <1>4, <2>1
<1> QED
  BY <1>1, <1>2, <1>3, <1>4, <1>5

\* A handler whose task, members and clock are the same, and which is not
\* being reset, or whose task is not active.
LEMMA UnitFrame ==
  ASSUME NEW h \in UnitIds, UnitInv(h), machine' = machine, up' = up, unit'[h] = unit[h],
         \/ IsActive(h)' => IsActive(h) /\ gen'[h] = gen[h] /\ CpuTime(h)' = CpuTime(h)
         \/ ~IsActive(h)',
         IsActive(h)' => (Resetting(h) => Resetting(h)')
  PROVE  UnitInv(h)'
<1>1. spaces' = spaces /\ Width(h)' = Width(h)
  BY DEF spaces, Width, online
<1> HIDE DEF spaces
<1> QED
  BY <1>1 DEF UnitInv

\* A task that has just begun has not run.
LEMMA UnitFresh ==
  ASSUME ProcessOK, CallerOK, GenInv, NEW h \in UnitIds, UnitInv(h), machine' = machine, up' = up, unit' = unit,
         gen'[h] = gen[h] + 1, CpuTime(h)' = 0
  PROVE  UnitInv(h)'
<1>1. /\ unit[h].lastUp \in Nat /\ unit[h].gen \in Nat /\ gen[h] \in Nat /\ Width(h) \in Nat
      /\ up \in Nat /\ unit[h].lastUp * Hertz \in Nat
  BY UnitTypes
<1>2. Width(h)' = Width(h)
  BY DEF Width, online
<1>3. unit[h].gen <= gen[h] /\ unit[h].lastUp * Hertz <= up
  BY DEF GenInv, UnitInv
<1>4. unit[h].gen \in {0, gen'[h]} => unit[h].lastCpu = 0
  BY <1>1, <1>3 DEF UnitInv
<1>5. 0 <= Width(h) * (up - unit[h].lastUp * Hertz)
  <2> DEFINE d == up - unit[h].lastUp * Hertz
  <2>1. d \in Nat
    BY <1>1, <1>3
  <2> HIDE DEF d
  <2>2. \A a, b \in Nat : 0 <= a * b
    OBVIOUS
  <2> QED
    BY <1>1, <2>1, <2>2 DEF d
<1>6. UnitInv(h)' <=>
        /\ unit[h].lastUp * Hertz <= up
        /\ unit[h].gen = 0 => unit[h].lastCpu = 0
        /\ unit[h].made /\ IsActive(h)' /\ unit[h].gen \in {0, gen'[h]} /\ spaces' = 0 /\ ~Resetting(h)' =>
             /\ 0 - unit[h].lastCpu >= 0
             /\ 0 - unit[h].lastCpu <= Width(h) * (up - unit[h].lastUp * Hertz)
  BY <1>2 DEF UnitInv
<1>7. unit[h].lastCpu = 0 => 0 - unit[h].lastCpu = 0
  OBVIOUS
<1> QED
  BY <1>3, <1>4, <1>5, <1>6, <1>7 DEF UnitInv

\* In a tick a task runs at most on the cores that it can keep busy.
LEMMA UnitTick ==
  ASSUME ProcessOK, CallerOK, NEW h \in UnitIds, UnitInv(h), NEW running \in SUBSET live, Tick(running)
  PROVE  UnitInv(h)'
<1>1. /\ unit[h].lastUp \in Nat /\ unit[h].lastCpu \in Nat /\ Width(h) \in Nat /\ Width(h) >= 1
      /\ up \in Nat /\ CpuTime(h) \in Nat /\ unit[h].lastUp * Hertz \in Nat
  BY UnitTypes
<1>2. /\ UNCHANGED <<machine, unit, call, live, gen>> /\ up' = up + 1
      /\ spent' = spent + Cardinality(running)
      /\ cpu' = [t \in Tids \ {Pid} |-> IF t \in running THEN cpu[t] + 1 ELSE cpu[t]]
  BY DEF Tick, process
<1>3. Width(h)' = Width(h) /\ spaces' = spaces /\ IsActive(h)' = IsActive(h) /\ Resetting(h)' = Resetting(h)
  BY <1>2 DEF Width, online, spaces, IsActive, Resetting
<1>4. CpuTime(h)' \in Nat /\ CpuTime(h)' >= CpuTime(h) /\ CpuTime(h)' <= CpuTime(h) + Width(h)
  <2>1. Cardinality(running) \in Nat /\ Cardinality(running) <= Width(Pid)
    BY RunningFacts DEF Tick
  <2>2. CASE h = Pid
    BY <2>1, <2>2, <1>1, <1>2 DEF CpuTime
  <2>3. CASE h # Pid
    <3>1. h \in Tids \ {Pid} /\ CpuTime(h) = cpu[h] /\ CpuTime(h)' = cpu'[h]
      BY <2>3, MachineFacts DEF CpuTime, ProcessOK, UnitIds
    <3> QED
      BY <3>1, <1>1, <1>2
  <2> QED
    BY <2>2, <2>3
<1>5. Width(h) * (up' - unit[h].lastUp * Hertz) = Width(h) * (up - unit[h].lastUp * Hertz) + Width(h)
  <2> DEFINE d == up - unit[h].lastUp * Hertz
  <2>1. d \in Int /\ up' - unit[h].lastUp * Hertz = d + 1
    BY <1>1, <1>2
  <2> HIDE DEF d
  <2>2. Width(h) * (d + 1) = Width(h) * d + Width(h)
    BY <1>1, <2>1, TimesNext
  <2> QED
    BY <2>1, <2>2 DEF d
<1>6. Width(h) * (up - unit[h].lastUp * Hertz) \in Int
  <2> DEFINE d == up - unit[h].lastUp * Hertz
  <2>1. d \in Int
    BY <1>1
  <2> HIDE DEF d
  <2>2. Width(h) * d \in Int
    BY <1>1, <2>1
  <2> QED
    BY <2>2 DEF d
<1>7. ASSUME CpuTime(h) - unit[h].lastCpu >= 0,
             CpuTime(h) - unit[h].lastCpu <= Width(h) * (up - unit[h].lastUp * Hertz)
      PROVE  /\ CpuTime(h)' - unit[h].lastCpu >= 0
             /\ CpuTime(h)' - unit[h].lastCpu <= Width(h) * (up' - unit[h].lastUp * Hertz)
  BY <1>1, <1>4, <1>5, <1>6, <1>7
<1>8. unit[h].lastUp * Hertz <= up => unit[h].lastUp * Hertz <= up'
  BY <1>1, <1>2
<1> QED
  BY <1>2, <1>3, <1>7, <1>8 DEF UnitInv

\* What happens outside the library leaves what a handler remembers consistent.
LEMMA UnitOutside ==
  ASSUME ProcessOK, CallerOK, GenInv, NEW h \in UnitIds, UnitInv(h), Outside
  PROVE  UnitInv(h)'
<1>0. /\ Pid \in Tids /\ Tid \in Tids \ {Pid} /\ h \in {Pid, Tid} /\ UNCHANGED <<machine, unit, call>>
      /\ gen \in [Tids -> Nat] /\ cpu \in [Tids \ {Pid} -> Nat]
  BY MachineFacts, OutsideFrame DEF ProcessOK, UnitIds
<1>1. Resetting(h)' = Resetting(h)
  BY <1>0 DEF Resetting
<1>2. ASSUME NEW parent \in Tids, NEW t \in Tids, Create(parent, t) PROVE UnitInv(h)'
  <2>1. /\ parent \in live /\ live' = live \cup {t} /\ t \notin live /\ t # Pid /\ UNCHANGED <<up, spent>>
        /\ gen' = [gen EXCEPT ![t] = @ + 1] /\ cpu' = [cpu EXCEPT ![t] = 0]
    BY <1>2 DEF Create, ProcessOK
  <2>2. CASE h = t
    <3>1. gen'[h] = gen[h] + 1 /\ CpuTime(h)' = 0
      BY <1>0, <2>1, <2>2 DEF CpuTime
    <3> QED
      BY <1>0, <2>1, <3>1, UnitFresh
  <2>3. CASE h # t
    <3>1. gen'[h] = gen[h] /\ CpuTime(h)' = CpuTime(h) /\ (IsActive(h)' => IsActive(h))
      BY <1>0, <2>1, <2>3 DEF CpuTime, IsActive
    <3> QED
      BY <1>0, <1>1, <2>1, <3>1, UnitFrame
  <2> QED
    BY <2>2, <2>3
<1>3. CASE (\E t \in Tids : ThreadExit(t)) \/ ProcessEnds
  <2>1. live' \subseteq live /\ UNCHANGED <<gen, up, cpu, spent>>
    BY <1>3 DEF ThreadExit, ProcessEnds, clock
  <2>2. gen'[h] = gen[h] /\ CpuTime(h)' = CpuTime(h) /\ (IsActive(h)' => IsActive(h))
    BY <2>1 DEF CpuTime, IsActive
  <2> QED
    BY <1>0, <1>1, <2>1, <2>2, UnitFrame
<1>4. CASE Reuse
  <2>1. live' = {Pid} /\ gen' = [gen EXCEPT ![Pid] = @ + 1] /\ spent' = 0 /\ up' = up
    BY <1>4 DEF Reuse
  <2>2. CASE h = Pid
    <3>1. gen'[h] = gen[h] + 1 /\ CpuTime(h)' = 0
      BY <1>0, <2>1, <2>2 DEF CpuTime
    <3> QED
      BY <1>0, <2>1, <3>1, UnitFresh
  <2>3. CASE h # Pid
    <3>1. ~IsActive(h)'
      BY <2>1, <2>3 DEF IsActive
    <3> QED
      BY <1>0, <2>1, <3>1, UnitFrame
  <2> QED
    BY <2>2, <2>3
<1>5. ASSUME NEW running \in SUBSET live, Tick(running) PROVE UnitInv(h)'
  BY <1>5, UnitTick
<1> QED
  BY <1>2, <1>3, <1>4, <1>5 DEF Outside

\* resetCoreUsage() keeps the two times of one task.
LEMMA UnitKept ==
  ASSUME ProcessOK, CallerOK, GenInv, UsageInv, KeepCpuTime, NEW h \in UnitIds
  PROVE  UnitInv(h)'
<1>0. call \in CallRecords /\ call.h \in UnitIds /\ unit \in [UnitIds -> Units] /\ UnitInv(h)
  BY DEF CallerOK, MembersOK, CallRecords, UsageInv
<1>1. /\ IsActive(call.h) /\ UNCHANGED <<machine, process, clock>>
      /\ \E now \in GetCpuTime(call.h) :
            unit' = [unit EXCEPT ![call.h].lastCpu = now, ![call.h].gen = gen[call.h]]
  BY DEF KeepCpuTime
<1>2. UNCHANGED <<live, gen, up, cpu, spent>>
  BY <1>1 DEF process, clock
<1>3. IsActive(h)' = IsActive(h) /\ CpuTime(h)' = CpuTime(h) /\ spaces' = spaces /\ Width(h)' = Width(h)
  BY <1>1, <1>2 DEF IsActive, CpuTime, spaces, Width, online
<1>4. CASE h # call.h
  <2>1. unit'[h] = unit[h] /\ ~Resetting(h)
    BY <1>0, <1>1, <1>4 DEF Resetting
  <2> QED
    BY <1>0, <1>1, <1>2, <1>3, <2>1, UnitFrame
<1>5. CASE h = call.h
  <2>1. /\ CpuTime(h) \in Nat /\ gen[h] \in Nat /\ gen[h] >= 1 /\ Width(h) \in Nat /\ up \in Nat
        /\ unit[h].lastUp * Hertz \in Nat /\ unit[h].lastUp * Hertz <= up /\ unit[h] \in Units
    BY <1>0, <1>1, <1>5, UnitTypes DEF UnitInv
  <2>2. PICK now \in GetCpuTime(h) : unit' = [unit EXCEPT ![h].lastCpu = now, ![h].gen = gen[h]]
    BY <1>1, <1>5
  <2>3. unit'[h].lastUp = unit[h].lastUp /\ unit'[h].lastCpu = now /\ unit'[h].gen = gen[h]
    BY <2>1, <2>2, <1>0 DEF Units
  <2>4. spaces = 0 => now = CpuTime(h)
    BY <2>2 DEF GetCpuTime
  <2>5. 0 <= Width(h) * (up - unit[h].lastUp * Hertz)
    <3> DEFINE d == up - unit[h].lastUp * Hertz
    <3>1. d \in Nat
      BY <2>1
    <3> HIDE DEF d
    <3>2. \A a, b \in Nat : 0 <= a * b
      OBVIOUS
    <3> QED
      BY <2>1, <3>1, <3>2 DEF d
  <2>6. spaces = 0 => CpuTime(h) - now = 0
    BY <2>1, <2>4
  <2>7. unit'[h].gen # 0
    BY <2>1, <2>3
  <2>8. UnitInv(h)' <=>
          /\ unit[h].lastUp * Hertz <= up
          /\ unit'[h].gen = 0 => unit'[h].lastCpu = 0
          /\ unit'[h].made /\ IsActive(h)' /\ unit'[h].gen \in {0, gen'[h]} /\ spaces = 0 /\ ~Resetting(h)' =>
               /\ CpuTime(h) - now >= 0
               /\ CpuTime(h) - now <= Width(h) * (up - unit[h].lastUp * Hertz)
    BY <1>2, <1>3, <2>3 DEF UnitInv
  <2> QED
    BY <2>1, <2>5, <2>6, <2>7, <2>8
<1> QED
  BY <1>4, <1>5

\* Every step keeps the bound on what a task has run since its handler last looked.
LEMMA UsageStep ==
  ASSUME ProcessOK, CallerOK, GenInv, UsageInv, [TasksNext]_tasksVars
  PROVE  UsageInv'
<1>0. /\ call \in CallRecords /\ call.h \in UnitIds /\ call.at \in Nat /\ call.op \in OpsOf[call.step]
      /\ unit \in [UnitIds -> Units] /\ up \in Nat /\ \A h \in UnitIds : UnitInv(h)
      /\ call.at <= up
  BY DEF CallerOK, MembersOK, CallRecords, UsageInv, ProcessOK
<1>1. CASE Outside
  <2>1. UNCHANGED <<call, unit>> /\ up' \in Nat /\ up' >= up
    BY <1>0, <1>1, OutsideFrame DEF Outside, Create, ThreadExit, ProcessEnds, Reuse, Tick, clock
  <2>2. \A h \in UnitIds : UnitInv(h)'
    BY <1>0, <1>1, UnitOutside
  <2>3. call'.at <= up'
    BY <1>0, <2>1
  <2> QED
    BY <2>1, <2>2, <2>3 DEF UsageInv
<1>2. CASE Begins
  <2>1. PICK op \in Ops, h \in UnitIds, arg \in Args, step \in Steps : Begun(op, h, arg, step)
    BY <1>2 DEF Begins
  <2>2. /\ call.step = "idle" /\ call'.at = 0 /\ call'.step # "cpu" /\ call'.h = h /\ unit'[h].made
        /\ UNCHANGED <<machine, live, gen, up, cpu, spent>>
    BY <2>1 DEF Begun, process, clock
  <2>3. ASSUME NEW g \in UnitIds, unit'[g] = unit[g] PROVE UnitInv(g)'
    <3>1. /\ ~Resetting(g) /\ IsActive(g)' = IsActive(g) /\ CpuTime(g)' = CpuTime(g) /\ UnitInv(g)
          /\ gen'[g] = gen[g] /\ up' = up /\ machine' = machine
      BY <2>2, <1>0 DEF Resetting, IsActive, CpuTime
    <3> QED
      BY <2>3, <3>1, UnitFrame
  <2>4. CASE unit' = unit
    BY <1>0, <2>2, <2>3, <2>4 DEF UsageInv
  <2>5. CASE op = "new" /\ step = "up" /\ unit' = [unit EXCEPT ![h] = [NotMade EXCEPT !.made = TRUE]]
    <3>1. unit'[h].lastUp = 0 /\ unit'[h].lastCpu = 0 /\ \A g \in UnitIds : g # h => unit'[g] = unit[g]
      BY <1>0, <2>5 DEF NotMade
    <3>2. Resetting(h)'
      BY <2>1, <2>5 DEF Begun, Resetting
    <3>3. 0 * Hertz = 0 /\ 0 <= up
      BY <1>0, TasksAssumption
    <3>4. UnitInv(h)'
      BY <2>2, <3>1, <3>2, <3>3 DEF UnitInv
    <3>5. \A g \in UnitIds : UnitInv(g)'
      BY <2>3, <3>1, <3>4
    <3> QED
      BY <2>2, <3>3, <3>5 DEF UsageInv
  <2> QED
    BY <2>1, <2>4, <2>5 DEF Begun
<1>3. ASSUME NEW h \in UnitIds, ReleaseHandler(h) PROVE UsageInv'
  <2>1. /\ call.step = "idle" /\ call' = call /\ unit' = [unit EXCEPT ![h] = NotMade]
        /\ UNCHANGED <<machine, live, gen, up, cpu, spent>>
    BY <1>3 DEF ReleaseHandler, process, clock
  <2>2. unit'[h].lastUp = 0 /\ unit'[h].lastCpu = 0 /\ ~unit'[h].made
    BY <1>0, <2>1 DEF NotMade
  <2>3. 0 * Hertz = 0 /\ 0 <= up
    BY <1>0, TasksAssumption
  <2>4. UnitInv(h)'
    BY <2>1, <2>2, <2>3 DEF UnitInv
  <2>5. ASSUME NEW g \in UnitIds, g # h PROVE UnitInv(g)'
    <3>1. /\ ~Resetting(g) /\ IsActive(g)' = IsActive(g) /\ CpuTime(g)' = CpuTime(g) /\ UnitInv(g)
          /\ gen'[g] = gen[g] /\ unit'[g] = unit[g]
      BY <2>1, <2>5, <1>0 DEF Resetting, IsActive, CpuTime
    <3> QED
      BY <2>1, <3>1, UnitFrame
  <2> QED
    BY <2>1, <2>4, <2>5, <1>0 DEF UsageInv
<1>4. CASE ReadUpTime
  <2> DEFINE now == up \div Hertz
  <2>1. /\ call.step = "up" /\ call' = [call EXCEPT !.up = now, !.at = up, !.step = "cpu"]
        /\ unit' = IF call.op = "getCoreUsage" THEN unit ELSE [unit EXCEPT ![call.h].lastUp = now]
        /\ UNCHANGED <<machine, live, gen, up, cpu, spent>>
    BY <1>4 DEF ReadUpTime, GetUpTime, process, clock
  <2>2. now \in Nat /\ now * Hertz <= up
    BY <1>0, Seconds
  <2>3. call'.up = now /\ call'.at = up /\ call'.step = "cpu" /\ call'.h = call.h /\ call'.op = call.op
    BY <1>0, <2>1 DEF CallRecords
  <2>4. /\ call'.at <= up' /\ call'.up = call'.at \div Hertz
    BY <1>0, <2>1, <2>3
  <2> HIDE DEF now
  <2>5. unit'[call.h].made
    BY <1>0, <2>1 DEF UsageInv, Units
  <2>6. ASSUME NEW h \in UnitIds, unit'[h] = unit[h] PROVE UnitInv(h)'
    <3>1. /\ Resetting(h) => Resetting(h)'
          /\ IsActive(h)' = IsActive(h) /\ CpuTime(h)' = CpuTime(h) /\ UnitInv(h) /\ gen'[h] = gen[h]
          /\ machine' = machine /\ up' = up
      BY <2>1, <2>3, <1>0 DEF Resetting, IsActive, CpuTime
    <3> QED
      BY <2>6, <3>1, UnitFrame
  <2>7. ASSUME NEW h \in UnitIds, unit'[h] # unit[h] PROVE UnitInv(h)'
    <3>1. h = call.h /\ call.op # "getCoreUsage"
      BY <2>1, <2>7, <1>0
    <3>2. unit'[h].lastUp = now /\ unit'[h].lastCpu = unit[h].lastCpu /\ unit'[h].gen = unit[h].gen
      BY <2>1, <3>1, <1>0 DEF Units
    <3>3. Resetting(h)'
      BY <2>3, <3>1 DEF Resetting
    <3>4. UnitInv(h)
      BY <1>0
    <3> QED
      BY <2>1, <2>2, <3>2, <3>3, <3>4 DEF UnitInv
  <2> QED
    BY <2>3, <2>4, <2>5, <2>6, <2>7 DEF UsageInv
<1>5. CASE (Looks \/ UnderWay) /\ ~ReadUpTime
  <2>1. call'.step \notin {"up", "cpu"} /\ call'.at \in {0, call.at}
    BY <1>5, AfterStep
  <2>2. /\ call.step # "idle" /\ UNCHANGED <<machine, live, gen, up, cpu, spent>>
        /\ call'.step = "idle" \/ call'.h = call.h
    <3>1. ASSUME NEW ok, NEW value, Return(ok, value) PROVE call'.step = "idle"
      BY <3>1, ReturnFacts DEF Idle
    <3> QED
      BY <1>5, <3>1, Proceeds DEF clock
  <2>3. call'.at <= up'
    BY <1>0, <2>1, <2>2
  <2>4. CASE KeepCpuTime
    <3>1. unit'[call.h].made
      BY <1>0, <2>2, <2>4 DEF KeepCpuTime, UsageInv, Units
    <3>2. \A h \in UnitIds : UnitInv(h)'
      BY <2>4, UnitKept
    <3> QED
      BY <2>1, <2>2, <2>3, <3>1, <3>2 DEF UsageInv
  <2>5. CASE ~KeepCpuTime
    <3>1. unit' = unit
      BY <1>5, <2>5 DEF Looks, UnderWay, StatFails, CheckActive, ReadCpuTime, ReadStat, Refuse, SpreadDone,
         ReadMask, List, Skips, SkipEntry, ListFails, ListDone, Spread, MoveFirst, Attach, PapiRead, PapiReturn
    <3>2. ASSUME NEW h \in UnitIds PROVE UnitInv(h)'
      <4>1. /\ IsActive(h)' = IsActive(h) /\ CpuTime(h)' = CpuTime(h) /\ UnitInv(h)
            /\ gen'[h] = gen[h] /\ machine' = machine /\ up' = up
        BY <2>2, <1>0 DEF IsActive, CpuTime
      <4>2. CASE StatFails /\ h = call.h
        <5>1. ~IsActive(h)'
          BY <4>1, <4>2 DEF StatFails
        <5> QED
          BY <3>1, <4>1, <5>1, UnitFrame
      <4>3. CASE ~(StatFails /\ h = call.h)
        <5>1. ~Resetting(h)
          BY <1>5, <2>5, <4>3 DEF Resetting, Looks, UnderWay, StatFails, CheckActive, ReadCpuTime, ReadStat, Refuse,
             SpreadDone, ReadMask, List, Skips, SkipEntry, ListFails, ListDone, Spread, MoveFirst, Attach, PapiRead, PapiReturn
        <5> QED
          BY <3>1, <4>1, <5>1, UnitFrame
      <4> QED
        BY <4>2, <4>3
    <3>3. unit[call.h].made
      BY <2>2 DEF UsageInv
    <3> QED
      BY <2>1, <2>2, <2>3, <3>1, <3>2, <3>3 DEF UsageInv
  <2> QED
    BY <2>4, <2>5
<1>6. CASE UNCHANGED tasksVars
  <2>1. UNCHANGED <<machine, live, gen, up, cpu, spent, unit, call>>
    BY <1>6 DEF tasksVars, process, clock
  <2>2. ASSUME NEW h \in UnitIds PROVE UnitInv(h)'
    <3>1. /\ IsActive(h)' = IsActive(h) /\ CpuTime(h)' = CpuTime(h) /\ UnitInv(h) /\ Resetting(h)' = Resetting(h)
      BY <2>1, <1>0 DEF IsActive, CpuTime, Resetting
    <3> QED
      BY <2>1, <3>1, UnitFrame
  <2> QED
    BY <2>1, <2>2 DEF UsageInv
<1> QED
  BY <1>1, <1>2, <1>3, <1>4, <1>5, <1>6, NextCases

-----------------------------------------------------------------------------
\* Whole seconds between two times leave out less than a second.
LEMMA WithinASecond ==
  ASSUME NEW w \in Nat, w >= 1, NEW ticks \in Int, NEW now \in Nat, NEW at \in Nat, NEW last \in Nat,
         at <= now, ticks <= w * (now - last * Hertz)
  PROVE  ticks < w * (((at \div Hertz) - last + 1) * Hertz + (now - at))
<1> DEFINE s == at \div Hertz
           d == now - last * Hertz
           e == (s - last + 1) * Hertz + (now - at)
<1>1. Hertz \in Nat /\ s \in Nat /\ at < s * Hertz + Hertz
  BY Seconds, TasksAssumption
<1> HIDE DEF s
<1>2. /\ last * Hertz \in Int /\ s * Hertz \in Int
      /\ (s - last + 1) * Hertz = s * Hertz - last * Hertz + Hertz
  <2>1. \A a, b, c \in Int : a * c \in Int /\ b * c \in Int /\ (a - b + 1) * c = a * c - b * c + c
    OBVIOUS
  <2>2. s \in Int /\ last \in Int /\ Hertz \in Int
    BY <1>1
  <2> QED
    BY <2>1, <2>2
<1>3. d \in Int /\ e \in Int /\ d + 1 <= e
  BY <1>1, <1>2
<1> HIDE DEF d, e
<1>4. w * (d + 1) <= w * e /\ w * (d + 1) = w * d + w /\ w * d \in Int /\ w * e \in Int
  <2>1. d + 1 \in Int
    BY <1>3
  <2>2. w * (d + 1) <= w * e
    BY <1>3, <2>1, TimesMonotone
  <2>3. w * (d + 1) = w * d + w
    BY <1>3, TimesNext
  <2> QED
    BY <1>3, <2>2, <2>3
<1>5. ticks <= w * d
  BY DEF d
<1>6. ticks < w * e
  BY <1>4, <1>5
<1> QED
  BY <1>6 DEF e, s

\* The property says nothing of other results.
LEMMA OtherUsage ==
  ASSUME ret'.ok # "true" \/ ret'.op # "getCoreUsage"
  PROVE  UsageWithinASecond'
  BY DEF UsageWithinASecond

\* What getCoreUsage() returns.
LEMMA UsageReturned ==
  ASSUME ProcessOK, CallerOK, GenInv, UsageInv, ReadCpuTime
  PROVE  UsageWithinASecond'
<1>0. PICK h \in UnitIds : h = call.h
  BY DEF CallerOK, CallRecords
<1> DEFINE u == unit[h]
<1>1. /\ call \in CallRecords /\ h \in UnitIds /\ call.at \in Nat /\ call.up \in Nat
      /\ call.at <= up /\ call.up = call.at \div Hertz /\ u.made /\ UnitInv(h)
  BY <1>0 DEF CallerOK, CallRecords, UsageInv, ReadCpuTime
<1>2. /\ u.lastUp \in Nat /\ u.lastCpu \in Nat /\ u.gen \in Nat /\ CpuTime(h) \in Nat /\ gen[h] \in Nat
      /\ Width(h) \in Nat /\ Width(h) >= 1 /\ up \in Nat
  BY <1>1, UnitTypes
<1>3. /\ UNCHANGED <<machine, unit>> /\ IsActive(h) /\ call.op = "getCoreUsage" /\ ~Resetting(h)
  BY <1>0 DEF ReadCpuTime, Resetting
<1>4. PICK now \in GetCpuTime(h) :
        Return("true", IF call.up > u.lastUp
                       THEN [ticks |-> now - u.lastCpu, seconds |-> call.up - u.lastUp, late |-> up - call.at]
                       ELSE [ticks |-> 0, seconds |-> 0, late |-> 0])
  BY <1>0 DEF ReadCpuTime
<1>5. /\ ret'.h = h /\ ret'.gen \in {0, gen[h]}
      /\ ret'.value = IF call.up > u.lastUp
                      THEN [ticks |-> now - u.lastCpu, seconds |-> call.up - u.lastUp, late |-> up - call.at]
                      ELSE [ticks |-> 0, seconds |-> 0, late |-> 0]
  BY <1>0, <1>4, ReturnFacts
<1>6. Width(h)' = Width(h) /\ spaces' = spaces
  BY <1>3 DEF Width, online, spaces
<1>7. SUFFICES ASSUME u.gen = ret'.gen, spaces = 0
               PROVE  /\ ret'.value.ticks >= 0
                      /\ ret'.value.seconds > 0 =>
                           ret'.value.ticks < Width(h) * ((ret'.value.seconds + 1) * Hertz + ret'.value.late)
  <2>1. Width(h)' = IF ret'.h = Pid THEN Min({Cardinality(machine.ids), Cardinality(online)})' ELSE 1
    BY <1>5 DEF Width
  <2> HIDE DEF spaces
  <2> QED
    BY <1>3, <1>5, <1>6, <1>7, <2>1, Zenon DEF UsageWithinASecond
<1>8. now = CpuTime(h)
  BY <1>4, <1>7 DEF GetCpuTime
<1>9. now - u.lastCpu >= 0 /\ now - u.lastCpu <= Width(h) * (up - u.lastUp * Hertz)
  BY <1>1, <1>3, <1>5, <1>7, <1>8 DEF UnitInv
<1>10. now - u.lastCpu < Width(h) * ((call.up - u.lastUp + 1) * Hertz + (up - call.at))
  <2>1. now - u.lastCpu \in Int
    BY <1>2, <1>8
  <2> QED
    BY <1>1, <1>2, <1>9, <2>1, WithinASecond
<1>11. CASE call.up > u.lastUp
  <2>1. ret'.value = [ticks |-> now - u.lastCpu, seconds |-> call.up - u.lastUp, late |-> up - call.at]
    BY <1>5, <1>11
  <2>2. /\ ret'.value.ticks = now - u.lastCpu /\ ret'.value.seconds = call.up - u.lastUp
        /\ ret'.value.late = up - call.at
    BY <2>1
  <2> QED
    BY <1>9, <1>10, <2>2
<1>12. CASE ~(call.up > u.lastUp)
  <2>1. ret'.value = [ticks |-> 0, seconds |-> 0, late |-> 0]
    BY <1>5, <1>12
  <2> QED
    BY <2>1
<1> QED
  BY <1>11, <1>12

\* A usage that is returned is within the bound.
LEMMA UsageResultStep ==
  ASSUME ProcessOK, CallerOK, GenInv, UsageInv, UsageWithinASecond, [TasksNext]_tasksVars
  PROVE  UsageWithinASecond'
<1>0. call \in CallRecords /\ call.op \in OpsOf[call.step]
  BY DEF CallerOK
<1>1. CASE Outside \/ UNCHANGED tasksVars
  <2>1. ret' = ret /\ machine' = machine /\ unit' = unit
    BY <1>1, OutsideFrame DEF tasksVars
  <2> QED
    BY <2>1 DEF UsageWithinASecond, online, spaces
<1>2. CASE Begins \/ (\E h \in UnitIds : ReleaseHandler(h))
  <2>1. ret' = Nothing
    BY <1>2 DEF Begins, Begun, ReleaseHandler
  <2> QED
    BY <2>1, OtherUsage DEF Nothing
<1>3. ASSUME NEW ok, NEW value, Return(ok, value), ok # "true" \/ call.op # "getCoreUsage"
      PROVE  UsageWithinASecond'
  BY <1>3, ReturnFacts, OtherUsage
<1>4. CASE ret' = ret /\ call.step # "idle"
  BY <1>4, OtherUsage DEF GenInv
<1>5. CASE CheckActive
  <2>1. \/ \E ok \in {"thrown", "false"} : Return(ok, 0)
        \/ ret' = ret /\ call.step # "idle"
    BY <1>5 DEF CheckActive
  <2> QED
    BY <1>3, <1>4, <2>1
<1>6. CASE KeepCpuTime \/ ReadStat \/ Refuse \/ ListFails \/ SpreadDone \/ MoveFirst \/ ReadMask \/ Attach \/ PapiReturn
  <2>1. call.op # "getCoreUsage"
    <3>1. KeepCpuTime => call.op # "getCoreUsage"
      BY DEF KeepCpuTime
    <3>2. ASSUME ~KeepCpuTime PROVE call.op # "getCoreUsage"
      <4>1. call.step \in {"stat", "refuse", "look", "spread", "first", "mask", "attach", "alive"}
        BY <1>6, <3>2 DEF ReadStat, Refuse, ListFails, SpreadDone, MoveFirst, ReadMask, Attach, PapiReturn
      <4> QED
        BY <4>1, <1>0, OpsOfStep DEF Spreads, Counts
    <3> QED
      BY <3>1, <3>2
  <2>2. \/ \E ok, value : Return(ok, value)
        \/ ret' = ret /\ call.step # "idle"
    BY <1>6 DEF KeepCpuTime, ReadStat, Refuse, ListFails, SpreadDone, MoveFirst, ReadMask, Attach, PapiReturn
  <2> QED
    BY <1>3, <1>4, <2>1, <2>2
<1>7. CASE StatFails \/ ReadUpTime \/ List \/ Skips \/ ListDone \/ Spread \/ PapiRead
  <2>1. ret' = ret /\ call.step # "idle"
    BY <1>7 DEF StatFails, ReadUpTime, List, Skips, SkipEntry, ListDone, Spread, PapiRead
  <2> QED
    BY <1>4, <2>1
<1> QED
  BY <1>1, <1>2, <1>5, <1>6, <1>7, UsageReturned, NextCases DEF Looks, UnderWay

-----------------------------------------------------------------------------
\* The handlers at first: nothing has run, and nothing has been read.
LEMMA UnitInit ==
  ASSUME TasksInit
  PROVE  /\ unit \in [UnitIds -> Units]
         /\ \A h \in UnitIds : unit[h].gen <= gen[h] /\ unit[h].lastUp = 0 /\ unit[h].lastCpu = 0
<1>1. /\ machine \in Machines /\ live \subseteq machine.ids
      /\ gen = [t \in Tids |-> IF t \in live THEN 1 ELSE 0]
  BY DEF TasksInit
<1>2. \A h \in UnitIds : gen[h] \in {0, 1}
  BY <1>1, MachineFacts
<1>3. NotMade = [made |-> FALSE, lastUp |-> 0, lastCpu |-> 0, gen |-> 0]
  BY DEF NotMade
<1>4. CASE unit = [h \in UnitIds |-> NotMade]
  BY <1>2, <1>3, <1>4 DEF Units
<1>5. CASE unit = [h \in UnitIds |-> [NotMade EXCEPT !.made = TRUE, !.gen = gen[h]]]
  <2>1. NotMade \in Units /\ NotMade.lastUp = 0 /\ NotMade.lastCpu = 0
    BY <1>3 DEF Units
  <2>2. ASSUME NEW h \in UnitIds
        PROVE  unit[h] \in Units /\ unit[h].gen <= gen[h] /\ unit[h].lastUp = 0 /\ unit[h].lastCpu = 0
    <3>1. gen[h] \in Nat /\ gen[h] <= gen[h]
      BY <1>2
    <3>2. unit[h] = [NotMade EXCEPT !.made = TRUE, !.gen = gen[h]]
      BY <1>5
    <3> QED
      BY <2>1, <3>1, <3>2 DEF Units
  <2>3. unit = [h \in UnitIds |-> unit[h]]
    BY <1>5
  <2> QED
    BY <2>2, <2>3
<1> QED
  BY <1>4, <1>5 DEF TasksInit

\* The invariant holds before the first handler.
LEMMA TasksInvInit == TasksInit => TasksInv
<1> SUFFICES ASSUME TasksInit PROVE TasksInv
  OBVIOUS
<1>1. /\ machine \in Machines /\ live \subseteq machine.ids /\ Pid \in live
      /\ gen = [t \in Tids |-> IF t \in live THEN 1 ELSE 0]
      /\ aff = [t \in Tids |-> online] /\ nice = [t \in Tids |-> 0]
      /\ up = 0 /\ cpu = [t \in Tids \ {Pid} |-> 0] /\ spent = 0 /\ counted = 0
      /\ call = Idle /\ ret = Nothing /\ base = 0
  BY DEF TasksInit
<1>2. machine.ids \subseteq Tids /\ online \in Sets /\ Pid \in Tids /\ Tid \in Tids /\ UnitIds \subseteq Tids
  BY <1>1, MachineFacts
<1>3. ProcessOK
  <2>1. gen \in [Tids -> Nat] /\ gen[Pid] >= 1 /\ \A t \in live : gen[t] >= 1
    BY <1>1, <1>2
  <2>2. aff \in [Tids -> Sets] /\ nice \in [Tids -> Int] /\ cpu \in [Tids \ {Pid} -> Nat]
    BY <1>1, <1>2
  <2> QED
    BY <1>1, <2>1, <2>2 DEF ProcessOK
<1>4. /\ papi \in [available : {"unset", "yes", "no"}, values : Int, old : Int, gen : Nat]
      /\ papi.available # "yes"
  <2>1. papi = NoCounters \/ papi = [NoCounters EXCEPT !.available = "no", !.gen = 1]
    BY DEF TasksInit
  <2>2. NoCounters = [available |-> "unset", values |-> 0, old |-> 0, gen |-> 0]
    BY DEF NoCounters
  <2>3. /\ NoCounters \in [available : {"unset", "yes", "no"}, values : Int, old : Int, gen : Nat]
        /\ NoCounters.available = "unset"
    BY <2>2
  <2>4. CASE papi = [NoCounters EXCEPT !.available = "no", !.gen = 1]
    <3>1. papi.available = "no"
      BY <2>2, <2>4
    <3>2. papi \in [available : {"unset", "yes", "no"}, values : Int, old : Int, gen : Nat]
      <4>1. ASSUME NEW r \in [available : {"unset", "yes", "no"}, values : Int, old : Int, gen : Nat]
            PROVE  [r EXCEPT !.available = "no", !.gen = 1]
                     \in [available : {"unset", "yes", "no"}, values : Int, old : Int, gen : Nat]
        OBVIOUS
      <4> QED
        BY <2>3, <2>4, <4>1
    <3> QED
      BY <3>1, <3>2
  <2> QED
    BY <2>1, <2>3, <2>4
<1>5. CallerOK
  <2>1. MembersOK
    BY <1>1, <1>4, UnitInit DEF MembersOK
  <2>2. call \in CallRecords /\ call.op = "none" /\ call.step = "idle" /\ ret.h = Pid /\ ret.gen = 0
    BY <1>1 DEF Idle, Nothing, CallRecords, Ops, UnitIds, Steps, Args
  <2>3. "none" \in OpsOf["idle"]
    BY OpsOfStep DEF Ops
  <2> QED
    BY <2>1, <2>2, <2>3 DEF CallerOK, UnitIds
<1>6. call.step = "idle" /\ call.gen = 0 /\ call.h = Pid /\ call.at = 0 /\ ret.op = "none" /\ ret.gen = 0 /\ ret.h = Pid
  BY <1>1 DEF Idle, Nothing
<1>7. GenInv
  <2>1. gen[Pid] \in Nat
    BY <1>1, <1>2
  <2> QED
    BY <1>6, <2>1, UnitInit DEF GenInv
<1>8. SpreadInv /\ ReachedInv /\ CountInv /\ UsageWithinASecond
  BY <1>4, <1>6 DEF SpreadInv, ReachedInv, CountInv, UsageWithinASecond, Spreads
<1>9. ASSUME NEW h \in UnitIds PROVE UnitInv(h)
  <2>1. unit[h].lastUp = 0 /\ unit[h].lastCpu = 0 /\ CpuTime(h) = 0
    BY <1>1, <1>2, UnitInit DEF CpuTime, UnitIds
  <2>2. Hertz \in Nat /\ Width(h) \in Nat
    BY <1>3, <1>5, UnitTypes
  <2>3. up - unit[h].lastUp * Hertz = 0 /\ unit[h].lastUp * Hertz = 0 /\ CpuTime(h) - unit[h].lastCpu = 0
    BY <1>1, <2>1, <2>2
  <2>4. Width(h) * 0 = 0
    BY <2>2
  <2> QED
    BY <1>1, <2>1, <2>3, <2>4 DEF UnitInv
<1>10. UsageInv
  BY <1>1, <1>6, <1>9 DEF UsageInv
<1> QED
  BY <1>3, <1>5, <1>7, <1>8, <1>10 DEF TasksInv

\* Every step of the library, the threads and the kernel keeps the invariant.
LEMMA TasksInvStep == TasksInv /\ [TasksNext]_tasksVars => TasksInv'
  BY ProcessStep, CallerStep, GenStep, SpreadStep, ReachedStep, CountStep, UsageStep, UsageResultStep DEF TasksInv

\* The inductive invariant holds of every behaviour of the handlers and the
\* process (task-linux.cpp).
THEOREM TasksInvariant == TasksSpec => []TasksInv
<1>1. TasksInit => TasksInv
  BY TasksInvInit
<1>2. TasksInv /\ [TasksNext]_tasksVars => TasksInv'
  BY TasksInvStep
<1> QED
  BY <1>1, <1>2, PTL DEF TasksSpec

\* A move or a change of priority that succeeds has reached every thread of
\* the process that it can know, whatever threads come and go meanwhile and in
\* whatever order they are listed; getPriority() then says what was set, and
\* getVirtualCoreIds() the cores as they are, if the first ones are online.
THEOREM SpreadReachesAll == TasksSpec => []EveryThreadReached
<1>1. TasksInv => EveryThreadReached
  <2> SUFFICES ASSUME TasksInv PROVE EveryThreadReached
    OBVIOUS
  <2>1. ASSUME ret.op \in Spreads, ret.ok = "true", ret.h = Pid, NEW t \in Reached
        PROVE  Has(t, ret.op, ret.value)
    BY <2>1 DEF TasksInv, ReachedInv, Reached
  <2>2. ASSUME ret.op = "move", ret.ok = "true", ret.h = Pid, NEW t \in Reached PROVE aff[t] = ret.value
    BY <2>1, <2>2 DEF Has, Spreads
  <2>3. ASSUME ret.op = "setPriority", ret.ok = "true", ret.h = Pid, NEW t \in Reached
        PROVE  PriorityOf(nice[t]) = Max({ret.value, 1})
    <3>1. nice[t] = NiceOf(ret.value)
      BY <2>1, <2>3 DEF Has, Spreads
    <3>2. ret.value \in InRange
      BY <2>3 DEF TasksInv, ReachedInv
    <3> QED
      BY <3>1, <3>2, PriorityIsKept
  <2>4. ASSUME ret.op = "getVirtualCoreIds", ret.ok = "true", online = 0..(Cardinality(online) - 1)
        PROVE  ret.value.ids = ret.value.mask
    <3>1. /\ ret.value.ids = {i \in 0..(Cardinality(online) - 1) : i \in ret.value.mask}
          /\ ret.value.mask \subseteq online
      BY <2>4 DEF TasksInv, ReachedInv
    <3> HIDE DEF online
    <3> QED
      BY <2>4, <3>1
  <2> QED
    BY <2>2, <2>3, <2>4 DEF EveryThreadReached
<1> QED
  BY <1>1, TasksInvariant, PTL

\* The core usage of getCoreUsage() is right within the ticks of one second
\* and those that pass between its two reads, for any tick length, number of
\* cores and threads, and history of the task and of the resets.
THEOREM UsageIsWithinASecond == TasksSpec => []UsageWithinASecond
<1>1. TasksInv => UsageWithinASecond
  BY DEF TasksInv
<1> QED
  BY <1>1, TasksInvariant, PTL

\* No instruction is lost or counted twice between two calls of
\* getAndResetInstructions(), although the process runs meanwhile.
THEOREM NoInstructionIsLost == TasksSpec => []InstructionsNotLost
<1>1. TasksInv => InstructionsNotLost
  BY DEF TasksInv, CountInv, InstructionsNotLost
<1> QED
  BY <1>1, TasksInvariant, PTL
==============================================================================
