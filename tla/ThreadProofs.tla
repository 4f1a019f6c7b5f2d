----------------------------- MODULE ThreadProofs -----------------------------
(***************************************************************************)
(* Proofs about the two users of the classes Thread and Monitor.           *)
(*                                                                         *)
(* EnergyLifecycle, for any number of calls of init(): a refresher does    *)
(* not sleep through the order to stop, and one stop ends one refresher.   *)
(*                                                                         *)
(* Utilization, for any number of kernel threads: the thread that is moved *)
(* is the one that was started, and it spins until it is reset.            *)
(***************************************************************************)
EXTENDS EnergyLifecycle, Utilization, TLAPS

\* What the constructor has done so far, and that the owner only joins the
\* refresher of a CPUs counter that exists.
Progress ==
    /\ call = "cpus" => inits["cpus"] = 0
    /\ call \in {"cpus", "startCpus", "memory"} => inits["memory"] = 0
    /\ call = "joining" => "cpus" \in exists
    /\ "cpus" \in exists => inits["cpus"] > 0

TInv == TypeOK /\ Progress

\* A refresher created by init() fits the threads' type: its index is new.
LEMMA InitCounterType ==
    ASSUME TypeOK, NEW c \in Counters, NEW start \in Starting,
           inits[c] < MaxInits, InitCounter(c, start)
    PROVE  /\ inits' \in [Counters -> 0..MaxInits]
           /\ inits'[c] = inits[c] + 1
           /\ \A d \in Counters : d # c => inits'[d] = inits[d]
           /\ th' \in [Threads -> {"none", "created", "enter", "refresh", "leaving", "ended"}
                                    \cup Waiting]
           /\ \A t \in Threads : th'[t] = "none" <=> t[2] > inits'[Owner(t)]
           /\ call' = start
<1>1. inits \in [Counters -> 0..MaxInits] /\ inits[c] \in 0..MaxInits /\ MaxInits \in Nat
  BY MaxInitsAssumption DEF TypeOK
<1>2. inits' = [inits EXCEPT ![c] = inits[c] + 1] /\ call' = start
  BY DEF InitCounter
<1>3. inits' \in [Counters -> 0..MaxInits]
  BY <1>1, <1>2
<1>4. inits'[c] = inits[c] + 1 /\ \A d \in Counters : d # c => inits'[d] = inits[d]
  BY <1>1, <1>2
<1>5. <<c, inits[c] + 1>> \in Threads
  BY <1>1 DEF Threads
<1>6. th' = [th EXCEPT ![<<c, inits[c] + 1>>] = "created"]
  BY DEF InitCounter
<1>7. th \in [Threads -> {"none", "created", "enter", "refresh", "leaving", "ended"} \cup Waiting]
  BY DEF TypeOK
<1>8. th' \in [Threads -> {"none", "created", "enter", "refresh", "leaving", "ended"} \cup Waiting]
  BY <1>6, <1>7
<1>9. ASSUME NEW t \in Threads PROVE th'[t] = "none" <=> t[2] > inits'[Owner(t)]
  <2>1. PICK d \in Counters, n \in 1..MaxInits : t = <<d, n>>
    BY DEF Threads
  <2>2. th[t] = "none" <=> n > inits[d]
    BY <2>1 DEF TypeOK, Owner
  <2>3. inits[d] \in 0..MaxInits /\ n \in Nat
    BY <1>1, <2>1
  <2>4. CASE t = <<c, inits[c] + 1>>
    <3>1. d = c /\ n = inits[c] + 1
      BY <2>1, <2>4
    <3>2. th'[t] = "created"
      BY <1>5, <1>6, <1>7, <2>4
    <3>3. ~(n > inits'[d])
      BY <1>1, <1>4, <3>1
    <3> QED
      BY <2>1, <3>2, <3>3 DEF Owner
  <2>5. CASE t # <<c, inits[c] + 1>>
    <3>1. th'[t] = th[t]
      BY <1>6, <1>7, <2>5
    <3>2. n > inits'[d] <=> n > inits[d]
      BY <1>1, <1>4, <2>1, <2>3, <2>5
    <3> QED
      BY <2>1, <2>2, <3>1, <3>2 DEF Owner
  <2> QED
    BY <2>4, <2>5
<1> QED
  BY <1>2, <1>3, <1>4, <1>8, <1>9

\* A step of a refresher keeps the threads' type; it neither creates nor
\* forgets a thread.
LEMMA StepType ==
    ASSUME TypeOK, NEW t \in Threads, NEW from, NEW to, Step(t, from, to),
           from # "none", UNCHANGED inits,
           to \in {"created", "enter", "refresh", "leaving", "ended"} \cup Waiting
    PROVE  /\ th' \in [Threads -> {"none", "created", "enter", "refresh", "leaving", "ended"}
                                    \cup Waiting]
           /\ \A u \in Threads : th'[u] = "none" <=> u[2] > inits'[Owner(u)]
<1>1. th \in [Threads -> {"none", "created", "enter", "refresh", "leaving", "ended"} \cup Waiting]
  BY DEF TypeOK
<1>2. th' = [th EXCEPT ![t] = to] /\ th[t] = from
  BY DEF Step
<1>3. to # "none"
  BY DEF Waiting
<1>4. ASSUME NEW u \in Threads PROVE th'[u] = "none" <=> th[u] = "none"
  BY <1>1, <1>2, <1>3
<1> QED
  BY <1>1, <1>2, <1>4 DEF TypeOK

\* notifyAll() only wakes threads.
LEMMA NotifyAllType ==
    ASSUME TypeOK, NEW c \in Counters, NotifyAll(c), UNCHANGED inits
    PROVE  /\ th' \in [Threads -> {"none", "created", "enter", "refresh", "leaving", "ended"}
                                    \cup Waiting]
           /\ \A u \in Threads : th'[u] = "none" <=> u[2] > inits'[Owner(u)]
           /\ predicate' \in [Counters -> BOOLEAN]
<1>1. \A u \in Threads : th'[u] = "none" <=> th[u] = "none"
  BY DEF NotifyAll, TypeOK
<1>2. predicate' \in [Counters -> BOOLEAN]
  BY Zenon DEF NotifyAll, TypeOK
<1> QED
  BY <1>1, <1>2 DEF NotifyAll, TypeOK, Waiting

\* Every step keeps the types and the progress facts.
LEMMA TInvStep == TInv /\ [Next]_vars => TInv'
<1> SUFFICES ASSUME TInv, [Next]_vars PROVE TInv'
  OBVIOUS
<1>0. TypeOK /\ Progress /\ MaxInits \in Nat /\ MaxInits > 0
  BY MaxInitsAssumption DEF TInv
<1>a. inits["cpus"] \in 0..MaxInits /\ inits["memory"] \in 0..MaxInits
  BY <1>0 DEF TypeOK, Counters
<1>1. ASSUME NEW supported \in BOOLEAN, CreateCpus(supported) PROVE TInv'
  <2>1. CASE supported
    <3>1. InitCounter("cpus", "startCpus") /\ exists' = exists \cup {"cpus"}
          /\ predicate' = predicate /\ lost' = lost /\ call = "cpus"
      BY <1>1, <2>1 DEF CreateCpus
    <3>2. inits["cpus"] < MaxInits /\ inits["memory"] = 0 /\ inits["cpus"] = 0
      BY <1>0, <3>1 DEF Progress
    <3>b. unstarted' \in BOOLEAN
      BY <3>1 DEF InitCounter
    <3> HIDE DEF InitCounter
    <3>c. exists' \subseteq Counters /\ predicate' \in [Counters -> BOOLEAN] /\ lost' \in BOOLEAN
      BY <1>0, <3>1, Zenon DEF TypeOK, Counters
    <3>d. /\ inits' \in [Counters -> 0..MaxInits]
          /\ th' \in [Threads -> {"none", "created", "enter", "refresh", "leaving", "ended"} \cup Waiting]
          /\ \A t \in Threads : th'[t] = "none" <=> t[2] > inits'[Owner(t)]
          /\ call' \in Starting
      BY <1>0, <3>1, <3>2, InitCounterType DEF Counters, Starting
    <3>3. TypeOK'
      BY <3>b, <3>c, <3>d, Zenon DEF TypeOK
    <3>4. inits'["cpus"] = 1 /\ inits'["memory"] = 0 /\ call' = "startCpus"
      BY <1>0, <3>1, <3>2, InitCounterType DEF Counters, Starting
    <3> QED
      BY <3>1, <3>3, <3>4 DEF TInv, Progress
  <2>2. CASE ~supported
    BY <1>0, <1>1, <2>2 DEF CreateCpus, TInv, TypeOK, Progress
  <2> QED
    BY <2>1, <2>2
<1>2. ASSUME NEW supported \in BOOLEAN, CreateMemory(supported) PROVE TInv'
  <2>1. CASE supported
    <3>1. InitCounter("memory", "startMemory") /\ exists' = exists \cup {"memory"}
          /\ predicate' = predicate /\ lost' = lost /\ call = "memory"
      BY <1>2, <2>1 DEF CreateMemory
    <3>2. inits["memory"] < MaxInits /\ inits["memory"] = 0
      BY <1>0, <3>1 DEF Progress
    <3>b. unstarted' \in BOOLEAN
      BY <3>1 DEF InitCounter
    <3> HIDE DEF InitCounter
    <3>c. exists' \subseteq Counters /\ predicate' \in [Counters -> BOOLEAN] /\ lost' \in BOOLEAN
      BY <1>0, <3>1, Zenon DEF TypeOK, Counters
    <3>d. /\ inits' \in [Counters -> 0..MaxInits]
          /\ th' \in [Threads -> {"none", "created", "enter", "refresh", "leaving", "ended"} \cup Waiting]
          /\ \A t \in Threads : th'[t] = "none" <=> t[2] > inits'[Owner(t)]
          /\ call' \in Starting
      BY <1>0, <3>1, <3>2, InitCounterType DEF Counters, Starting
    <3>3. TypeOK'
      BY <3>b, <3>c, <3>d, Zenon DEF TypeOK
    <3>4. inits'["cpus"] = inits["cpus"] /\ call' = "startMemory"
      BY <1>0, <3>1, <3>2, InitCounterType DEF Counters, Starting
    <3> QED
      BY <1>0, <3>1, <3>3, <3>4 DEF TInv, Progress
  <2>2. CASE ~supported
    BY <1>0, <1>2, <2>2 DEF CreateMemory, TInv, TypeOK, Progress
  <2> QED
    BY <2>1, <2>2
<1>3. CASE RemoteInit
  <2>1. InitCounter("cpus", "reinitCpus") /\ inits["cpus"] < MaxInits
        /\ UNCHANGED <<exists, predicate, lost>> /\ "cpus" \in exists
    BY <1>3 DEF RemoteInit
  <2>b. unstarted' \in BOOLEAN
    BY <2>1 DEF InitCounter
  <2>c. exists' \subseteq Counters /\ predicate' \in [Counters -> BOOLEAN] /\ lost' \in BOOLEAN
    BY <1>0, <2>1, Zenon DEF TypeOK
  <2>d. /\ inits' \in [Counters -> 0..MaxInits]
        /\ th' \in [Threads -> {"none", "created", "enter", "refresh", "leaving", "ended"} \cup Waiting]
        /\ \A t \in Threads : th'[t] = "none" <=> t[2] > inits'[Owner(t)]
        /\ call' = "reinitCpus" /\ call' \in Starting
    BY <1>0, <2>1, InitCounterType DEF Counters, Starting
  <2>2. TypeOK'
    BY <2>b, <2>c, <2>d, Zenon DEF TypeOK
  <2>3. inits'["cpus"] > 0 /\ call' = "reinitCpus"
    BY <1>0, <1>a, <2>1, InitCounterType DEF Counters, Starting
  <2> QED
    BY <2>2, <2>3 DEF TInv, Progress
<1>4. CASE Release
  <2>1. CASE "cpus" \in exists
    <3>1. NotifyAll("cpus") /\ call' = "joining" /\ UNCHANGED <<exists, inits, unstarted, lost>>
      BY <1>4, <2>1 DEF Release
    <3>2. TypeOK'
      BY <1>0, <3>1, NotifyAllType DEF TypeOK, Counters
    <3> QED
      BY <1>0, <2>1, <3>1, <3>2 DEF TInv, Progress
  <2>2. CASE "cpus" \notin exists
    BY <1>0, <1>4, <2>2 DEF Release, TInv, TypeOK, Progress
  <2> QED
    BY <2>1, <2>2
<1>5. CASE StartReturns
  BY <1>0, <1>5 DEF StartReturns, TInv, TypeOK, Progress, Starting
<1>6. CASE JoinReturns
  BY <1>0, <1>6 DEF JoinReturns, TInv, TypeOK, Progress
<1>7. ASSUME NEW t \in Threads, NEW from, NEW to, Step(t, from, to), from # "none",
             to \in {"created", "enter", "refresh", "leaving", "ended"} \cup Waiting,
             UNCHANGED <<call, exists, inits, unstarted>>,
             predicate' \in [Counters -> BOOLEAN], lost' \in BOOLEAN
      PROVE  TInv'
  <2>1. UNCHANGED inits
    BY <1>7
  <2>2. TypeOK'
    BY <1>0, <1>7, <2>1, StepType DEF TypeOK
  <2> QED
    BY <1>0, <1>7, <2>2 DEF TInv, Progress
<1>8. predicate \in [Counters -> BOOLEAN] /\ lost \in BOOLEAN
  BY <1>0 DEF TypeOK
<1>9. ASSUME NEW t \in Threads, ThreadStep(t) \/ WakeSpuriously(t) PROVE TInv'
  <2>1. CASE Dispatch(t)
    BY <1>7, <1>8, <2>1 DEF Dispatch
  <2>2. CASE EnterWait(t)
    <3>1. predicate' \in [Counters -> BOOLEAN]
      BY <1>8, <2>2, Zenon DEF EnterWait
    <3> QED
      BY <1>7, <1>8, <2>2, <3>1 DEF EnterWait, Waiting
  <2>3. CASE Expire(t)
    BY <1>7, <1>8, <2>3 DEF Expire, Waiting
  <2>4. CASE Recheck(t)
    <3>1. predicate' \in [Counters -> BOOLEAN]
      BY <1>8, <2>4, Zenon DEF Recheck
    <3> QED
      BY <1>7, <1>8, <2>4, <3>1 DEF Recheck, Waiting
  <2>5. CASE TimedOut(t)
    <3>1. predicate' \in [Counters -> BOOLEAN] /\ lost' \in BOOLEAN
      BY <1>8, <2>5, Zenon DEF TimedOut
    <3> QED
      BY <1>7, <2>5, <3>1 DEF TimedOut
  <2>6. CASE Refresh(t)
    BY <1>7, <1>8, <2>6 DEF Refresh
  <2>7. CASE ThreadEnd(t)
    BY <1>7, <1>8, <2>7 DEF ThreadEnd
  <2>8. CASE WakeSpuriously(t)
    BY <1>7, <1>8, <2>8 DEF WakeSpuriously, Waiting
  <2> QED
    BY <1>9, <2>1, <2>2, <2>3, <2>4, <2>5, <2>6, <2>7, <2>8 DEF ThreadStep
<1>12. CASE RemoteInitFails
  BY <1>0, <1>12 DEF RemoteInitFails, TInv, TypeOK, Progress
<1>13. CASE JoinUnstarted
  BY <1>0, <1>13 DEF JoinUnstarted, TInv, TypeOK, Progress
<1>10. ASSUME NEW t \in Threads, UseAfterFree(t) PROVE TInv'
  BY <1>0, <1>10 DEF UseAfterFree, TInv, TypeOK, Progress
<1>11. CASE UNCHANGED vars
  BY <1>0, <1>11 DEF vars, TInv, TypeOK, Progress
<1> QED
  BY <1>1, <1>2, <1>3, <1>4, <1>5, <1>6, <1>9, <1>10, <1>11, <1>12, <1>13 DEF Next, OwnerReturns

\* The initial state has the types and the progress facts.
LEMMA TInvInit == Init => TInv
<1> SUFFICES ASSUME Init PROVE TInv
  OBVIOUS
<1>1. \A t \in Threads : th[t] = "none" <=> t[2] > inits[Owner(t)]
  <2> SUFFICES ASSUME NEW t \in Threads PROVE th[t] = "none" /\ t[2] > inits[Owner(t)]
    OBVIOUS
  <2>1. PICK d \in Counters, n \in 1..MaxInits : t = <<d, n>>
    BY DEF Threads
  <2> QED
    BY <2>1, MaxInitsAssumption DEF Init, Owner
<1>2. predicate \in [Counters -> BOOLEAN] /\ inits \in [Counters -> 0..MaxInits]
      /\ inits["cpus"] = 0 /\ inits["memory"] = 0
  BY MaxInitsAssumption DEF Init, Counters
<1> QED
  BY <1>1, <1>2 DEF Init, TInv, TypeOK, Progress

\* The Energy object and its refreshers keep their types, whatever the number
\* of init() calls.
THEOREM TypeCorrect == Spec => []TypeOK
<1>1. TInv => TypeOK
  BY DEF TInv
<1> QED
  BY <1>1, TInvInit, TInvStep, PTL DEF Spec

-----------------------------------------------------------------------------
(* No refresher sleeps through a stop.                                     *)

\* A step in which no predicate becomes true, no thread of a counter whose
\* predicate stays true falls asleep, and no awake waiter is forgotten keeps
\* the invariant.
LEMMA AwakeStaysAwake ==
    ASSUME NoSleepThroughStop,
           \A c \in Counters : predicate'[c] => predicate[c],
           \A t \in Threads : predicate'[Owner(t)] /\ th'[t] = "blocked" => th[t] = "blocked",
           \A t \in Threads : predicate'[Owner(t)] /\ th[t] \in {"woken", "expired"}
                                => th'[t] \in {"woken", "expired"}
    PROVE  NoSleepThroughStop'
<1> SUFFICES ASSUME NEW t \in Threads, predicate'[Owner(t)], th'[t] = "blocked"
             PROVE  \E u \in Threads : Owner(u) = Owner(t) /\ th'[u] \in {"woken", "expired"}
  BY Zenon DEF NoSleepThroughStop
<1>1. Owner(t) \in Counters
  BY DEF Owner, Threads
<1>2. predicate[Owner(t)] /\ th[t] = "blocked"
  BY <1>1
<1>3. PICK u \in Threads : Owner(u) = Owner(t) /\ th[u] \in {"woken", "expired"}
  BY <1>2 DEF NoSleepThroughStop
<1>4. th'[u] \in {"woken", "expired"}
  BY <1>3
<1> QED
  BY <1>3, <1>4

\* Creating a refresher disturbs no waiter: its slot held no thread before.
LEMMA InitCounterAwake ==
    ASSUME TInv, NoSleepThroughStop, NEW c \in Counters, NEW start \in Starting,
           inits[c] < MaxInits, InitCounter(c, start), UNCHANGED predicate
    PROVE  NoSleepThroughStop'
<1>1. TypeOK /\ inits[c] \in 0..MaxInits /\ MaxInits \in Nat
  BY MaxInitsAssumption DEF TInv, TypeOK
<1>2. <<c, inits[c] + 1>> \in Threads
  BY <1>1 DEF Threads
<1>3. th[<<c, inits[c] + 1>>] = "none"
  BY <1>1, <1>2 DEF TypeOK, Owner
<1>4. th' = [th EXCEPT ![<<c, inits[c] + 1>>] = "created"]
  BY DEF InitCounter
<1>5. \A t \in Threads : th'[t] = th[t] \/ (th[t] = "none" /\ th'[t] = "created")
  BY <1>1, <1>2, <1>3, <1>4 DEF TypeOK
<1> QED
  BY <1>5, AwakeStaysAwake

\* Every step keeps the invariant: only notifyAll() sets the predicate, and it
\* wakes everyone; whoever gets the mutex clears the predicate.
LEMMA NoSleepStep == TInv /\ NoSleepThroughStop /\ [Next]_vars => NoSleepThroughStop'
<1> SUFFICES ASSUME TInv, NoSleepThroughStop, [Next]_vars PROVE NoSleepThroughStop'
  OBVIOUS
<1>0. TypeOK /\ Progress /\ MaxInits \in Nat /\ MaxInits > 0
  BY MaxInitsAssumption DEF TInv
<1>t. \A t \in Threads : Owner(t) \in Counters
  BY DEF Owner, Threads
<1>th. DOMAIN th = Threads /\ predicate \in [Counters -> BOOLEAN]
  BY <1>0 DEF TypeOK
<1>u. ASSUME UNCHANGED <<th, predicate>> PROVE NoSleepThroughStop'
  BY <1>u, AwakeStaysAwake
<1>1. ASSUME NEW supported \in BOOLEAN, CreateCpus(supported) PROVE NoSleepThroughStop'
  <2>1. CASE supported
    <3>1. InitCounter("cpus", "startCpus") /\ predicate' = predicate /\ inits["cpus"] < MaxInits
      BY <1>0, <1>1, <2>1 DEF CreateCpus, Progress
    <3> QED
      BY <3>1, InitCounterAwake DEF Counters, Starting
  <2>2. CASE ~supported
    BY <1>1, <1>u, <2>2 DEF CreateCpus
  <2> QED
    BY <2>1, <2>2
<1>2. ASSUME NEW supported \in BOOLEAN, CreateMemory(supported) PROVE NoSleepThroughStop'
  <2>1. CASE supported
    <3>1. InitCounter("memory", "startMemory") /\ predicate' = predicate
          /\ inits["memory"] < MaxInits
      BY <1>0, <1>2, <2>1 DEF CreateMemory, Progress
    <3> QED
      BY <3>1, InitCounterAwake DEF Counters, Starting
  <2>2. CASE ~supported
    BY <1>2, <1>u, <2>2 DEF CreateMemory
  <2> QED
    BY <2>1, <2>2
<1>3. CASE RemoteInit
  BY <1>3, InitCounterAwake DEF RemoteInit, Counters, Starting
<1>4. CASE Release
  <2>1. CASE "cpus" \in exists
    <3>1. NotifyAll("cpus")
      BY <1>4, <2>1 DEF Release
    <3>2. \A t \in Threads : th'[t] = IF Owner(t) = "cpus" /\ th[t] = "blocked"
                                      THEN "woken" ELSE th[t]
      BY <3>1 DEF NotifyAll
    <3>3. predicate' = [predicate EXCEPT !["cpus"] = TRUE]
      BY <3>1 DEF NotifyAll
    <3> SUFFICES ASSUME NEW t \in Threads, predicate'[Owner(t)], th'[t] = "blocked"
                 PROVE  \E u \in Threads : Owner(u) = Owner(t) /\ th'[u] \in {"woken", "expired"}
      BY Zenon DEF NoSleepThroughStop
    <3>4. Owner(t) # "cpus" /\ th[t] = "blocked"
      BY <3>2
    <3>5. predicate[Owner(t)]
      BY <1>t, <1>th, <3>3, <3>4, Zenon
    <3>6. PICK u \in Threads : Owner(u) = Owner(t) /\ th[u] \in {"woken", "expired"}
      BY <3>4, <3>5 DEF NoSleepThroughStop
    <3>7. th'[u] \in {"woken", "expired"}
      BY <3>2, <3>6
    <3> QED
      BY <3>6, <3>7
  <2>2. CASE "cpus" \notin exists
    BY <1>4, <1>u, <2>2 DEF Release
  <2> QED
    BY <2>1, <2>2
<1>5. CASE StartReturns
  BY <1>5, <1>u DEF StartReturns
<1>6. CASE JoinReturns
  BY <1>6, <1>u DEF JoinReturns
<1>7. ASSUME NEW t \in Threads, NEW from, NEW to, Step(t, from, to), UNCHANGED predicate,
             to # "blocked", from \in {"woken", "expired"} => to \in {"woken", "expired"}
      PROVE  NoSleepThroughStop'
  <2>1. \A u \in Threads : th'[u] = IF u = t THEN to ELSE th[u]
    BY <1>7, <1>th DEF Step
  <2>2. th[t] = from
    BY <1>7 DEF Step
  <2> QED
    BY <1>7, <2>1, <2>2, AwakeStaysAwake
<1>8. ASSUME NEW t \in Threads, NEW from, NEW to, Step(t, from, to),
             predicate' = [predicate EXCEPT ![Owner(t)] = FALSE]
      PROVE  NoSleepThroughStop'
  <2>1. \A u \in Threads : th'[u] = IF u = t THEN to ELSE th[u]
    BY <1>8, <1>th DEF Step
  <2>2. ~predicate'[Owner(t)] /\ \A c \in Counters : predicate'[c] => predicate[c]
    BY <1>8, <1>t, <1>th, Zenon
  <2>3. \A u \in Threads : predicate'[Owner(u)] => th'[u] = th[u]
    BY <2>1, <2>2
  <2> QED
    BY <2>2, <2>3, AwakeStaysAwake
<1>9. ASSUME NEW t \in Threads, ThreadStep(t) \/ WakeSpuriously(t) PROVE NoSleepThroughStop'
  <2>1. CASE Dispatch(t)
    BY <1>7, <2>1 DEF Dispatch
  <2>2. CASE EnterWait(t)
    BY <1>8, <2>2 DEF EnterWait
  <2>3. CASE Expire(t)
    BY <1>7, <2>3 DEF Expire
  <2>4. CASE Recheck(t)
    BY <1>8, <2>4 DEF Recheck
  <2>5. CASE TimedOut(t)
    BY <1>8, <2>5 DEF TimedOut
  <2>6. CASE Refresh(t)
    BY <1>7, <2>6 DEF Refresh
  <2>7. CASE ThreadEnd(t)
    BY <1>7, <2>7 DEF ThreadEnd
  <2>8. CASE WakeSpuriously(t)
    BY <1>7, <2>8 DEF WakeSpuriously
  <2> QED
    BY <1>9, <2>1, <2>2, <2>3, <2>4, <2>5, <2>6, <2>7, <2>8 DEF ThreadStep
<1>10. ASSUME NEW t \in Threads, UseAfterFree(t) PROVE NoSleepThroughStop'
  BY <1>10, <1>u DEF UseAfterFree
<1>12. CASE RemoteInitFails \/ JoinUnstarted
  BY <1>12, <1>u DEF RemoteInitFails, JoinUnstarted
<1>11. CASE UNCHANGED vars
  BY <1>11, <1>u DEF vars
<1> QED
  BY <1>1, <1>2, <1>3, <1>4, <1>5, <1>6, <1>9, <1>10, <1>11, <1>12 DEF Next, OwnerReturns

\* Monitor::notifyAll() and timedWait() lose no wakeup: while a stop is
\* pending, no refresher sleeps unless one that will see it is awake.
THEOREM NoSleepInvariant == Spec => []NoSleepThroughStop
<1>1. Init => NoSleepThroughStop
  BY DEF Init, NoSleepThroughStop
<1> QED
  BY <1>1, TInvInit, TInvStep, NoSleepStep, PTL DEF Spec

-----------------------------------------------------------------------------
(* One stop ends one refresher.                                            *)

\* A predicate is only set by the destructor; the refresher that ends has
\* cleared it, and is alone; the counter is freed when the last has ended.
StopInv ==
    /\ \A c \in Counters : predicate[c] => call \in Stopped
    /\ \A t \in Threads : th[t] \in Ending => call \in Stopped /\ ~predicate[Owner(t)]
    /\ \A t, u \in Threads :
         Owner(t) = Owner(u) /\ th[t] \in Ending /\ th[u] \in Ending => t = u
    /\ "cpus" \notin exists /\ inits["cpus"] > 0 =>
         call \in {"deleted", "crashed"} /\ th[<<"cpus", inits["cpus"]>>] = "ended"

\* Every step keeps it: the waiter that leaves is the one that clears the
\* predicate, and nothing sets it again.
LEMMA StopStep == TInv /\ StopInv /\ [Next]_vars => StopInv'
<1> SUFFICES ASSUME TInv, StopInv, [Next]_vars
             PROVE  StopInv'
  OBVIOUS
<1>0. TypeOK /\ Progress /\ MaxInits \in Nat
  BY MaxInitsAssumption DEF TInv
<1>th. DOMAIN th = Threads /\ \A t \in Threads : Owner(t) \in Counters
  BY <1>0 DEF TypeOK, Threads, Owner
<1>i. ASSUME NEW c \in Counters, NEW start, InitCounter(c, start), inits[c] < MaxInits,
             predicate' = predicate, exists' = exists \/ exists' = exists \cup {"cpus"},
             call \notin Stopped, c = "cpus" => "cpus" \in exists', "cpus" \in exists => "cpus" \in exists',
             c # "cpus" => inits["cpus"] = 0 \/ "cpus" \in exists'
      PROVE  StopInv'
  <2>1. <<c, inits[c] + 1>> \in Threads /\ th' = [th EXCEPT ![<<c, inits[c] + 1>>] = "created"]
    <3>1. inits[c] \in 0..MaxInits
      BY <1>0 DEF TypeOK
    <3> QED
      BY <3>1, <1>0, <1>i DEF InitCounter, Threads
  <2>2. \A t \in Threads : th'[t] \notin Ending
    <3>1. \A t \in Threads : th[t] \notin Ending
      BY <1>i DEF StopInv
    <3> QED
      BY <2>1, <3>1, <1>th DEF Ending
  <2>3. \A d \in Counters : ~predicate'[d]
    BY <1>i DEF StopInv
  <2>4. "cpus" \in exists' \/ inits'["cpus"] = 0
    BY <1>0, <1>i DEF InitCounter, TypeOK, Counters
  <2> QED
    BY <2>2, <2>3, <2>4 DEF StopInv
<1>u. ASSUME \A t \in Threads : th[t] \in Ending <=> th'[t] \in Ending,
             \A t \in Threads : th[t] = "ended" => th'[t] = "ended",
             \A d \in Counters : predicate'[d] => predicate[d],
             call \in Stopped => call' \in Stopped,
             call \in {"deleted", "crashed"} => call' \in {"deleted", "crashed"},
             UNCHANGED <<exists, inits>>
      PROVE  StopInv'
  <2>1. \A t \in Threads : th'[t] \in Ending => call' \in Stopped /\ ~predicate'[Owner(t)]
    BY <1>u, <1>th DEF StopInv
  <2>2. "cpus" \notin exists' /\ inits'["cpus"] > 0 =>
          call' \in {"deleted", "crashed"} /\ th'[<<"cpus", inits'["cpus"]>>] = "ended"
    <3>1. inits["cpus"] > 0 => <<"cpus", inits["cpus"]>> \in Threads
      BY <1>0 DEF TypeOK, Counters, Threads
    <3> QED
      BY <1>u, <3>1 DEF StopInv
  <2> QED
    BY <1>u, <2>1, <2>2 DEF StopInv
<1>1. ASSUME NEW supported \in BOOLEAN, CreateCpus(supported) PROVE StopInv'
  <2>1. CASE supported
    <3>1. call = "cpus" /\ inits["cpus"] = 0
      BY <1>0, <1>1 DEF CreateCpus, Progress
    <3> QED
      BY <1>0, <1>1, <1>i, <2>1, <3>1, MaxInitsAssumption DEF CreateCpus, Counters, Stopped
  <2>2. CASE ~supported
    BY <1>1, <1>u, <2>2 DEF CreateCpus, Stopped
  <2> QED
    BY <2>1, <2>2
<1>2. ASSUME NEW supported \in BOOLEAN, CreateMemory(supported) PROVE StopInv'
  <2>1. CASE supported
    <3>1. call = "memory" /\ inits["memory"] = 0
      BY <1>0, <1>2 DEF CreateMemory, Progress
    <3>2. "cpus" \notin exists => inits["cpus"] = 0
      <4>1. inits["cpus"] \in Nat
        BY <1>0 DEF TypeOK, Counters
      <4>2. ~(inits["cpus"] > 0) \/ "cpus" \in exists
        BY <3>1 DEF StopInv
      <4> QED
        BY <4>1, <4>2
    <3>3. InitCounter("memory", "startMemory") /\ predicate' = predicate
          /\ exists' = exists \cup {"memory"}
      BY <1>2, <2>1 DEF CreateMemory
    <3>4. <<"memory", inits["memory"] + 1>> \in Threads
          /\ th' = [th EXCEPT ![<<"memory", inits["memory"] + 1>>] = "created"]
      BY <3>1, <3>3, MaxInitsAssumption DEF InitCounter, Threads, Counters
    <3>5. \A t \in Threads : th[t] \notin Ending /\ th'[t] \notin Ending
      <4>1. \A t \in Threads : th[t] \notin Ending
        BY <3>1 DEF StopInv, Stopped
      <4> QED
        BY <4>1, <3>4, <1>th DEF Ending
    <3>6. \A d \in Counters : ~predicate'[d]
      BY <3>1, <3>3 DEF StopInv, Stopped
    <3>7. "cpus" \in exists' \/ inits'["cpus"] = 0
      BY <1>0, <3>2, <3>3 DEF InitCounter, TypeOK, Counters
    <3> QED
      BY <3>5, <3>6, <3>7 DEF StopInv
  <2>2. CASE ~supported
    BY <1>2, <1>u, <2>2 DEF CreateMemory, Stopped
  <2> QED
    BY <2>1, <2>2
<1>3. CASE RemoteInit
  BY <1>3, <1>i DEF RemoteInit, Counters, Stopped
<1>f. CASE RemoteInitFails
  BY <1>f, <1>u DEF RemoteInitFails
<1>4. CASE Release
  <2>1. CASE "cpus" \in exists
    <3>1. call = "idle" /\ call' = "joining" /\ NotifyAll("cpus") /\ UNCHANGED <<exists, inits>>
      BY <1>4, <2>1 DEF Release
    <3>2. \A t \in Threads : th[t] \notin Ending /\ th'[t] \notin Ending
      BY <3>1 DEF StopInv, Stopped, NotifyAll, Ending
    <3> QED
      BY <2>1, <3>1, <3>2 DEF StopInv, Stopped
  <2>2. CASE "cpus" \notin exists
    BY <1>4, <1>u, <2>2 DEF Release, Stopped
  <2> QED
    BY <2>1, <2>2
<1>5. CASE StartReturns
  BY <1>5, <1>u DEF StartReturns, Starting, Stopped
<1>6. CASE JoinReturns
  <2>1. /\ th[<<"cpus", inits["cpus"]>>] = "ended" /\ exists' = exists \ {"cpus"}
        /\ call' = "deleted" /\ UNCHANGED <<th, inits, predicate>>
    BY <1>6 DEF JoinReturns
  <2> QED
    BY <2>1 DEF StopInv, Stopped
<1>j. CASE JoinUnstarted
  BY <1>j, <1>u DEF JoinUnstarted, Stopped
<1>7. ASSUME NEW t \in Threads, NEW from, NEW to, Step(t, from, to),
             from # "ended", from \in Ending <=> to \in Ending,
             UNCHANGED <<call, exists, inits>>, \A d \in Counters : predicate'[d] => predicate[d]
      PROVE  StopInv'
  <2>1. \A v \in Threads : v # t => th'[v] = th[v]
    BY <1>7, <1>th DEF Step
  <2>2. th[t] = from /\ th'[t] = to
    BY <1>7, <1>th DEF Step
  <2> QED
    BY <1>7, <1>u, <2>1, <2>2
<1>8. ASSUME NEW t \in Threads, NEW from, Step(t, from, "leaving"), from \notin Ending,
             predicate[Owner(t)], predicate' = [predicate EXCEPT ![Owner(t)] = FALSE],
             UNCHANGED <<call, exists, inits>>
      PROVE  StopInv'
  <2>1. \A v \in Threads : v # t => th'[v] = th[v]
    BY <1>8, <1>th DEF Step
  <2>2. th[t] = from /\ th'[t] = "leaving" /\ Owner(t) \in exists
    BY <1>8, <1>th DEF Step
  <2>3. \A v \in Threads : Owner(v) = Owner(t) => th[v] \notin Ending
    BY <1>8 DEF StopInv
  <2>4. /\ ~predicate'[Owner(t)] /\ call \in Stopped
        /\ \A d \in Counters : predicate'[d] => predicate[d]
    <3>1. ~predicate'[Owner(t)]
      BY <1>0, <1>8, <1>th, Zenon DEF TypeOK
    <3>2. \A d \in Counters : d # Owner(t) => predicate'[d] = predicate[d]
      BY <1>0, <1>8, <1>th, Zenon DEF TypeOK
    <3>3. call \in Stopped
      BY <1>8, <1>th DEF StopInv
    <3> QED
      BY <3>1, <3>2, <3>3, Zenon
  <2>5. ASSUME NEW v \in Threads, th'[v] \in Ending
        PROVE  call' \in Stopped /\ ~predicate'[Owner(v)]
    <3>1. CASE v = t
      BY <3>1, <2>4, <1>8
    <3>2. CASE v # t
      BY <3>2, <2>1, <2>4, <2>5, <1>8, <1>th DEF StopInv
    <3> QED
      BY <3>1, <3>2
  <2>6. \A v, w \in Threads :
          Owner(v) = Owner(w) /\ th'[v] \in Ending /\ th'[w] \in Ending => v = w
    BY <2>1, <2>3 DEF StopInv
  <2>7. "cpus" \notin exists' /\ inits'["cpus"] > 0 =>
          call' \in {"deleted", "crashed"} /\ th'[<<"cpus", inits'["cpus"]>>] = "ended"
    <3> SUFFICES ASSUME "cpus" \notin exists, inits["cpus"] > 0
                 PROVE  call \in {"deleted", "crashed"} /\ th'[<<"cpus", inits["cpus"]>>] = "ended"
      BY <1>8
    <3>1. th[<<"cpus", inits["cpus"]>>] = "ended" /\ call \in {"deleted", "crashed"}
      BY DEF StopInv
    <3>2. <<"cpus", inits["cpus"]>> \in Threads
      BY <1>0 DEF TypeOK, Counters, Threads
    <3>3. <<"cpus", inits["cpus"]>> # t
      BY <2>2, <3>1, <1>8 DEF Ending
    <3> QED
      BY <3>1, <3>2, <3>3, <2>1
  <2>8. \A d \in Counters : predicate'[d] => call' \in Stopped
    BY <2>4, <1>8
  <2> QED
    BY <2>5, <2>6, <2>7, <2>8 DEF StopInv
<1>9. ASSUME NEW t \in Threads, ThreadStep(t) \/ WakeSpuriously(t) PROVE StopInv'
  <2>p. predicate' = [predicate EXCEPT ![Owner(t)] = FALSE] =>
          \A d \in Counters : predicate'[d] => predicate[d]
    BY <1>0, <1>th, Zenon DEF TypeOK
  <2>1. CASE Dispatch(t)
    BY <2>1, <1>7 DEF Dispatch, Ending
  <2>2. CASE EnterWait(t)
    <3>1. CASE predicate[Owner(t)]
      BY <2>2, <3>1, <1>8 DEF EnterWait, Ending
    <3>2. CASE ~predicate[Owner(t)]
      BY <2>2, <2>p, <3>2, <1>7 DEF EnterWait, Ending
    <3> QED
      BY <3>1, <3>2
  <2>3. CASE Expire(t)
    BY <2>3, <1>7 DEF Expire, Ending
  <2>4. CASE Recheck(t)
    <3>1. CASE predicate[Owner(t)]
      BY <2>4, <3>1, <1>8 DEF Recheck, Ending
    <3>2. CASE ~predicate[Owner(t)]
      BY <2>4, <2>p, <3>2, <1>7 DEF Recheck, Ending
    <3> QED
      BY <3>1, <3>2
  <2>5. CASE TimedOut(t)
    BY <2>5, <2>p, <1>7 DEF TimedOut, Ending
  <2>6. CASE Refresh(t)
    BY <2>6, <1>7 DEF Refresh, Ending
  <2>7. CASE ThreadEnd(t)
    BY <2>7, <1>7 DEF ThreadEnd, Ending
  <2>8. CASE WakeSpuriously(t)
    BY <2>8, <1>7 DEF WakeSpuriously, Ending
  <2> QED
    BY <1>9, <2>1, <2>2, <2>3, <2>4, <2>5, <2>6, <2>7, <2>8 DEF ThreadStep
<1>10. ASSUME NEW t \in Threads, UseAfterFree(t) PROVE StopInv'
  BY <1>10, <1>u DEF UseAfterFree, Stopped
<1>11. CASE UNCHANGED vars
  BY <1>11, <1>u DEF vars
<1> QED
  BY <1>1, <1>2, <1>3, <1>f, <1>4, <1>5, <1>6, <1>j, <1>9, <1>10, <1>11 DEF Next, OwnerReturns

\* When the counter is freed the joined refresher is the one that the stop has
\* ended, so the earlier ones are alive.
LEMMA StopInvImplies == TInv /\ StopInv => OneStopEndsOne
<1> SUFFICES ASSUME TInv, StopInv PROVE OneStopEndsOne
  OBVIOUS
<1>1. ASSUME "cpus" \notin exists, NEW t \in Threads, Owner(t) = "cpus", t[2] < inits["cpus"]
      PROVE  t \in Live
  <2>1. inits["cpus"] \in 0..MaxInits /\ t[2] \in 1..MaxInits
    BY DEF TInv, TypeOK, Counters, Threads
  <2>2. th[t] # "none"
    <3>1. ~(t[2] > inits["cpus"])
      BY <1>1, <2>1, MaxInitsAssumption
    <3> QED
      BY <1>1, <3>1 DEF TInv, TypeOK
  <2>3. <<"cpus", inits["cpus"]>> \in Threads /\ Owner(<<"cpus", inits["cpus"]>>) = "cpus"
        /\ <<"cpus", inits["cpus"]>> # t /\ inits["cpus"] > 0
    BY <1>1, <2>1, MaxInitsAssumption DEF Threads, Counters, Owner
  <2>4. th[t] \notin Ending
    BY <1>1, <2>3 DEF StopInv, Ending
  <2> QED
    BY <2>2, <2>4 DEF Live, Ending
<1> QED
  BY <1>1 DEF OneStopEndsOne, StopInv

\* However often init() is called, the destructor's notification ends the one
\* refresher it joins, and the earlier ones live on in the memory it frees.
THEOREM OneStopInvariant == Spec => []OneStopEndsOne
<1>1. Init => StopInv
  <2> SUFFICES ASSUME Init PROVE StopInv
    OBVIOUS
  <2>1. \A c \in Counters : predicate[c] = FALSE /\ inits[c] = 0
    BY DEF Init
  <2>2. \A t \in Threads : th[t] \notin Ending
    BY DEF Init, Ending
  <2> QED
    BY <2>1, <2>2 DEF StopInv, Counters
<1> QED
  BY <1>1, TInvInit, TInvStep, StopStep, StopInvImplies, PTL DEF Spec

-----------------------------------------------------------------------------
(* The spinner of a virtual core.                                           *)

Places == {"none", "created", "published", "notified", "spinning", "leaving", "ended"}
Calls  == {"idle", "test", "reset", "join", "clear", "create", "wait", "move", "deleted", "crashed"}

UtilType ==
    /\ doing \in Calls /\ then \in {"client", "maximize", "delete"}
    /\ running \in BOOLEAN /\ stop \in BOOLEAN /\ pidSet \in BOOLEAN
    /\ busy \in BOOLEAN /\ hasty \in BOOLEAN
    /\ tid \in 0..MaxThreads /\ handle \in 0..MaxThreads
    /\ spinner \in [Spinners -> Places]
    /\ joined \subseteq 0..MaxThreads /\ pinned \subseteq Spinners

\* The handshake: only the thread that start() is waiting for can still have
\* its identifiers to publish or the notification to make.
HandshakeInv ==
    /\ \A t \in Spinners : spinner[t] \in {"created", "published"} => doing = "wait" /\ t = handle
    /\ doing = "wait" => handle \in Spinners /\ (spinner[handle] # "created" => tid = handle)
    /\ pidSet => doing = "wait" /\ spinner[handle] \notin {"created", "published"}
    /\ doing = "move" => tid = handle /\ handle \in Spinners

NoneLive    == \A t \in Spinners : spinner[t] \in {"none", "ended"}
\* No thread but the one of the handle is left, and it is where S says.
OnlyHandle(S) ==
    /\ handle \in Spinners /\ spinner[handle] \in S
    /\ \A t \in Spinners \ {handle} : spinner[t] \in {"none", "ended"}
RunningFlag == running <=> handle \in Spinners /\ spinner[handle] \in {"spinning", "leaving"}

\* The thread object between maximizeUtilization() and resetUtilization(), for
\* each place of the client.
SpinInv ==
    /\ doing = "idle" /\ busy =>
         OnlyHandle({"notified", "spinning"}) /\ handle \in pinned /\ ~stop
    /\ doing \in {"test", "reset"} /\ busy => OnlyHandle({"spinning"}) /\ ~stop
    /\ doing \in {"idle", "test", "reset"} /\ ~busy => NoneLive
    /\ doing = "join" => OnlyHandle({"spinning", "leaving", "ended"}) /\ handle \notin joined
    /\ doing \in {"clear", "create", "deleted"} => NoneLive
    /\ doing = "create" => ~stop
    /\ doing \in {"wait", "move"} => OnlyHandle(Early \cup {"spinning"}) /\ ~stop
    /\ doing # "crashed"
    /\ RunningFlag

\* A handle is joined after its thread has ended.
JoinInv == \A t \in joined : spinner[t] = "ended"

UtilInv ==
    /\ UtilType
    /\ HandshakeInv
    /\ JoinInv
    /\ ~hasty => SpinInv

-----------------------------------------------------------------------------
\* 0 stands for no thread.
LEMMA ThreadsPositive == 0 \notin Spinners /\ Spinners \subseteq 0..MaxThreads
  BY UtilizationAssumption DEF Spinners

\* Every step keeps the types.
LEMMA UtilTypeStep ==
  ASSUME UtilType, [UtilNext]_utilVars
  PROVE  UtilType'
<1> USE DEF UtilType, Calls, Places
<1>1. CASE MaximizeUtilization
  BY <1>1, ThreadsPositive DEF MaximizeUtilization, NewCall, objVars
<1>2. CASE ResetUtilization
  BY <1>2, ThreadsPositive DEF ResetUtilization, NewCall, objVars
<1>3. CASE Delete
  BY <1>3, ThreadsPositive DEF Delete, NewCall, objVars
<1>4. CASE TestRunning
  BY <1>4, ThreadsPositive DEF TestRunning, objVars
<1>5. CASE ResetTest
  BY <1>5, ThreadsPositive DEF ResetTest, ReturnFromReset
<1>6. CASE ResetJoins
  <2>1. doing' \in Calls /\ busy' \in BOOLEAN
    BY <1>6 DEF ResetJoins, ReturnFromReset
  <2>2. tid' \in 0..MaxThreads /\ joined' \subseteq 0..MaxThreads
    BY <1>6, UtilizationAssumption DEF ResetJoins
  <2> QED
    BY <1>6, <2>1, <2>2 DEF ResetJoins
<1>7. CASE JoinAgain
  BY <1>7, ThreadsPositive DEF JoinAgain, objVars
<1>8. CASE ClearStop
  BY <1>8, ThreadsPositive DEF ClearStop
<1>9. CASE Create
  BY <1>9, ThreadsPositive DEF Create
<1>10. CASE WaitReturns
  BY <1>10, ThreadsPositive DEF WaitReturns
<1>11. CASE Move
  <2>1. pinned' \subseteq Spinners
    <3>1. {tid} \ {0} \subseteq Spinners
      BY UtilizationAssumption DEF Spinners
    <3> QED
      BY <1>11, <3>1 DEF Move
  <2> QED
    BY <1>11, <2>1 DEF Move, objVars
<1>12. ASSUME NEW t \in Spinners, PublishIds(t) PROVE UtilType'
  BY <1>12, ThreadsPositive DEF PublishIds, Advance
<1>13. ASSUME NEW t \in Spinners, Notify(t) PROVE UtilType'
  BY <1>13, ThreadsPositive DEF Notify, Advance
<1>14. ASSUME NEW t \in Spinners, StartRun(t) PROVE UtilType'
  BY <1>14, ThreadsPositive DEF StartRun, Advance
<1>15. ASSUME NEW t \in Spinners, LeaveRun(t) PROVE UtilType'
  BY <1>15, ThreadsPositive DEF LeaveRun, Advance, objVars
<1>16. ASSUME NEW t \in Spinners, SpinnerEnds(t) PROVE UtilType'
  BY <1>16, ThreadsPositive DEF SpinnerEnds, Advance
<1>17. ASSUME NEW t \in Spinners, SpinnerUseAfterFree(t) PROVE UtilType'
  BY <1>17, ThreadsPositive DEF SpinnerUseAfterFree, objVars
<1>18. CASE UNCHANGED utilVars
  BY <1>18 DEF utilVars, objVars
<1> QED
  BY <1>1, <1>2, <1>3, <1>4, <1>5, <1>6, <1>7, <1>8, <1>9, <1>10, <1>11, <1>12, <1>13, <1>14, <1>15, <1>16, <1>17, <1>18 DEF UtilNext, ClientStep, SpinnerStep

\* Every step preserves the handshake.
LEMMA HandshakeStep ==
  ASSUME UtilType, HandshakeInv, [UtilNext]_utilVars
  PROVE  HandshakeInv'
<1> USE DEF UtilType, HandshakeInv
<1>1. CASE MaximizeUtilization
  BY <1>1, ThreadsPositive DEF MaximizeUtilization, NewCall, objVars
<1>2. CASE ResetUtilization
  BY <1>2, ThreadsPositive DEF ResetUtilization, NewCall, objVars
<1>3. CASE Delete
  BY <1>3, ThreadsPositive DEF Delete, NewCall, objVars
<1>4. CASE TestRunning
  BY <1>4, ThreadsPositive DEF TestRunning, objVars
<1>5. CASE ResetTest
  BY <1>5, ThreadsPositive DEF ResetTest, ReturnFromReset
<1>6. CASE ResetJoins
  BY <1>6, ThreadsPositive DEF ResetJoins, ReturnFromReset
<1>7. CASE JoinAgain
  BY <1>7, ThreadsPositive DEF JoinAgain, objVars
<1>8. CASE ClearStop
  BY <1>8, ThreadsPositive DEF ClearStop
<1>9. CASE Create
  BY <1>9, ThreadsPositive DEF Create
<1>10. CASE WaitReturns
  BY <1>10, ThreadsPositive DEF WaitReturns
<1>11. CASE Move
  BY <1>11, ThreadsPositive DEF Move, objVars
<1>12. ASSUME NEW t \in Spinners, PublishIds(t) PROVE HandshakeInv'
  BY <1>12, ThreadsPositive DEF PublishIds, Advance
<1>13. ASSUME NEW t \in Spinners, Notify(t) PROVE HandshakeInv'
  BY <1>13, ThreadsPositive DEF Notify, Advance
<1>14. ASSUME NEW t \in Spinners, StartRun(t) PROVE HandshakeInv'
  BY <1>14, ThreadsPositive DEF StartRun, Advance
<1>15. ASSUME NEW t \in Spinners, LeaveRun(t) PROVE HandshakeInv'
  BY <1>15, ThreadsPositive DEF LeaveRun, Advance, objVars
<1>16. ASSUME NEW t \in Spinners, SpinnerEnds(t) PROVE HandshakeInv'
  BY <1>16, ThreadsPositive DEF SpinnerEnds, Advance
<1>17. ASSUME NEW t \in Spinners, SpinnerUseAfterFree(t) PROVE HandshakeInv'
  BY <1>17, ThreadsPositive DEF SpinnerUseAfterFree, objVars
<1>18. CASE UNCHANGED utilVars
  BY <1>18 DEF utilVars, objVars
<1> QED
  BY <1>1, <1>2, <1>3, <1>4, <1>5, <1>6, <1>7, <1>8, <1>9, <1>10, <1>11, <1>12, <1>13, <1>14, <1>15, <1>16, <1>17, <1>18 DEF UtilNext, ClientStep, SpinnerStep

\* Joined threads stay ended.
LEMMA JoinStep ==
  ASSUME UtilType, JoinInv, [UtilNext]_utilVars
  PROVE  JoinInv'
<1> USE DEF UtilType, JoinInv
<1>1. CASE MaximizeUtilization
  BY <1>1 DEF MaximizeUtilization, NewCall, objVars
<1>2. CASE ResetUtilization
  BY <1>2 DEF ResetUtilization, NewCall, objVars
<1>3. CASE Delete
  BY <1>3 DEF Delete, NewCall, objVars
<1>4. CASE TestRunning
  BY <1>4 DEF TestRunning, objVars
<1>5. CASE ResetTest
  BY <1>5 DEF ResetTest, ReturnFromReset
<1>6. CASE ResetJoins
  BY <1>6 DEF ResetJoins, ReturnFromReset
<1>7. CASE JoinAgain
  BY <1>7 DEF JoinAgain, objVars
<1>8. CASE ClearStop
  BY <1>8 DEF ClearStop
<1>9. CASE Create
  <2>1. CASE UNCHANGED <<joined, spinner>>
    BY <2>1
  <2>2. ASSUME NEW t \in Spinners, spinner[t] = "none", spinner' = [spinner EXCEPT ![t] = "created"], joined' = joined
        PROVE  JoinInv'
    BY <2>2
  <2> QED
    BY <1>9, <2>1, <2>2 DEF Create
<1>10. CASE WaitReturns
  BY <1>10 DEF WaitReturns
<1>11. CASE Move
  BY <1>11 DEF Move, objVars
<1>12. ASSUME NEW t \in Spinners, PublishIds(t) PROVE JoinInv'
  BY <1>12 DEF PublishIds, Advance
<1>13. ASSUME NEW t \in Spinners, Notify(t) PROVE JoinInv'
  BY <1>13 DEF Notify, Advance
<1>14. ASSUME NEW t \in Spinners, StartRun(t) PROVE JoinInv'
  BY <1>14 DEF StartRun, Advance
<1>15. ASSUME NEW t \in Spinners, LeaveRun(t) PROVE JoinInv'
  BY <1>15 DEF LeaveRun, Advance, objVars
<1>16. ASSUME NEW t \in Spinners, SpinnerEnds(t) PROVE JoinInv'
  BY <1>16 DEF SpinnerEnds, Advance
<1>17. ASSUME NEW t \in Spinners, SpinnerUseAfterFree(t) PROVE JoinInv'
  BY <1>17 DEF SpinnerUseAfterFree, objVars
<1>18. CASE UNCHANGED utilVars
  BY <1>18 DEF utilVars, objVars
<1> QED
  BY <1>1, <1>2, <1>3, <1>4, <1>5, <1>6, <1>7, <1>8, <1>9, <1>10, <1>11, <1>12, <1>13, <1>14, <1>15, <1>16, <1>17, <1>18 DEF UtilNext, ClientStep, SpinnerStep

\* Every step made without haste preserves SpinInv: hasty never becomes false
\* again, so SpinInv held before the step.
LEMMA SpinStep ==
  ASSUME UtilType, HandshakeInv, JoinInv, ~hasty => SpinInv, [UtilNext]_utilVars, ~hasty'
  PROVE  SpinInv'
<1>h. ~hasty
  <2>1. hasty => hasty'
    BY DEF UtilType, UtilNext, MaximizeUtilization, ResetUtilization, Delete, NewCall, ClientStep, TestRunning,
       ResetTest, ResetJoins, JoinAgain, ClearStop, Create, WaitReturns, Move, SpinnerStep,
       PublishIds, Notify, StartRun, LeaveRun, SpinnerEnds, SpinnerUseAfterFree, utilVars
  <2> QED
    BY <2>1
<1>s. SpinInv
  BY <1>h
<1>e. ASSUME NewCall PROVE \A t \in Spinners : spinner[t] \notin Early
  BY <1>e DEF NewCall
<1> USE DEF UtilType, SpinInv, OnlyHandle, NoneLive, RunningFlag, Early
<1>l. \A t \in Spinners : spinner[t] \notin {"none", "ended"} => handle = t
  BY <1>s DEF Calls
<1>1. CASE MaximizeUtilization
  BY <1>1, <1>s, <1>e DEF MaximizeUtilization, NewCall, objVars
<1>2. CASE ResetUtilization
  BY <1>2, <1>s, <1>e DEF ResetUtilization, NewCall, objVars
<1>3. CASE Delete
  BY <1>3, <1>s, <1>e DEF Delete, NewCall, objVars
<1>4. CASE TestRunning
  BY <1>4, <1>s DEF TestRunning, objVars
<1>5. CASE ResetTest
  BY <1>5, <1>s DEF ResetTest, ReturnFromReset, JoinInv
<1>6. CASE ResetJoins
  BY <1>6, <1>s DEF ResetJoins, ReturnFromReset
<1>7. CASE JoinAgain
  BY <1>7, <1>s DEF JoinAgain, objVars
<1>8. CASE ClearStop
  BY <1>8, <1>s DEF ClearStop
<1>9. CASE Create
  BY <1>9, <1>s DEF Create
<1>10. CASE WaitReturns
  BY <1>10, <1>s DEF WaitReturns
<1>11. CASE Move
  <2>1. spinner[handle] \notin {"created", "published"} /\ tid = handle /\ handle # 0
    BY <1>11, <1>s, ThreadsPositive DEF Move, HandshakeInv
  <2> QED
    BY <1>11, <1>s, <2>1 DEF Move, objVars
<1>12. ASSUME NEW t \in Spinners, PublishIds(t) PROVE SpinInv'
  BY <1>12, <1>s DEF PublishIds, Advance
<1>13. ASSUME NEW t \in Spinners, Notify(t) PROVE SpinInv'
  BY <1>13, <1>s DEF Notify, Advance
<1>14. ASSUME NEW t \in Spinners, StartRun(t) PROVE SpinInv'
  <2>1. handle = t /\ spinner[handle] = "notified" /\ spinner' = [spinner EXCEPT ![handle] = "spinning"]
    BY <1>14, <1>l DEF StartRun, Advance
  <2>2. RunningFlag'
    <3>1. handle' = handle /\ spinner'[handle] = "spinning"
      BY <1>14, <2>1 DEF StartRun
    <3>2. running' = TRUE
      BY <1>14 DEF StartRun
    <3> QED
      BY <3>1, <3>2, <2>1, <1>14, Zenon
  <2>3. doing \in {"wait", "move"} \/ (doing = "idle" /\ busy)
    BY <2>1, <1>s DEF Calls
  <2>4. UNCHANGED <<doing, stop, handle, joined, pinned, busy>>
    BY <1>14 DEF StartRun
  <2>5. OnlyHandle({"spinning"})'
    BY <2>1, <2>4, <1>s, <2>3
  <2> HIDE DEF RunningFlag
  <2> QED
    BY <1>s, <2>2, <2>3, <2>4, <2>5
<1>15. ASSUME NEW t \in Spinners, LeaveRun(t) PROVE SpinInv'
  BY <1>15, <1>s DEF LeaveRun, Advance, objVars
<1>16. ASSUME NEW t \in Spinners, SpinnerEnds(t) PROVE SpinInv'
  <2>1. handle = t /\ spinner[handle] = "leaving" /\ spinner' = [spinner EXCEPT ![handle] = "ended"]
    BY <1>16, <1>l DEF SpinnerEnds, Advance
  <2>2. RunningFlag'
    <3>1. handle' = handle /\ spinner'[handle] = "ended"
      BY <1>16, <2>1 DEF SpinnerEnds
    <3>2. running' = FALSE
      BY <1>16 DEF SpinnerEnds
    <3> QED
      BY <3>1, <3>2, <2>1, <1>16, Zenon
  <2>3. doing = "join"
    BY <2>1, <1>s DEF Calls
  <2>4. UNCHANGED <<doing, stop, handle, joined, pinned, busy>>
    BY <1>16 DEF SpinnerEnds
  <2>5. OnlyHandle({"ended"})'
    BY <2>1, <2>4, <1>s, <2>3
  <2> HIDE DEF RunningFlag
  <2> QED
    BY <1>s, <2>2, <2>3, <2>4, <2>5
<1>17. ASSUME NEW t \in Spinners, SpinnerUseAfterFree(t) PROVE SpinInv'
  BY <1>17, <1>s DEF SpinnerUseAfterFree, LiveSpinners
<1>18. CASE UNCHANGED utilVars
  BY <1>18, <1>s DEF utilVars, objVars
<1> QED
  BY <1>1, <1>2, <1>3, <1>4, <1>5, <1>6, <1>7, <1>8, <1>9, <1>10, <1>11, <1>12, <1>13, <1>14, <1>15, <1>16, <1>17, <1>18 DEF UtilNext, ClientStep, SpinnerStep

-----------------------------------------------------------------------------
\* A new core has no thread.
LEMMA UtilInvInit == UtilInit => UtilInv
<1> SUFFICES ASSUME UtilInit PROVE UtilInv
  OBVIOUS
<1>1. UtilType
  <2>1. tid \in 0..MaxThreads /\ handle \in 0..MaxThreads
    BY UtilizationAssumption DEF UtilInit
  <2>2. spinner \in [Spinners -> Places]
    BY DEF UtilInit, Places
  <2> QED
    BY <2>1, <2>2 DEF UtilInit, UtilType, Calls
<1>2. HandshakeInv /\ JoinInv
  BY DEF UtilInit, HandshakeInv, JoinInv
<1>3. SpinInv
  <2>1. RunningFlag
    BY ThreadsPositive DEF UtilInit, RunningFlag
  <2> QED
    BY <2>1 DEF UtilInit, SpinInv, NoneLive
<1> QED
  BY <1>1, <1>2, <1>3 DEF UtilInv

\* Every step of the callers and of the spinner's threads keeps the invariant.
LEMMA UtilInvStep == UtilInv /\ [UtilNext]_utilVars => UtilInv'
<1> SUFFICES ASSUME UtilInv, [UtilNext]_utilVars PROVE UtilInv'
  OBVIOUS
<1>1. UtilType /\ HandshakeInv /\ JoinInv /\ (~hasty => SpinInv)
  BY DEF UtilInv
<1>2. UtilType' /\ HandshakeInv' /\ JoinInv'
  BY <1>1, UtilTypeStep, HandshakeStep, JoinStep
<1>3. ~hasty' => SpinInv'
  BY <1>1, SpinStep
<1> QED
  BY <1>2, <1>3 DEF UtilInv

\* SpinInv speaks of the places of the threads, SpinsUntilReset of the set of
\* those that are alive.
LEMMA UtilInvImplies == UtilInv => MovedIsNew /\ SpinsUntilReset
<1> SUFFICES ASSUME UtilInv PROVE MovedIsNew /\ SpinsUntilReset
  OBVIOUS
<1>1. MovedIsNew
  BY DEF UtilInv, HandshakeInv, MovedIsNew
<1>2. ASSUME ~hasty PROVE SpinInv
  BY <1>2 DEF UtilInv
<1>3. ASSUME NoneLive PROVE LiveSpinners = {}
  BY <1>3 DEF NoneLive, LiveSpinners
<1>4. ASSUME NEW S, OnlyHandle(S), "none" \notin S, "ended" \notin S PROVE LiveSpinners = {handle}
  BY <1>4 DEF OnlyHandle, LiveSpinners
<1>5. ASSUME ~hasty, doing = "idle", busy PROVE \E t \in pinned : LiveSpinners = {t}
  <2>1. OnlyHandle({"notified", "spinning"}) /\ handle \in pinned
    BY <1>2, <1>5 DEF SpinInv
  <2> QED
    BY <2>1, <1>4
<1>6. ASSUME ~hasty, doing = "idle", ~busy PROVE LiveSpinners = {}
  BY <1>2, <1>3, <1>6 DEF SpinInv
<1>7. ASSUME ~hasty, doing = "deleted" PROVE LiveSpinners = {}
  BY <1>2, <1>3, <1>7 DEF SpinInv
<1>8. ASSUME ~hasty, doing = "wait" PROVE LiveSpinners = {handle}
  <2>1. OnlyHandle(Early \cup {"spinning"})
    BY <1>2, <1>8 DEF SpinInv
  <2> QED
    BY <2>1, <1>4 DEF Early
<1> QED
  BY <1>1, <1>5, <1>6, <1>7, <1>8 DEF SpinsUntilReset

\* UtilInv, the types, the handshake and the life of the thread, always holds.
THEOREM UtilizationInvariant == UtilSpec => []UtilInv
<1> QED
  BY UtilInvInit, UtilInvStep, PTL DEF UtilSpec

\* However many threads of earlier calls are still starting or ending, start()
\* returns with the identifier of the thread it has created.
THEOREM HandshakeIsRight == UtilSpec => []MovedIsNew
<1> QED
  BY UtilizationInvariant, UtilInvImplies, PTL

\* Without hasty calls exactly one pinned thread is alive between
\* maximizeUtilization() and resetUtilization(), and none otherwise.
THEOREM OneThreadSpins == UtilSpec => []SpinsUntilReset
<1> QED
  BY UtilizationInvariant, UtilInvImplies, PTL
=============================================================================
