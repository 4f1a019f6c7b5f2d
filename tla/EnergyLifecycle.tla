--------------------------- MODULE EnergyLifecycle ---------------------------
(***************************************************************************)
(* The life of an Energy object and of the refresher threads of its        *)
(* counters (src/src/energy/energy.cpp, energy-linux.cpp), over the        *)
(* Monitor and Thread classes of src/src/utils.cpp.                        *)
(*                                                                         *)
(* An Energy object owns a CPUs counter and a memory counter.  Each is     *)
(* backed by a RAPL counter whose init() starts a refresher: a thread that *)
(* reads the counters every half wrapping interval, sleeping in            *)
(* _stopRefresher.timedWait(), until the destructor notifies that monitor  *)
(* and joins the thread.                                                   *)
(*                                                                         *)
(* Abstractions.  Code between a lock and the matching unlock or wait of a *)
(* Monitor is one step.  What a refresh computes is in RaplMsr and         *)
(* RaplSysFs.  The plug counters start no thread and are left out.         *)
(***************************************************************************)
EXTENDS Naturals, FiniteSets

CONSTANT MaxInits   \* bound: calls of init() on one counter

ASSUME MaxInitsAssumption == MaxInits \in Nat \ {0}

Counters == {"cpus", "memory"}
Threads  == Counters \X (1..MaxInits)   \* the n-th refresher of a counter
Owner(t) == t[1]

VARIABLES
    call,       \* what the thread that uses the Energy object is executing
    exists,     \* counters that were created and whose memory is not freed
    inits,      \* calls of init() that succeeded; (c, inits[c]) is _refresher
    unstarted,  \* _refresher is instead a thread that init() never started
    th,         \* where each refresher thread is
    predicate,  \* _stopRefresher._predicate of each counter
    lost        \* ghost: a notification consumed by a timedWait() returning false

vars == <<call, exists, inits, unstarted, th, predicate, lost>>

Live    == {t \in Threads : th[t] \notin {"none", "ended"}}
Waiting == {"blocked", "woken", "expired"}
Ending  == {"leaving", "ended"}

\* The calls of start() that the owner may be blocked in: by the constructor
\* for either counter, and by a later init() of the CPUs counter.
Starting == {"startCpus", "startMemory", "reinitCpus"}

\* The destructor has notified.
Stopped == {"joining", "deleted", "crashed"}

TypeOK ==
    /\ call \in {"cpus", "memory", "idle", "joining", "deleted", "crashed"} \cup Starting
    /\ exists \subseteq Counters
    /\ inits \in [Counters -> 0..MaxInits]
    /\ unstarted \in BOOLEAN
    /\ th \in [Threads -> {"none", "created", "enter", "refresh", "leaving", "ended"} \cup Waiting]
    /\ predicate \in [Counters -> BOOLEAN]
    /\ lost \in BOOLEAN
    /\ \A t \in Threads : th[t] = "none" <=> t[2] > inits[Owner(t)]

\* Energy::local() is about to create the CPUs counter.
Init ==
    /\ call = "cpus"
    /\ exists = {}
    /\ inits = [c \in Counters |-> 0]
    /\ unstarted = FALSE
    /\ th = [t \in Threads |-> "none"]
    /\ predicate = [c \in Counters |-> FALSE]
    /\ lost = FALSE

-----------------------------------------------------------------------------
(* The owner.                                                              *)

\* init() of a RAPL counter: a new refresher, and start() up to its wait for
\* the thread to publish its identifiers.
InitCounter(c, start) ==
    /\ inits' = [inits EXCEPT ![c] = @ + 1]
    /\ unstarted' = FALSE
    /\ th' = [th EXCEPT ![<<c, inits[c] + 1>>] = "created"]
    /\ call' = start

\* The constructor tries the sysfs counter, then the MSR counter, and keeps
\* the first whose init() succeeds.
CreateCpus(supported) ==
    /\ call = "cpus"
    /\ IF supported
       THEN exists' = exists \cup {"cpus"} /\ InitCounter("cpus", "startCpus")
       ELSE call' = "memory" /\ UNCHANGED <<exists, inits, unstarted, th>>
    /\ UNCHANGED <<predicate, lost>>

\* CounterMemoryRaplLinux holds an MSR counter of its own, if supported.
CreateMemory(supported) ==
    /\ call = "memory"
    /\ IF supported
       THEN exists' = exists \cup {"memory"} /\ InitCounter("memory", "startMemory")
       ELSE call' = "idle" /\ UNCHANGED <<exists, inits, unstarted, th>>
    /\ UNCHANGED <<predicate, lost>>

\* COUNTER_COMMAND_INIT of a remote client: init() again, with no check that
\* the counter is initialised.  (That of the memory counter only tests _ccl.)
RemoteInit ==
    /\ call = "idle"
    /\ "cpus" \in exists
    /\ inits["cpus"] < MaxInits
    /\ InitCounter("cpus", "reinitCpus")
    /\ UNCHANGED <<exists, predicate, lost>>

\* The same, failing half way: _refresher is replaced before the registers or
\* the files are read, and what throws then leaves a thread that was not started.
RemoteInitFails ==
    /\ call = "idle"
    /\ "cpus" \in exists
    /\ unstarted' = TRUE
    /\ UNCHANGED <<call, exists, inits, th, predicate, lost>>

\* start() returns once the new thread has notified _pidSet.
StartReturns ==
    /\ call \in Starting
    /\ LET c == IF call = "startMemory" THEN "memory" ELSE "cpus"
       IN  th[<<c, inits[c]>>] # "created"
    /\ call' = IF call = "startCpus" THEN "memory" ELSE "idle"
    /\ UNCHANGED <<exists, inits, unstarted, th, predicate, lost>>

\* notifyAll(): sets the predicate and wakes every waiter.
NotifyAll(c) ==
    /\ predicate' = [predicate EXCEPT ![c] = TRUE]
    /\ th' = [t \in Threads |->
                IF Owner(t) = c /\ th[t] = "blocked" THEN "woken" ELSE th[t]]

\* Mutant: the destructor joins without notifying.
ReleaseWithoutNotify ==
    /\ call = "idle"
    /\ call' = IF "cpus" \in exists THEN "joining" ELSE "deleted"
    /\ UNCHANGED <<exists, inits, unstarted, th, predicate, lost>>

\* ~Energy.  CounterMemoryRaplLinux has no destructor, so its MSR counter and
\* that counter's refresher outlive it; the CPUs counter notifies and joins.
Release ==
    /\ call = "idle"
    /\ IF "cpus" \in exists
       THEN call' = "joining" /\ NotifyAll("cpus")
       ELSE call' = "deleted" /\ UNCHANGED <<th, predicate>>
    /\ UNCHANGED <<exists, inits, unstarted, lost>>

\* join() returns, and the refresher and the counter are freed.
JoinReturns ==
    /\ call = "joining" /\ ~unstarted
    /\ th[<<"cpus", inits["cpus"]>>] = "ended"
    /\ call' = "deleted"
    /\ exists' = exists \ {"cpus"}
    /\ UNCHANGED <<inits, unstarted, th, predicate, lost>>

\* join() of a thread that was not started uses a handle that is not one
\* (undefined behaviour): it throws in a destructor, or blocks for ever.
JoinUnstarted ==
    /\ call = "joining" /\ unstarted
    /\ call' = "crashed"
    /\ UNCHANGED <<exists, inits, unstarted, th, predicate, lost>>

-----------------------------------------------------------------------------
(* A refresher: Thread::threadDispatcher, CounterCpusLinuxRefresher::run   *)
(* and Monitor::timedWait.                                                 *)

Step(t, from, to) ==
    /\ call # "crashed"
    /\ Owner(t) \in exists
    /\ th[t] = from
    /\ th' = [th EXCEPT ![t] = to]

\* The identifiers are published and run() starts.
Dispatch(t) ==
    Step(t, "created", "enter") /\ UNCHANGED <<call, exists, inits, unstarted, predicate, lost>>

\* Mutant: timedWait() blocks without testing the predicate first.
EnterWaitUntested(t) ==
    Step(t, "enter", "blocked") /\ UNCHANGED <<call, exists, inits, unstarted, predicate, lost>>

\* Mutant: the waiter that leaves does not clear the predicate.
EnterWaitKeeps(t) ==
    /\ Step(t, "enter", IF predicate[Owner(t)] THEN "leaving" ELSE "blocked")
    /\ UNCHANGED <<call, exists, inits, unstarted, predicate, lost>>

\* timedWait() with the mutex: it consumes a predicate that is set (rc is 0,
\* so it returns true and run() ends), or blocks.
EnterWait(t) ==
    /\ Step(t, "enter", IF predicate[Owner(t)] THEN "leaving" ELSE "blocked")
    /\ predicate' = [predicate EXCEPT ![Owner(t)] = FALSE]
    /\ UNCHANGED <<call, exists, inits, unstarted, lost>>

\* The deadline passes: pthread_cond_timedwait() will return ETIMEDOUT once it
\* has the mutex again.
Expire(t) ==
    Step(t, "blocked", "expired") /\ UNCHANGED <<call, exists, inits, unstarted, predicate, lost>>

\* A spurious wakeup, which pthread_cond_timedwait() allows.
WakeSpuriously(t) ==
    Step(t, "blocked", "woken") /\ UNCHANGED <<call, exists, inits, unstarted, predicate, lost>>

\* Woken with rc 0: the loop tests the predicate again.
Recheck(t) ==
    /\ Step(t, "woken", IF predicate[Owner(t)] THEN "leaving" ELSE "blocked")
    /\ predicate' = [predicate EXCEPT ![Owner(t)] = FALSE]
    /\ UNCHANGED <<call, exists, inits, unstarted, lost>>

\* Mutant: a timeout ends run() instead of refreshing.
TimedOutLeaves(t) ==
    Step(t, "expired", "leaving") /\ UNCHANGED <<call, exists, inits, unstarted, predicate, lost>>

\* With rc ETIMEDOUT timedWait() clears the predicate, whatever it was, and
\* returns false.
TimedOut(t) ==
    /\ Step(t, "expired", "refresh")
    /\ predicate' = [predicate EXCEPT ![Owner(t)] = FALSE]
    /\ lost' = (lost \/ predicate[Owner(t)])
    /\ UNCHANGED <<call, exists, inits, unstarted>>

\* getJoulesComponentsAll() on the counter.
Refresh(t) ==
    Step(t, "refresh", "enter") /\ UNCHANGED <<call, exists, inits, unstarted, predicate, lost>>

\* run() returns, _running is cleared and the thread ends.
ThreadEnd(t) ==
    Step(t, "leaving", "ended") /\ UNCHANGED <<call, exists, inits, unstarted, predicate, lost>>

\* A refresher runs after its counter was freed (undefined behaviour): the
\* program dies.
UseAfterFree(t) ==
    /\ call # "crashed"
    /\ t \in Live
    /\ Owner(t) \notin exists
    /\ call' = "crashed"
    /\ UNCHANGED <<exists, inits, unstarted, th, predicate, lost>>

ThreadStep(t) ==
    \/ Dispatch(t) \/ EnterWait(t) \/ Expire(t) \/ Recheck(t) \/ TimedOut(t)
    \/ Refresh(t) \/ ThreadEnd(t)

OwnerReturns == StartReturns \/ JoinReturns

Next ==
    \/ \E supported \in BOOLEAN : CreateCpus(supported) \/ CreateMemory(supported)
    \/ RemoteInit \/ RemoteInitFails \/ Release \/ JoinUnstarted \/ OwnerReturns
    \/ \E t \in Threads : ThreadStep(t) \/ WakeSpuriously(t) \/ UseAfterFree(t)

Spec == Init /\ [][Next]_vars

\* Every refresher is scheduled and every deadline passes; a call that can
\* return does.  The deadline of a timed wait is absolute, so that waking up
\* spuriously for ever does not put it off (SF).  Spurious wakeups and the
\* owner's calls are not owed.
Fairness ==
    /\ WF_vars(OwnerReturns)
    /\ \A t \in Threads : WF_vars(ThreadStep(t)) /\ SF_vars(Expire(t))

FairSpec == Spec /\ Fairness

-----------------------------------------------------------------------------
(* Properties.                                                             *)

\* A stop ends one refresher and no more, since the first waiter to see the
\* predicate clears it: nothing else ends a refresher, not even the timeouts of
\* several of them.  So when the destructor of a counter that was initialised
\* again frees it, the refreshers of the earlier calls of init() are all alive,
\* although a thread "must EXPLICITLY be joined before the object goes out of
\* scope" (utils.hpp:191): what they do then is UseAfterFree.
OneStopEndsOne ==
    /\ \A t \in Threads : th[t] \in Ending => call \in Stopped
    /\ \A t, u \in Threads :
         Owner(t) = Owner(u) /\ th[t] \in Ending /\ th[u] \in Ending => t = u
    /\ "cpus" \notin exists =>
         \A t \in Threads : Owner(t) = "cpus" /\ t[2] < inits["cpus"] => t \in Live

\* While a stop is pending no refresher sleeps, unless another one that will
\* see the predicate is awake: the broadcast reaches every thread that had
\* found the predicate false.
NoSleepThroughStop ==
    \A t \in Threads : predicate[Owner(t)] /\ th[t] = "blocked" =>
        \E u \in Threads : Owner(u) = Owner(t) /\ th[u] \in {"woken", "expired"}

\* A refresher never stops reading its counter before the destructor runs,
\* or a wrapping of the hardware counter would be missed.
RefreshGoesOn ==
    \A t \in Threads :
        th[t] \notin {"none", "ended", "refresh"} ~>
            th[t] = "refresh" \/ call \in Stopped

\* The destructor of a counter that was initialised once returns, unless its
\* notification fell between the end of a timed wait and the moment the waiter
\* has the mutex again: no other interleaving of notifyAll() and timedWait()
\* loses it.
ReleaseReturnsUnlessLost ==
    call = "joining" /\ inits["cpus"] = 1 /\ ~unstarted ~> call \in {"deleted", "crashed"} \/ lost

\* utils.hpp:209: "Joins this thread.": the destructor's join() of a thread that
\* was started returns.
ReleaseReturns == call = "joining" /\ ~unstarted ~> call \in {"deleted", "crashed"}
=============================================================================
