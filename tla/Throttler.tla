------------------------------ MODULE Throttler ------------------------------
(***************************************************************************)
(* Process throttling (src/src/task/task-linux.cpp): the ThrottlerThread,  *)
(* the process handlers that clients hold, and the controlled processes.   *)
(*                                                                         *)
(* Clients call throttle / removeThrottling from any thread; the requests  *)
(* are queued under _lock and drained by the throttler thread at the start *)
(* of each interval.  The thread then gives every throttled process its    *)
(* slot: SIGCONT, sleep for its share of the interval, SIGSTOP.            *)
(*                                                                         *)
(* Abstractions.  A handler is the address of a ProcessHandlerLinux: an    *)
(* address may be freed and allocated again.  A percentage is an integer,  *)
(* and 0 in throttlingValues stands for "not in the map".  Time is counted *)
(* in hundredths of one interval, so the length of the interval (which the *)
(* loop copies once per iteration) does not appear.  processesToRemove is  *)
(* a set: removals commute and removing twice is removing once.            *)
(***************************************************************************)
EXTENDS Integers, Sequences, FiniteSetsExt

CONSTANTS
    Handlers,          \* addresses of ProcessHandlerLinux objects
    NoHandler,         \* not an address
    Pids,              \* processes other than the calling one
    Unpermitted,       \* the processes that kill() may not signal (EPERM)
    Percentages,       \* the arguments of throttle() that pass its range check
    ClientSignals,     \* the job-control signals clients send themselves
    MaxPending,        \* bound: length of processesToAdd
    MaxDrift,          \* bound: how far below 0 the sum may drift before clients stop
    Recycled           \* the identifiers that another process may get after an exit

ASSUME ThrottlerAssumption ==
    /\ NoHandler \notin Handlers
    /\ Unpermitted \subseteq Pids
    /\ Percentages \subseteq 1..100
    /\ ClientSignals \subseteq {"SIGCONT", "SIGSTOP"}
    /\ MaxPending \in Nat
    /\ MaxDrift \in Nat
    /\ Recycled \subseteq Pids

VARIABLES
    manager,            \* ProcessesManagerLinux: "up", "stopping", "joined"
    runFlag,            \* _run
    pc,                 \* where the throttler thread is in run()
    todo,               \* rest of the iteration over _throttlingValues
    cur,                \* the handler whose process is in its slot
    slept,              \* sleptMicroSecs, in hundredths of the interval
    terminated,         \* the local vector of run()
    throttlingValues,   \* _throttlingValues
    sumPercentages,     \* _sumPercentages
    processesToAdd,     \* _processesToAdd
    processesToRemove,  \* _processesToRemove
    allocated,          \* is there an object at this address
    pidOf,              \* the _pid field in the memory at this address
    proc,               \* state of each process
    asked,              \* ghost: processes that clients asked to throttle, or stopped
    misled,             \* ghost: processes reached through a handler that was not theirs
    updated             \* ghost: the percentage of a mapped handler changed

loopVars  == <<pc, todo, cur, slept, terminated>>
mapVars   == <<throttlingValues, sumPercentages, updated>>
queueVars == <<processesToAdd, processesToRemove>>
heapVars  == <<allocated, pidOf>>
askVars   == <<asked, misled>>
vars == <<manager, runFlag, loopVars, mapVars, queueVars, heapVars, proc, askVars>>

Values   == 0..100
Requests == [process : Handlers, percentage : Percentages]

TypeOK ==
    /\ manager \in {"up", "stopping", "joined"}
    /\ runFlag \in BOOLEAN
    /\ pc \in {"test", "adding", "removing", "signal", "erase", "sleep",
               "final", "done", "crashed"}
    /\ todo \subseteq Handlers
    /\ cur \in Handlers \cup {NoHandler}
    /\ slept \in Nat
    /\ terminated \subseteq Handlers
    /\ throttlingValues \in [Handlers -> Values]
    /\ sumPercentages \in Int
    /\ processesToAdd \in Seq(Requests)
    /\ processesToRemove \subseteq Handlers
    /\ allocated \in [Handlers -> BOOLEAN]
    /\ pidOf \in [Handlers -> Pids]
    /\ proc \in [Pids -> {"running", "stopped", "dead"}]
    /\ asked \subseteq Pids
    /\ misled \subseteq Pids
    /\ updated \in BOOLEAN

Mapped   == {h \in Handlers : throttlingValues[h] > 0}
Locked   == pc \in {"adding", "removing"}
Alive(p) == proc[p] # "dead"

\* The manager's constructor has started the thread; nobody holds a handler.
Init ==
    /\ manager = "up"
    /\ runFlag = TRUE
    /\ pc = "test"
    /\ todo = {}
    /\ cur = NoHandler
    /\ slept = 0
    /\ terminated = {}
    /\ throttlingValues = [h \in Handlers |-> 0]
    /\ sumPercentages = 0
    /\ processesToAdd = <<>>
    /\ processesToRemove = {}
    /\ allocated = [h \in Handlers |-> FALSE]
    /\ pidOf \in [Handlers -> Pids]
    /\ proc = [p \in Pids |-> "running"]
    /\ asked = {}
    /\ misled = {}
    /\ updated = FALSE

-----------------------------------------------------------------------------
(* Clients.  Each call takes _lock for its whole body, so it waits while   *)
(* the thread holds it; none is made once the manager is being destroyed.  *)

\* The address may be one that was freed; if the slot of its old process is
\* going on, the SIGSTOP will go to the new one.
GetProcessHandler(h, p) ==
    /\ manager = "up"
    /\ ~allocated[h]
    /\ allocated' = [allocated EXCEPT ![h] = TRUE]
    /\ pidOf' = [pidOf EXCEPT ![h] = p]
    /\ misled' = IF h = cur THEN misled \cup {pidOf[h]} ELSE misled
    /\ UNCHANGED <<manager, runFlag, loopVars, mapVars, queueVars, proc, asked>>

\* The refusal test of ThrottlerThread::throttle; a refusal changes nothing.
Refused(h, pct) == h \notin Mapped /\ sumPercentages + pct > 100

Throttle(h, pct) ==
    /\ manager = "up"
    /\ ~Locked
    /\ allocated[h]
    /\ Len(processesToAdd) < MaxPending /\ sumPercentages >= -MaxDrift
    /\ ~Refused(h, pct)
    /\ processesToAdd' = Append(processesToAdd, [process |-> h, percentage |-> pct])
    /\ asked' = asked \cup {pidOf[h]}
    /\ UNCHANGED <<manager, runFlag, loopVars, mapVars, processesToRemove, heapVars, proc, misled>>

RemoveThrottling(h) ==
    /\ manager = "up"
    /\ ~Locked
    /\ allocated[h]
    /\ processesToRemove' = processesToRemove \cup {h}
    /\ UNCHANGED <<manager, runFlag, loopVars, mapVars, processesToAdd, heapVars, proc, askVars>>

\* Mutant: the destructor does not call removeThrottling().
ReleaseWithoutRemoval(h) ==
    /\ manager = "up"
    /\ allocated[h]
    /\ allocated' = [allocated EXCEPT ![h] = FALSE]
    /\ UNCHANGED <<manager, runFlag, loopVars, mapVars, queueVars, pidOf, proc, askVars>>

\* releaseProcessHandler: the destructor queues a removal, then the memory is
\* freed.
ReleaseProcessHandler(h) ==
    /\ manager = "up"
    /\ ~Locked
    /\ allocated[h]
    /\ processesToRemove' = processesToRemove \cup {h}
    /\ allocated' = [allocated EXCEPT ![h] = FALSE]
    /\ UNCHANGED <<manager, runFlag, loopVars, mapVars, processesToAdd, pidOf, proc, askVars>>

\* ProcessHandlerLinux::sendSignal called by a client.
SendSignal(h, signal) ==
    /\ manager = "up"
    /\ allocated[h]
    /\ Alive(pidOf[h]) /\ pidOf[h] \notin Unpermitted
    /\ proc' = [proc EXCEPT ![pidOf[h]] = IF signal = "SIGSTOP" THEN "stopped" ELSE "running"]
    /\ asked' = IF signal = "SIGSTOP" THEN asked \cup {pidOf[h]} ELSE asked
    /\ UNCHANGED <<manager, runFlag, loopVars, mapVars, queueVars, heapVars, misled>>

\* A process ends, on its own or killed: it leaves /proc and kill() fails.
ProcessExit(p) ==
    /\ Alive(p)
    /\ pc # "crashed"
    /\ proc' = [proc EXCEPT ![p] = "dead"]
    /\ UNCHANGED <<manager, runFlag, loopVars, mapVars, queueVars, heapVars, askVars>>

\* A request of this handler is queued.
Queued(h) == \E i \in 1..Len(processesToAdd) : processesToAdd[i].process = h

\* The kernel gives the identifier to another process, which nobody asked to
\* throttle.  The handlers cannot tell: one that the throttler knows goes on.
PidReused(p) ==
    /\ p \in Recycled /\ ~Alive(p)
    /\ pc # "crashed"
    /\ proc' = [proc EXCEPT ![p] = "running"]
    /\ asked' = asked \ {p}
    /\ misled' = IF \E h \in Handlers : (h \in Mapped \/ Queued(h)) /\ pidOf[h] = p
                 THEN misled \cup {p} ELSE misled \ {p}
    /\ UNCHANGED <<manager, runFlag, loopVars, mapVars, queueVars, heapVars>>

\* Mutant: the flag is not cleared.
StopWithoutClear ==
    /\ manager = "up"
    /\ manager' = "stopping"
    /\ UNCHANGED <<runFlag, loopVars, mapVars, queueVars, heapVars, proc, askVars>>

\* ~ProcessesManagerLinux: stop() clears the flag, then join() blocks.
Stop ==
    /\ manager = "up"
    /\ pc # "crashed"
    /\ manager' = "stopping"
    /\ runFlag' = FALSE
    /\ UNCHANGED <<loopVars, mapVars, queueVars, heapVars, proc, askVars>>

Join ==
    /\ manager = "stopping"
    /\ pc = "done"
    /\ manager' = "joined"
    /\ UNCHANGED <<runFlag, loopVars, mapVars, queueVars, heapVars, proc, askVars>>

-----------------------------------------------------------------------------
(* The throttler thread: ThrottlerThread::run.                             *)

\* Mutant: there is no resume loop after the main loop.
TestRunNoResume ==
    /\ pc = "test"
    /\ runFlag' = TRUE
    /\ pc' = IF runFlag THEN "adding" ELSE "final"
    /\ UNCHANGED <<manager, todo, cur, slept, terminated, mapVars, queueVars, heapVars, proc, askVars>>

\* _run.test_and_set(), then either the loop body, which starts by taking
\* _lock, or the resume loop after it.
TestRun ==
    /\ pc = "test"
    /\ runFlag' = TRUE
    /\ IF runFlag
       THEN pc' = "adding" /\ UNCHANGED todo
       ELSE pc' = "final" /\ todo' = Mapped
    /\ UNCHANGED <<manager, cur, slept, terminated, mapVars, queueVars, heapVars, proc, askVars>>

\* Mutant: the check made by throttle() is not repeated when the queue is drained.
AddProcessUnchecked(h, pct) ==
    /\ throttlingValues' = [throttlingValues EXCEPT ![h] = pct]
    /\ sumPercentages' = IF h \in Mapped THEN sumPercentages ELSE sumPercentages + pct
    /\ updated' = (updated \/ throttlingValues[h] \notin {0, pct})

\* addProcess: a mapped handler gets the new percentage, a new one is
\* inserted if it fits, and silently dropped otherwise.
AddProcess(h, pct) ==
    IF h \in Mapped
    THEN /\ throttlingValues' = [throttlingValues EXCEPT ![h] = pct]
         /\ updated' = (updated \/ throttlingValues[h] # pct)
         /\ UNCHANGED sumPercentages
    ELSE IF sumPercentages + pct <= 100
    THEN /\ throttlingValues' = [throttlingValues EXCEPT ![h] = pct]
         /\ sumPercentages' = sumPercentages + pct
         /\ UNCHANGED updated
    ELSE UNCHANGED mapVars

RemoveProcess(h) ==
    /\ throttlingValues' = [throttlingValues EXCEPT ![h] = 0]
    /\ sumPercentages' = sumPercentages - throttlingValues[h]
    /\ UNCHANGED updated

DrainAdd ==
    /\ pc = "adding"
    /\ processesToAdd # <<>>
    /\ AddProcess(Head(processesToAdd).process, Head(processesToAdd).percentage)
    /\ processesToAdd' = Tail(processesToAdd)
    /\ UNCHANGED <<manager, runFlag, loopVars, processesToRemove, heapVars, proc, askVars>>

\* Mutant: requests may be left in the queue for the next interval.
DrainAddDoneEarly ==
    /\ pc = "adding"
    /\ pc' = "removing"
    /\ UNCHANGED <<manager, runFlag, todo, cur, slept, terminated, mapVars, queueVars,
                   heapVars, proc, askVars>>

DrainAddDone ==
    /\ pc = "adding"
    /\ processesToAdd = <<>>
    /\ pc' = "removing"
    /\ UNCHANGED <<manager, runFlag, todo, cur, slept, terminated, mapVars, queueVars,
                   heapVars, proc, askVars>>

\* Mutant: processesToRemove is not cleared.
DrainRemoveNotCleared(h) ==
    /\ pc = "removing"
    /\ h \in processesToRemove
    /\ RemoveProcess(h)
    /\ UNCHANGED <<manager, runFlag, loopVars, queueVars, heapVars, proc, askVars>>

DrainRemove(h) ==
    /\ pc = "removing"
    /\ h \in processesToRemove
    /\ RemoveProcess(h)
    /\ processesToRemove' = processesToRemove \ {h}
    /\ UNCHANGED <<manager, runFlag, loopVars, processesToAdd, heapVars, proc, askVars>>

\* Both queues are empty: _lock is released and the iteration starts.
StartSlots ==
    /\ pc = "removing"
    /\ processesToRemove = {}
    /\ pc' = "signal"
    /\ todo' = Mapped
    /\ UNCHANGED <<manager, runFlag, cur, slept, terminated, mapVars, queueVars, heapVars, proc, askVars>>

\* The thread is about to send a signal through handler h.
Signalling(h) ==
    \/ pc \in {"signal", "final"} /\ cur = NoHandler /\ h \in todo
    \/ pc = "signal" /\ cur = h

\* sendSignal throws only when kill() fails for a process that still exists.
CanSignal(h) == ~Alive(pidOf[h]) \/ pidOf[h] \notin Unpermitted

\* The signal goes to the process whose pid is in h's memory, if it exists.
Deliver(h, state) ==
    proc' = IF Alive(pidOf[h]) THEN [proc EXCEPT ![pidOf[h]] = state] ELSE proc

\* Mutant: only the first process of the iteration gets a slot.
SlotBeginBreak(h) ==
    /\ pc = "signal" /\ Signalling(h) /\ cur = NoHandler /\ CanSignal(h)
    /\ todo' = {}
    /\ Deliver(h, "running")
    /\ cur' = IF Alive(pidOf[h]) THEN h ELSE NoHandler
    /\ terminated' = IF Alive(pidOf[h]) THEN terminated ELSE terminated \cup {h}
    /\ UNCHANGED <<manager, runFlag, pc, slept, mapVars, queueVars, heapVars, askVars>>

SlotBegin(h) ==
    /\ pc = "signal"
    /\ Signalling(h) /\ cur = NoHandler /\ CanSignal(h)
    /\ todo' = todo \ {h}
    /\ Deliver(h, "running")
    /\ cur' = IF Alive(pidOf[h]) THEN h ELSE NoHandler
    /\ terminated' = IF Alive(pidOf[h]) THEN terminated ELSE terminated \cup {h}
    /\ UNCHANGED <<manager, runFlag, pc, slept, mapVars, queueVars, heapVars, askVars>>

\* Mutant: the process is not stopped at the end of its slot.
SlotEndNoStop(h) ==
    /\ pc = "signal" /\ cur = h
    /\ cur' = NoHandler
    /\ slept' = slept + throttlingValues[h]
    /\ UNCHANGED <<manager, runFlag, pc, todo, terminated, mapVars, queueVars, heapVars, proc, askVars>>

\* If h was released meanwhile, its memory may be another handler's by now.
SlotEnd(h) ==
    /\ pc = "signal"
    /\ cur = h /\ CanSignal(h)
    /\ cur' = NoHandler
    /\ slept' = slept + throttlingValues[h]
    /\ Deliver(h, "stopped")
    /\ terminated' = IF Alive(pidOf[h]) THEN terminated ELSE terminated \cup {h}
    /\ misled' = IF h \in processesToRemove /\ pidOf[h] \notin asked
                 THEN misled \cup {pidOf[h]} ELSE misled
    /\ UNCHANGED <<manager, runFlag, pc, todo, mapVars, queueVars, heapVars, asked>>

SlotsDone ==
    /\ pc = "signal"
    /\ todo = {} /\ cur = NoHandler
    /\ pc' = "erase"
    /\ UNCHANGED <<manager, runFlag, todo, cur, slept, terminated, mapVars, queueVars,
                   heapVars, proc, askVars>>

\* Under _lock, in one step; the percentages stay in _sumPercentages.
EraseTerminated ==
    /\ pc = "erase"
    /\ throttlingValues' =
         [h \in Handlers |-> IF h \in terminated THEN 0 ELSE throttlingValues[h]]
    /\ pc' = "sleep"
    /\ UNCHANGED <<manager, runFlag, todo, cur, slept, terminated, sumPercentages, updated,
                   queueVars, heapVars, proc, askVars>>

\* Mutant: sleptMicroSecs is not a local of the loop body.
IntervalSleepGoesOn ==
    /\ pc = "sleep"
    /\ pc' = "test"
    /\ terminated' = {}
    /\ UNCHANGED <<manager, runFlag, todo, cur, slept, mapVars, queueVars, heapVars, proc, askVars>>

\* usleep(throttlingIntervalLocal - sleptMicroSecs), and the locals of
\* the loop body end with it.
IntervalSleep ==
    /\ pc = "sleep"
    /\ pc' = "test"
    /\ slept' = 0
    /\ terminated' = {}
    /\ UNCHANGED <<manager, runFlag, todo, cur, mapVars, queueVars, heapVars, proc, askVars>>

FinalResume(h) ==
    /\ pc = "final"
    /\ Signalling(h) /\ CanSignal(h)
    /\ todo' = todo \ {h}
    /\ Deliver(h, "running")
    /\ UNCHANGED <<manager, runFlag, pc, cur, slept, terminated, mapVars, queueVars,
                   heapVars, askVars>>

ThreadEnd ==
    /\ pc = "final"
    /\ todo = {}
    /\ pc' = "done"
    /\ UNCHANGED <<manager, runFlag, todo, cur, slept, terminated, mapVars, queueVars,
                   heapVars, proc, askVars>>

\* The thread dies, and the whole program with it: a signal through freed
\* memory (one outcome of that undefined behaviour; the other is that the
\* stale _pid is still there), or the exception of sendSignal, which nobody
\* catches.
Crash(h) ==
    /\ Signalling(h)
    /\ ~allocated[h] \/ ~CanSignal(h)
    /\ pc' = "crashed"
    /\ UNCHANGED <<manager, runFlag, todo, cur, slept, terminated, mapVars, queueVars,
                   heapVars, proc, askVars>>

ClientStep ==
    /\ pc # "crashed"
    /\ \E h \in Handlers :
         \/ \E p \in Pids : GetProcessHandler(h, p)
         \/ \E pct \in Percentages : Throttle(h, pct)
         \/ RemoveThrottling(h)
         \/ ReleaseProcessHandler(h)
         \/ \E signal \in ClientSignals : SendSignal(h, signal)

ThreadStep ==
    \/ TestRun
    \/ DrainAdd \/ DrainAddDone
    \/ StartSlots \/ SlotsDone \/ EraseTerminated \/ IntervalSleep \/ ThreadEnd
    \/ \E h \in Handlers :
         DrainRemove(h) \/ SlotBegin(h) \/ SlotEnd(h) \/ FinalResume(h) \/ Crash(h)

Next ==
    \/ ClientStep
    \/ \E p \in Pids : ProcessExit(p) \/ PidReused(p)
    \/ Stop
    \/ Join
    \/ ThreadStep

Spec == Init /\ [][Next]_vars

\* The scheduler runs the throttler thread; every usleep() and every critical
\* section of the clients ends, so the thread is never blocked for good.  The
\* destructor's join() returns when the thread has ended.  Nothing obliges
\* clients to call anything or processes to end.
Fairness == WF_vars(ThreadStep) /\ WF_vars(Join)

FairSpec == Spec /\ Fairness

-----------------------------------------------------------------------------
(* Properties.                                                             *)

\* The budget that throttle() and addProcess() test never exceeds 100, in
\* whatever order requests, removals and terminations are drained.
BudgetNotExceeded == sumPercentages <= 100

\* As long as no mapped process had its percentage changed, the slots of one
\* interval fit in it, so the argument of the last usleep() of run() is not
\* negative.
SlotsFitInterval == ~updated => slept <= 100

\* A mapped or queued handler is an existing object, or its removal is queued
\* and will be drained before the next iteration uses it: the destructor's
\* removeThrottling() bounds the life of a dangling pointer to one interval.
DanglingOnlyUntilDrain ==
    \A h \in Handlers :
        h \in Mapped \/ Queued(h) => allocated[h] \/ h \in processesToRemove

\* After its slot and until the next interval a throttled process runs only in
\* the slot of another handler of the same process, unless its own handler is
\* being removed.  Excepted are the processes that a handler lost: its memory
\* was given to another handler during the slot, or their identifier to another
\* process.
ServedAreStopped ==
    pc \in {"signal", "erase", "sleep"} =>
        \A h \in Mapped \ (todo \cup {cur} \cup processesToRemove) :
            proc[pidOf[h]] = "running" =>
                pidOf[h] \in misled \/ (cur # NoHandler /\ pidOf[cur] = pidOf[h])

\* When the thread has ended, no process in the map is left stopped: the
\* resume loop after the main loop of run() reaches all of them.
ResumedAtShutdown == pc = "done" => \A h \in Mapped : proc[pidOf[h]] # "stopped"

\* The throttler stops only processes that a client asked to throttle (or has
\* stopped itself), except through a handler that is not theirs: one released
\* in this interval, whose memory was given to another handler, or one whose
\* process ended and left its identifier to another.  From the drain on, the
\* map holds no handler of the first kind.
OnlyAskedAreStopped ==
    /\ \A p \in Pids : proc[p] = "stopped" => p \in asked \cup misled
    /\ \A h \in Mapped : pidOf[h] \in asked \cup misled \/ h \in processesToRemove

\* A queued removal is drained, unless the thread ends first.
RemovalTakesEffect ==
    \A h \in Handlers :
        h \in processesToRemove ~>
            h \notin processesToRemove \/ pc \in {"final", "done", "crashed"}

\* No throttled process starves: each mapped process gets its slot, or is
\* found dead or removed, or the thread ends.
ServedInTurn ==
    \A h \in Handlers :
        h \in Mapped ~> cur = h \/ h \notin Mapped \/ pc \in {"final", "done", "crashed"}

\* The manager's destructor returns: the thread sees the cleared flag.
StopCompletes == manager = "stopping" ~> manager = "joined" \/ pc = "crashed"
=============================================================================
