----------------------------- MODULE Utilization -----------------------------
(***************************************************************************)
(* maximizeUtilization() and resetUtilization() of a virtual core          *)
(* (src/src/topology/topology-linux.cpp): a SpinnerThread that keeps the   *)
(* core busy until it is stopped, over the Thread class of                 *)
(* src/src/utils.cpp.                                                      *)
(*                                                                         *)
(* A SpinnerThread is one object; start() creates a new kernel thread each *)
(* time, and Spinners are these kernel threads in the order of creation.   *)
(* All of them share the fields of the object.  A client makes one call at *)
(* a time; its step between two shared accesses is one action.  The plain  *)
(* bool _running is read and written without a lock: accesses are taken to *)
(* be atomic.                                                              *)
(***************************************************************************)
EXTENDS Naturals, FiniteSets

CONSTANT MaxThreads   \* bound: kernel threads ever created

ASSUME UtilizationAssumption == MaxThreads \in Nat \ {0}

Spinners == 1..MaxThreads

VARIABLES
    doing,    \* what the client is executing
    then,     \* the call that resetUtilization() was made by
    running,  \* _running
    stop,     \* _stop
    pidSet,   \* _pidSet._predicate
    tid,      \* _tid: the thread whose identifier it is, or 0
    handle,   \* _thread: the thread whose handle it is, or 0
    spinner,  \* where each kernel thread is
    joined,   \* threads whose handle is no longer valid
    pinned,   \* threads moved to this core with maximum priority
    busy,     \* ghost: the last call was maximizeUtilization()
    hasty     \* ghost: a call was made before a started thread reached run()

objVars == <<running, stop, pidSet, tid, handle>>
utilVars == <<doing, then, objVars, spinner, joined, pinned, busy, hasty>>

Early   == {"created", "published", "notified"}
Created == {t \in Spinners : spinner[t] # "none"}
LiveSpinners == {t \in Spinners : spinner[t] \notin {"none", "ended"}}

UtilInit ==
    /\ doing = "idle"
    /\ then = "client"
    /\ running = FALSE
    /\ stop = FALSE
    /\ pidSet = FALSE
    /\ tid = 0
    /\ handle = 0
    /\ spinner = [t \in Spinners |-> "none"]
    /\ joined = {}
    /\ pinned = {}
    /\ busy = FALSE
    /\ hasty = FALSE

-----------------------------------------------------------------------------
(* The client.                                                             *)

\* A new call, recorded as hasty if a thread is still starting.
NewCall ==
    /\ doing = "idle"
    /\ hasty' = (hasty \/ \E t \in Spinners : spinner[t] \in Early)

MaximizeUtilization ==
    /\ NewCall
    /\ Cardinality(Created) < MaxThreads
    /\ doing' = "test"
    /\ UNCHANGED <<then, objVars, spinner, joined, pinned, busy>>

ResetUtilization ==
    /\ NewCall
    /\ doing' = "reset" /\ then' = "client"
    /\ UNCHANGED <<objVars, spinner, joined, pinned, busy>>

\* ~VirtualCoreLinux calls resetUtilization(), then deletes the thread object.
Delete ==
    /\ NewCall
    /\ doing' = "reset" /\ then' = "delete"
    /\ UNCHANGED <<objVars, spinner, joined, pinned, busy>>

\* maximizeUtilization(): if(_utilizationThread->running()) resetUtilization().
TestRunning ==
    /\ doing = "test"
    /\ IF running
       THEN doing' = "reset" /\ then' = "maximize"
       ELSE doing' = "clear" /\ UNCHANGED then
    /\ UNCHANGED <<objVars, spinner, joined, pinned, busy, hasty>>

\* Where resetUtilization() returns to.
ReturnFromReset ==
    /\ doing' = CASE then = "client"   -> "idle"
                 [] then = "maximize" -> "clear"
                 [] then = "delete"   -> "deleted"
    /\ busy' = FALSE

\* Mutant: setStop(true) without join().
ResetTestNoJoin ==
    /\ doing = "reset"
    /\ ReturnFromReset
    /\ stop' = running
    /\ UNCHANGED <<then, running, pidSet, tid, handle, spinner, joined, pinned, hasty>>

\* resetUtilization(): nothing, or setStop(true) and join().
ResetTest ==
    /\ doing = "reset"
    /\ IF running
       THEN stop' = TRUE /\ doing' = "join" /\ UNCHANGED busy
       ELSE ReturnFromReset /\ UNCHANGED stop
    /\ UNCHANGED <<then, running, pidSet, tid, handle, spinner, joined, pinned, hasty>>

\* join(): pthread_join() returns when the thread has ended.
ResetJoins ==
    /\ doing = "join"
    /\ handle \notin joined
    /\ spinner[handle] = "ended"
    /\ joined' = joined \cup {handle}
    /\ tid' = 0
    /\ ReturnFromReset
    /\ UNCHANGED <<then, running, stop, pidSet, handle, spinner, pinned, hasty>>

\* pthread_join() on a handle that was already joined (undefined behaviour): it
\* returns an error, and join() throws, or the program dies; it dies too when
\* the exception leaves the destructor.
JoinAgain ==
    /\ doing = "join"
    /\ handle \in joined
    /\ doing' \in IF then = "delete" THEN {"crashed"} ELSE {"idle", "crashed"}
    /\ UNCHANGED <<then, objVars, spinner, joined, pinned, busy, hasty>>

\* maximizeUtilization(): setStop(false).
ClearStop ==
    /\ doing = "clear"
    /\ stop' = FALSE
    /\ doing' = "create"
    /\ UNCHANGED <<then, running, pidSet, tid, handle, spinner, joined, pinned, busy, hasty>>

\* Mutant: start() does not wait for the identifiers.
CreateNoWait ==
    /\ doing = "create" /\ ~running
    /\ \E t \in Spinners :
         /\ spinner[t] = "none" /\ \A u \in Spinners : u < t => spinner[u] # "none"
         /\ spinner' = [spinner EXCEPT ![t] = "created"]
         /\ handle' = t
    /\ doing' = "move"
    /\ UNCHANGED <<then, running, stop, pidSet, tid, joined, pinned, busy, hasty>>

\* start(): pthread_create(), or "Multiple start".
Create ==
    /\ doing = "create"
    /\ IF running
       THEN doing' = "idle" /\ busy' = TRUE /\ UNCHANGED <<handle, spinner>>
       ELSE /\ \E t \in Spinners :
                 /\ spinner[t] = "none" /\ \A u \in Spinners : u < t => spinner[u] # "none"
                 /\ spinner' = [spinner EXCEPT ![t] = "created"]
                 /\ handle' = t
            /\ doing' = "wait"
            /\ UNCHANGED busy
    /\ UNCHANGED <<then, running, stop, pidSet, tid, joined, pinned, hasty>>

\* _pidSet.wait() consumes the notification, and start() returns.
WaitReturns ==
    /\ doing = "wait"
    /\ pidSet
    /\ pidSet' = FALSE
    /\ doing' = "move"
    /\ UNCHANGED <<then, running, stop, tid, handle, spinner, joined, pinned, busy, hasty>>

\* The thread with the published identifier is moved here and gets the
\* maximum priority; maximizeUtilization() returns.
Move ==
    /\ doing = "move"
    /\ pinned' = pinned \cup ({tid} \ {0})
    /\ doing' = "idle"
    /\ busy' = TRUE
    /\ UNCHANGED <<then, objVars, spinner, joined, hasty>>

-----------------------------------------------------------------------------
(* A kernel thread: Thread::threadDispatcher and SpinnerThread::run.       *)

Advance(t, from, to) ==
    /\ doing \notin {"deleted", "crashed"}
    /\ spinner[t] = from
    /\ spinner' = [spinner EXCEPT ![t] = to]

\* _pid and _tid are set ...
PublishIds(t) ==
    /\ Advance(t, "created", "published")
    /\ tid' = t
    /\ UNCHANGED <<doing, then, running, stop, pidSet, handle, joined, pinned, busy, hasty>>

\* Mutant: nobody is notified.
NotifyNobody(t) ==
    /\ Advance(t, "published", "notified")
    /\ UNCHANGED <<doing, then, objVars, joined, pinned, busy, hasty>>

\* ... then _pidSet.notifyAll() ...
Notify(t) ==
    /\ Advance(t, "published", "notified")
    /\ pidSet' = TRUE
    /\ UNCHANGED <<doing, then, running, stop, tid, handle, joined, pinned, busy, hasty>>

\* ... and only then _running = true, and run() spins.
StartRun(t) ==
    /\ Advance(t, "notified", "spinning")
    /\ running' = TRUE
    /\ UNCHANGED <<doing, then, stop, pidSet, tid, handle, joined, pinned, busy, hasty>>

\* isStopped() is true: run() returns.
LeaveRun(t) ==
    /\ stop
    /\ Advance(t, "spinning", "leaving")
    /\ UNCHANGED <<doing, then, objVars, joined, pinned, busy, hasty>>

\* _running = false, and the thread ends.
SpinnerEnds(t) ==
    /\ Advance(t, "leaving", "ended")
    /\ running' = FALSE
    /\ UNCHANGED <<doing, then, stop, pidSet, tid, handle, joined, pinned, busy, hasty>>

\* A thread goes on after the object was deleted (undefined behaviour): the
\* program dies.
SpinnerUseAfterFree(t) ==
    /\ doing = "deleted"
    /\ t \in LiveSpinners
    /\ doing' = "crashed"
    /\ UNCHANGED <<then, objVars, spinner, joined, pinned, busy, hasty>>

ClientStep ==
    \/ TestRunning \/ ResetTest \/ ResetJoins \/ JoinAgain
    \/ ClearStop \/ Create \/ WaitReturns \/ Move

SpinnerStep(t) ==
    PublishIds(t) \/ Notify(t) \/ StartRun(t) \/ LeaveRun(t) \/ SpinnerEnds(t)

UtilNext ==
    \/ MaximizeUtilization \/ ResetUtilization \/ Delete
    \/ ClientStep
    \/ \E t \in Spinners : SpinnerStep(t) \/ SpinnerUseAfterFree(t)

UtilSpec == UtilInit /\ [][UtilNext]_utilVars

\* Spinners are scheduled, and a call that can go on does; new calls are not owed.
UtilFairness == WF_utilVars(ClientStep) /\ \A t \in Spinners : WF_utilVars(SpinnerStep(t))

UtilFairSpec == UtilSpec /\ UtilFairness

-----------------------------------------------------------------------------
(* Properties.                                                             *)

\* The thread that maximizeUtilization() moves to the core is the one it has
\* just created, even if threads of earlier calls are still starting: the
\* handshake over _pidSet hands over the right identifier.
MovedIsNew == doing = "move" => tid = handle

\* As long as every call was made when the threads started before had reached
\* run(), exactly one thread keeps the core busy after maximizeUtilization(),
\* pinned to it, and none does after resetUtilization(); and the thread object
\* is reused or deleted only when no thread of an earlier start() is left
\* (utils.cpp:112: "It must be joined before starting it again").
SpinsUntilReset ==
    ~hasty =>
        /\ doing = "idle" => IF busy THEN \E t \in pinned : LiveSpinners = {t} ELSE LiveSpinners = {}
        /\ doing = "deleted" => LiveSpinners = {}
        /\ doing = "wait" => LiveSpinners = {handle}

\* Every call returns: start()'s wait is notified and join() is for a thread
\* that was told to stop.
CallsReturn == doing # "idle" ~> doing \in {"idle", "deleted", "crashed"}
=============================================================================
