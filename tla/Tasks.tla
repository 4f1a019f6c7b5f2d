------------------------------- MODULE Tasks -------------------------------
(***************************************************************************)
(* The handlers of a process and of one of its threads (task-linux.cpp):  *)
(* core usage, priority, placement and instruction counts.  One caller     *)
(* uses them, while the process creates and ends threads, ends, and its    *)
(* identifier is given to a new process.  A step of the caller is one      *)
(* system call, or one read of a file of /proc.                            *)
(*                                                                         *)
(* Identifiers of threads are reused; the thread Pid leads the process and *)
(* lives as long as it does.  Time is counted in clock ticks, of which     *)
(* /proc/uptime shows whole seconds, and a thread executes one instruction *)
(* in every tick in which it runs.                                         *)
(***************************************************************************)
EXTENDS Integers, Sequences, FiniteSets, FiniteSetsExt

CONSTANTS
  Pid, Tid,    \* the process of the first handler, the thread of the second
  Tids,        \* identifiers of threads
  Machines,    \* the virtual cores online, the number of spaces in the name
               \* of the program, the identifiers that its threads take, the
               \* handlers that the caller makes and the calls of its interest
  Moves,       \* the sets of virtual cores that the caller moves to
  Priorities,  \* the priorities that the caller asks for
  Hertz,       \* clock ticks in a second
  MaxCalls,    \* bound: calls of the handlers that are made
  MaxTicks,    \* bound: clock ticks
  MaxChurn     \* bound: threads and processes that begin or end

PRIO_MIN == -20
MAMMUT_PROCESS_PRIORITY_MIN == 0
MAMMUT_PROCESS_PRIORITY_MAX == 40

ASSUME TasksAssumption ==
  /\ IsFiniteSet(Tids) /\ Pid \in Tids /\ Tid \in Tids \ {Pid}
  /\ \A m \in Machines : /\ Pid \in m.ids /\ m.ids \subseteq Tids
                         /\ IsFiniteSet(m.online) /\ m.online # {}
                         /\ m.handlers \subseteq {Pid, Tid} /\ m.spaces \in {0, 1}
                         /\ m.caller \in {"usage", "priority", "place", "count"}
  /\ Priorities \subseteq Nat /\ Hertz \in Nat \ {0}
  /\ MaxCalls \in Nat /\ MaxTicks \in Nat /\ MaxChurn \in Nat

VARIABLES
  machine,   \* one of Machines
  live,      \* the threads of the process, none once it has ended
  gen,       \* how many tasks have had an identifier, the process under Pid
  churn,
  aff, nice, \* affinity and nice value of the threads
  up,        \* ticks since boot
  cpu,       \* processor time of the other threads
  spent,     \* processor time of the process
  counted,   \* instructions of the process that the event set is attached to
  unit,      \* _lastUpTime and _lastCpuTime of the handlers
  papi,      \* the counters of the handler of the process
  call,      \* the call under way
  ret,       \* what the last call returned
  calls,
  strays,    \* ghost: threads of parents that the call had not come to yet
  base       \* ghost: instructions before the last reset, or taken since

online == machine.online
spaces == machine.spaces
caller == machine.caller

process == <<live, gen, churn, aff, nice>>
clock   == <<up, cpu, spent, counted>>
tasksVars == <<machine, process, clock, unit, papi, call, ret, calls, strays, base>>

UnitIds == {Pid, Tid}
Idle == [op |-> "none", h |-> Pid, step |-> "idle", todo |-> <<>>, arg |-> 0, up |-> 0, at |-> 0, failed |-> FALSE, gen |-> 0]
Nothing == [op |-> "none", h |-> Pid, ok |-> "none", value |-> 0, gen |-> 0]
NotMade == [made |-> FALSE, lastUp |-> 0, lastCpu |-> 0, gen |-> 0]

\* The members _countersAvailable, which is uninitialised at first, _values[0]
\* and _oldValues[0], and the process that the event set is attached to.
NoCounters == [available |-> "unset", values |-> 0, old |-> 0, gen |-> 0]

TasksInit ==
  /\ machine \in Machines
  /\ live \in {S \in SUBSET machine.ids : Pid \in S}
  /\ gen = [t \in Tids |-> IF t \in live THEN 1 ELSE 0] /\ churn = 0
  /\ aff = [t \in Tids |-> online] /\ nice = [t \in Tids |-> 0]
  /\ up = 0 /\ cpu = [t \in Tids \ {Pid} |-> 0] /\ spent = 0 /\ counted = 0
  \* a caller that is not interested in counts has made the handlers before
  /\ \/ /\ caller \in {"usage", "count"}
        /\ unit = [h \in UnitIds |-> NotMade] /\ papi = NoCounters
     \/ /\ caller \in {"priority", "place"}
        /\ unit = [h \in UnitIds |-> [NotMade EXCEPT !.made = TRUE, !.gen = gen[h]]]
        /\ papi = [NoCounters EXCEPT !.available = "no", !.gen = 1]
  /\ call = Idle /\ ret = Nothing /\ calls = 0
  /\ strays = {} /\ base = 0

(***************************************************************************)
(* The process.                                                            *)
(***************************************************************************)

\* A thread creates another, which inherits its affinity and its priority.
Create(parent, t) ==
  /\ parent \in live /\ t \in machine.ids \ live /\ churn < MaxChurn
  /\ churn' = churn + 1 /\ gen' = [gen EXCEPT ![t] = @ + 1]
  /\ live' = live \cup {t}
  /\ aff' = [aff EXCEPT ![t] = aff[parent]]
  /\ nice' = [nice EXCEPT ![t] = nice[parent]]
  /\ cpu' = [cpu EXCEPT ![t] = 0]
  /\ LET late == call.step \in {"look", "spread"} /\ \E i \in DOMAIN call.todo : call.todo[i] = parent
     IN  strays' = IF late \/ parent \in strays THEN strays \cup {t} ELSE strays \ {t}
  /\ UNCHANGED <<machine, up, spent, counted, unit, papi, call, ret, calls, base>>

ThreadExit(t) ==
  /\ t \in live \ {Pid} /\ churn < MaxChurn /\ churn' = churn + 1
  /\ live' = live \ {t}
  /\ UNCHANGED <<machine, gen, aff, nice, clock, unit, papi, call, ret, calls, strays, base>>

ProcessEnds ==
  /\ live # {} /\ churn < MaxChurn /\ churn' = churn + 1
  /\ live' = {}
  /\ UNCHANGED <<machine, gen, aff, nice, clock, unit, papi, call, ret, calls, strays, base>>

\* The identifier is given to a new process.
Reuse ==
  /\ live = {} /\ churn < MaxChurn /\ churn' = churn + 1
  /\ live' = {Pid} /\ gen' = [gen EXCEPT ![Pid] = @ + 1]
  /\ aff' = [aff EXCEPT ![Pid] = online] /\ nice' = [nice EXCEPT ![Pid] = 0]
  /\ spent' = 0
  /\ strays' = {}
  /\ UNCHANGED <<machine, up, cpu, counted, unit, papi, call, ret, calls, base>>

\* The threads of running run for a tick.
Tick(running) ==
  /\ up < MaxTicks /\ caller \in {"usage", "count"}
  /\ running \subseteq live /\ Cardinality(running) <= Cardinality(online)
  /\ up' = up + 1
  /\ cpu' = [t \in Tids \ {Pid} |-> IF t \in running THEN cpu[t] + 1 ELSE cpu[t]]
  /\ spent' = spent + Cardinality(running)
  /\ counted' = IF papi.gen = gen[Pid] THEN counted + Cardinality(running) ELSE counted
  /\ UNCHANGED <<machine, process, unit, papi, call, ret, calls, strays, base>>

(***************************************************************************)
(* What the files of /proc show of a handler's task.                       *)
(***************************************************************************)

IsActive(h) == IF h = Pid THEN live # {} ELSE h \in live
GetUpTime == up \div Hertz
CpuTime(h) == IF h = Pid THEN spent ELSE cpu[h]

\* The fields of stat are split at spaces, so that a name with a space shifts
\* them by one: the system time is lost, the priority of the kernel is taken
\* for the nice value and the exit signal (17, SIGCHLD) for the processor.
GetCpuTime(h) == IF spaces = 0 THEN {CpuTime(h)} ELSE 0..CpuTime(h)
NiceField(h) == IF spaces = 0 THEN nice[h] ELSE nice[h] - PRIO_MIN
ProcessorField(h) == IF spaces = 0 THEN aff[h] \cap online ELSE {17}

\* getPriority()
PriorityOf(n) == -(PRIO_MIN + n)

\* The nice value that renice is given, which the kernel brings into range.
NiceOf(priority) == Min({-(priority + PRIO_MIN), 19})

(***************************************************************************)
(* Calls.                                                                  *)
(***************************************************************************)

\* The caller makes a call of the family on the handler h.
Begin(family, op, h, arg, step) ==
  /\ call.step = "idle" /\ family = caller /\ calls < MaxCalls
  /\ call' = [Idle EXCEPT !.op = op, !.h = h, !.arg = arg, !.step = step, !.gen = gen[h]]
  /\ calls' = (IF op = "new" THEN calls ELSE calls + 1) /\ ret' = Nothing
  /\ strays' = {}

Return(ok, value) ==
  /\ call' = Idle
  /\ ret' = [op |-> call.op, h |-> call.h, ok |-> ok, value |-> value,
             gen |-> IF call.gen = gen[call.h] THEN call.gen ELSE 0]

Call(family, op, h, arg, step) ==
  /\ unit[h].made
  /\ Begin(family, op, h, arg, step)
  /\ UNCHANGED <<machine, process, clock, unit, papi, base>>

\* getProcessHandler() and getThreadHandler(): the constructor resets the core
\* usage, and that of a process attaches the counters.
GetHandler(h) ==
  /\ ~unit[h].made
  /\ Begin(caller, "new", h, 0, "up")
  /\ unit' = [unit EXCEPT ![h] = [NotMade EXCEPT !.made = TRUE]]
  /\ UNCHANGED <<machine, process, clock, papi, base>>

\* releaseProcessHandler() and releaseThreadHandler().  The destructor of one
\* whose constructor found no process frees members that nobody has set.
ReleaseHandler(h) ==
  /\ unit[h].made /\ call.step = "idle" /\ (h = Pid => papi.available # "unset")
  /\ unit' = [unit EXCEPT ![h] = NotMade]
  /\ papi' = IF h = Pid THEN NoCounters ELSE papi
  /\ ret' = Nothing /\ calls < MaxCalls /\ calls' = calls + 1
  /\ UNCHANGED <<machine, process, clock, call, strays, base>>

GetCoreUsage(h)   == Call("usage", "getCoreUsage", h, 0, "up")
ResetCoreUsage(h) == Call("usage", "resetCoreUsage", h, 0, "up")

\* getUpTime(), of which resetCoreUsage() keeps the result at once.
ReadUpTime ==
  /\ call.step = "up"
  /\ call' = [call EXCEPT !.up = GetUpTime, !.at = up, !.step = "cpu"]
  /\ unit' = IF call.op = "getCoreUsage" THEN unit ELSE [unit EXCEPT ![call.h].lastUp = GetUpTime]
  /\ UNCHANGED <<machine, process, clock, papi, ret, calls, strays, base>>

\* A read of stat fails: the caller then looks whether the task is active.
StatFails ==
  /\ call.step \in {"cpu", "stat"} /\ ~IsActive(call.h)
  /\ call' = [call EXCEPT !.step = "check"]
  /\ UNCHANGED <<machine, process, clock, unit, papi, ret, calls, strays, base>>

\* EXECUTE_AND_CHECK_ACTIVE: false if it is not, the exception again if it is.
CheckActive ==
  /\ call.step = "check"
  /\ IF call.op = "new" THEN call' = [call EXCEPT !.step = "attach"] /\ UNCHANGED ret
     ELSE Return(IF IsActive(call.h) THEN "thrown" ELSE "false", 0)
  /\ UNCHANGED <<machine, process, clock, unit, papi, calls, strays, base>>

\* getCpuTime() of getCoreUsage(), whose result is a quotient of differences:
\* 0 in the second of the last reset.
ReadCpuTime ==
  /\ call.step = "cpu" /\ call.op = "getCoreUsage" /\ IsActive(call.h)
  /\ LET u == unit[call.h]
     IN  \E now \in GetCpuTime(call.h) :
           Return("true", IF call.up > u.lastUp THEN [ticks |-> now - u.lastCpu, seconds |-> call.up - u.lastUp, late |-> up - call.at]
                          ELSE [ticks |-> 0, seconds |-> 0, late |-> 0])
  /\ UNCHANGED <<machine, process, clock, unit, papi, calls, strays, base>>

\* Mutant: the processor time before the reset is forgotten.
KeepUpTimeOnly ==
  /\ call.step = "cpu" /\ call.op # "getCoreUsage" /\ IsActive(call.h)
  /\ unit' = [unit EXCEPT ![call.h].gen = gen[call.h]]
  /\ IF call.op = "new" THEN call' = [call EXCEPT !.step = "attach"] /\ UNCHANGED ret
     ELSE Return("true", 0)
  /\ UNCHANGED <<machine, process, clock, papi, calls, strays, base>>

\* getCpuTime() of resetCoreUsage().
KeepCpuTime ==
  /\ call.step = "cpu" /\ call.op # "getCoreUsage" /\ IsActive(call.h)
  /\ \E now \in GetCpuTime(call.h) :
        unit' = [unit EXCEPT ![call.h].lastCpu = now, ![call.h].gen = gen[call.h]]
  /\ IF call.op = "new" THEN call' = [call EXCEPT !.step = "attach"] /\ UNCHANGED ret
     ELSE Return("true", 0)
  /\ UNCHANGED <<machine, process, clock, papi, calls, strays, base>>

GetPriority(h)      == Call("priority", "getPriority", h, 0, "stat")
GetVirtualCoreId(h) == Call("place", "getVirtualCoreId", h, 0, "stat")

ReadStat ==
  /\ call.step = "stat" /\ IsActive(call.h)
  /\ \/ /\ call.op = "getPriority"
        /\ Return("true", PriorityOf(NiceField(call.h)))
     \/ /\ call.op = "getVirtualCoreId"
        /\ \E v \in ProcessorField(call.h) : Return("true", v)
  /\ UNCHANGED <<machine, process, clock, unit, papi, calls, strays, base>>

\* setPriority() looks at the range, and then lists whom to renice.
SetPriority(h, priority) ==
  /\ unit[h].made
  /\ Begin("priority", "setPriority", h, priority,
           IF priority \in MAMMUT_PROCESS_PRIORITY_MIN..MAMMUT_PROCESS_PRIORITY_MAX THEN "list" ELSE "refuse")
  /\ UNCHANGED <<machine, process, clock, unit, papi, base>>

Refuse ==
  /\ call.step = "refuse" /\ Return("false", 0)
  /\ UNCHANGED <<machine, process, clock, unit, papi, calls, strays, base>>

\* Mutant: a handler of a process stands for its first thread alone.
ListedLeader(h) == IF IsActive(h) THEN {<<h>>} ELSE {<<>>}

\* getSetPriorityIdentifiers() and getActiveThreadsIdentifiers(): the threads of
\* the process in the order in which readdir() happens to return them, all of
\* them in the first call of the system; none if the directory has gone.
Listed(h) ==
  IF h = Pid THEN {s \in [1..Cardinality(live) -> live] : \A t \in live : \E i \in DOMAIN s : s[i] = t}
  ELSE {<<h>>}

List ==
  /\ call.step = "list"
  /\ \E todo \in Listed(call.h) :
        call' = [call EXCEPT !.todo = todo, !.step = IF call.h = Pid THEN "look" ELSE "spread",
                             !.failed = todo = <<>>]
  /\ UNCHANGED <<machine, process, clock, unit, papi, ret, calls, strays, base>>

\* getFilesNamesInDir() takes a look at each entry, and skips the one of a
\* thread that has ended meanwhile.
SkipEntry(i) ==
  /\ call.step = "look" /\ i \in DOMAIN call.todo /\ call.todo[i] \notin live
  /\ call' = [call EXCEPT !.todo = SubSeq(@, 1, i - 1) \o SubSeq(@, i + 1, Len(@))]
  /\ UNCHANGED <<machine, process, clock, unit, papi, ret, calls, strays, base>>

\* It throws if there was no directory, and if an entry that was not there is
\* there again at the second look: the exception is the caller's if the process
\* is active then.
ListFails ==
  /\ call.step = "look" /\ IsActive(Pid)
  /\ call.failed \/ \E i \in DOMAIN call.todo : gen[call.todo[i]] > 1
  /\ Return("thrown", 0)
  /\ UNCHANGED <<machine, process, clock, unit, papi, calls, strays, base>>

\* The list is complete; renice fails without any identifier.
ListDone ==
  /\ call.step = "look" /\ ~(call.failed /\ IsActive(Pid))
  /\ call' = [call EXCEPT !.step = "spread", !.failed = call.op = "setPriority" /\ call.todo = <<>>]
  /\ UNCHANGED <<machine, process, clock, unit, papi, ret, calls, strays, base>>

\* The command renice comes to its next thread; it fails, and goes on, if that
\* has ended.  In move() nobody looks whether the system call failed.
Spread ==
  /\ call.step = "spread" /\ call.todo # <<>>
  /\ LET t == Head(call.todo)
     IN  /\ call' = [call EXCEPT !.todo = Tail(@), !.failed = @ \/ (call.op = "setPriority" /\ t \notin live)]
         /\ IF t \notin live THEN UNCHANGED <<aff, nice, strays>>
            ELSE /\ strays' = strays \ {t}
                 /\ IF call.op = "setPriority"
                    THEN nice' = [nice EXCEPT ![t] = NiceOf(call.arg)] /\ UNCHANGED aff
                    ELSE aff' = [aff EXCEPT ![t] = call.arg] /\ UNCHANGED nice
  /\ UNCHANGED <<machine, live, gen, churn, clock, unit, papi, ret, calls, base>>

SpreadDone ==
  /\ call.step = "spread" /\ call.todo = <<>>
  /\ Return(IF call.failed THEN "false" ELSE "true", call.arg)
  /\ UNCHANGED <<machine, process, clock, unit, papi, calls, strays, base>>

\* move() to the cores of a unit, or to a set of cores.
Move(h, cores) == Call("place", "move", h, cores, "first")

\* sched_setaffinity() of the task itself: the kernel refuses a set of which
\* no core is online.  For a process the threads follow.
MoveFirst ==
  /\ call.step = "first"
  /\ IF IsActive(call.h) /\ call.arg \cap online # {}
     THEN /\ aff' = [aff EXCEPT ![call.h] = call.arg]
          /\ IF call.h = Pid THEN call' = [call EXCEPT !.step = "list"] /\ UNCHANGED ret
             ELSE Return("true", call.arg)
     ELSE Return("false", 0) /\ UNCHANGED aff
  /\ UNCHANGED <<machine, live, gen, churn, nice, clock, unit, papi, calls, strays, base>>

\* getVirtualCoreIds() looks at as many cores, from 0 on, as are online.
GetVirtualCoreIds(h) ==
  /\ unit[h].made /\ Begin("place", "getVirtualCoreIds", h, 0, "mask")
  /\ UNCHANGED <<machine, process, clock, unit, papi, base>>

ReadMask ==
  /\ call.step = "mask"
  /\ IF IsActive(call.h)
     THEN LET mask == aff[call.h] \cap online
          IN  Return("true", [ids |-> {i \in 0..(Cardinality(online) - 1) : i \in mask}, mask |-> mask])
     ELSE Return("false", 0)
  /\ UNCHANGED <<machine, process, clock, unit, papi, calls, strays, base>>

(***************************************************************************)
(* Instruction counts of a process, with PAPI.                             *)
(***************************************************************************)

\* The constructor attaches the event set to a process that is active, if
\* every call of PAPI succeeds, and resets the count (that first read is taken
\* to succeed).  For a thread, and for a process that has ended, it leaves the
\* members as they are.
Attach ==
  /\ call.step = "attach"
  /\ IF call.h = Pid /\ IsActive(Pid)
     THEN \E available \in {"yes", "no"} :
            /\ papi' = [available |-> available, values |-> 0, old |-> counted, gen |-> gen[Pid]]
            /\ base' = counted
     ELSE UNCHANGED <<papi, base>>
  /\ Return("true", 0)
  /\ UNCHANGED <<machine, process, clock, unit, calls, strays>>

GetInstructions         == Call("count", "getInstructions", Pid, 0, "read")
ResetInstructions       == Call("count", "resetInstructions", Pid, 0, "read")
GetAndResetInstructions == Call("count", "getAndResetInstructions", Pid, 0, "read")

\* PAPI_read() stores the count in _values, or in _oldValues for a reset.  It
\* is not called without counters; if nobody said whether there are some it may
\* be called, and then fails.  It may also fail on an attached event set, and
\* stores nothing.
PapiRead ==
  /\ call.step = "read"
  /\ \/ /\ papi.available = "yes"
        /\ papi' = IF call.op = "resetInstructions" THEN [papi EXCEPT !.old = counted]
                   ELSE [papi EXCEPT !.values = counted]
        /\ base' = IF call.op = "resetInstructions" THEN counted ELSE base
        /\ call' = [call EXCEPT !.step = "alive"]
     \/ /\ papi.available # "yes"
        /\ call' = [call EXCEPT !.step = "alive", !.failed = FALSE]
        /\ UNCHANGED <<papi, base>>
     \/ /\ papi.available # "no"
        /\ call' = [call EXCEPT !.step = "alive", !.failed = TRUE]
        /\ UNCHANGED <<papi, base>>
  /\ UNCHANGED <<machine, process, clock, unit, ret, calls, strays>>

\* Mutant: the count is reset with another read.
PapiResultReset(p, op) == IF op = "getAndResetInstructions" THEN [p EXCEPT !.old = counted] ELSE p

\* getAndResetInstructions() takes the values that were read as the old ones.
PapiResult(p, op) == IF op = "getAndResetInstructions" THEN [p EXCEPT !.old = p.values] ELSE p

\* The count, unless the process has ended meanwhile or the read failed.
PapiReturn ==
  /\ call.step = "alive"
  /\ IF IsActive(Pid) /\ papi.available = "yes" /\ ~call.failed
     THEN /\ papi' = PapiResult(papi, call.op)
          /\ base' = IF call.op = "getAndResetInstructions" THEN base + papi.values - papi.old ELSE base
          /\ Return("true", IF call.op = "resetInstructions" THEN 0 ELSE papi.values - papi.old)
     ELSE /\ UNCHANGED <<papi, base>>
          /\ Return(IF ~IsActive(Pid) THEN "false" ELSE IF call.failed THEN "thrown" ELSE "true", 0)
  /\ UNCHANGED <<machine, process, clock, unit, calls, strays>>

TasksNext ==
  \/ \E parent, t \in Tids : Create(parent, t)
  \/ \E t \in Tids : ThreadExit(t)
  \/ ProcessEnds \/ Reuse
  \/ \E running \in SUBSET live : Tick(running)
  \/ \E h \in machine.handlers :
       \/ GetHandler(h) \/ ReleaseHandler(h) \/ GetCoreUsage(h) \/ ResetCoreUsage(h) \/ GetPriority(h)
       \/ GetVirtualCoreId(h) \/ GetVirtualCoreIds(h)
       \/ \E priority \in Priorities : SetPriority(h, priority)
       \/ \E cores \in Moves : Move(h, cores)
  \/ GetInstructions \/ ResetInstructions \/ GetAndResetInstructions
  \/ ReadUpTime \/ StatFails \/ CheckActive \/ ReadCpuTime \/ KeepCpuTime \/ ReadStat
  \/ Refuse \/ List \/ (\E i \in DOMAIN call.todo : SkipEntry(i)) \/ ListFails \/ ListDone \/ Spread \/ SpreadDone \/ MoveFirst \/ ReadMask
  \/ Attach \/ PapiRead \/ PapiReturn

TasksSpec == TasksInit /\ [][TasksNext]_tasksVars

(***************************************************************************)
(* Properties.                                                             *)
(***************************************************************************)

\* The threads that the task of a call stands for and that the call can know.
Reached == {t \in live : ret.gen = gen[ret.h] /\ t \notin strays /\ (ret.h = Pid \/ t = ret.h)}

\* A move or a change of priority that succeeds has reached every thread of the
\* process, whatever threads are created and ended while it goes through them,
\* except those whose parent it had listed and not yet come to; getPriority()
\* then says what was set, with the lowest priority reported as 1.  And a
\* caller is told the cores of a task as they are, as long as the cores that
\* are online are the first ones.
EveryThreadReached ==
  /\ ret.op = "move" /\ ret.ok = "true" /\ ret.h = Pid => \A t \in Reached : aff[t] = ret.value
  /\ ret.op = "setPriority" /\ ret.ok = "true" /\ ret.h = Pid =>
       \A t \in Reached : PriorityOf(nice[t]) = Max({ret.value, 1})
  /\ ret.op = "getVirtualCoreIds" /\ ret.ok = "true" =>
       (online = 0..(Cardinality(online) - 1) => ret.value.ids = ret.value.mask)

\* The core usage of a task that still is the one of the last reset exceeds
\* 100% of a core per thread by the ticks of one second at most, and by those
\* that pass between the reads of the two files, although the time since boot
\* is known in whole seconds only; and it is never negative.
UsageWithinASecond ==
  ret.op = "getCoreUsage" /\ ret.ok = "true" /\ unit[ret.h].gen = ret.gen =>
    /\ spaces = 0 => ret.value.ticks >= 0
    /\ LET cores == IF ret.h = Pid THEN Min({Cardinality(machine.ids), Cardinality(online)}) ELSE 1
       IN  ret.value.seconds > 0 /\ spaces = 0 =>
             ret.value.ticks < cores * ((ret.value.seconds + 1) * Hertz + ret.value.late)

\* Between calls the count starts where the last reset or the last count that
\* was taken ended: no instruction is lost or counted twice between two calls
\* of getAndResetInstructions(), although the process runs between the read
\* of the counter and its reset.
InstructionsNotLost == call.step = "idle" /\ papi.available = "yes" => papi.old = base
=============================================================================
