# A TLA+ model of Mammut

Mammut is a C++ library to monitor and control a Linux machine: the frequency
of its cores, the energy they consume, the topology, and the processes that
run on it. An application either calls it locally or talks to a `mammut-server`
on another machine. This directory holds TLA+ modules that model its stateful
parts, TLC configurations that check them on small instances, and TLAPS proofs
of the most important properties. `PROJECT.json` lists components, runs,
mutants, the map from definitions to source lines, findings, hazards and
theorems. Paths below are relative to the repository; `src/src` holds the
implementation and `src/include/mammut` the interfaces.

## 1. Inventory

| Component | State it keeps | Operations | Hard behaviour |
|---|---|---|---|
| Process throttling (`task/task-linux.cpp`) | a map from handlers to percentages, their sum, two queues of requests behind a lock, a run flag | `throttle`, `removeThrottling`, release of a handler, `sendSignal`; the loop of `ThrottlerThread::run` | a thread that iterates over handlers which clients may free, processes that end, a budget of 100% |
| Threads and monitors (`utils.cpp`) | `_running`, `_pid`, `_tid`; a condition variable with a predicate | `start`, `join`, `running`; `wait`, `timedWait`, `notifyAll` | lost or late notifications, flags set after they are tested |
| RAPL over MSRs (`energy/energy-linux.cpp`) | last readings of wrapping 32-bit registers, accumulated joules | `getJoules*`, `reset`, refresher | wraps must not be missed, a register that reads 0 throws |
| RAPL over sysfs (same file) | last readings and joules per component | `read`, `reset`, refresher | `reset` zeroes outside the lock; one range corrects the wraps of files with others |
| Energy objects (`energy/energy.cpp`) | counters, their refreshers | constructor, `init`, destructor, requests of clients | destruction against a timed wait, `init` again, and failing half way |
| Plug counters and power caps (`energy/energy-linux.cpp`) | last reading, its time, accumulated joules; caps per zone, socket and window | `init`, `getJoules`, `reset`; `set`, `get`, rollback points | baselines of several objects, caps that are restored one file at a time |
| Utilization of cores (`topology/topology-linux.cpp`) | the spinner thread of each core | `maximizeUtilization`, `resetUtilization`, destructor | handshake of `Thread::start` |
| Topology (`topology/topology.cpp`, `-linux.cpp`) | CPUs, physical and virtual cores; hotplug files, clock modulation registers; idle levels and the idle times at the last reset | construction, `hotPlug`, `hotUnplug`, `setClockModulation`, rollback points, idle times and counts | cores that go offline between two system calls, identifiers that repeat, values cut to 32 bits |
| Frequency domains (`cpufreq/cpufreq-linux.cpp`, `cpufreq.cpp`) | sysfs files of each core, table of frequencies, turbo frequencies | governors, frequencies, bounds, turbo, rollback, voltage tables | writes that fail half way, states that must be restored, governors without a name in the library |
| Remote calls (`communicator*.cpp`, `mammut-server.cpp`) | a TCP stream, a lock, the servant of the client being served | `remoteCall`, `send`, `receive`; the server's loop | threads sharing a connection, frames cut short, clients that die |
| Remote proxies (`*-remote.cpp`, `processMessage`) and facade (`mammut.cpp`) | the modules of a `Mammut` object; at the server, one set of modules per connection | constructors (sequences of requests), one request per operation, `releaseModules` | baselines kept by the server for all the objects of a connection, modules that are not activated, requests for what is not there, devices that fail once they were found |
| Execution units (`task/task-linux.cpp`) | last times of a handler, instruction counts | core usage, priority, placement, `getActiveThreadsIdentifiers`, instructions | threads and processes that begin and end between two system calls, identifiers that are reused |

How they interact. Modules are created lazily by `Mammut` and share nothing but
`Communicator`. Threads are the throttler (one per local `TasksManager`), a
refresher per RAPL counter, and a spinner per virtual core while its
utilization is maximized; clients are threads of the application. A client and
the throttler share the two queues; a client and a refresher share the counter
and the monitor `_stopRefresher`; `getVoltageTable` of a frequency domain uses
the utilization of its cores and its own rollback point; the server runs the
local implementation of each module for the client it is serving.

What makes each part correct is stated by the properties in section 3, and the
hazards they are aimed at are in `PROJECT.json`.

## 2. Modules

| Module | Models | Notes |
|---|---|---|
| `Throttler` | throttler thread, handlers, processes | `MCThrottler` for TLC, `TasksProofs` |
| `EnergyMeter` | what an energy counter promises | abstract specification |
| `RaplMsr` | MSR counters and their refresher | implements `EnergyMeter`; `MCRaplMsr`, `RaplMsrProofs` |
| `RaplSysFs` | sysfs counters, a client and other threads | `MCRaplSysFs`, `RaplSysFsProofs` |
| `EnergyLifecycle` | an `Energy` object, its counters, refreshers and monitors | `ThreadProofs` |
| `Utilization` | spinner threads and `Thread` | `ThreadProofs` |
| `Hierarchy` | grouping of cores, as pure operators | used by `Topology`; `TopologyProofs` |
| `Topology` | hotplug, clock modulation, rollback points, remote copy | `MCTopology`, `TopologyProofs` |
| `CpuFreq` | frequency domains | `MCCpuFreq`, `CpuFreqProofs` |
| `RemoteCall` | framing, `remoteCall`, server loop | `MCRemoteCall`, `RemoteProofs` |
| `Tasks` | handlers of a process and of a thread | `MCTasks`, `TasksProofs` |
| `EnergyModule` | plug, CPU and memory counters, `Energy::processMessage`, power caps, as operators | used by `RemoteModules` |
| `FreqModule` | what `CpuFreq::processMessage` makes of a request, boosting | used by `RemoteModules` |
| `TopologyModule` | idle levels and times, `Topology::processMessage` | used by `RemoteModules` |
| `RemoteModules` | two client objects, their proxies, and the servant of their connection | composes the three; `MCRemoteModules`, `RemoteProofs` |
| `SequenceLemmas` | nothing of the code: induction, recursive functions, sequences, finite sets, products | used by the proofs |

**Throttler.** `throttlingValues` is `_throttlingValues` (0 for a handler not in
the map), `sumPercentages`, `processesToAdd`, `processesToRemove` and `runFlag`
are the fields of the same names. `pc` follows `run()`: test of the flag, drain
of additions, drain of removals, one slot per process (SIGCONT, sleep, SIGSTOP),
erasing of terminated processes, sleep for the rest of the interval, and the
final resume. A handler is an address: `allocated` says whether the object
exists and `pidOf` what its memory says, so that an address that is used after
it was freed may name another process. A process may end at any time, and its
identifier be given to another one (`PidReused`, for the identifiers of
`Recycled`). The actions of clients are the calls, in any order and at any time;
whatever they do under the lock is one action, what `run()` does without it is
interleaved with them. Percentages of an interval stand for its microseconds.
The ghost `asked` holds the processes that somebody asked to throttle or stopped,
`misled` those that a handler lost: its memory was given to another handler, or
their identifier to another process.

**RaplMsr, EnergyMeter.** A tick is the time in which a domain consumes one unit
at thermal design power, so `getWrappingInterval()` is `Modulus - 1` ticks and
the refresher's period is half of it. `Latency` bounds how late a round of the
refresher ends. A register that reads 0 makes the read throw: a client may
catch that and go on, after a `reset()` that has set back the CPUs before this one and
has read some registers of it (`passed`); in the refresher nobody catches it and
the program ends (`fatal`). `EnergyMeter` promises that a read
which fails changes nothing, and that of the domains which a failed reset had reached
no later read reports more than they have consumed. The refinement
mapping takes for the energy at the last reset the energy now less what the
counter would report now (`Base`).

**RaplSysFs.** `read()` loads the accumulated value, adds what the file shows since
the last reading and stores it; `reset()` reads every domain and then zeroes it
without the lock. The load and the store are separate steps. Each file wraps at a
range of its own (`RangeOf`), but `init()` reads the range of package 0 only
(`energy-linux.cpp:663`) and `read()` corrects every wrap by it (`MaxValue`, line
679). `Correction` is what that makes of the wraps counted so far, and the
properties are exact up to it. A zeroing that falls between the load and the store
of another thread is undone: `resetTo` is when a domain was last zeroed, `kept` when
the last `reset()` began whose zeroing was not undone.

**EnergyLifecycle.** `call` is where the owner's thread is; `th` is where each
refresher is inside `run()` and `timedWait()`: entering, blocked, woken or
expired (it has to take the mutex again), refreshing, leaving. `predicate` is the
predicate of `_stopRefresher`. The second and later `init()` of a counter come
from remote clients; one that fails half way (`RemoteInitFails`) leaves in
`_refresher` a thread that was never started (`unstarted`).

**Utilization.** One core, its client, and the kernel threads it creates. Each
step of `start()`, `join()`, `threadDispatcher()` and `getPidAndTid()` that
another thread can see is an action: `doing` is what the client is executing,
`spinner` where each kernel thread is. The ghost `hasty` says that a call was
made while a started thread had not yet reached `run()`. The specification is
`UtilSpec`; like `TasksSpec` of `Tasks` and `ProxySpec` of `RemoteModules` it has a
name of its own because one proof module extends it beside another one.

**Hierarchy, Topology.** A machine is what sysfs shows at construction (`IsMachine`
says what the theorems assume of one). `Kept` and `Distinct` are the loops that copy
what passes a test and what was not met before. `OnlineIds` is the list of virtual
cores, `CorePairs` the pairs of package and core id in the order in which they are
met, `UniqueCoreId` and `Coordinates` the renumbering of physical cores by them, the
three `Build` operators the construction, `GetTopologyRes` and `RemoteTopology` the
two ends of the message with which a client gets a copy. In `Topology` each access
to a register or an `online` file is a step, and another program may plug or unplug
a core between any two of them. Percentages of clock modulation are counted in
steps. Of the register the model has the five bits that matter, with whatever is
found in them at the start (`found`): modulation may be enabled and the reserved bit
set; a duty cycle of 0 under enabled modulation, which the processor reserves, is
not. A read of an offline core fails; `writeBits` then goes on with an uninitialised
value, which the model takes from `Garbage`.

**CpuFreq.** `files` are the sysfs files of each core, `available` and `turbo` the
tables of each domain. Calls are atomic (nothing else writes these files in the
model), but each writes core by core, and an offline core ends it with an exception
after the cores before it were written (`torn`). Cores are plugged and unplugged
between calls. The kernel may offer governors that the enum of the library does not
have, as schedutil: `getCurrentGovernor()` then returns a variable that was not
initialised, which the model takes from `Garbage`. Loops over frequencies and
domains are recursive functions. The kernel clamps frequencies to the bounds and,
with `RejectCrossed`, refuses a bound that crosses the other.

**RemoteCall.** A frame is `FrameLen` units in each direction, so that either
side can fail in its middle. `phase` is where a thread is in `remoteCall`, whose
lock covers the whole exchange. What the request does is abstracted to "executed".
The server is one process that accepts, reads, processes and answers.

**Tasks.** One caller uses the handlers; each step of a call is one read of a file
of `/proc` or one system call, and between any two of them the process creates and
ends threads, ends, or is replaced by a new process with its identifier (`gen`
counts those). `move()` and `setPriority()` of a process list its threads, in
whatever order `readdir()` gives them, and go through the list. The listing looks at
each entry again (`SkipEntry`, `ListFails`, `ListDone`), so that an entry may be
gone by then, and the directory too; the names are taken to come from one call of
the system, as they do for processes of ordinary size. `/proc/uptime` is read in
whole seconds (`getUpTime` goes through `stringToInt`) while times of tasks are in
clock ticks. `papi` is the event set of the process, of which a read may fail; the
read right after it was attached is taken to succeed. A thread executes one
instruction per tick in which it runs. The ghost `strays` holds the threads that a
call cannot have reached: children of a thread that it had listed and not yet come
to.

**EnergyModule, FreqModule, TopologyModule, RemoteModules.** The first three are
operators: what a module of the server is when it is made, and what `processMessage`
makes of a request: an answer, an error, or the end of the server. `RemoteModules`
has the state: `world` is the machine (energy, power, idle times, files), `servant`
the modules of the servant, `cl` those of each client object, `call` the requests
that the call under way has still to send. A step is one remote call, since
`RemoteCall` shows that they are executed once and one at a time; a constructor is a
sequence of them, in the order of the code, some of which follow from the answers
(`Follow`). The counters of the processors are exact meters here, which `RaplMsr`
shows of the registers, and `RaplSysFs` of the files up to the two inaccuracies it
describes. The counter of the memory is one too where every processor has the
register of the memory (`dram`); on a machine with registers but not this one, as
all those of AMD, it is there and returns 0 (`energy-linux.cpp:283` and `579`). A
machine with `faults` is one on which files and devices that were found at the start
may fail from then on: `init()` answers FALSE or throws, reads and resets throw or
end the server, as the code of each kind of counter has it (`InitFails`,
`ResetFails`, `GetJoulesFails`, `TopologyFaults`, `FreqFaults`). A counter that
integrates power may find any of the powers that its device has shown. Numbers of 32
bits are `W` values wide, signed where the code has an `int`. The ghost `own` is
what each object has reset and no other since. `IsMachine` says what a machine is:
its cores, processors and levels are finitely many numbers, and the powers it may
consume are numbers. The requests of a `DomainRemote` are not there: no such object
is ever made, see section 8. Power caps belong to a local `Energy`; they are here
because the module is.

## 3. Runs

All runs end within about two minutes with two workers.

| Run | Instance | What it shows |
|---|---|---|
| `throttler` | 2 handlers of 2 processes, one that may not be signalled and one whose identifier may be used again, 50% each, 2 requests per interval, clients that send SIGSTOP, symmetric handlers | whatever clients do with handlers, `BudgetNotExceeded`, `SlotsFitInterval`, `DanglingOnlyUntilDrain`, `ServedAreStopped`, `OnlyAskedAreStopped`, `ResumedAtShutdown` |
| `throttler_fair` | 2 handlers of one process, 40%, 1 request per interval, fair | whatever clients do with them, the progress properties `RemovalTakesEffect`, `ServedInTurn`, `StopCompletes` |
| `rapl_msr` | 2 registers of 5 values of one CPU, latency 1, 5 units of energy | `NoWrapIsMissed`, `IsEnergyMeter` (refinement) |
| `rapl_sysfs` | files of 2 and 4 values where that of package 0 has 3, 3 units of energy, client and refresher | `NothingIsLost`, `NothingOlderThanReset` |
| `energy` | up to 3 `init()` of the CPU counter, some of which fail half way, fair | `OneStopEndsOne`, `NoSleepThroughStop`, `RefreshGoesOn`, `ReleaseReturnsUnlessLost` |
| `energy_hang` | one `init()` per counter, fair | violated: `ReleaseReturns` |
| `utilization` | 4 kernel threads, fair | `MovedIsNew`, `SpinsUntilReset`, `CallsReturn` |
| `cpufreq` | domains of 2 and 1 cores, one of which may be unplugged, 3 frequencies with a turbo one in the middle, the governors userspace, performance and schedutil, which the library does not know, 3 calls | `DomainCoherent`, `FrequenciesConserved` (and in order, but for reinserted turbo frequencies), `RollbackRestores`, `VoltageTableRestores` |
| `topology` | all groupings of up to 4 cores in 2 packages with 2 core ids; operations on an x86-like and an ARM-like machine: 4 calls, 1 disturbance | `GroupsFollowHardware`, `RemoteMirrorsServer`, `ReportsWhatWasSet`, `RollbackRestoresCores` |
| `remote` | 2 clients, one with two threads, one call per thread, frames of 2 units, fair | `OwnResponse`, `ExecutedOnce`, `CallEnds`, `ServerIsFreed` |
| `tasks` | a process with up to 3 threads, handlers of it and of a thread, 3 cores or 2 with a hole, names with and without a space; 2 calls, 4 ticks of half a second, 3 threads or processes that begin or end | `EveryThreadReached`, `UsageWithinASecond`, `InstructionsNotLost` |
| `proxies` | 2 objects on one connection; machines with each kind of counter, with and without a register of the memory, with cores 1 and 10, with idle levels, with each set of activated modules, with one and two zones and sockets, and with devices that fail; 4 calls, 3 ticks, words of 4 values | `OwnResetCounts`, `IdleSinceReset`, `FailuresAreKnown`, `CapsRestored` (by a rollback; and a cap for all the sockets gives each its share) |

Type invariants are part of the inductive invariants of section 5, where the
other proofs need them.

Each property of a passing run has a mutant: an operator whose comment begins
with "Mutant", which changes one mapped definition the way a bug in that code
would, and with which TLC finds the property violated.

**Bounds and why they are enough.** Two handlers and two processes let handlers
share a process, be exchanged for one another at an address, and compete for the
budget; two queued requests per interval let a removal and an addition cross, and a
second addition to a mapped handler or over the budget be drained. Progress is
checked with both handlers on one process, which is where they can take its slot
from one another. The registers wrap within `MaxEnergy`, and two domains let a round
of the refresher and a reset be cut in the middle; that the CPUs are reset one after
the other matters to the proof only. Of the sysfs files one wraps before package 0
and one after it. Three `init()` let two refreshers be forgotten. Four kernel
threads let a thread of the call before last still be publishing its identifier.
Four cores, packages and core ids make every case of equal and different pairs
happen, with cores missing in between. Three calls on frequencies are "save, change,
restore" and four on the topology "change, save, change, restore". Two units per
frame give a frame a middle; two threads on one connection and another client make
all the orders of requests and responses possible. Three threads let one be created
by another that a move has reached and by one that it has not, and four ticks of
half a second let the seconds of `/proc/uptime` fall behind by one. In `proxies` the
machines differ in what one client is interested in, since families of operations
that share no state would only multiply the states; four calls are "make, reset, let
another one make or reset, read", and with `W = 4` the idle times pass both limits
of a word. Deadlock checking is off where bounds or the end of the object's life
stop a behaviour.

**Symmetry** is used for safety properties only, over handlers and over domains,
which no definition tells apart; the refinement checked with it in `rapl_msr`
has no liveness part.

## 4. Fairness

Weak fairness of a thread's steps is what a scheduler gives to a runnable
thread: it is assumed of the throttler thread, of refreshers, of spinners, of
the server and of a client inside a call. It is never assumed that a client
makes a call, that a process ends or that a signal arrives. `Expire` (the
timeout of `timedWait`) has strong fairness: spurious wakeups restart the same
absolute deadline, which therefore passes in the end. A step that waits for
a mutex is fair in the same sense as any other, since its owners hold it for
bounded stretches of code.

## 5. Proofs

Every safety property that a run checks is also proved, for every value of the
constants that the named assumptions allow.
No proof relies on the bounds on calls, energy or ticks being small; one,
`IdleAlwaysSinceReset`, on there being at most as many ticks as numbers of 32 bits.

*TasksProofs*, first part: `Throttler` (`ThrottlerAssumption`).
- `TypeCorrect`.
- `BudgetInvariant`: `BudgetNotExceeded` is inductive given types; only `DrainAdd`
  and `DrainRemove` change the sum, the one under the test of `addProcess()`, the
  other downwards.
- `SlotsInvariant`: the sum of the mapped percentages is at most `_sumPercentages`,
  and what was slept plus the percentages of the slots still to come is too. A sum
  over a set is a function `weight` from the subsets of the map to their totals
  (`Weighs`); the invariant says that there is one, and each step makes the next
  from the last. `EraseTerminated` is why it is an inequality.
- `DanglingInvariant`: strengthened by `DrainOrder`, the fact that removals are
  drained after the additions of the same pass, so a freed handler that is queued
  for addition cannot survive its removal.
- `ResumedInvariant`: `ShutdownInv` relates the run flag and the final loop: the
  manager is being destroyed by then, so no client touches the processes, and those
  already visited are not stopped.
- `ServedInvariant` assumes only that clients send no SIGCONT of their own; its
  invariant adds that what is still to do is mapped (`TodoIsMapped`), and rests on
  `DanglingInvariant` for the handlers whose memory is used again.
- `AskedInvariant` assumes nothing of clients. A handler that is mapped or queued is
  of a process that somebody asked to throttle or that a handler lost, or its
  removal is queued (`AskedHandlers`); what is in a slot is mapped (`SlotIsMapped`).
  So the memory of a released handler misleads the thread until the next drain only.

*TasksProofs*, second part: `Tasks` (`TasksAssumption`).
- `SpreadReachesAll`: while a call goes through its list, each thread of the process
  is on the rest of the list, has what was asked for, or is a stray (`SpreadInv`).
- `UsageIsWithinASecond`: `UnitInv` bounds the time that a task has run since
  its handler last looked by the time since the second in which it did, for
  the cores the task can use (`Width`): a tick adds at most one for each of its
  threads that runs, and no more than there are cores online.
- `NoInstructionIsLost`.

*RaplMsrProofs* (`RaplAssumption`: the latency is below a quarter turn).
- `NoWrapMissed`: `WrapInv` bounds what is unread by the time since the reading,
  with a round of the refresher in the middle; `RoundFits` says that period and
  latencies fit in one turn.
- `MsrImplementsMeter`: every step of the counter is a step or a stutter of
  `EnergyMeter`; the lemmas on `DeltaDiff` show that modular differences add up.

*RaplSysFsProofs* (`SysFsAssumption`), for any number of threads and domains, any
range of each file and any range read for package 0.
- `EnergyIsNotLost`, `ResetForgetsThePast`: `SysFsInv` compares the accumulated
  joules, and the sum that a read holds before it stores it, with the energy at
  the reading from which they were made (`LowerInv`, `UpperInv`), corrected by the
  difference of the two ranges for each wrap they count (`Excess`); and these wraps
  with the energy consumed since (`TurnsInv`). That reading is
  less than a turn old, and the one in a thread's hands is not older than the
  one it replaces (`FreshInv`), since the lock keeps reads apart.

*ThreadProofs*, first part: `EnergyLifecycle` (`MaxInitsAssumption`).
- `TypeCorrect`, with the fact that the n-th `init()` starts the n-th thread.
- `NoSleepInvariant`: a pending stop is never slept through, for any number of
  refreshers of one counter.
- `OneStopInvariant`: `StopInv` says that of the refreshers of a counter one at most
  has left, and that the predicate is not set any more then, since the waiter that
  leaves has cleared it; so those that no `_refresher` points to are alive when the
  destructor frees the counter.

*ThreadProofs*, second part: `Utilization` (`UtilizationAssumption`).
- `HandshakeIsRight`: in `HandshakeInv` only the thread that `start()` waits for
  has identifiers to publish or a notification to make, so `_tid` is its own.
- `OneThreadSpins`: `SpinInv` says, for each place of the client, which threads are
  left and where, as long as no call was `hasty`.

*CpuFreqProofs* (`CpuFreqAssumption`), for both kinds of kernels.
- One lemma per operation says what it does to a result: it stays within its domain
  and, unless it throws, keeps the cores of the domain in agreement (`Tame`), and
  which of governor, speed and bounds it leaves alone. The loops of
  `getVoltageTable()`, `rollback()` and `removeTurboFrequencies()` are done by
  induction.
- `CoresAgree`: `DomainCoherent` is inductive given types and a rollback point that
  can be restored (`PointOK`).
- `RollbackIsFaithful`: after n iterations the first n domains are as in the point
  and the others as before (`Progress`).
- `VoltageTableIsTransparent`: bounds were never touched or are written again as
  they were in force, which no kernel refuses, and setting the frequency in force
  does not change it. A governor of the enum is restored; any other, for whatever
  `getCurrentGovernor()` makes of it, is not the one that the domain has afterwards.
- `TurboTableIsConserved`: the invariant (`Holds`) is that available and turbo
  frequencies together are the table, each once, and that the available ones that
  are not turbo are in order and so are the turbo ones (`Ordered`), wherever in the
  table these are.

*TopologyProofs* (`TopologyAssumption`), for machines of any size with packages,
core ids and missing cores as they may be.
- `GroupsAlwaysFollowHardware`: the invariant `HierarchyInv` only says that the
  topology is the one built from the machine; the work is in the operators.
  `Distinct` keeps one of each value (`DistinctSet`, `DistinctAppend`), so
  identifiers of physical cores stand for pairs of package and core id one to one
  (`UniqueCoreIdFacts`), each CPU has the cores of its package
  (`CpuFacts`, `CoresOfCpu`), and looking a core up by its identifier finds it.
- `RemoteAlwaysMirrorsServer`: the list that the server sends has its cores in the
  order of the vectors, CPU by CPU, not in the order of the identifiers. Building
  from it gives the same vectors (`RebuildsTheSame`), since the first occurrences
  of a list of blocks are the blocks' keys (`FlattenDistinct`) and what is kept of
  it with a key is the block (`FlattenSel`).
- `AlwaysReportsWhatWasSet`, `RollbackAlwaysRestoresCores`: the operations are
  cut between any two accesses, so `TopologyInv` says for each place what the
  register must be (`RegistersHold`: what it reports is what was asked for, except
  between the two writes of the current core, where modulation is already
  enabled), what is left of the list of cores (`WalkShape`), how far a point has
  been filled and that each entry of it can be set (`PointLengths`, `PointHolds`),
  and which cores a rollback has restored already (`RollbackWalk`). A rollback
  throws only for an entry that no register has, and that takes a core toggled
  while the point was taken or while a register was written (`ThrownForAReason`).

*RemoteProofs*, first part: `RemoteCall` (`RemoteAssumption`), for any clients,
threads and frame length.
- `ExecutesOnce`: the last unit of a request is at one place at a time (to be sent,
  in the stream, being executed, executed); `CallOfInv`.
- `ResponseIsOwn`: `StreamInv` says what is on the streams of a connection in each
  state of its two ends: nothing while no thread is in a call, else the rest of
  one request or of its answer, with consecutive numbers, where the other side
  expects them. A client that closes leaves the rest of a request
  (`AbandonedInv`), a server that closes leaves no answer (`SeveredInv`). A signal
  takes the connection out of the claim (`cut`).

*RemoteProofs*, second part: `RemoteModules` (`MachinesAssumption`, `WAssumption`),
for any machines and client objects. `ProxyInvariant` has the invariant `ProxyInv`:
- `ServantInv` and `ObjectsInv` relate what the servant found when it was made to
  what an object believes: its counters are among those found. A counter keeps its
  kind whatever fails, so that its failures are those of its kind.
- `CallInv`: the requests that a call has left are among those that its operation
  may send (`ReqsOf`), and either all are of modules that are activated, or
  nothing was sent yet and the first one is not of such a module.
- `CapsInv`, `WalkInv`: a window of a cap that is not yet as the operation is to
  leave it has its request still in the list, and one that was not set is as
  before.

From it follow `FailuresAreAlwaysKnown` and `CapsAlwaysRestored`.
`IdleAlwaysSinceReset` adds `ClockInv`: what an object has reset, and nobody since,
is the baseline at the servant, cut to 32 bits. The difference of two such numbers
is that of the numbers, modulo `W` for times and counts (`ModDifference`) and, for
idle times, which the code reads as an `int`, short by `W` at most once
(`IntDifference`). The second needs that an idle time grows by less than `W` between
the two, hence `MaxTicks <= W`.

`OwnAlwaysCounts` adds `MetersInv` and `GetterInv`. `MetersInv` says, by kind of
counter, what the servant's counter holds if an object has reset it and nobody
since: the reading of its device at the reset, for the meters; the time of its
last sample, and an energy between the least and the most that the powers seen so
far make of the time since the reset, for those that integrate power. Powers are
only added to those seen, so the bounds widen as time passes and never have to be
taken back. `GetterInv` is about the getters under way: an answer is of a moment
between the beginning and the end of the call, so it is due between the energy
at either. `getJoulesCpuAll()` asks once for each processor; what it has added up
lies between the totals of the processors asked so far at the two moments
(`SumBetween`). `CpusTotals` gives these totals along a sequence of the
processors (`TotalsFacts`), and a reading of all at once is the sum of the shares
(`TotalOfMultiple`) by induction along it.

*SequenceLemmas* has what several of them need of induction, recursive functions,
sequences, `FlattenSeq`, finite sets of numbers and products.

**Induction.** The library's induction theorems take an operator as a parameter,
which the provers cannot instantiate. Where the proofs need induction they take a
set for the predicate: `LeastNumber` gets a least element from the library's
well-foundedness of the naturals; `InductionUpTo`, `SeqInduction` (over the
initial segments of a sequence) and `Iterates` (a recursive function exists and
takes its values in a set) follow. `Kept` and the library's `FlattenSeq` are such
iterations over the indices of a sequence (`KeptFunction`, `FlattenFunction`), from
which follows what they give when an element is appended; everything else about
them is by induction from there.

**Only model-checked.** Liveness under fairness, which is out of the prover's reach.

## 6. Where code and documentation disagree

Shown by a run:
- `energy_hang`. `timedWait()` clears the predicate also when it returns because
  of the timeout (`utils.cpp:182`): a notification that arrives between the two
  is lost, and the destructor's `join()` does not return.

Seen while modelling, in the model but excepted from the properties by a
condition or a ghost variable:
- The percentage of a process that terminated stays in `_sumPercentages`
  (`task-linux.cpp:543`), so that requests that fit are refused (against
  `task-linux.hpp:76`).
- `start()` returns before `_running` is set (`utils.cpp:97`): a
  `resetUtilization()` that follows `maximizeUtilization()` at once does nothing
  (against `topology.hpp:45`), `hasty`.
- `throttle()` on a handler that is in the map changes its percentage without
  looking at the budget (`task-linux.cpp:495`, against `task.hpp:222`). `updated`
  in `SlotsFitInterval`.
- A request that `throttle()` has accepted is dropped without notice if it no
  longer fits when it is drained (`task-linux.cpp:496`).
- `removeProcess()` does not resume a process that is stopped
  (`task-linux.cpp:506`, against `task.hpp:234`).
- Additions are drained before removals whatever the order of the calls
  (`task-linux.cpp:518`); a handler released during an interval is used until its
  end, and may name another process by then (`task-linux.cpp:533`), `misled`.
- A handler goes on throttling the process that gets the identifier of its own
  (`task-linux.cpp:533`), `misled`.
- A register that reads exactly 0 is taken for a missing one
  (`energy-linux.cpp:515`): the call throws, a reset half way, and in the refresher
  the exception ends the program, `fatal` in `RaplMsr`.
- `read()` of the sysfs counter corrects the wrap of every file by the range of
  package 0 (`energy-linux.cpp:663` and `679`): on a machine where the files of other
  packages or of the memory have ranges of their own, each wrap loses or invents the
  difference (against `energy.hpp:115`), `Correction` in `RaplSysFs`.
- `reset()` of the sysfs counter zeroes within an addition of the refresher
  (`energy-linux.cpp:734`, against `energy.hpp:115`), which undoes it: `kept`, as
  opposed to `resetTo`, in `RaplSysFs`.
- `COUNTER_COMMAND_INIT` for an initialised counter replaces a running refresher,
  which nobody joins (`energy.cpp:372`, against `utils.hpp:191`), `UseAfterFree`; if
  it throws half way the new one was never started, and the destructor joins it all
  the same (`energy-linux.cpp:408` and `645`), `JoinUnstarted`.
- The counter of the memory is there on a machine that has registers but none of the
  memory, and returns 0 (`energy-linux.cpp:283` and `579`).
- A domain whose governor the library has no name for, as schedutil, is left in
  userspace by `getVoltageTable()`: what `getCurrentGovernor()` returns for it is
  uninitialised (`cpufreq-linux.cpp:171`, `cpufreq.cpp:80`), and that
  `setGovernor()` refuses it is ignored (`cpufreq-linux.cpp:370`).
- The same window lets the destructor free a core whose
  thread is starting, and `start()` be called twice (`topology-linux.cpp:246`,
  `utils.cpp:104`), `hasty`.
- Turbo frequencies are recognised by their digits and reinserted at the end
  (`cpufreq-linux.cpp:127`): a table whose turbo frequency is not the highest is not
  sorted afterwards (`cpufreq.hpp:101`).
- A rollback to a point with governor userspace leaves the bounds changed since
  (`cpufreq.cpp:213`, against `cpufreq.hpp:311`).
- Bounds that cross in between are refused by kernels before 5.4 unnoticed, since
  the stream is tested before it is flushed (`cpufreq-linux.cpp:242` and `100`,
  against `cpufreq.hpp:184`), `RejectCrossed`.
- A topology rollback unplugs and plugs in one pass (`topology.cpp:300`): if the
  core to unplug is the last one online the kernel refuses, and it stays online
  (against `topology.hpp:132`), `refused`.
- A core that goes offline between the two accesses of `setClockModulation()`
  keeps modulation enabled with a duty cycle of 0; one that goes offline while
  a rollback point is taken puts 0 in the point, and the rollback throws half
  way; one that comes online between the read and the write of `writeBits()`
  gets an uninitialised value (`topology-linux.cpp:400`, `utils.cpp:508`),
  `garbled` and `inPeace`.
- A signal that interrupts a read or a write of a client leaves the rest of the
  frame in the stream, for the next call to read (`communicator-tcp.cpp:45`, `56`,
  against `communicator.hpp:21`), `cut`.
- The request for the domains ends the server, which writes to entries of the
  answer that it has not added (`cpufreq.cpp`, `GetDomains`), so that a
  `DomainRemote` is never made (`cpufreq-remote.cpp:158`); a request for
  the components of a CPU counter that it has not does too (`energy.cpp`, `HAS`).
- A topology that is made over a connection resets the idle times that
  the other objects of the connection count from (`topology-remote.cpp:223`).
- Idle times are found by the prefix of a line of `/proc/stat`
  (`topology-linux.cpp:316`): with cores 1 and 10, core 1 reports those of core 10.
- `getJoules()` of the INA231 counter returns the energy since the last reading,
  not since the reset (`energy-linux.cpp:260`).
- The destructor of a remote `Energy` deletes power cappers that its constructor
  has not set.
- A space in the name of a program shifts the fields of its `stat`
  (`task-linux.cpp:124`), `spaces`; `getVirtualCoreIds()` asks for as many cores as
  are online, whichever they are; a priority of 0 is reported as 1.

## 7. Plan

Done: the modules of section 2, in the order throttler, energy counters,
lifecycle, utilization, frequencies, remote calls, topology, tasks, the modules of
the server and their proxies, and the proofs of section 5.

Next: the MSR counter by index (`init`, `reset` and destructor over CPU
identifiers that are not contiguous).

## 8. Not modelled

- The requests of a `DomainRemote`, which no program can send: it is only made by the
  constructor of `CpuFreqRemote`, once the request for the domains has been answered,
  and a server that has domains ends at that request (section 6). From the source
  alone: its `reinsertTurboFrequencies()` sends the message that removes them
  (`cpufreq-remote.cpp:31`).
- The P-state MSRs of one processor family (AMD EPYC), an alternative to the files
  of `CpuFreq`.
- The C functions and the Python binding: they forward calls.
- Names, descriptions and latencies that are only read and returned.
- libusb and the Smart Power driver under `src/src/external`: third-party code.
- Formats, log messages and file names, where no decision depends on them.
