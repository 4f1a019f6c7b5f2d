------------------------------- MODULE RaplMsr -------------------------------
(***************************************************************************)
(* The RAPL energy counters read through the MSRs (CounterCpusLinuxMsr of  *)
(* src/src/energy/energy-linux.cpp) and the refresher thread that reads    *)
(* them often enough not to miss a wrap of the 32-bit registers.           *)
(*                                                                         *)
(* Units.  Energy is counted in energy units of the register.  One tick of *)
(* time is what a domain needs to consume one unit at the thermal          *)
(* specification power, so a domain consumes 0 or 1 unit per tick and the  *)
(* wrapping interval of the code is Modulus - 1 ticks.  A domain is a CPU  *)
(* together with one of its components; each has its own register, its     *)
(* lastReadCounter and its joules.  Every access is under _lock, which     *)
(* reset() keeps for all the domains.                                      *)
(*                                                                         *)
(* A register that reads 0 makes the call throw.  A client's getJoules()   *)
(* or reset() may catch that and go on; in the thread of the refresher     *)
(* nobody does, and the program ends.                                      *)
(***************************************************************************)
EXTENDS Integers

CONSTANTS
    Domains,    \* the registers of the machine
    NoDomain,
    CpuOf,      \* the CPU of each register
    Modulus,    \* 2^32
    Latency,    \* ticks the refresher may need to wake up and read all domains
    MaxEnergy   \* bound: energy a domain consumes in a run

ASSUME RaplAssumption ==
    /\ NoDomain \notin Domains
    /\ Modulus \in Nat \ {0}
    /\ Latency \in Nat /\ 4 * Latency < Modulus
    /\ MaxEnergy \in Nat

ASSUME CpuOfAssumption == DOMAIN CpuOf = Domains

VARIABLES
    register,   \* the MSRs
    last,       \* _lastReadCounters*
    joules,     \* _joulesCpus
    result,     \* what the last get call of a client returned, -1 if it threw
    resetting,  \* the domains a running reset() has still to read
    passed,     \* the domains of its current CPU it has read and not zeroed
    refresher,  \* CounterCpusLinuxRefresher::run: "wait" or "read"
    todo,       \* the domains the current refresh has still to read
    timer,      \* ticks since the refresher began to wait
    energy,     \* ghost: what each domain really consumed
    fatal       \* the refresher has thrown: std::terminate()

vars == <<register, last, joules, result, resetting, passed, refresher, todo, timer, energy, fatal>>

TypeOK ==
    /\ register \in [Domains -> 0..(Modulus - 1)]
    /\ last \in [Domains -> 0..(Modulus - 1)]
    /\ joules \in [Domains -> Nat]
    /\ result \in [domain : Domains \cup {NoDomain}, value : Nat \cup {-1}]
    /\ resetting \subseteq Domains
    /\ passed \subseteq Domains
    /\ refresher \in {"wait", "read"}
    /\ todo \subseteq Domains
    /\ timer \in Nat
    /\ energy \in [Domains -> Nat]
    /\ fatal \in BOOLEAN

\* Mutant: the refresher waits for the whole wrapping interval.
WholeWrappingInterval == Modulus - 1

\* Half of getWrappingInterval(), the timeout of the refresher's wait.
Period == (Modulus - 1) \div 2

\* Mutant: the wrap is counted from the largest value instead of one past it.
DeltaDiffOffByOne(c1, c2) == IF c2 > c1 THEN c2 - c1 ELSE ((Modulus - 1) - c1 + c2) % Modulus

\* deltaDiff: the difference of two readings in 32-bit arithmetic.
DeltaDiff(c1, c2) == IF c2 > c1 THEN c2 - c1 ELSE ((Modulus - 1) - c1 + 1 + c2) % Modulus

\* Energy that is in the register and not yet in joules.
Unread(d) == DeltaDiff(last[d], register[d])

\* init() ends with reset() and the start of the refresher.
Init ==
    /\ register \in [Domains -> 1..(Modulus - 1)]
    /\ last = register
    /\ joules = [d \in Domains |-> 0]
    /\ result = [domain |-> NoDomain, value |-> 0]
    /\ resetting = {}
    /\ passed = {}
    /\ refresher = "wait"
    /\ todo = {}
    /\ timer = 0
    /\ energy = [d \in Domains |-> 0]
    /\ fatal = FALSE

\* The hardware: one tick.  The refresher completes a round at most Latency
\* ticks after its timeout.
Tick ==
    /\ timer < Period + Latency
    /\ \A d \in Domains : energy[d] < MaxEnergy
    /\ \E e \in [Domains -> {0, 1}] :
         /\ register' = [d \in Domains |-> (register[d] + e[d]) % Modulus]
         /\ energy' = [d \in Domains |-> energy[d] + e[d]]
    /\ timer' = timer + 1
    /\ UNCHANGED <<last, joules, result, resetting, passed, refresher, todo, fatal>>

Unlocked == resetting = {} /\ passed = {}

\* readEnergyCounter: a register that reads 0 is taken for a missing one.
Readable(d) == register[d] # 0

UpdateCounter(d) ==
    /\ joules' = [joules EXCEPT ![d] = @ + Unread(d)]
    /\ last' = [last EXCEPT ![d] = register[d]]

\* getJoulesCpu, getJoulesCores, getJoulesGraphic, getJoulesDram.
GetJoules(d) ==
    /\ Unlocked /\ Readable(d)
    /\ UpdateCounter(d)
    /\ result' = [domain |-> d, value |-> joules'[d]]
    /\ UNCHANGED <<register, resetting, passed, refresher, todo, timer, energy, fatal>>

\* The read of a client throws; its scoped lock is released.
GetThrows(d) ==
    /\ Unlocked /\ ~Readable(d)
    /\ result' = [domain |-> d, value |-> -1]
    /\ UNCHANGED <<register, last, joules, resetting, passed, refresher, todo, timer, energy, fatal>>

\* reset() takes the lock and visits every CPU.
ResetBegin ==
    /\ Unlocked
    /\ resetting' = Domains
    /\ UNCHANGED <<register, last, joules, result, passed, refresher, todo, timer, energy, fatal>>

\* It reads the registers of a CPU one after the other ...
Reached(d) == d \in resetting /\ \A e \in passed : CpuOf[e] = CpuOf[d]

ResetRead(d) ==
    /\ Reached(d) /\ Readable(d)
    /\ last' = [last EXCEPT ![d] = register[d]]
    /\ resetting' = resetting \ {d}
    /\ passed' = passed \cup {d}
    /\ UNCHANGED <<register, joules, result, refresher, todo, timer, energy, fatal>>

\* ... and, when it has them all, zeroes the joules of that CPU.
ResetZero ==
    /\ passed # {}
    /\ \A d \in resetting, e \in passed : CpuOf[d] # CpuOf[e]
    /\ joules' = [d \in Domains |-> IF d \in passed THEN 0 ELSE joules[d]]
    /\ passed' = {}
    /\ UNCHANGED <<register, last, result, resetting, refresher, todo, timer, energy, fatal>>

\* A register of the CPU reads 0: the registers read before it keep their new
\* last values and their old joules, the CPUs that follow are not reset.
ResetThrows(d) ==
    /\ Reached(d) /\ ~Readable(d)
    /\ resetting' = {} /\ passed' = {}
    /\ UNCHANGED <<register, last, joules, result, refresher, todo, timer, energy, fatal>>

\* The wait on _stopRefresher times out; getJoulesComponentsAll() starts.
RefreshBegin ==
    /\ refresher = "wait" /\ timer >= Period
    /\ refresher' = "read"
    /\ todo' = Domains
    /\ UNCHANGED <<register, last, joules, result, resetting, passed, timer, energy, fatal>>

RefreshDomain(d) ==
    /\ refresher = "read" /\ d \in todo
    /\ Unlocked /\ Readable(d)
    /\ UpdateCounter(d)
    /\ todo' = todo \ {d}
    /\ UNCHANGED <<register, result, resetting, passed, refresher, timer, energy, fatal>>

RefreshEnd ==
    /\ refresher = "read" /\ todo = {}
    /\ refresher' = "wait"
    /\ timer' = 0
    /\ UNCHANGED <<register, last, joules, result, resetting, passed, todo, energy, fatal>>

\* The refresher reads 0: "Counter has been created but registers are not
\* present" leaves the function of its thread.
RefreshThrows(d) ==
    /\ refresher = "read" /\ d \in todo
    /\ Unlocked /\ ~Readable(d)
    /\ fatal' = TRUE
    /\ UNCHANGED <<register, last, joules, result, resetting, passed, refresher, todo, timer, energy>>

Next ==
    /\ ~fatal
    /\ \/ Tick
       \/ ResetBegin
       \/ ResetZero
       \/ RefreshBegin
       \/ RefreshEnd
       \/ \E d \in Domains : GetJoules(d) \/ GetThrows(d)
       \/ \E d \in Domains : ResetRead(d) \/ ResetThrows(d)
       \/ \E d \in Domains : RefreshDomain(d) \/ RefreshThrows(d)

Spec == Init /\ [][Next]_vars

-----------------------------------------------------------------------------
(* Properties.                                                             *)

\* An upper bound of the time since domain d was last read.
SinceReading(d) ==
    IF refresher = "read" /\ d \notin todo THEN timer - Period ELSE timer + Latency

\* Between two readings of a register less than one turn of it goes by, and
\* what is unread is no more than was consumed in that time.  This is what
\* makes deltaDiff() exact, whatever reads and resets of clients interleave
\* with the refresher.
NoWrapIsMissed ==
    \A d \in Domains : Unread(d) <= SinceReading(d) /\ SinceReading(d) < Modulus

\* What the counter takes for the energy at the last reset: the energy now,
\* less the energy it would report now.
Base == [d \in Domains |-> energy[d] - (joules[d] + Unread(d))]

\* The energy of a domain when the running reset() read it.
Mark == [d \in Domains |-> IF d \in passed THEN energy[d] - Unread(d) ELSE -1]

Meter == INSTANCE EnergyMeter WITH base <- Base, mark <- Mark

\* The counter implements the meter its interface documents: every unit of
\* energy is counted exactly once, reads return it, and resets forget it, a
\* call that throws neither inventing energy nor disturbing later reads.
IsEnergyMeter == Meter!Spec
=============================================================================
