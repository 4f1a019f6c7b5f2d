------------------------------ MODULE RaplSysFs ------------------------------
(***************************************************************************)
(* The RAPL energy counters read through sysfs (CounterCpusLinuxSysFs of   *)
(* src/src/energy/energy-linux.cpp).  Two threads read the counters: the   *)
(* client and the refresher.  read() holds _lock, but reset() zeroes the   *)
(* joules after its read()s have released it, so the zeroing races with    *)
(* `cumulative += r' of the other thread.  That addition is a load and a   *)
(* store of a double: the model keeps them apart.                          *)
(*                                                                         *)
(* The domains are the components of one CPU.  reset() does the CPUs one   *)
(* after the other and they share nothing else, so one stands for all.     *)
(*                                                                         *)
(* Every file has a range of its own, where it starts again from 0; init() *)
(* reads the range of package 0 only and read() corrects the wrap of every *)
(* file by it.                                                             *)
(*                                                                         *)
(* Timing is left to RaplMsr: the refresher comes every 5 seconds and the  *)
(* range of the sysfs counters lasts for hours, so at most one turn of a   *)
(* counter goes by between two reads.                                      *)
(***************************************************************************)
EXTENDS Integers

CONSTANTS
    Domains,    \* the components of a CPU: a file energy_uj each
    NoDomain,
    RangeOf,    \* the range of each file: its values are 0..RangeOf[d] - 1
    MaxValue,   \* _maxValue: what init() reads from the files of package 0
    MaxEnergy,  \* bound: energy a domain consumes in a run
    Threads,    \* the client and the refresher
    Client

ASSUME SysFsAssumption ==
    /\ NoDomain \notin Domains
    /\ RangeOf \in [Domains -> Nat \ {0}]
    /\ MaxValue \in Nat \ {0}
    /\ MaxEnergy \in Nat
    /\ Client \in Threads
    /\ "free" \notin Threads

VARIABLES
    file,       \* the counters in sysfs
    last,       \* _lastCpu, _lastCores, _lastGraphic, _lastDram
    joules,     \* _joulesCpus
    turns,      \* ghost: the corrected wraps that joules counts
    lock,       \* the thread in read(), or "free"
    reading,    \* the domain that read() is about
    sum,        \* the value that `cumulative += r' has computed
    sumTurns,   \* ghost: the corrected wraps that sum counts
    now,        \* the local of read(): the value of the file
    resetting,  \* the domains a running reset() has still to read
    zeroing,    \* the domains reset() has still to zero, after reading all
    energy,     \* ghost: what each domain consumed
    resetFrom,  \* ghost: energy when the last reset() was called
    resetTo,    \* ghost: energy when the last reset() zeroed the domain
    kept        \* ghost: energy when the last reset() was called whose zeroing
                \* was not undone by an addition that it fell in the middle of

counted   == <<joules, turns>>
readVars  == <<lock, reading, sum, sumTurns, now>>
ghostVars == <<resetFrom, resetTo, kept>>
vars == <<file, last, counted, readVars, resetting, zeroing, energy, ghostVars>>

\* What a file can hold.
Values(d) == 0..(RangeOf[d] - 1)

\* init() has reset the counter and is about to start the refresher.
Init ==
    /\ file \in [Domains -> UNION {Values(d) : d \in Domains}]
    /\ \A d \in Domains : file[d] \in Values(d)
    /\ last = file
    /\ joules = [d \in Domains |-> 0]
    /\ turns = joules
    /\ lock = "free"
    /\ reading = NoDomain
    /\ sum = 0 /\ sumTurns = 0
    /\ now = 0
    /\ resetting = {}
    /\ zeroing = {}
    /\ energy = [d \in Domains |-> 0]
    /\ resetFrom = energy
    /\ resetTo = energy
    /\ kept = energy

\* Whether read() sees the counter behind its last value.
HasWrapped(d) == last[d] > file[d]

\* What the counter has really gone forward since it was last read.
Gone(d) == IF HasWrapped(d) THEN RangeOf[d] - last[d] + file[d] ELSE file[d] - last[d]

\* The two branches of read() on whether the counter has wrapped: the range of
\* package 0 corrects the wrap of every file.
SinceLast(d) == IF HasWrapped(d) THEN MaxValue - last[d] + file[d] ELSE file[d] - last[d]

\* The hardware counts one unit; less than a turn goes by between two reads.
Consume(d) ==
    /\ energy[d] < MaxEnergy
    /\ Gone(d) + 1 < RangeOf[d]
    /\ file' = [file EXCEPT ![d] = (@ + 1) % RangeOf[d]]
    /\ energy' = [energy EXCEPT ![d] = @ + 1]
    /\ UNCHANGED <<last, counted, readVars, resetting, zeroing, ghostVars>>

\* The client is in reset().
Busy(t) == t = Client /\ resetting \cup zeroing # {}

\* Mutant: `cumulative = r'.
NewCumulativeAssigned(d) == SinceLast(d)

NewCumulative(d) == joules[d] + SinceLast(d)

\* read(): under the lock, the file is read and `cumulative += r' computes the
\* sum ...
ReadLoad(t, d) ==
    /\ lock = "free"
    /\ lock' = t
    /\ reading' = d
    /\ now' = file[d]
    /\ sum' = NewCumulative(d)
    /\ sumTurns' = turns[d] + (IF HasWrapped(d) THEN 1 ELSE 0)
    /\ UNCHANGED <<file, last, counted, resetting, zeroing, energy, ghostVars>>

\* getJoulesCpu and its siblings: any thread, outside reset().
GetJoules(t, d) == ~Busy(t) /\ ReadLoad(t, d)

\* ... and stores it; last is updated and the lock released.
ReadStore ==
    /\ lock # "free"
    /\ joules' = [joules EXCEPT ![reading] = sum]
    /\ turns' = [turns EXCEPT ![reading] = sumTurns]
    /\ last' = [last EXCEPT ![reading] = now]
    /\ resetting' = IF Busy(lock) THEN resetting \ {reading} ELSE resetting
    /\ lock' = "free"
    /\ reading' = NoDomain
    /\ sum' = 0 /\ sumTurns' = 0 /\ now' = 0
    /\ UNCHANGED <<file, zeroing, energy, ghostVars>>

\* Mutant: reset() does not read the counters first.
ResetBeginUnread ==
    /\ lock # Client /\ ~Busy(Client)
    /\ zeroing' = Domains
    /\ resetFrom' = energy
    /\ UNCHANGED <<file, last, counted, readVars, resetting, energy, resetTo, kept>>

\* reset() is called.
ResetBegin ==
    /\ lock # Client /\ ~Busy(Client)
    /\ resetting' = Domains
    /\ zeroing' = Domains
    /\ resetFrom' = energy
    /\ UNCHANGED <<file, last, counted, readVars, energy, resetTo, kept>>

\* reset() reads every domain ...
ResetRead(d) ==
    /\ d \in resetting
    /\ ReadLoad(Client, d)

\* A file that cannot be opened: the exception of read() ends reset(), which
\* has zeroed nothing of this CPU.
ResetCut ==
    /\ resetting # {} /\ lock = "free"
    /\ resetting' = {} /\ zeroing' = {}
    /\ UNCHANGED <<file, last, counted, readVars, energy, ghostVars>>

\* ... and then zeroes them, without the lock.
ResetZero(d) ==
    /\ resetting = {} /\ d \in zeroing
    /\ joules' = [joules EXCEPT ![d] = 0]
    /\ turns' = [turns EXCEPT ![d] = 0]
    /\ zeroing' = zeroing \ {d}
    /\ resetTo' = [resetTo EXCEPT ![d] = energy[d]]
    /\ kept' = IF reading = d THEN kept ELSE [kept EXCEPT ![d] = resetFrom[d]]
    /\ UNCHANGED <<file, last, readVars, resetting, energy, resetFrom>>

Next ==
    \/ ReadStore
    \/ ResetBegin
    \/ ResetCut
    \/ \E d \in Domains :
         \/ Consume(d)
         \/ ResetRead(d)
         \/ ResetZero(d)
         \/ \E t \in Threads : GetJoules(t, d)

Spec == Init /\ [][Next]_vars

-----------------------------------------------------------------------------
(* Properties.                                                             *)

\* What a read of d that started now would return.
Reported(d) == joules[d] + SinceLast(d)

\* The wraps that this report has corrected, and by how much in all: the range
\* of package 0 stands in for the range of the file.
Turns(d)      == turns[d] + (IF HasWrapped(d) THEN 1 ELSE 0)
Correction(d) == Turns(d) * (MaxValue - RangeOf[d])

\* Whatever read() and reset() of the threads interleave, no energy
\* consumed since a domain was last zeroed is lost, not even while a read or a
\* reset is under way; except, at each wrap, what the range of package 0 is
\* short of the range of the file.
NothingIsLost == \A d \in Domains : Reported(d) >= energy[d] - resetTo[d] + Correction(d)

\* What is reported was consumed after reset() was called: after the last one
\* whose zeroing of the domain was not undone by the store of an addition under
\* way, at any moment of the reads and resets.  What the range of package 0 has
\* more than the range of the file is invented, but once for each turn that the
\* file has really made since.
NothingOlderThanReset ==
    \A d \in Domains :
        /\ Reported(d) <= energy[d] - kept[d] + Correction(d)
        /\ Turns(d) * RangeOf[d] < energy[d] - kept[d] + RangeOf[d]
=============================================================================
