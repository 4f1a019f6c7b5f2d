------------------------------- MODULE CpuFreq -------------------------------
(***************************************************************************)
(* Frequency domains (src/src/cpufreq/cpufreq.cpp, cpufreq-linux.cpp):     *)
(* governors, userspace frequencies, governor bounds, turbo frequencies,   *)
(* rollback points and voltage tables, over the cpufreq files that the     *)
(* kernel keeps for every virtual core.                                    *)
(*                                                                         *)
(* A domain writes a value to the file of each of its cores in turn and    *)
(* throws at the first file it cannot open, which is what happens when a   *)
(* core has been unplugged; it reads from its first core only.  A write    *)
(* that the kernel refuses goes unnoticed: the stream is checked before    *)
(* close() flushes it.                                                     *)
(*                                                                         *)
(* One client makes one call at a time.  A call is an operator from a      *)
(* result (the files, and how the call has gone so far) to a result, so    *)
(* that calls compose as in the code.  The P-states of AMD EPYC, which use *)
(* MSRs instead of the files, are not modelled.                            *)
(*                                                                         *)
(* The library knows governors by an enum.  The kernel may offer others    *)
(* (schedutil): their name has no conversion, and what is read for them is *)
(* a variable that was never initialised.                                  *)
(***************************************************************************)
EXTENDS Integers, Sequences, Functions

CONSTANTS
    CoresOf,         \* the cores of each domain, in the order of _paths
    Frequencies,     \* scaling_available_frequencies, sorted, in kHz
    KernelGovernors, \* scaling_available_governors
    Unpluggable,     \* the cores that can be taken offline
    RejectCrossed,   \* the kernel refuses a lower bound above the upper one (before 5.4)
    MaxCalls         \* bound: calls of the client

Domains == 1..Len(CoresOf)
Cores   == UNION {Range(CoresOf[d]) : d \in Domains}
Steps   == Range(Frequencies)

\* The enum, and those of it that _availableGovernors holds.
AllGovernors ==
    {"conservative", "ondemand", "interactive", "userspace", "powersave", "performance"}
Governors == KernelGovernors \cap AllGovernors

\* What the uninitialised governor may hold: an available one, or another value.
Garbage == Governors \cup {"none"}

ASSUME CpuFreqAssumption ==
    /\ CoresOf \in Seq(Range(CoresOf))
    /\ \A d \in Domains : CoresOf[d] \in Seq(Range(CoresOf[d])) /\ CoresOf[d] # <<>>
    /\ Frequencies \in Seq(Nat) /\ Frequencies # <<>>
    /\ \A d, e \in Domains : d # e => Range(CoresOf[d]) \cap Range(CoresOf[e]) = {}
    /\ \A i, j \in 1..Len(Frequencies) : i < j => Frequencies[i] < Frequencies[j]
    /\ "none" \notin KernelGovernors
    /\ Unpluggable \subseteq Cores
    /\ RejectCrossed \in BOOLEAN
    /\ MaxCalls \in Nat

VARIABLES
    files,      \* the kernel's cpufreq settings of each core
    online,     \* the cores that are online
    available,  \* _availableFrequencies of each domain
    turbo,      \* _turboFrequencies of each domain
    point,      \* the rollback point the client holds, or <<>>
    spinning,   \* cores whose utilization is maximised
    torn,       \* ghost: domains in which a call threw
    status,     \* how the last call ended
    calls       \* number of calls made

vars == <<files, online, available, turbo, point, spinning, torn, status, calls>>

Settings == [governor : KernelGovernors, speed : Steps, lower : Steps, upper : Steps]

-----------------------------------------------------------------------------
(* The kernel (external).                                                  *)

\* The lower bound in force: a request above the upper bound is cut to it.
Lower(s) == IF s.lower <= s.upper THEN s.lower ELSE s.upper

\* The governors whose frequency does not follow the load.
Fixed == {"userspace", "performance", "powersave"}

\* The frequency a core runs at; for a governor that follows the load, one
\* frequency within the bounds stands for all of them.
Current(s) ==
    CASE s.governor = "performance" -> s.upper
      [] s.governor = "powersave"   -> Lower(s)
      [] s.governor \notin {"performance", "powersave"} ->
           IF s.speed < Lower(s) THEN Lower(s) ELSE IF s.speed > s.upper THEN s.upper ELSE s.speed

\* A write to one of the files.  The userspace governor starts from the current
\* frequency.  Kernels before 5.4 refuse a bound that crosses the other one;
\* later ones keep the request.
KernelWrite(s, file, value) ==
    CASE file = "scaling_governor" ->
           [s EXCEPT !.governor = value,
                     !.speed = IF s.governor = "userspace" THEN @ ELSE Current(s)]
      [] file = "scaling_setspeed" ->
           IF s.governor = "userspace" THEN [s EXCEPT !.speed = value] ELSE s
      [] file = "scaling_min_freq" ->
           IF RejectCrossed /\ value > s.upper THEN s ELSE [s EXCEPT !.lower = value]
      [] file = "scaling_max_freq" ->
           IF RejectCrossed /\ value < s.lower THEN s ELSE [s EXCEPT !.upper = value]

-----------------------------------------------------------------------------
(* The operations of a domain, on results [files, status].                 *)

First(d) == CoresOf[d][1]

\* Positions of the cores of d that are written before the first that fails.
Written(d) ==
    {i \in 1..Len(CoresOf[d]) : \A j \in 1..i : CoresOf[d][j] \in online}

\* Mutant: the last core of the domain is skipped.
WriteToDomainFilesShort(r, d, file, value) ==
    [files  |-> [c \in Cores |->
                   IF \E i \in Written(d) : i < Len(CoresOf[d]) /\ CoresOf[d][i] = c
                   THEN KernelWrite(r.files[c], file, value) ELSE r.files[c]],
     status |-> r.status]

WriteToDomainFiles(r, d, file, value) ==
    [files  |-> [c \in Cores |-> IF \E i \in Written(d) : CoresOf[d][i] = c
                                 THEN KernelWrite(r.files[c], file, value) ELSE r.files[c]],
     status |-> IF Written(d) = 1..Len(CoresOf[d]) THEN "ok" ELSE "threw"]

Fail(r, how) == [r EXCEPT !.status = how]

\* Reading a file of the domain throws when its first core is offline.
Unreadable(d) == First(d) \notin online

\* What getCurrentGovernor() may return for the governor that the domain has.
GetCurrentGovernor(r, d) ==
    LET governor == r.files[First(d)].governor
    IN  IF governor \in AllGovernors THEN {governor} ELSE Garbage

\* scaling_setspeed, which is not a number (and so 0) under another governor than
\* userspace, whatever the governor is read as.
GetCurrentFrequencyUserspace(r, d) ==
    IF r.files[First(d)].governor = "userspace" THEN Current(r.files[First(d)]) ELSE 0

SetGovernor(r, d, governor) ==
    IF governor \notin Governors THEN Fail(r, "false")
    ELSE WriteToDomainFiles(r, d, "scaling_governor", governor)

\* With the governor read for the domain.
SetFrequencyUserspace(r, d, frequency, read) ==
    IF Unreadable(d) THEN Fail(r, "threw")
    ELSE IF read # "userspace" \/ frequency \notin Range(available[d])
    THEN Fail(r, "false")
    ELSE WriteToDomainFiles(r, d, "scaling_setspeed", frequency)

\* The lower bound is written on every core, then the upper bound.
SetGovernorBounds(r, d, lower, upper) ==
    IF ~({lower, upper} \subseteq Range(available[d]) /\ lower <= upper)
    THEN Fail(r, "false")
    ELSE LET s == WriteToDomainFiles(r, d, "scaling_min_freq", lower)
         IN  IF s.status = "ok" THEN WriteToDomainFiles(s, d, "scaling_max_freq", upper) ELSE s

\* The next call of a function that ignores what the previous one returned,
\* but not an exception.
Ignoring(r, s) == IF r.status = "threw" THEN r ELSE s

\* What is restored after a measurement, or by a rollback, once the governor is
\* (so that it is read as it is).
Restore(r, d, saved) ==
    IF saved.governor = "userspace"
    THEN SetFrequencyUserspace(r, d, saved.frequency, r.files[First(d)].governor)
    ELSE SetGovernorBounds(r, d, saved.lower, saved.upper)

\* With the governor read for the domain.
Save(r, d, read) ==
    [governor  |-> read,
     frequency |-> GetCurrentFrequencyUserspace(r, d),
     lower     |-> Lower(r.files[First(d)]),
     upper     |-> r.files[First(d)].upper]

\* Every available frequency is set in turn, under the userspace governor, and
\* its voltage sampled.
Measure(r, d) ==
    LET after[n \in 0..Len(available[d])] ==
          IF n = 0 THEN r
          ELSE LET s == after[n - 1] 
               IN  Ignoring(s, SetFrequencyUserspace(s, d, available[d][n], "userspace"))
    IN  after[Len(available[d])]

\* Mutant: nothing is restored after the measurements.
GetVoltageTableNoRestore(r, d, read) ==
    IF Unreadable(d) THEN Fail(r, "threw") ELSE Measure(SetGovernor(r, d, "userspace"), d)

\* getVoltageTable(n): userspace governor, measurements, and back; nobody looks
\* at what setGovernor() and the calls after it return.
GetVoltageTable(r, d, read) ==
    IF Unreadable(d) THEN Fail(r, "threw")
    ELSE LET old == Save(r, d, read)
             set == SetGovernor(r, d, "userspace")
             end == Measure(set, d)
             gov == Ignoring(end, SetGovernor(end, d, old.governor))
         IN  IF set.status # "ok" THEN set
             ELSE Ignoring(gov, Restore(gov, d, old))

\* Mutant: the governor is not restored for a userspace rollback point.
RollbackDomainKeepsGovernor(r, d) ==
    IF r.status # "ok" THEN r
    ELSE LET s == Restore(r, d, point[d])
         IN  IF s.status = "false" THEN Fail(s, "threw") ELSE s

\* One iteration of rollback(): a call that returns false makes it throw.
RollbackDomain(r, d) ==
    IF r.status # "ok" THEN r
    ELSE LET gov == SetGovernor(r, d, point[d].governor)
             end == IF gov.status = "ok" THEN Restore(gov, d, point[d]) ELSE gov
         IN  IF end.status = "false" THEN Fail(end, "threw") ELSE end

\* rollback() of every domain in turn.
RollbackAll(r) ==
    LET after[d \in 0..Len(CoresOf)] == IF d = 0 THEN r ELSE RollbackDomain(after[d - 1], d)
    IN  after[Len(CoresOf)]

-----------------------------------------------------------------------------
(* Turbo frequencies.                                                      *)

\* intToString(f).at(3) == '1', for a frequency of six or seven digits.
IsTurbo(f) == (IF f < 1000000 THEN f \div 100 ELSE f \div 1000) % 10 = 1

\* The loop of removeTurboFrequencies(), which moves the turbo frequencies.
Sifted(frequencies) ==
    LET after[n \in 0..Len(frequencies)] ==
          IF n = 0 THEN [available |-> <<>>, turbo |-> <<>>]
          ELSE LET s == after[n - 1]
                   f == frequencies[n]
               IN  IF IsTurbo(f) THEN [s EXCEPT !.turbo = Append(@, f)]
                   ELSE [s EXCEPT !.available = Append(@, f)]
    IN  after[Len(frequencies)]

Removed(d) ==
    IF turbo[d] # <<>> THEN [available |-> available[d], turbo |-> turbo[d]]
    ELSE Sifted(available[d])

\* Mutant: the turbo frequencies are not cleared once they are reinserted.
ReinsertedNotCleared(d) == [available |-> available[d] \o turbo[d], turbo |-> turbo[d]]

Reinserted(d) == [available |-> available[d] \o turbo[d], turbo |-> <<>>]

-----------------------------------------------------------------------------
(* Actions: the calls of the client, and the cores going off and on.       *)

Init ==
    /\ \E s \in Settings :
         /\ s.lower = Frequencies[1] /\ s.upper = Frequencies[Len(Frequencies)] /\ s.speed = s.lower
         /\ files = [c \in Cores |-> s]
    /\ online = Cores
    /\ available = [d \in Domains |-> Frequencies]
    /\ turbo = [d \in Domains |-> <<>>]
    /\ point = <<>>
    /\ spinning = {}
    /\ torn = {}
    /\ status = "ok"
    /\ calls = 0

Here == [files |-> files, status |-> "ok"]

\* A call on the domains ds that ends with result r.
Call(ds, r) ==
    /\ calls < MaxCalls
    /\ calls' = calls + 1
    /\ files' = r.files
    /\ status' = r.status
    /\ torn' = IF r.status = "threw" THEN torn \cup ds ELSE torn
    /\ UNCHANGED online

CallSetGovernor(d, governor) ==
    /\ Call({d}, SetGovernor(Here, d, governor))
    /\ UNCHANGED <<available, turbo, point, spinning>>

CallSetFrequency(d, frequency) ==
    /\ \E read \in GetCurrentGovernor(Here, d) :
         Call({d}, SetFrequencyUserspace(Here, d, frequency, read))
    /\ UNCHANGED <<available, turbo, point, spinning>>

\* setHighestFrequencyUserspace() and setLowestFrequencyUserspace().
CallSetExtreme(d, frequency) ==
    /\ available[d] # <<>>
    /\ frequency \in {Head(available[d]), available[d][Len(available[d])]}
    /\ \E read \in GetCurrentGovernor(Here, d) :
         Call({d}, SetFrequencyUserspace(Here, d, frequency, read))
    /\ UNCHANGED <<available, turbo, point, spinning>>

CallSetBounds(d, lower, upper) ==
    /\ Call({d}, SetGovernorBounds(Here, d, lower, upper))
    /\ UNCHANGED <<available, turbo, point, spinning>>

\* With n cores kept busy; an exception leaves them busy.
CallGetVoltageTable(d, n) ==
    /\ \E read \in GetCurrentGovernor(Here, d) :
         LET r == GetVoltageTable(Here, d, read)
         IN  /\ Call({d}, r)
             /\ spinning' = IF r.status = "threw" /\ ~Unreadable(d)
                               /\ SetGovernor(Here, d, "userspace").status = "ok"
                            THEN spinning \cup {CoresOf[d][i] : i \in 1..n} ELSE spinning
    /\ UNCHANGED <<available, turbo, point>>

RemoveTurboFrequencies ==
    /\ Call(Domains, Here)
    /\ available' = [d \in Domains |-> Removed(d).available]
    /\ turbo' = [d \in Domains |-> Removed(d).turbo]
    /\ UNCHANGED <<point, spinning>>

ReinsertTurboFrequencies ==
    /\ Call(Domains, Here)
    /\ available' = [d \in Domains |-> Reinserted(d).available]
    /\ turbo' = [d \in Domains |-> Reinserted(d).turbo]
    /\ UNCHANGED <<point, spinning>>

\* getRollbackPoint() throws, and returns nothing, if a domain cannot be read.
GetRollbackPoint ==
    LET readable == \A d \in Domains : ~Unreadable(d)
    IN  /\ Call(Domains, IF readable THEN Here ELSE Fail(Here, "threw"))
        /\ \E reads \in [Domains -> UNION {GetCurrentGovernor(Here, d) : d \in Domains}] :
             /\ \A d \in Domains : reads[d] \in GetCurrentGovernor(Here, d)
             /\ point' = IF readable THEN [d \in Domains |-> Save(Here, d, reads[d])] ELSE point
        /\ UNCHANGED <<available, turbo, spinning>>

Rollback ==
    /\ point # <<>>
    /\ Call(Domains, RollbackAll(Here))
    /\ UNCHANGED <<available, turbo, point, spinning>>

\* A core is unplugged, or plugged again (external).
Hotplug(c) ==
    /\ c \in Unpluggable
    /\ calls < MaxCalls
    /\ online' = IF c \in online THEN online \ {c} ELSE online \cup {c}
    /\ UNCHANGED <<files, available, turbo, point, spinning, torn, status, calls>>

Next ==
    \/ \E d \in Domains :
         \/ \E governor \in AllGovernors : CallSetGovernor(d, governor)
         \/ \E frequency \in Steps : CallSetFrequency(d, frequency) \/ CallSetExtreme(d, frequency)
         \/ \E lower, upper \in Steps : CallSetBounds(d, lower, upper)
         \/ \E n \in 0..Len(CoresOf[d]) : CallGetVoltageTable(d, n)
    \/ RemoveTurboFrequencies \/ ReinsertTurboFrequencies
    \/ GetRollbackPoint \/ Rollback
    \/ \E c \in Cores : Hotplug(c)

Spec == Init /\ [][Next]_vars

-----------------------------------------------------------------------------
(* Properties.                                                             *)

\* The cores of a domain always have the same settings, unless a call threw
\* half way: every write of the library reaches all of them.
DomainCoherent ==
    \A d \in Domains \ torn : \A i \in 1..Len(CoresOf[d]) :
        files[CoresOf[d][i]] = files[First(d)]

\* Removing and reinserting turbo frequencies, in any order and any number of
\* times, neither loses nor duplicates a frequency.  The available ones are
\* "sorted from lowest to highest" (cpufreq.hpp:101), on which
\* setHighestFrequencyUserspace() relies, but for turbo frequencies that are not
\* the highest ones: reinserted, they come after the others.
FrequenciesConserved ==
    \A d \in Domains :
        /\ Len(available[d]) + Len(turbo[d]) = Len(Frequencies)
        /\ Range(available[d]) \cup Range(turbo[d]) = Steps
        /\ \A i, j \in 1..Len(available[d]) : i < j =>
             \/ available[d][i] < available[d][j]
             \/ IsTurbo(available[d][j]) /\ ~IsTurbo(available[d][i])

\* After a rollback() that did not throw, every core has the saved governor
\* and, for a governor other than userspace, the saved bounds, for userspace the
\* saved frequency if the bounds in force allow it (cpufreq.hpp:311: it "can be
\* used to bring the domain back to the point when this function is called";
\* the bounds of a userspace domain are not brought back).  A kernel that
\* refuses bounds which cross may also refuse the saved ones.  The governor
\* saved for a domain whose governor is not in the enum is not the domain's.
RollbackRestores ==
    [][Rollback /\ status' = "ok" =>
         \A d \in Domains : \A c \in Range(CoresOf[d]) :
            /\ files'[c].governor = point[d].governor
            /\ point[d].governor # "userspace" /\ ~RejectCrossed =>
                 Lower(files'[c]) = point[d].lower /\ files'[c].upper = point[d].upper
            /\ /\ point[d].governor = "userspace"
               /\ point[d].frequency \in Lower(files[c])..files[c].upper
               => Current(files'[c]) = point[d].frequency]_vars

\* After getVoltageTable() a domain whose cores agree has its bounds back and,
\* if its governor is in the enum, its governor and, unless it follows the load,
\* its frequency (a userspace frequency must be available, for turbo frequencies
\* may have been removed while in use).  Any other governor is lost: once
\* frequencies have been set, the domain never has it back.
VoltageTableRestores ==
    [][\A d \in Domains \ torn :
         (\E n \in 0..Len(CoresOf[d]) : CallGetVoltageTable(d, n)) /\ status' # "threw"
         => \A c \in Range(CoresOf[d]) :
              /\ Lower(files'[c]) = Lower(files[c]) /\ files'[c].upper = files[c].upper
              /\ (files'[c].governor = files[c].governor) <=>
                   (files[c].governor \in Governors \/ "userspace" \notin Governors)
              /\ /\ files[c].governor \in Governors \cap Fixed
                 /\ files[c].governor = "userspace" => Current(files[c]) \in Range(available[d])
                 => Current(files'[c]) = Current(files[c])]_vars
=============================================================================
