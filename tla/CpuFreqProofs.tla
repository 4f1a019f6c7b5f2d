---------------------------- MODULE CpuFreqProofs ----------------------------
(***************************************************************************)
(* Proofs about CpuFreq, for any number of domains, cores, frequencies and *)
(* calls, and for both kinds of kernels: the cores of a domain agree, and  *)
(* rollback() and getVoltageTable() restore what they promise.             *)
(***************************************************************************)
EXTENDS CpuFreq, SequenceLemmas

-----------------------------------------------------------------------------
(* Settings and results.                                                   *)

Statuses == {"ok", "false", "threw"}
Results  == [files : [Cores -> Settings], status : Statuses]
CoresIn(d) == Range(CoresOf[d])

\* The cores of a domain.
LEMMA DomainFacts ==
  ASSUME NEW d \in Domains
  PROVE  /\ Len(CoresOf[d]) \in Nat /\ Len(CoresOf[d]) >= 1
         /\ CoresIn(d) = {CoresOf[d][i] : i \in 1..Len(CoresOf[d])}
         /\ CoresIn(d) \subseteq Cores /\ First(d) \in CoresIn(d) /\ First(d) \in Cores
         /\ \A e \in Domains : e # d => CoresIn(e) \cap CoresIn(d) = {}
<1>1. CoresOf[d] \in Seq(CoresIn(d)) /\ CoresOf[d] # <<>>
  BY CpuFreqAssumption DEF CoresIn
<1>2. DOMAIN CoresOf[d] = 1..Len(CoresOf[d]) /\ Len(CoresOf[d]) \in Nat /\ Len(CoresOf[d]) >= 1
  BY <1>1
<1>3. CoresIn(d) = {CoresOf[d][i] : i \in 1..Len(CoresOf[d])}
  BY <1>2 DEF CoresIn, Range
<1>4. CoresIn(d) \subseteq Cores
  BY DEF Cores, CoresIn
<1>5. First(d) \in CoresIn(d)
  BY <1>2, <1>3 DEF First
<1> QED
  BY <1>2, <1>3, <1>4, <1>5, CpuFreqAssumption DEF CoresIn

\* Frequencies are numbers.
LEMMA StepFacts ==
  /\ Steps \subseteq Nat
  /\ Len(Frequencies) \in Nat /\ Len(Frequencies) >= 1
  /\ Frequencies[1] \in Steps /\ Frequencies[Len(Frequencies)] \in Steps
  /\ Steps = {Frequencies[i] : i \in 1..Len(Frequencies)} /\ Frequencies \in Seq(Steps)
<1>1. Frequencies \in Seq(Nat) /\ Frequencies # <<>>
  BY CpuFreqAssumption
<1>2. DOMAIN Frequencies = 1..Len(Frequencies) /\ Len(Frequencies) \in Nat /\ Len(Frequencies) >= 1
  BY <1>1
<1>3. Steps = {Frequencies[i] : i \in 1..Len(Frequencies)}
  BY <1>2 DEF Steps, Range
<1>4. \A i \in 1..Len(Frequencies) : Frequencies[i] \in Nat /\ Frequencies[i] \in Steps
  BY <1>1, <1>3
<1>5. Frequencies \in Seq(Steps)
  <2>1. Frequencies = [i \in 1..Len(Frequencies) |-> Frequencies[i]]
    BY <1>1, <1>2
  <2> QED
    BY <1>2, <1>4, <2>1
<1>6. Steps \subseteq Nat
  BY <1>3, <1>4
<1>7. 1 \in 1..Len(Frequencies) /\ Len(Frequencies) \in 1..Len(Frequencies)
  BY <1>2
<1> QED
  BY <1>2, <1>3, <1>4, <1>5, <1>6, <1>7

\* The lower bound in force, and the frequency of a core.
LEMMA CurrentFacts ==
  ASSUME NEW s \in Settings
  PROVE  /\ Lower(s) \in Steps /\ Lower(s) <= s.upper /\ s.upper \in Steps
         /\ s.lower <= s.upper => Lower(s) = s.lower
         /\ Current(s) \in Steps
         /\ s.governor = "performance" => Current(s) = s.upper
         /\ s.governor = "powersave" => Current(s) = Lower(s)
         /\ s.governor \notin {"performance", "powersave"} =>
              Current(s) = IF s.speed < Lower(s) THEN Lower(s) ELSE IF s.speed > s.upper THEN s.upper ELSE s.speed
<1>1. /\ s.lower \in Steps /\ s.upper \in Steps /\ s.speed \in Steps
      /\ s.lower \in Nat /\ s.upper \in Nat /\ s.speed \in Nat
  BY StepFacts DEF Settings
<1>2. Lower(s) \in Steps /\ Lower(s) <= s.upper /\ (s.lower <= s.upper => Lower(s) = s.lower)
  BY <1>1 DEF Lower
<1>3. s.governor = "performance" => Current(s) = s.upper
  BY DEF Current
<1>4. s.governor = "powersave" => Current(s) = Lower(s)
  BY DEF Current
<1>5. s.governor \notin {"performance", "powersave"} =>
        Current(s) = IF s.speed < Lower(s) THEN Lower(s) ELSE IF s.speed > s.upper THEN s.upper ELSE s.speed
  BY DEF Current
<1>6. Current(s) \in Steps
  BY <1>1, <1>2, <1>3, <1>4, <1>5
<1> QED
  BY <1>1, <1>2, <1>3, <1>4, <1>5, <1>6

\* What the kernel makes of a write to each of the files.
LEMMA WriteGovernor ==
  ASSUME NEW s \in Settings, NEW g \in KernelGovernors
  PROVE  LET t == KernelWrite(s, "scaling_governor", g)
         IN  /\ t \in Settings /\ t.governor = g /\ t.lower = s.lower /\ t.upper = s.upper
             /\ s.governor = "userspace" => t.speed = s.speed
<1>1. KernelWrite(s, "scaling_governor", g) =
        [s EXCEPT !.governor = g, !.speed = IF s.governor = "userspace" THEN s.speed ELSE Current(s)]
  BY DEF KernelWrite, Settings
<1>2. Current(s) \in Steps
  BY CurrentFacts
<1> QED
  BY <1>1, <1>2 DEF Settings

\* The speed is stored under the userspace governor only.
LEMMA WriteSpeed ==
  ASSUME NEW s \in Settings, NEW f \in Steps
  PROVE  LET t == KernelWrite(s, "scaling_setspeed", f)
         IN  /\ t \in Settings /\ t.governor = s.governor /\ t.lower = s.lower /\ t.upper = s.upper
             /\ s.governor = "userspace" => t.speed = f
<1>1. KernelWrite(s, "scaling_setspeed", f) = IF s.governor = "userspace" THEN [s EXCEPT !.speed = f] ELSE s
  BY DEF KernelWrite
<1> QED
  BY <1>1 DEF Settings

\* The lower bound is stored unless it crosses the upper one and the kernel refuses that.
LEMMA WriteLower ==
  ASSUME NEW s \in Settings, NEW v \in Steps
  PROVE  LET t == KernelWrite(s, "scaling_min_freq", v)
         IN  /\ t \in Settings /\ t.governor = s.governor /\ t.speed = s.speed /\ t.upper = s.upper
             /\ ~RejectCrossed \/ v <= s.upper => t.lower = v
<1>1. KernelWrite(s, "scaling_min_freq", v) = IF RejectCrossed /\ v > s.upper THEN s ELSE [s EXCEPT !.lower = v]
  BY DEF KernelWrite
<1>2. v \in Nat /\ s.upper \in Nat
  BY StepFacts DEF Settings
<1> QED
  BY <1>1, <1>2 DEF Settings

\* The upper bound is stored unless it crosses the lower one and the kernel refuses that.
LEMMA WriteUpper ==
  ASSUME NEW s \in Settings, NEW v \in Steps
  PROVE  LET t == KernelWrite(s, "scaling_max_freq", v)
         IN  /\ t \in Settings /\ t.governor = s.governor /\ t.speed = s.speed /\ t.lower = s.lower
             /\ ~RejectCrossed \/ v >= s.lower => t.upper = v
<1>1. KernelWrite(s, "scaling_max_freq", v) = IF RejectCrossed /\ v < s.lower THEN s ELSE [s EXCEPT !.upper = v]
  BY DEF KernelWrite
<1>2. v \in Nat /\ s.lower \in Nat
  BY StepFacts DEF Settings
<1> QED
  BY <1>1, <1>2 DEF Settings

-----------------------------------------------------------------------------
(* What the operations of a domain do to a result.                         *)

\* The cores of d agree; t differs from r in the domain d only.
Agree(r, d)        == \A c \in CoresIn(d) : r.files[c] = r.files[First(d)]
Elsewhere(r, t, d) == \A c \in Cores \ CoresIn(d) : t.files[c] = r.files[c]

\* An operation on d that does not throw keeps the cores of d in agreement.
Tame(r, t, d) ==
  /\ t \in Results /\ Elsewhere(r, t, d)
  /\ t.status # "threw" /\ Agree(r, d) => Agree(t, d)

\* The settings of the cores of d that an operation does not touch.
SameGovernors(r, t, d) == \A c \in CoresIn(d) : t.files[c].governor = r.files[c].governor
SameSpeeds(r, t, d)    == \A c \in CoresIn(d) : t.files[c].speed = r.files[c].speed
SameBounds(r, t, d)    == \A c \in CoresIn(d) : t.files[c].lower = r.files[c].lower /\ t.files[c].upper = r.files[c].upper

\* Two operations on d in a row, the first of which did not throw.
LEMMA TameTransitive ==
  ASSUME NEW r, NEW s, NEW t, NEW d, Tame(r, s, d), Tame(s, t, d), s.status # "threw"
  PROVE  Tame(r, t, d)
  BY DEF Tame, Elsewhere

\* A call that fails at once changes nothing.
LEMMA FailFacts ==
  ASSUME NEW r \in Results, NEW d \in Domains, NEW how \in Statuses
  PROVE  /\ Fail(r, how).files = r.files /\ Fail(r, how).status = how
         /\ Tame(r, Fail(r, how), d)
<1>1. Fail(r, how).files = r.files /\ Fail(r, how).status = how /\ Fail(r, how) \in Results
  BY DEF Fail, Results
<1> QED
  BY <1>1 DEF Tame, Agree, Elsewhere

\* A write reaches all the cores of the domain, or throws.
LEMMA WriteFacts ==
  ASSUME NEW r \in Results, NEW d \in Domains, NEW file, NEW value,
         \A s \in Settings : KernelWrite(s, file, value) \in Settings
  PROVE  LET t == WriteToDomainFiles(r, d, file, value)
         IN  /\ Tame(r, t, d) /\ t.status \in {"ok", "threw"}
             /\ \A c \in CoresIn(d) : t.files[c] \in {r.files[c], KernelWrite(r.files[c], file, value)}
             /\ t.status = "ok" => \A c \in CoresIn(d) : t.files[c] = KernelWrite(r.files[c], file, value)
<1> DEFINE reached(c) == \E i \in Written(d) : CoresOf[d][i] = c
           t == WriteToDomainFiles(r, d, file, value)
<1>1. /\ t.files = [c \in Cores |-> IF reached(c) THEN KernelWrite(r.files[c], file, value) ELSE r.files[c]]
      /\ t.status = IF Written(d) = 1..Len(CoresOf[d]) THEN "ok" ELSE "threw"
      /\ t = [files |-> t.files, status |-> t.status]
  BY DEF WriteToDomainFiles
<1>2. /\ CoresIn(d) = {CoresOf[d][i] : i \in 1..Len(CoresOf[d])} /\ CoresIn(d) \subseteq Cores
      /\ First(d) \in CoresIn(d)
  BY DomainFacts
<1>3. \A c : reached(c) => c \in CoresIn(d)
  BY <1>2 DEF Written
<1>4. \A c \in Cores : r.files[c] \in Settings
  BY DEF Results
<1>5. t.files \in [Cores -> Settings] /\ t.status \in {"ok", "threw"}
  <2>1. \A c \in Cores : (IF reached(c) THEN KernelWrite(r.files[c], file, value) ELSE r.files[c]) \in Settings
    BY <1>4
  <2> HIDE DEF reached, t
  <2> QED
    BY <1>1, <2>1
<1>6. t.status = "ok" => \A c \in CoresIn(d) : reached(c)
  <2>1. t.status = "ok" => Written(d) = 1..Len(CoresOf[d])
    BY <1>1
  <2> HIDE DEF t
  <2> QED
    BY <1>2, <2>1
<1> HIDE DEF reached, t
<1>7. t \in Results
  BY <1>1, <1>5 DEF Results, Statuses
<1>8. Elsewhere(r, t, d)
  BY <1>1, <1>3 DEF Elsewhere
<1>9. t.status = "ok" => \A c \in CoresIn(d) : t.files[c] = KernelWrite(r.files[c], file, value)
  BY <1>1, <1>2, <1>6
<1>10. t.status = "ok" /\ Agree(r, d) => Agree(t, d)
  <2> SUFFICES ASSUME t.status = "ok", Agree(r, d), NEW c \in CoresIn(d) PROVE t.files[c] = t.files[First(d)]
    BY DEF Agree
  <2>1. r.files[c] = r.files[First(d)]
    BY DEF Agree
  <2> QED
    BY <1>2, <1>9, <2>1
<1>11. \A c \in CoresIn(d) : t.files[c] \in {r.files[c], KernelWrite(r.files[c], file, value)}
  BY <1>1, <1>2
<1> QED
  BY <1>5, <1>7, <1>8, <1>9, <1>10, <1>11 DEF Tame, t

\* setGovernor()
LEMMA SetGovernorFacts ==
  ASSUME NEW r \in Results, NEW d \in Domains, NEW g
  PROVE  LET t == SetGovernor(r, d, g)
         IN  /\ Tame(r, t, d) /\ SameBounds(r, t, d)
             /\ g \in Governors => t.status \in {"ok", "threw"}
             /\ t.status = "ok" => g \in Governors /\ \A c \in CoresIn(d) : t.files[c].governor = g
             /\ t.status = "false" => t.files = r.files
             /\ g = "userspace" /\ t.status = "ok" =>
                  \A c \in CoresIn(d) : r.files[c].governor = "userspace" => t.files[c].speed = r.files[c].speed
<1>0. CoresIn(d) \subseteq Cores /\ \A c \in Cores : r.files[c] \in Settings
  BY DomainFacts DEF Results
<1>1. CASE g \notin Governors
  <2>1. SetGovernor(r, d, g) = Fail(r, "false")
    BY <1>1 DEF SetGovernor
  <2> QED
    BY <1>1, <2>1, FailFacts DEF SameBounds, Statuses
<1>2. CASE g \in Governors
  <2> DEFINE t == SetGovernor(r, d, g)
             K(s) == KernelWrite(s, "scaling_governor", g)
  <2>1. t = WriteToDomainFiles(r, d, "scaling_governor", g)
    BY <1>2 DEF SetGovernor
  <2>2. \A s \in Settings : /\ K(s) \in Settings /\ K(s).governor = g /\ K(s).lower = s.lower /\ K(s).upper = s.upper
                            /\ s.governor = "userspace" => K(s).speed = s.speed
    BY <1>2, WriteGovernor DEF Governors
  <2>3. /\ Tame(r, t, d) /\ t.status \in {"ok", "threw"}
        /\ \A c \in CoresIn(d) : t.files[c] \in {r.files[c], K(r.files[c])}
        /\ t.status = "ok" => \A c \in CoresIn(d) : t.files[c] = K(r.files[c])
    BY <2>1, <2>2, WriteFacts
  <2> HIDE DEF t, K
  <2>4. SameBounds(r, t, d)
    BY <1>0, <2>2, <2>3 DEF SameBounds
  <2>5. t.status = "ok" => \A c \in CoresIn(d) :
          t.files[c].governor = g /\ (r.files[c].governor = "userspace" => t.files[c].speed = r.files[c].speed)
    BY <1>0, <2>2, <2>3
  <2> QED
    BY <1>2, <2>3, <2>4, <2>5 DEF t
<1> QED
  BY <1>1, <1>2

\* setFrequencyUserspace()
LEMMA SetFrequencyFacts ==
  ASSUME NEW r \in Results, NEW d \in Domains, NEW f \in Nat, NEW g, Range(available[d]) \subseteq Steps
  PROVE  LET t == SetFrequencyUserspace(r, d, f, g)
         IN  /\ Tame(r, t, d) /\ SameBounds(r, t, d) /\ SameGovernors(r, t, d)
             /\ t.status = "ok" => \A c \in CoresIn(d) : r.files[c].governor = "userspace" => t.files[c].speed = f
             /\ t.status = "false" => t.files = r.files /\ (g # "userspace" \/ f \notin Range(available[d]))
<1>0. CoresIn(d) \subseteq Cores /\ \A c \in Cores : r.files[c] \in Settings
  BY DomainFacts DEF Results
<1>1. CASE Unreadable(d)
  <2>1. SetFrequencyUserspace(r, d, f, g) = Fail(r, "threw")
    BY <1>1 DEF SetFrequencyUserspace
  <2> QED
    BY <2>1, FailFacts DEF SameBounds, SameGovernors, Statuses
<1>2. CASE ~Unreadable(d) /\ (g # "userspace" \/ f \notin Range(available[d]))
  <2>1. SetFrequencyUserspace(r, d, f, g) = Fail(r, "false")
    BY <1>2 DEF SetFrequencyUserspace
  <2> QED
    BY <1>2, <2>1, FailFacts DEF SameBounds, SameGovernors, Statuses
<1>3. CASE ~Unreadable(d) /\ ~(g # "userspace" \/ f \notin Range(available[d]))
  <2> DEFINE t == SetFrequencyUserspace(r, d, f, g)
             K(s) == KernelWrite(s, "scaling_setspeed", f)
  <2>1. t = WriteToDomainFiles(r, d, "scaling_setspeed", f)
    BY <1>3 DEF SetFrequencyUserspace
  <2>2. \A s \in Settings : /\ K(s) \in Settings /\ K(s).governor = s.governor /\ K(s).lower = s.lower /\ K(s).upper = s.upper
                            /\ s.governor = "userspace" => K(s).speed = f
    BY <1>3, WriteSpeed
  <2>3. /\ Tame(r, t, d) /\ t.status \in {"ok", "threw"}
        /\ \A c \in CoresIn(d) : t.files[c] \in {r.files[c], K(r.files[c])}
        /\ t.status = "ok" => \A c \in CoresIn(d) : t.files[c] = K(r.files[c])
    BY <2>1, <2>2, WriteFacts
  <2> HIDE DEF t, K
  <2>4. SameBounds(r, t, d) /\ SameGovernors(r, t, d)
    BY <1>0, <2>2, <2>3 DEF SameBounds, SameGovernors
  <2>5. t.status = "ok" => \A c \in CoresIn(d) : r.files[c].governor = "userspace" => t.files[c].speed = f
    BY <1>0, <2>2, <2>3
  <2> QED
    BY <2>3, <2>4, <2>5 DEF t
<1> QED
  BY <1>1, <1>2, <1>3

\* setGovernorBounds(): on a kernel that refuses bounds which cross, the bounds
\* in force can always be written again.
LEMMA SetBoundsFacts ==
  ASSUME NEW r \in Results, NEW d \in Domains, NEW lower \in Steps, NEW upper \in Steps
  PROVE  LET t == SetGovernorBounds(r, d, lower, upper)
         IN  /\ Tame(r, t, d) /\ SameGovernors(r, t, d) /\ SameSpeeds(r, t, d)
             /\ t.status = "ok" => lower <= upper
             /\ t.status = "ok" /\ ~RejectCrossed =>
                  \A c \in CoresIn(d) : t.files[c].lower = lower /\ t.files[c].upper = upper
             /\ t.status = "ok" => \A c \in CoresIn(d) : lower <= r.files[c].upper =>
                  t.files[c].lower = lower /\ t.files[c].upper = upper
             /\ t.status = "false" => t.files = r.files
<1>0. CoresIn(d) \subseteq Cores /\ \A c \in Cores : r.files[c] \in Settings
  BY DomainFacts DEF Results
<1>1. CASE ~({lower, upper} \subseteq Range(available[d]) /\ lower <= upper)
  <2>1. SetGovernorBounds(r, d, lower, upper) = Fail(r, "false")
    BY <1>1 DEF SetGovernorBounds
  <2> QED
    BY <2>1, FailFacts DEF SameGovernors, SameSpeeds, Statuses
<1>2. CASE {lower, upper} \subseteq Range(available[d]) /\ lower <= upper
  <2> DEFINE s == WriteToDomainFiles(r, d, "scaling_min_freq", lower)
             t == WriteToDomainFiles(s, d, "scaling_max_freq", upper)
             L(x) == KernelWrite(x, "scaling_min_freq", lower)
             U(x) == KernelWrite(x, "scaling_max_freq", upper)
  <2>1. SetGovernorBounds(r, d, lower, upper) = IF s.status = "ok" THEN t ELSE s
    BY <1>2 DEF SetGovernorBounds
  <2>2. \A x \in Settings : /\ L(x) \in Settings /\ L(x).governor = x.governor /\ L(x).speed = x.speed
                            /\ L(x).upper = x.upper
                            /\ ~RejectCrossed \/ lower <= x.upper => L(x).lower = lower
    BY WriteLower
  <2>3. \A x \in Settings : /\ U(x) \in Settings /\ U(x).governor = x.governor /\ U(x).speed = x.speed
                            /\ U(x).lower = x.lower
                            /\ ~RejectCrossed \/ upper >= x.lower => U(x).upper = upper
    BY WriteUpper
  <2>4. /\ Tame(r, s, d) /\ s.status \in {"ok", "threw"}
        /\ \A c \in CoresIn(d) : s.files[c] \in {r.files[c], L(r.files[c])}
        /\ s.status = "ok" => \A c \in CoresIn(d) : s.files[c] = L(r.files[c])
    BY <2>2, WriteFacts
  <2>5. s \in Results /\ \A c \in Cores : s.files[c] \in Settings
    BY <2>4 DEF Tame, Results
  <2>6. /\ Tame(s, t, d) /\ t.status \in {"ok", "threw"}
        /\ \A c \in CoresIn(d) : t.files[c] \in {s.files[c], U(s.files[c])}
        /\ t.status = "ok" => \A c \in CoresIn(d) : t.files[c] = U(s.files[c])
    BY <2>3, <2>5, WriteFacts
  <2> HIDE DEF s, t, L, U
  <2>7. SameGovernors(r, s, d) /\ SameSpeeds(r, s, d)
    BY <1>0, <2>2, <2>4 DEF SameGovernors, SameSpeeds
  <2>8. SameGovernors(r, t, d) /\ SameSpeeds(r, t, d)
    BY <1>0, <2>3, <2>5, <2>6, <2>7 DEF SameGovernors, SameSpeeds
  <2>9. CASE s.status # "ok"
    <3>1. s.status = "threw"
      BY <2>4, <2>9
    <3> QED
      BY <2>1, <2>4, <2>7, <2>9, <3>1
  <2>10. CASE s.status = "ok"
    <3>1. Tame(r, t, d)
      BY <2>4, <2>6, <2>10, TameTransitive
    <3>2. lower \in Nat /\ upper \in Nat /\ lower <= upper
      BY <1>2, StepFacts
    <3>3. ASSUME t.status = "ok", NEW c \in CoresIn(d), ~RejectCrossed \/ lower <= r.files[c].upper
          PROVE  t.files[c].lower = lower /\ t.files[c].upper = upper
      <4>1. s.files[c] = L(r.files[c]) /\ t.files[c] = U(s.files[c]) /\ r.files[c] \in Settings /\ s.files[c] \in Settings
        BY <1>0, <2>4, <2>5, <2>6, <2>10, <3>3
      <4>2. s.files[c].lower = lower
        BY <2>2, <3>3, <4>1
      <4>3. upper >= s.files[c].lower
        BY <3>2, <4>2
      <4> QED
        BY <2>3, <4>1, <4>2, <4>3
    <3>4. SetGovernorBounds(r, d, lower, upper) = t /\ t.status \in {"ok", "threw"}
      BY <2>1, <2>6, <2>10
    <3> QED
      BY <2>8, <3>1, <3>2, <3>3, <3>4
  <2> QED
    BY <2>9, <2>10
<1> QED
  BY <1>1, <1>2

-----------------------------------------------------------------------------
(* Measurements, and what is restored after them.                          *)

\* The frequencies are set one after the other: governor and bounds stay.
LEMMA MeasureFacts ==
  ASSUME NEW r \in Results, NEW d \in Domains, available[d] \in Seq(Steps)
  PROVE  LET t == Measure(r, d)
         IN  Tame(r, t, d) /\ SameBounds(r, t, d) /\ SameGovernors(r, t, d)
<1> DEFINE N == Len(available[d])
           step(n, s) == Ignoring(s, SetFrequencyUserspace(s, d, available[d][n], "userspace"))
           body(f) == [n \in 0..N |-> IF n = 0 THEN r ELSE LET s == f[n - 1] IN Ignoring(s, SetFrequencyUserspace(s, d, available[d][n], "userspace"))]
           after == CHOOSE f : f = body(f)
           OK(t) == Tame(r, t, d) /\ SameBounds(r, t, d) /\ SameGovernors(r, t, d)
<1>1. N \in Nat /\ (\A n \in 1..N : available[d][n] \in Nat) /\ Range(available[d]) \subseteq Steps
  <2>1. N \in Nat /\ \A n \in 1..N : available[d][n] \in Steps
    OBVIOUS
  <2>2. Range(available[d]) \subseteq Steps
    BY DEF Range
  <2> QED
    BY <2>1, <2>2, StepFacts
<1>2. Measure(r, d) = after[N]
  BY DEF Measure
<1>3. ASSUME NEW n \in 1..N, NEW s \in Results PROVE step(n, s) \in Results
  <2>1. SetFrequencyUserspace(s, d, available[d][n], "userspace") \in Results
    BY <1>1, SetFrequencyFacts DEF Tame
  <2> QED
    BY <2>1 DEF Ignoring
<1>4. \E f : f = body(f)
  <2> DEFINE F == [p \in (1..N) \X Results |-> step(p[1], p[2])]
  <2> HIDE DEF step
  <2>1. \A n \in 1..N, s \in Results : F[<<n, s>>] = step(n, s)
    OBVIOUS
  <2>2. IsStep(F, N, Results)
    BY <1>3, <2>1 DEF IsStep
  <2> HIDE DEF F, N
  <2>3. PICK f : IsIteration(f, N, Results, r, F)
    BY <1>1, <2>2, Iterates
  <2>4. f = [n \in 0..N |-> IF n = 0 THEN r ELSE step(n, f[n - 1])]
    <3>1. \A n \in 1..N : f[n - 1] \in Results /\ f[n] = F[<<n, f[n - 1]>>]
      BY <1>1, <2>3 DEF IsIteration
    <3>2. ASSUME NEW n \in 0..N PROVE f[n] = IF n = 0 THEN r ELSE step(n, f[n - 1])
      <4>1. CASE n = 0
        BY <2>3, <4>1 DEF IsIteration
      <4>2. CASE n # 0
        <5>1. n \in 1..N
          BY <1>1, <4>2
        <5> QED
          BY <2>1, <3>1, <4>2, <5>1
      <4> QED
        BY <4>1, <4>2
    <3> QED
      BY <2>3, <3>2 DEF IsIteration
  <2> QED
    BY <2>4 DEF step
<1>5. after = body(after)
  <2> HIDE DEF body
  <2> QED
    BY <1>4
<1> HIDE DEF after
<1>6. after[0] = r /\ \A n \in 1..N : after[n] = step(n, after[n - 1])
  <2>1. after = [n \in 0..N |-> IF n = 0 THEN r ELSE step(n, after[n - 1])]
    BY <1>5
  <2> HIDE DEF step, N, body
  <2> QED
    BY <1>1, <2>1
<1> DEFINE S == {n \in 0..N : OK(after[n])}
<1> HIDE DEF step, N
<1>7. 0 \in S
  <2>1. OK(r)
    BY DEF Tame, Elsewhere, SameBounds, SameGovernors
  <2> QED
    BY <1>1, <1>6, <2>1
<1>8. ASSUME NEW n \in 1..N, n - 1 \in S PROVE n \in S
  <2> DEFINE s == after[n - 1]
  <2>1. OK(s) /\ s \in Results /\ after[n] = step(n, s) /\ n \in 0..N
    BY <1>1, <1>6, <1>8 DEF Tame
  <2> HIDE DEF s
  <2>2. CASE s.status = "threw"
    <3>1. after[n] = s
      BY <2>1, <2>2 DEF step, Ignoring
    <3> QED
      BY <2>1, <3>1
  <2>3. CASE s.status # "threw"
    <3> DEFINE t == SetFrequencyUserspace(s, d, available[d][n], "userspace")
    <3>1. after[n] = t
      BY <2>1, <2>3 DEF step, Ignoring
    <3>2. Tame(s, t, d) /\ SameBounds(s, t, d) /\ SameGovernors(s, t, d)
      BY <1>1, <2>1, SetFrequencyFacts
    <3> HIDE DEF t
    <3>3. Tame(r, t, d)
      BY <2>1, <2>3, <3>2, TameTransitive
    <3>4. SameBounds(r, t, d) /\ SameGovernors(r, t, d)
      BY <2>1, <3>2 DEF SameBounds, SameGovernors
    <3> QED
      BY <2>1, <3>1, <3>3, <3>4
  <2> QED
    BY <2>2, <2>3
<1> HIDE DEF S
<1>9. N \in S
  <2>1. 0..N \subseteq S
    BY <1>1, <1>7, <1>8, InductionUpTo
  <2> QED
    BY <1>1, <2>1
<1> QED
  BY <1>2, <1>9 DEF S

\* A saved point; it may hold the governor and no frequency of a domain whose
\* governor has no conversion.
PointOK(p) == p.lower \in Steps /\ p.upper \in Steps /\ p.frequency \in Nat

\* Restoring, with the governor in place: the frequency for userspace, else the bounds.
LEMMA RestoreFacts ==
  ASSUME NEW r \in Results, NEW d \in Domains, NEW p, PointOK(p), Range(available[d]) \subseteq Steps
  PROVE  LET t == Restore(r, d, p)
         IN  /\ Tame(r, t, d) /\ SameGovernors(r, t, d)
             /\ p.governor = "userspace" =>
                  /\ SameBounds(r, t, d)
                  /\ t.status = "ok" => \A c \in CoresIn(d) : r.files[c].governor = "userspace" => t.files[c].speed = p.frequency
                  /\ t.status = "false" => r.files[First(d)].governor # "userspace" \/ p.frequency \notin Range(available[d])
             /\ p.governor # "userspace" =>
                  /\ t.status = "ok" => p.lower <= p.upper
                  /\ t.status = "ok" => \A c \in CoresIn(d) : ~RejectCrossed \/ p.lower <= r.files[c].upper =>
                       t.files[c].lower = p.lower /\ t.files[c].upper = p.upper
                  /\ t.status = "false" => t.files = r.files
<1>1. CASE p.governor = "userspace"
  <2>1. Restore(r, d, p) = SetFrequencyUserspace(r, d, p.frequency, r.files[First(d)].governor) /\ p.frequency \in Nat
    BY <1>1 DEF Restore, PointOK
  <2> QED
    BY <1>1, <2>1, SetFrequencyFacts
<1>2. CASE p.governor # "userspace"
  <2>1. Restore(r, d, p) = SetGovernorBounds(r, d, p.lower, p.upper) /\ p.lower \in Steps /\ p.upper \in Steps
    BY <1>2 DEF Restore, PointOK
  <2> QED
    BY <1>2, <2>1, SetBoundsFacts
<1> QED
  BY <1>1, <1>2

\* What is saved.
LEMMA SaveFacts ==
  ASSUME NEW r \in Results, NEW d \in Domains, NEW g
  PROVE  LET p == Save(r, d, g)
             s == r.files[First(d)]
         IN  /\ PointOK(p) /\ p.governor = g /\ p.lower = Lower(s) /\ p.upper = s.upper
             /\ s.governor = "userspace" => p.frequency = Current(s)
<1> DEFINE s == r.files[First(d)]
<1>1. s \in Settings
  BY DomainFacts DEF Results
<1>2. Lower(s) \in Steps /\ s.upper \in Steps /\ Current(s) \in Nat
  BY <1>1, CurrentFacts, StepFacts
<1> QED
  BY <1>1, <1>2 DEF Save, PointOK, GetCurrentFrequencyUserspace

\* What getVoltageTable() makes of the settings a of a core of d: b.
Kept(d, a, b) ==
  /\ Lower(b) = Lower(a) /\ b.upper = a.upper
  /\ (b.governor = a.governor) <=> (a.governor \in Governors \/ "userspace" \notin Governors)
  /\ /\ a.governor \in Governors \cap Fixed
     /\ a.governor = "userspace" => Current(a) \in Range(available[d])
     => Current(b) = Current(a)

\* The governor read is the domain's, if it is in the enum.
LEMMA ReadFacts ==
  ASSUME NEW r \in Results, NEW d \in Domains, NEW g \in GetCurrentGovernor(r, d)
  PROVE  /\ r.files[First(d)].governor \in KernelGovernors
         /\ r.files[First(d)].governor \in Governors => g = r.files[First(d)].governor
<1>1. r.files[First(d)] \in Settings
  BY DomainFacts DEF Results
<1> QED
  BY <1>1 DEF GetCurrentGovernor, Governors, Settings

\* getVoltageTable() keeps what it promises, when the cores agree.
LEMMA VoltageTableFacts ==
  ASSUME NEW r \in Results, NEW d \in Domains, available[d] \in Seq(Steps),
         NEW g \in GetCurrentGovernor(r, d)
  PROVE  LET t == GetVoltageTable(r, d, g)
         IN  /\ Tame(r, t, d)
             /\ t.status # "threw" /\ Agree(r, d) => \A c \in CoresIn(d) : Kept(d, r.files[c], t.files[c])
<1> DEFINE old == Save(r, d, g)
           set == SetGovernor(r, d, "userspace")
           end == Measure(set, d)
           gov == Ignoring(end, SetGovernor(end, d, old.governor))
           t == Restore(gov, d, old)
           all == GetVoltageTable(r, d, g)
<1>0. /\ CoresIn(d) \subseteq Cores /\ First(d) \in CoresIn(d) /\ \A c \in Cores : r.files[c] \in Settings
      /\ Range(available[d]) \subseteq Steps
  BY DomainFacts DEF Results, Range
<1>1. all = IF Unreadable(d) THEN Fail(r, "threw")
            ELSE IF set.status # "ok" THEN set ELSE IF gov.status = "threw" THEN gov ELSE t
  BY DEF GetVoltageTable, Ignoring
<1>2. PointOK(old) /\ old.governor = g /\ old.lower = Lower(r.files[First(d)])
      /\ old.upper = r.files[First(d)].upper
      /\ (r.files[First(d)].governor = "userspace" => old.frequency = Current(r.files[First(d)]))
  BY SaveFacts
<1>3. /\ Tame(r, set, d) /\ SameBounds(r, set, d) /\ set.status \in Statuses
      /\ set.status = "false" => set.files = r.files /\ "userspace" \notin Governors
      /\ set.status = "ok" => "userspace" \in Governors /\ \A c \in CoresIn(d) : set.files[c].governor = "userspace"
  BY SetGovernorFacts DEF Tame, Results
<1> HIDE DEF old, set, all
<1>4. CASE Unreadable(d)
  <2>1. all = Fail(r, "threw")
    BY <1>1, <1>4
  <2> QED
    BY <2>1, FailFacts DEF Statuses, all
<1>5. CASE ~Unreadable(d) /\ set.status # "ok"
  <2>1. all = set
    BY <1>1, <1>5
  <2>2. set.status # "threw" => set.files = r.files /\ "userspace" \notin Governors
    BY <1>3, <1>5 DEF Statuses
  <2> QED
    BY <1>3, <2>1, <2>2 DEF Kept, all
<1>6. CASE ~Unreadable(d) /\ set.status = "ok"
  <2>1. set \in Results
    BY <1>3 DEF Tame
  <2>2. Tame(set, end, d) /\ SameBounds(set, end, d) /\ SameGovernors(set, end, d) /\ end \in Results
    BY <2>1, MeasureFacts DEF Tame
  <2> HIDE DEF end
  <2>3. Tame(r, end, d) /\ SameBounds(r, end, d)
    BY <1>3, <1>6, <2>2, TameTransitive DEF SameBounds
  <2>4. CASE end.status = "threw"
    <3>1. gov = end
      BY <2>4 DEF Ignoring
    <3>2. all = end
      BY <1>1, <1>6, <2>4, <3>1
    <3> QED
      BY <2>3, <2>4, <3>2 DEF all
  <2>5. CASE end.status # "threw"
    <3>1. gov = SetGovernor(end, d, g)
      BY <1>2, <2>5 DEF Ignoring
    <3>2. /\ Tame(end, gov, d) /\ SameBounds(end, gov, d) /\ gov \in Results /\ gov.status \in Statuses
          /\ g \in Governors => gov.status \in {"ok", "threw"}
          /\ gov.status = "ok" => g \in Governors /\ \A c \in CoresIn(d) : gov.files[c].governor = g
          /\ gov.status = "false" => gov.files = end.files
      BY <2>2, <3>1, SetGovernorFacts DEF Tame, Results
    <3> HIDE DEF gov
    <3>3. Tame(r, gov, d) /\ SameBounds(r, gov, d)
      BY <2>3, <2>5, <3>2, TameTransitive DEF SameBounds
    <3>4. CASE gov.status = "threw"
      <4>1. all = gov
        BY <1>1, <1>6, <3>4
      <4> QED
        BY <3>3, <3>4, <4>1 DEF all
    <3>5. CASE gov.status # "threw"
      <4>1. all = t
        BY <1>1, <1>6, <3>5
      <4>2. /\ Tame(gov, t, d) /\ SameGovernors(gov, t, d)
            /\ old.governor = "userspace" =>
                 /\ SameBounds(gov, t, d)
                 /\ t.status = "ok" => \A c \in CoresIn(d) : gov.files[c].governor = "userspace" => t.files[c].speed = old.frequency
                 /\ t.status = "false" => gov.files[First(d)].governor # "userspace" \/ old.frequency \notin Range(available[d])
            /\ old.governor # "userspace" =>
                 /\ t.status = "ok" => old.lower <= old.upper
                 /\ t.status = "ok" => \A c \in CoresIn(d) : ~RejectCrossed \/ old.lower <= gov.files[c].upper =>
                      t.files[c].lower = old.lower /\ t.files[c].upper = old.upper
                 /\ t.status = "false" => t.files = gov.files
        BY <1>0, <1>2, <3>2, RestoreFacts
      <4> HIDE DEF t
      <4>3. Tame(r, t, d)
        BY <3>3, <3>5, <4>2, TameTransitive
      <4>4. ASSUME NEW c \in CoresIn(d)
            PROVE  /\ t.files[c].governor \in Governors
                   /\ g \in Governors => gov.status = "ok" /\ t.files[c].governor = g
        <5>1. t.files[c].governor = gov.files[c].governor
          BY <4>2 DEF SameGovernors
        <5>2. CASE gov.status = "ok"
          BY <3>2, <5>1, <5>2
        <5>3. CASE gov.status = "false"
          BY <1>3, <1>6, <2>2, <3>2, <5>1, <5>3 DEF SameGovernors
        <5> QED
          BY <3>2, <3>5, <5>2, <5>3 DEF Statuses
      <4>5. ASSUME t.status # "threw", Agree(r, d), NEW c \in CoresIn(d)
            PROVE  Kept(d, r.files[c], t.files[c])
        <5> DEFINE a == r.files[c]
                   b == t.files[c]
        <5>1. a \in Settings /\ b \in Settings /\ a = r.files[First(d)] /\ t.status \in {"ok", "false"}
          BY <1>0, <4>3, <4>5 DEF Tame, Results, Agree, Statuses
        <5>2. a.governor \in Governors => g = a.governor
          BY <5>1, ReadFacts
        <5>3. (b.governor = a.governor) <=> (a.governor \in Governors \/ "userspace" \notin Governors)
          BY <1>3, <1>6, <4>4, <5>2
        <5>4. gov.files[c].lower = a.lower /\ gov.files[c].upper = a.upper
          BY <3>3 DEF SameBounds
        <5>5. /\ Lower(a) \in Steps /\ Lower(a) <= a.upper
              /\ a.lower \in Nat /\ a.upper \in Nat /\ a.speed \in Nat /\ Lower(a) \in Nat
          BY <5>1, CurrentFacts, StepFacts DEF Settings
        <5>6. Lower(b) = Lower(a) /\ b.upper = a.upper
          <6>1. CASE b.lower = a.lower /\ b.upper = a.upper
            BY <6>1 DEF Lower
          <6>2. CASE b.lower = Lower(a) /\ b.upper = a.upper
            BY <5>5, <6>2 DEF Lower
          <6>3. CASE g = "userspace"
            BY <1>2, <4>2, <5>1, <5>4, <6>1, <6>3 DEF SameBounds
          <6>4. CASE g # "userspace" /\ t.status = "ok"
            BY <1>2, <4>2, <5>1, <5>4, <5>5, <6>2, <6>4
          <6>5. CASE g # "userspace" /\ t.status = "false"
            BY <1>2, <4>2, <5>1, <5>4, <6>1, <6>5
          <6> QED
            BY <5>1, <6>3, <6>4, <6>5
        <5>7. ASSUME a.governor \in Governors \cap Fixed, a.governor = "userspace" => Current(a) \in Range(available[d])
              PROVE  Current(b) = Current(a)
          <6>0. b.governor = a.governor
            BY <5>3, <5>7
          <6>1. CASE a.governor = "userspace"
            <7>1. gov.status = "ok" /\ gov.files[c].governor = "userspace" /\ gov.files[First(d)].governor = "userspace"
                  /\ old.governor = "userspace" /\ old.frequency = Current(a)
              BY <1>0, <1>2, <3>2, <4>4, <5>1, <5>2, <5>7, <6>1
            <7>2. b.speed = Current(a)
              BY <4>2, <5>1, <5>7, <6>1, <7>1
            <7>3. b.speed \in Nat /\ Current(a) \in Nat
              BY <5>1, <7>2, StepFacts DEF Settings
            <7> QED
              BY <5>1, <5>5, <5>6, <6>0, <6>1, <7>2, <7>3, CurrentFacts
          <6>2. CASE a.governor # "userspace"
            <7>1. a.governor \in {"performance", "powersave"}
              BY <5>7, <6>2 DEF Fixed
            <7> QED
              BY <5>1, <5>6, <6>0, <7>1, CurrentFacts
          <6> QED
            BY <6>1, <6>2
        <5> HIDE DEF a, b
        <5>8. Kept(d, a, b)
          BY <5>3, <5>6, <5>7 DEF Kept
        <5> QED
          BY <5>8 DEF a, b
      <4> QED
        BY <4>1, <4>3, <4>5 DEF all
    <3> QED
      BY <3>4, <3>5
  <2> QED
    BY <2>4, <2>5
<1> QED
  BY <1>4, <1>5, <1>6

-----------------------------------------------------------------------------
(* rollback()                                                              *)

\* What rollback() owes to the cores of domain d.
Restored(r, t, d) ==
  \A c \in CoresIn(d) :
    /\ t.files[c].governor = point[d].governor
    /\ point[d].governor # "userspace" /\ ~RejectCrossed =>
         Lower(t.files[c]) = point[d].lower /\ t.files[c].upper = point[d].upper
    /\ point[d].governor = "userspace" /\ point[d].frequency \in Lower(r.files[c])..r.files[c].upper =>
         Current(t.files[c]) = point[d].frequency

\* One iteration of rollback().
LEMMA RollbackDomainFacts ==
  ASSUME NEW r \in Results, r.status \in {"ok", "threw"}, NEW d \in Domains, PointOK(point[d]),
         Range(available[d]) \subseteq Steps
  PROVE  LET t == RollbackDomain(r, d)
         IN  /\ Tame(r, t, d) /\ t.status \in {"ok", "threw"}
             /\ t.status = "ok" => r.status = "ok" /\ Restored(r, t, d)
<1> DEFINE p == point[d]
           gov == SetGovernor(r, d, p.governor)
           t == Restore(gov, d, p)
           all == RollbackDomain(r, d)
<1>0. CoresIn(d) \subseteq Cores /\ First(d) \in CoresIn(d) /\ \A c \in Cores : r.files[c] \in Settings
  BY DomainFacts DEF Results
<1>1. CASE r.status # "ok"
  <2>1. all = r
    BY <1>1 DEF RollbackDomain
  <2> QED
    BY <1>1, <2>1 DEF Tame, Elsewhere, all
<1>2. CASE r.status = "ok"
  <2>1. /\ Tame(r, gov, d) /\ SameBounds(r, gov, d) /\ gov.status \in Statuses /\ gov \in Results
        /\ gov.status = "ok" => \A c \in CoresIn(d) : gov.files[c].governor = p.governor
    BY SetGovernorFacts DEF Tame, Results
  <2>2. all = IF gov.status = "threw" THEN gov ELSE IF gov.status = "false" THEN Fail(gov, "threw")
              ELSE IF t.status = "false" THEN Fail(t, "threw") ELSE t
    BY <1>2, <2>1 DEF RollbackDomain, Statuses
  <2> HIDE DEF gov, all
  <2>3. CASE gov.status # "ok"
    <3>1. CASE gov.status = "threw"
      BY <2>1, <2>2, <3>1 DEF all
    <3>2. CASE gov.status = "false"
      <4>1. all = Fail(gov, "threw")
        BY <2>2, <3>2
      <4>2. Tame(gov, all, d) /\ all.status = "threw"
        BY <2>1, <4>1, FailFacts DEF Statuses
      <4>3. Tame(r, all, d)
        BY <2>1, <3>2, <4>2, TameTransitive
      <4> QED
        BY <4>2, <4>3 DEF all
    <3> QED
      BY <2>1, <2>3, <3>1, <3>2 DEF Statuses
  <2>4. CASE gov.status = "ok"
    <3>1. /\ Tame(gov, t, d) /\ SameGovernors(gov, t, d)
          /\ p.governor = "userspace" =>
               /\ SameBounds(gov, t, d)
               /\ t.status = "ok" => \A c \in CoresIn(d) : gov.files[c].governor = "userspace" => t.files[c].speed = p.frequency
          /\ p.governor # "userspace" =>
               /\ t.status = "ok" => p.lower <= p.upper
               /\ t.status = "ok" => \A c \in CoresIn(d) : ~RejectCrossed \/ p.lower <= gov.files[c].upper =>
                    t.files[c].lower = p.lower /\ t.files[c].upper = p.upper
      BY <2>1, RestoreFacts
    <3> HIDE DEF t
    <3>2. Tame(r, t, d) /\ t \in Results /\ t.status \in Statuses
      BY <2>1, <2>4, <3>1, TameTransitive DEF Tame, Results
    <3>3. CASE t.status = "false"
      <4>1. all = Fail(t, "threw")
        BY <2>2, <2>4, <3>3
      <4>2. Tame(t, all, d) /\ all.status = "threw"
        BY <3>2, <4>1, FailFacts DEF Statuses
      <4>3. Tame(r, all, d)
        BY <3>2, <3>3, <4>2, TameTransitive
      <4> QED
        BY <4>2, <4>3 DEF all
    <3>4. CASE t.status # "false"
      <4>1. all = t /\ t.status \in {"ok", "threw"}
        BY <2>2, <2>4, <3>2, <3>4 DEF Statuses
      <4>2. ASSUME t.status = "ok", NEW c \in CoresIn(d)
            PROVE  /\ t.files[c].governor = p.governor
                   /\ p.governor # "userspace" /\ ~RejectCrossed =>
                        Lower(t.files[c]) = p.lower /\ t.files[c].upper = p.upper
                   /\ p.governor = "userspace" /\ p.frequency \in Lower(r.files[c])..r.files[c].upper =>
                        Current(t.files[c]) = p.frequency
        <5> DEFINE a == r.files[c]
                   b == t.files[c]
        <5>1. a \in Settings /\ b \in Settings
          BY <1>0, <3>2 DEF Results
        <5>2. b.governor = p.governor
          BY <2>1, <2>4, <3>1 DEF SameGovernors
        <5>3. ASSUME p.governor # "userspace", ~RejectCrossed PROVE Lower(b) = p.lower /\ b.upper = p.upper
          <6>1. b.lower = p.lower /\ b.upper = p.upper /\ p.lower <= p.upper
            BY <3>1, <4>2, <5>3
          <6> QED
            BY <6>1 DEF Lower
        <5>4. ASSUME p.governor = "userspace", p.frequency \in Lower(a)..a.upper PROVE Current(b) = p.frequency
          <6>1. b.speed = p.frequency
            BY <2>1, <2>4, <3>1, <4>2, <5>4
          <6>2. b.lower = a.lower /\ b.upper = a.upper
            BY <2>1, <3>1, <5>4 DEF SameBounds
          <6>3. Lower(b) = Lower(a)
            BY <6>2 DEF Lower
          <6>4. Lower(a) \in Nat /\ a.upper \in Nat /\ p.frequency \in Nat
            BY <5>1, <5>4, CurrentFacts, StepFacts DEF PointOK
          <6> QED
            BY <5>1, <5>2, <5>4, <6>1, <6>2, <6>3, <6>4, CurrentFacts
        <5> QED
          BY <5>2, <5>3, <5>4
      <4> QED
        BY <1>2, <3>2, <4>1, <4>2 DEF Restored, all
    <3> QED
      BY <3>3, <3>4
  <2> QED
    BY <2>3, <2>4
<1> QED
  BY <1>1, <1>2

\* What the first n iterations of rollback() have done.
Progress(r, t, n) ==
  /\ t \in Results /\ t.status \in {"ok", "threw"}
  /\ \A e \in Domains : e > n => \A c \in CoresIn(e) : t.files[c] = r.files[c]
  /\ t.status = "ok" => \A e \in Domains : e <= n => Restored(r, t, e) /\ (Agree(r, e) => Agree(t, e))

\* One more iteration: the domains done before it stay restored, for its writes stay in its own domain.
LEMMA ProgressStep ==
  ASSUME NEW r \in Results, NEW s, NEW n \in Domains, Progress(r, s, n - 1), PointOK(point[n]),
         Range(available[n]) \subseteq Steps
  PROVE  Progress(r, RollbackDomain(s, n), n)
<1> DEFINE t == RollbackDomain(s, n)
<1>0. Domains = 1..Len(CoresOf) /\ Len(CoresOf) \in Nat
  BY CpuFreqAssumption DEF Domains
<1>1. /\ Tame(s, t, n) /\ t.status \in {"ok", "threw"} /\ t \in Results /\ s \in Results
      /\ t.status = "ok" => s.status = "ok" /\ Restored(s, t, n)
  BY RollbackDomainFacts DEF Progress, Tame
<1> HIDE DEF t
<1>2. ASSUME NEW e \in Domains, e # n, NEW c \in CoresIn(e) PROVE t.files[c] = s.files[c] /\ First(e) \in CoresIn(e)
  BY <1>1, <1>2, DomainFacts DEF Tame, Elsewhere
<1>3. ASSUME NEW e \in Domains, e > n, NEW c \in CoresIn(e) PROVE t.files[c] = r.files[c]
  BY <1>0, <1>2, <1>3 DEF Progress
<1>4. \A c \in CoresIn(n) : s.files[c] = r.files[c] /\ First(n) \in CoresIn(n)
  BY <1>0, DomainFacts DEF Progress
<1>5. ASSUME t.status = "ok", NEW e \in Domains, e <= n PROVE Restored(r, t, e) /\ (Agree(r, e) => Agree(t, e))
  <2>1. CASE e = n
    <3>1. Restored(r, t, e)
      BY <1>1, <1>4, <1>5, <2>1 DEF Restored
    <3>2. Agree(r, e) => Agree(t, e)
      BY <1>1, <1>4, <1>5, <2>1 DEF Agree, Tame
    <3> QED
      BY <3>1, <3>2
  <2>2. CASE e # n
    <3>1. Restored(r, s, e) /\ (Agree(r, e) => Agree(s, e))
      BY <1>0, <1>1, <1>5, <2>2 DEF Progress
    <3>2. \A c \in CoresIn(e) : t.files[c] = s.files[c] /\ First(e) \in CoresIn(e)
      BY <1>2, <2>2
    <3>3. Restored(r, t, e)
      BY <3>1, <3>2 DEF Restored
    <3>4. Agree(s, e) => Agree(t, e)
      BY <3>2 DEF Agree
    <3> QED
      BY <3>1, <3>3, <3>4
  <2> QED
    BY <2>1, <2>2
<1> QED
  BY <1>1, <1>3, <1>5 DEF Progress, t

\* rollback() of all the domains.
LEMMA RollbackAllFacts ==
  ASSUME NEW r \in Results, r.status = "ok",
         \A d \in Domains : PointOK(point[d]) /\ Range(available[d]) \subseteq Steps
  PROVE  Progress(r, RollbackAll(r), Len(CoresOf))
<1> DEFINE N == Len(CoresOf)
           X == {s \in Results : s.status \in {"ok", "threw"}}
           body(f) == [d \in 0..N |-> IF d = 0 THEN r ELSE RollbackDomain(f[d - 1], d)]
           after == CHOOSE f : f = body(f)
<1>1. N \in Nat /\ Domains = 1..N
  BY CpuFreqAssumption DEF Domains
<1>2. RollbackAll(r) = after[N]
  BY DEF RollbackAll
<1>3. \A n \in 1..N, s \in X : RollbackDomain(s, n) \in X
  BY <1>1, RollbackDomainFacts DEF Tame
<1>4. \E f : f = body(f)
  <2> DEFINE F == [p \in (1..N) \X X |-> RollbackDomain(p[2], p[1])]
  <2> HIDE DEF X
  <2>1. \A n \in 1..N, s \in X : F[<<n, s>>] = RollbackDomain(s, n)
    OBVIOUS
  <2>2. IsStep(F, N, X)
    BY <1>3, <2>1 DEF IsStep
  <2>3. r \in X
    BY DEF X
  <2> HIDE DEF F, N
  <2>4. PICK f : IsIteration(f, N, X, r, F)
    BY <1>1, <2>2, <2>3, Iterates
  <2>5. \A n \in 1..N : f[n - 1] \in X /\ f[n] = F[<<n, f[n - 1]>>]
    BY <1>1, <2>4 DEF IsIteration
  <2>6. ASSUME NEW n \in 0..N PROVE f[n] = IF n = 0 THEN r ELSE RollbackDomain(f[n - 1], n)
    <3>1. CASE n = 0
      BY <2>4, <3>1 DEF IsIteration
    <3>2. CASE n # 0
      <4>1. n \in 1..N
        BY <1>1, <3>2
      <4> QED
        BY <2>1, <2>5, <3>2, <4>1
    <3> QED
      BY <3>1, <3>2
  <2>7. f = [n \in 0..N |-> IF n = 0 THEN r ELSE RollbackDomain(f[n - 1], n)]
    BY <2>4, <2>6 DEF IsIteration
  <2> QED
    BY <2>7
<1>5. after = body(after)
  <2> HIDE DEF body
  <2> QED
    BY <1>4
<1> HIDE DEF after, N
<1>6. after[0] = r /\ \A n \in 1..N : after[n] = RollbackDomain(after[n - 1], n)
  BY <1>1, <1>5
<1> DEFINE S == {n \in 0..N : Progress(r, after[n], n)}
<1>7. 0 \in S
  <2>1. Progress(r, r, 0)
    BY <1>1 DEF Progress
  <2> QED
    BY <1>1, <1>6, <2>1
<1>8. ASSUME NEW n \in 1..N, n - 1 \in S PROVE n \in S
  <2>1. Progress(r, after[n - 1], n - 1) /\ n \in Domains /\ after[n] = RollbackDomain(after[n - 1], n) /\ n \in 0..N
    BY <1>1, <1>6, <1>8
  <2>2. Progress(r, after[n], n)
    BY <2>1, ProgressStep
  <2> QED
    BY <2>1, <2>2
<1> HIDE DEF S
<1>9. N \in S
  <2>1. 0..N \subseteq S
    BY <1>1, <1>7, <1>8, InductionUpTo
  <2> QED
    BY <1>1, <2>1
<1> QED
  BY <1>2, <1>9 DEF S, N

-----------------------------------------------------------------------------
(* Turbo frequencies.                                                      *)

Lists == [available : Seq(Steps), turbo : Seq(Steps)]

Elements(q) == {q[i] : i \in 1..Len(q)}

\* Sorted, but for turbo frequencies that come after the others.
Ordered(q) ==
  \A i, j \in 1..Len(q) : i < j => q[i] < q[j] \/ (IsTurbo(q[j]) /\ ~IsTurbo(q[i]))

\* The lists hold the set, whose frequencies are n, and each is in order.
Holds(s, set, n) ==
  /\ Len(s.available) + Len(s.turbo) = n
  /\ Elements(s.available) \cup Elements(s.turbo) = set
  /\ Ordered(s.available) /\ Ordered(s.turbo)
  /\ \A f \in Elements(s.turbo) : IsTurbo(f)
  /\ s.turbo # <<>> => \A f \in Elements(s.available) : ~IsTurbo(f)

\* Between calls, and while the turbo frequencies of the table are moved.
Sifting(table, s, n) ==
  /\ Holds(s, {table[k] : k \in 1..n}, n)
  /\ \A f \in Elements(s.available) : ~IsTurbo(f)

\* One iteration of the loop of removeTurboFrequencies().
Sift(table, s, n) ==
  IF IsTurbo(table[n]) THEN [s EXCEPT !.turbo = Append(@, table[n])]
  ELSE [s EXCEPT !.available = Append(@, table[n])]

\* Appending a frequency that may follow all the others.
LEMMA AppendFacts ==
  ASSUME NEW q \in Seq(Steps), NEW f \in Steps, Ordered(q),
         \A e \in Elements(q) : e < f \/ (IsTurbo(f) /\ ~IsTurbo(e))
  PROVE  /\ Append(q, f) \in Seq(Steps) /\ Len(Append(q, f)) = Len(q) + 1
         /\ Elements(Append(q, f)) = Elements(q) \cup {f}
         /\ Ordered(Append(q, f))
<1> DEFINE t == Append(q, f)
<1>1. /\ t \in Seq(Steps) /\ Len(q) \in Nat /\ Len(t) = Len(q) + 1 /\ t[Len(q) + 1] = f
      /\ \A i \in 1..Len(q) : t[i] = q[i]
  OBVIOUS
<1> HIDE DEF t
<1>2. Elements(t) = Elements(q) \cup {f}
  <2>1. ASSUME NEW x \in Elements(t) PROVE x \in Elements(q) \cup {f}
    <3>1. PICK i \in 1..Len(t) : x = t[i]
      BY DEF Elements
    <3>2. CASE i = Len(q) + 1
      BY <1>1, <3>1, <3>2
    <3>3. CASE i # Len(q) + 1
      <4>1. i \in 1..Len(q)
        BY <1>1, <3>3
      <4> QED
        BY <1>1, <3>1, <4>1 DEF Elements
    <3> QED
      BY <3>2, <3>3
  <2>2. ASSUME NEW x \in Elements(q) PROVE x \in Elements(t)
    <3>1. PICK i \in 1..Len(q) : x = q[i]
      BY DEF Elements
    <3>2. i \in 1..Len(t)
      BY <1>1
    <3> QED
      BY <1>1, <3>1, <3>2 DEF Elements
  <2>3. f \in Elements(t)
    <3>1. Len(q) + 1 \in 1..Len(t)
      BY <1>1
    <3> QED
      BY <1>1, <3>1 DEF Elements
  <2> QED
    BY <2>1, <2>2, <2>3
<1>3. ASSUME NEW i \in 1..Len(t), NEW j \in 1..Len(t), i < j
      PROVE  t[i] < t[j] \/ (IsTurbo(t[j]) /\ ~IsTurbo(t[i]))
  <2>1. i \in 1..Len(q)
    BY <1>1, <1>3
  <2>2. t[i] = q[i] /\ q[i] \in Elements(q)
    BY <1>1, <2>1 DEF Elements
  <2>3. CASE j = Len(q) + 1
    BY <1>1, <2>2, <2>3
  <2>4. CASE j # Len(q) + 1
    <3>1. j \in 1..Len(q)
      BY <1>1, <2>4
    <3> QED
      BY <1>1, <1>3, <2>1, <3>1 DEF Ordered
  <2> QED
    BY <2>3, <2>4
<1>4. Ordered(t)
  BY <1>3 DEF Ordered
<1> QED
  BY <1>1, <1>2, <1>4 DEF t

\* An iteration appends to one of the lists and keeps both in order.
LEMMA SiftFacts ==
  ASSUME NEW table \in Seq(Steps), NEW n \in 1..Len(table), NEW s \in Lists, Ordered(table),
         Sifting(table, s, n - 1)
  PROVE  Sift(table, s, n) \in Lists /\ Sifting(table, Sift(table, s, n), n)
<1> DEFINE f == table[n]
           a == s.available
           u == s.turbo
           t == Sift(table, s, n)
           before == {table[k] : k \in 1..(n - 1)}
<1>1. f \in Steps /\ a \in Seq(Steps) /\ u \in Seq(Steps) /\ Len(a) \in Nat /\ Len(u) \in Nat /\ n \in Nat
      /\ Len(table) \in Nat
  BY DEF Lists
<1>2. {table[k] : k \in 1..n} = before \cup {f}
  <2>1. 1..n = (1..(n - 1)) \cup {n}
    BY <1>1
  <2> QED
    BY <2>1
<1>3. /\ Len(a) + Len(u) = n - 1 /\ Elements(a) \cup Elements(u) = before /\ Ordered(a) /\ Ordered(u)
      /\ (\A e \in Elements(u) : IsTurbo(e)) /\ \A e \in Elements(a) : ~IsTurbo(e)
  BY DEF Sifting, Holds
<1>4. \A e \in before : e < f \/ (IsTurbo(f) /\ ~IsTurbo(e))
  <2> SUFFICES ASSUME NEW k \in 1..(n - 1) PROVE table[k] < f \/ (IsTurbo(f) /\ ~IsTurbo(table[k]))
    OBVIOUS
  <2>1. k \in 1..Len(table) /\ k < n
    BY <1>1
  <2> QED
    BY <2>1 DEF Ordered
<1>5. CASE IsTurbo(f)
  <2>1. t.available = a /\ t.turbo = Append(u, f) /\ t = [available |-> a, turbo |-> Append(u, f)]
    BY <1>5 DEF Sift, Lists
  <2> HIDE DEF t, f, a, u, before
  <2>2. /\ Append(u, f) \in Seq(Steps) /\ Len(Append(u, f)) = Len(u) + 1
        /\ Elements(Append(u, f)) = Elements(u) \cup {f} /\ Ordered(Append(u, f))
    BY <1>1, <1>3, <1>4, AppendFacts
  <2>3. t \in Lists
    BY <1>1, <2>1, <2>2 DEF Lists
  <2>4. Holds(t, before \cup {f}, n)
    BY <1>1, <1>3, <1>5, <2>1, <2>2 DEF Holds
  <2> QED
    BY <1>2, <1>3, <2>1, <2>3, <2>4 DEF Sifting, t
<1>6. CASE ~IsTurbo(f)
  <2>1. t.available = Append(a, f) /\ t.turbo = u /\ t = [available |-> Append(a, f), turbo |-> u]
    BY <1>6 DEF Sift, Lists
  <2> HIDE DEF t, f, a, u, before
  <2>2. /\ Append(a, f) \in Seq(Steps) /\ Len(Append(a, f)) = Len(a) + 1
        /\ Elements(Append(a, f)) = Elements(a) \cup {f} /\ Ordered(Append(a, f))
    BY <1>1, <1>3, <1>4, AppendFacts
  <2>3. t \in Lists
    BY <1>1, <2>1, <2>2 DEF Lists
  <2>4. Holds(t, before \cup {f}, n) /\ \A e \in Elements(t.available) : ~IsTurbo(e)
    BY <1>1, <1>3, <1>6, <2>1, <2>2 DEF Holds
  <2> QED
    BY <1>2, <2>3, <2>4 DEF Sifting, t
<1> QED
  BY <1>5, <1>6

\* removeTurboFrequencies() moves the turbo frequencies of a list in order.
LEMMA SiftedFacts ==
  ASSUME NEW table \in Seq(Steps), Ordered(table)
  PROVE  Sifted(table) \in Lists /\ Holds(Sifted(table), Elements(table), Len(table))
<1> DEFINE N == Len(table)
           x0 == [available |-> <<>>, turbo |-> <<>>]
           body(g) == [n \in 0..N |->
                         IF n = 0 THEN [available |-> <<>>, turbo |-> <<>>]
                         ELSE LET s == g[n - 1]
                                  f == table[n]
                              IN  IF IsTurbo(f) THEN [s EXCEPT !.turbo = Append(@, f)]
                                  ELSE [s EXCEPT !.available = Append(@, f)]]
           after == CHOOSE g : g = body(g)
<1>1. N \in Nat
  OBVIOUS
<1>2. Sifted(table) = after[N]
  BY DEF Sifted
<1>3. x0 \in Lists /\ Sifting(table, x0, 0)
  <2>1. x0.available = <<>> /\ x0.turbo = <<>>
    OBVIOUS
  <2>2. x0 \in Lists
    BY DEF Lists
  <2> HIDE DEF x0
  <2>3. Sifting(table, x0, 0)
    BY <2>1 DEF Sifting, Holds, Ordered, Elements
  <2> QED
    BY <2>2, <2>3
<1>4. \E g : g = body(g)
  <2>0. ASSUME NEW n \in 1..N, NEW s \in Lists PROVE Sift(table, s, n) \in Lists
    <3>1. table[n] \in Steps /\ s.turbo \in Seq(Steps) /\ s.available \in Seq(Steps)
      BY DEF Lists
    <3>2. Append(s.turbo, table[n]) \in Seq(Steps) /\ Append(s.available, table[n]) \in Seq(Steps)
      BY <3>1
    <3> QED
      BY <3>2 DEF Sift, Lists
  <2> DEFINE F == [p \in (1..N) \X Lists |-> Sift(table, p[2], p[1])]
  <2>1. \A n \in 1..N, s \in Lists : F[<<n, s>>] = Sift(table, s, n)
    OBVIOUS
  <2>2. IsStep(F, N, Lists)
    BY <2>0, <2>1 DEF IsStep
  <2> HIDE DEF F, N, x0
  <2>4. PICK f : IsIteration(f, N, Lists, x0, F)
    BY <1>1, <1>3, <2>2, Iterates
  <2>5. \A n \in 1..N : f[n - 1] \in Lists /\ f[n] = F[<<n, f[n - 1]>>]
    BY <1>1, <2>4 DEF IsIteration
  <2>6. ASSUME NEW n \in 0..N PROVE f[n] = IF n = 0 THEN x0 ELSE Sift(table, f[n - 1], n)
    <3>1. CASE n = 0
      BY <2>4, <3>1 DEF IsIteration
    <3>2. CASE n # 0
      <4>1. n \in 1..N
        BY <1>1, <3>2
      <4> QED
        BY <2>1, <2>5, <3>2, <4>1
    <3> QED
      BY <3>1, <3>2
  <2>7. f = [n \in 0..N |-> IF n = 0 THEN x0 ELSE Sift(table, f[n - 1], n)]
    BY <2>4, <2>6 DEF IsIteration
  <2> QED
    BY <2>7 DEF Sift, x0
<1>5. after = body(after)
  <2> HIDE DEF body
  <2> QED
    BY <1>4
<1> HIDE DEF after
<1>6. after[0] = x0 /\ \A n \in 1..N : after[n] = Sift(table, after[n - 1], n)
  <2>1. after = [n \in 0..N |-> IF n = 0 THEN x0 ELSE Sift(table, after[n - 1], n)]
    BY <1>5 DEF Sift
  <2> HIDE DEF N, body, x0
  <2> QED
    BY <1>1, <2>1
<1> HIDE DEF body
<1> DEFINE OK(n) == after[n] \in Lists /\ Sifting(table, after[n], n)
           S == {n \in 0..N : OK(n)}
<1> HIDE DEF x0
<1>7. 0 \in S
  BY <1>1, <1>3, <1>6
<1>8. ASSUME NEW n \in 1..N, n - 1 \in S PROVE n \in S
  <2>1. OK(n - 1) /\ after[n] = Sift(table, after[n - 1], n) /\ n \in 0..N
    BY <1>1, <1>6, <1>8
  <2>2. OK(n)
    BY <2>1, SiftFacts
  <2> QED
    BY <2>1, <2>2
<1> HIDE DEF S, N
<1>9. N \in S
  <2>1. 0..N \subseteq S
    BY <1>1, <1>7, <1>8, InductionUpTo
  <2> QED
    BY <1>1, <2>1
<1>10. after[N] \in Lists /\ Sifting(table, after[N], N)
  BY <1>9 DEF S
<1> QED
  BY <1>2, <1>10 DEF Sifting, Elements, N

-----------------------------------------------------------------------------
(* The inductive invariant.                                                *)

Coherent == \A d \in Domains \ torn : \A c \in CoresIn(d) : files[c] = files[First(d)]

ListsOf(d) == [available |-> available[d], turbo |-> turbo[d]]

TypesOK ==
  /\ files \in [Cores -> Settings]
  /\ available \in [Domains -> Seq(Steps)]
  /\ turbo \in [Domains -> Seq(Steps)]
  /\ point # <<>> => \A d \in Domains : PointOK(point[d])

TableInv == \A d \in Domains : Holds(ListsOf(d), Steps, Len(Frequencies))

CpuFreqInv == TypesOK /\ Coherent /\ TableInv

\* The result from which every call starts.
LEMMA HereFacts ==
  ASSUME TypesOK
  PROVE  Here \in Results /\ Here.files = files /\ Here.status = "ok"
BY DEF TypesOK, Here, Results, Statuses

\* A call on one domain.
LEMMA CallStep ==
  ASSUME TypesOK, Coherent, NEW d \in Domains, NEW r, Tame(Here, r, d), Call({d}, r)
  PROVE  files' \in [Cores -> Settings] /\ Coherent'
<1>1. files' = r.files /\ r \in Results /\ r.status \in Statuses
      /\ torn' = IF r.status = "threw" THEN torn \cup {d} ELSE torn
  BY DEF Call, Tame, Results
<1>2. files' \in [Cores -> Settings]
  BY <1>1 DEF Results
<1>3. ASSUME NEW e \in Domains \ torn', NEW c \in CoresIn(e) PROVE r.files[c] = r.files[First(e)]
  <2>1. e \in Domains \ torn /\ First(e) \in CoresIn(e) /\ CoresIn(e) \subseteq Cores
    BY <1>1, <1>3, DomainFacts
  <2>2. files[c] = files[First(e)]
    BY <2>1 DEF Coherent
  <2>3. CASE e = d
    <3>1. r.status # "threw"
      BY <1>1, <1>3, <2>3
    <3>2. Agree(Here, d)
      BY <2>1, <2>3, HereFacts DEF Agree, Coherent
    <3> QED
      BY <2>3, <3>1, <3>2 DEF Tame, Agree
  <2>4. CASE e # d
    <3>1. c \in Cores \ CoresIn(d) /\ First(e) \in Cores \ CoresIn(d)
      BY <2>1, <2>4, DomainFacts
    <3> QED
      BY <2>2, <3>1, HereFacts DEF Tame, Elsewhere
  <2> QED
    BY <2>3, <2>4
<1>4. Coherent'
  BY <1>1, <1>3 DEF Coherent, First, CoresIn
<1> QED
  BY <1>2, <1>4

\* Joining the two lists keeps what they hold.
LEMMA JoinFacts ==
  ASSUME NEW s \in Lists, NEW set, NEW n \in Nat, Holds(s, set, n)
  PROVE  Holds([available |-> s.available \o s.turbo, turbo |-> <<>>], set, n)
<1> DEFINE a == s.available
           u == s.turbo
           q == a \o u
           t == [available |-> q, turbo |-> <<>>]
<1>1. a \in Seq(Steps) /\ u \in Seq(Steps) /\ Len(a) \in Nat /\ Len(u) \in Nat
  BY DEF Lists
<1>2. /\ Len(a) + Len(u) = n /\ Elements(a) \cup Elements(u) = set /\ Ordered(a) /\ Ordered(u)
      /\ \A f \in Elements(u) : IsTurbo(f)
      /\ u # <<>> => \A f \in Elements(a) : ~IsTurbo(f)
  BY DEF Holds
<1>3. t.available = q /\ t.turbo = <<>>
  OBVIOUS
<1>4. Len(q) = Len(a) + Len(u) /\ \A i \in 1..(Len(a) + Len(u)) : q[i] = IF i <= Len(a) THEN a[i] ELSE u[i - Len(a)]
  <2> HIDE DEF a, u
  <2> QED
    BY <1>1
<1> HIDE DEF a, u, q, t
<1>5. ASSUME NEW i \in 1..Len(q)
      PROVE  \/ i \in 1..Len(a) /\ q[i] = a[i] /\ q[i] \in Elements(a)
             \/ i - Len(a) \in 1..Len(u) /\ q[i] = u[i - Len(a)] /\ q[i] \in Elements(u)
  <2>1. CASE i <= Len(a)
    <3>1. i \in 1..Len(a)
      BY <1>1, <1>4, <2>1
    <3> QED
      BY <1>1, <1>4, <2>1, <3>1 DEF Elements
  <2>2. CASE ~(i <= Len(a))
    <3>1. i - Len(a) \in 1..Len(u)
      BY <1>1, <1>4, <2>2
    <3> QED
      BY <1>1, <1>4, <2>2, <3>1 DEF Elements
  <2> QED
    BY <2>1, <2>2
<1>6. Elements(q) = set
  <2>1. Elements(q) \subseteq set
    BY <1>2, <1>5 DEF Elements
  <2>2. ASSUME NEW i \in 1..Len(a) PROVE a[i] \in Elements(q)
    <3>1. i \in 1..Len(q) /\ q[i] = a[i]
      BY <1>1, <1>4
    <3> QED
      BY <3>1 DEF Elements
  <2>3. ASSUME NEW i \in 1..Len(u) PROVE u[i] \in Elements(q)
    <3>1. Len(a) + i \in 1..Len(q) /\ q[Len(a) + i] = u[i]
      BY <1>1, <1>4
    <3> QED
      BY <3>1 DEF Elements
  <2>4. Elements(a) \subseteq Elements(q) /\ Elements(u) \subseteq Elements(q)
    BY <2>2, <2>3 DEF Elements
  <2> QED
    BY <1>2, <2>1, <2>4
<1>7. ASSUME NEW i \in 1..Len(q), NEW j \in 1..Len(q), i < j
      PROVE  q[i] < q[j] \/ (IsTurbo(q[j]) /\ ~IsTurbo(q[i]))
  <2>1. CASE i \in 1..Len(a) /\ q[i] = a[i] /\ j \in 1..Len(a) /\ q[j] = a[j]
    BY <1>2, <1>7, <2>1 DEF Ordered
  <2>2. CASE i - Len(a) \in 1..Len(u) /\ q[i] = u[i - Len(a)] /\ j - Len(a) \in 1..Len(u) /\ q[j] = u[j - Len(a)]
    <3>1. i - Len(a) < j - Len(a)
      BY <1>1, <1>7
    <3> QED
      BY <1>2, <2>2, <3>1 DEF Ordered
  <2>3. CASE i \in 1..Len(a) /\ q[i] \in Elements(a) /\ j - Len(a) \in 1..Len(u) /\ q[j] \in Elements(u)
    <3>1. u # <<>>
      BY <1>1, <2>3
    <3> QED
      BY <1>2, <2>3, <3>1
  <2>4. ~(i - Len(a) \in 1..Len(u) /\ j \in 1..Len(a))
    BY <1>1, <1>7
  <2> QED
    BY <1>5, <2>1, <2>2, <2>3, <2>4
<1>8. Holds(t, set, n)
  <2>1. Elements(t.turbo) = {} /\ Len(t.turbo) = 0 /\ Ordered(t.turbo)
    BY <1>3 DEF Elements, Ordered
  <2>2. Ordered(q)
    BY <1>7 DEF Ordered
  <2> QED
    BY <1>1, <1>2, <1>3, <1>4, <1>6, <2>1, <2>2 DEF Holds
<1> QED
  BY <1>8 DEF t, q, a, u

\* removeTurboFrequencies() and reinsertTurboFrequencies() in one domain.
LEMMA TurboFacts ==
  ASSUME TypesOK, TableInv, NEW d \in Domains
  PROVE  /\ Removed(d) \in Lists /\ Holds(Removed(d), Steps, Len(Frequencies))
         /\ Reinserted(d) \in Lists /\ Holds(Reinserted(d), Steps, Len(Frequencies))
<1>1. available[d] \in Seq(Steps) /\ turbo[d] \in Seq(Steps) /\ ListsOf(d) \in Lists
      /\ ListsOf(d).available = available[d] /\ ListsOf(d).turbo = turbo[d]
      /\ Holds(ListsOf(d), Steps, Len(Frequencies)) /\ Len(Frequencies) \in Nat
  BY StepFacts DEF TypesOK, TableInv, ListsOf, Lists
<1>2. Reinserted(d) = [available |-> available[d] \o turbo[d], turbo |-> <<>>] /\ Reinserted(d) \in Lists
  BY <1>1 DEF Reinserted, Lists
<1>3. Holds(Reinserted(d), Steps, Len(Frequencies))
  BY <1>1, <1>2, JoinFacts
<1>4. CASE turbo[d] # <<>>
  <2>1. Removed(d) = ListsOf(d)
    BY <1>4 DEF Removed, ListsOf
  <2> QED
    BY <1>1, <1>2, <1>3, <2>1
<1>5. CASE turbo[d] = <<>>
  <2>1. Removed(d) = Sifted(available[d])
    BY <1>5 DEF Removed
  <2>2. Elements(turbo[d]) = {} /\ Len(turbo[d]) = 0 /\ Len(available[d]) \in Nat
    BY <1>1, <1>5 DEF Elements
  <2>3. Elements(available[d]) = Steps /\ Len(available[d]) = Len(Frequencies) /\ Ordered(available[d])
    BY <1>1, <2>2 DEF Holds
  <2> QED
    BY <1>1, <1>2, <1>3, <2>1, <2>3, SiftedFacts
<1> QED
  BY <1>4, <1>5

\* The invariant holds when the domains have been read.
LEMMA InitInv == Init => CpuFreqInv
<1> SUFFICES ASSUME Init PROVE CpuFreqInv
  OBVIOUS
<1>1. PICK s \in Settings : files = [c \in Cores |-> s]
  BY DEF Init
<1>2. /\ available = [d \in Domains |-> Frequencies] /\ turbo = [d \in Domains |-> <<>>] /\ point = <<>>
  BY DEF Init
<1>3. Frequencies \in Seq(Steps) /\ Len(Frequencies) \in Nat
  BY StepFacts
<1>4. TypesOK
  BY <1>1, <1>2, <1>3 DEF TypesOK
<1>5. Coherent
  BY <1>1, DomainFacts DEF Coherent
<1>6. Ordered(Frequencies) /\ Elements(Frequencies) = Steps
  BY StepFacts, CpuFreqAssumption DEF Ordered, Elements
<1>7. ASSUME NEW d \in Domains PROVE Holds(ListsOf(d), Steps, Len(Frequencies))
  <2>1. ListsOf(d).available = Frequencies /\ ListsOf(d).turbo = <<>>
    BY <1>2 DEF ListsOf
  <2>2. Elements(<<>>) = {} /\ Ordered(<<>>) /\ Len(<<>>) = 0
    BY DEF Elements, Ordered
  <2> QED
    BY <1>3, <1>6, <2>1, <2>2 DEF Holds
<1> QED
  BY <1>4, <1>5, <1>7 DEF CpuFreqInv, TableInv

\* A step that leaves the lists and the rollback point alone.
LEMMA OtherwiseStep ==
  ASSUME CpuFreqInv, files' \in [Cores -> Settings], Coherent', UNCHANGED <<available, turbo, point>>
  PROVE  CpuFreqInv'
<1>1. TypesOK'
  BY DEF CpuFreqInv, TypesOK, PointOK
<1>2. TableInv'
  BY DEF CpuFreqInv, TableInv, ListsOf
<1> QED
  BY <1>1, <1>2 DEF CpuFreqInv

\* A call that leaves the files alone.
LEMMA QuietCall ==
  ASSUME TypesOK, Coherent, NEW r, r.files = files, r.status \in Statuses, Call(Domains, r)
  PROVE  files' \in [Cores -> Settings] /\ Coherent'
<1>1. files' = files /\ torn' \in {torn, torn \cup Domains}
  BY DEF Call
<1> QED
  BY <1>1 DEF TypesOK, Coherent, First, CoresIn

\* removeTurboFrequencies() and reinsertTurboFrequencies() keep the invariant.
LEMMA TurboStep ==
  ASSUME CpuFreqInv, RemoveTurboFrequencies \/ ReinsertTurboFrequencies
  PROVE  CpuFreqInv'
<1>1. TypesOK /\ Coherent /\ TableInv
  BY DEF CpuFreqInv
<1>2. files' \in [Cores -> Settings] /\ Coherent'
  BY <1>1, HereFacts, QuietCall DEF RemoveTurboFrequencies, ReinsertTurboFrequencies, Statuses
<1>3. PICK L \in [Domains -> Lists] :
        /\ available' = [d \in Domains |-> L[d].available] /\ turbo' = [d \in Domains |-> L[d].turbo]
        /\ \A d \in Domains : Holds(L[d], Steps, Len(Frequencies))
  <2>1. CASE RemoveTurboFrequencies
    <3> DEFINE L == [d \in Domains |-> Removed(d)]
    <3>1. \A d \in Domains : L[d] = Removed(d)
      OBVIOUS
    <3>2. L \in [Domains -> Lists]
      BY <1>1, TurboFacts
    <3>3. \A d \in Domains : Holds(L[d], Steps, Len(Frequencies))
      BY <1>1, <3>1, TurboFacts
    <3>4. available' = [d \in Domains |-> L[d].available] /\ turbo' = [d \in Domains |-> L[d].turbo]
      BY <2>1, <3>1 DEF RemoveTurboFrequencies
    <3> HIDE DEF L
    <3> QED
      BY <3>2, <3>3, <3>4
  <2>2. CASE ReinsertTurboFrequencies
    <3> DEFINE L == [d \in Domains |-> Reinserted(d)]
    <3>1. \A d \in Domains : L[d] = Reinserted(d)
      OBVIOUS
    <3>2. L \in [Domains -> Lists]
      BY <1>1, TurboFacts
    <3>3. \A d \in Domains : Holds(L[d], Steps, Len(Frequencies))
      BY <1>1, <3>1, TurboFacts
    <3>4. available' = [d \in Domains |-> L[d].available] /\ turbo' = [d \in Domains |-> L[d].turbo]
      BY <2>2, <3>1 DEF ReinsertTurboFrequencies
    <3> HIDE DEF L
    <3> QED
      BY <3>2, <3>3, <3>4
  <2> QED
    BY <2>1, <2>2
<1>4. \A d \in Domains : available'[d] = L[d].available /\ turbo'[d] = L[d].turbo
                         /\ L[d].available \in Seq(Steps) /\ L[d].turbo \in Seq(Steps)
  BY <1>3 DEF Lists
<1>5. available' \in [Domains -> Seq(Steps)] /\ turbo' \in [Domains -> Seq(Steps)]
  BY <1>3, <1>4
<1>6. point' = point
  BY DEF RemoveTurboFrequencies, ReinsertTurboFrequencies
<1>7. TypesOK'
  BY <1>1, <1>2, <1>5, <1>6 DEF TypesOK, PointOK
<1>8. ASSUME NEW d \in Domains PROVE Holds(ListsOf(d), Steps, Len(Frequencies))'
  <2>1. ListsOf(d)'.available = L[d].available /\ ListsOf(d)'.turbo = L[d].turbo
    BY <1>4 DEF ListsOf
  <2>2. Holds(L[d], Steps, Len(Frequencies))
    BY <1>3
  <2> HIDE DEF ListsOf
  <2> QED
    BY <2>1, <2>2 DEF Holds, Ordered, Elements
<1>9. TableInv'
  BY <1>8 DEF TableInv
<1> QED
  BY <1>2, <1>7, <1>9 DEF CpuFreqInv

\* Every call, and every core going off or on, keeps the invariant.
LEMMA StepInv == CpuFreqInv /\ [Next]_vars => CpuFreqInv'
<1> SUFFICES ASSUME CpuFreqInv, [Next]_vars PROVE CpuFreqInv'
  OBVIOUS
<1>0. /\ TypesOK /\ Coherent /\ TableInv /\ Here \in Results
      /\ \A d \in Domains : available[d] \in Seq(Steps) /\ Range(available[d]) \subseteq Steps
  BY HereFacts DEF CpuFreqInv, TypesOK, Range
<1>1. ASSUME NEW d \in Domains, NEW governor \in AllGovernors, CallSetGovernor(d, governor) PROVE CpuFreqInv'
  <2>1. Tame(Here, SetGovernor(Here, d, governor), d)
    BY <1>0, SetGovernorFacts
  <2> QED
    BY <1>0, <1>1, <2>1, CallStep, OtherwiseStep DEF CallSetGovernor
<1>2. ASSUME NEW d \in Domains, NEW frequency \in Steps, CallSetFrequency(d, frequency) \/ CallSetExtreme(d, frequency)
      PROVE  CpuFreqInv'
  <2>1. PICK read : Call({d}, SetFrequencyUserspace(Here, d, frequency, read))
    BY <1>2 DEF CallSetFrequency, CallSetExtreme
  <2>2. Tame(Here, SetFrequencyUserspace(Here, d, frequency, read), d)
    BY <1>0, StepFacts, SetFrequencyFacts
  <2>3. UNCHANGED <<available, turbo, point>>
    BY <1>2 DEF CallSetFrequency, CallSetExtreme
  <2> QED
    BY <1>0, <2>1, <2>2, <2>3, CallStep, OtherwiseStep
<1>3. ASSUME NEW d \in Domains, NEW lower \in Steps, NEW upper \in Steps, CallSetBounds(d, lower, upper)
      PROVE  CpuFreqInv'
  <2>1. Tame(Here, SetGovernorBounds(Here, d, lower, upper), d)
    BY <1>0, SetBoundsFacts
  <2> QED
    BY <1>0, <1>3, <2>1, CallStep, OtherwiseStep DEF CallSetBounds
<1>4. ASSUME NEW d \in Domains, NEW n \in 0..Len(CoresOf[d]), CallGetVoltageTable(d, n) PROVE CpuFreqInv'
  <2>1. PICK read \in GetCurrentGovernor(Here, d) : Call({d}, GetVoltageTable(Here, d, read))
    BY <1>4 DEF CallGetVoltageTable
  <2>2. Tame(Here, GetVoltageTable(Here, d, read), d)
    BY <1>0, VoltageTableFacts
  <2>3. UNCHANGED <<available, turbo, point>>
    BY <1>4 DEF CallGetVoltageTable
  <2> QED
    BY <1>0, <2>1, <2>2, <2>3, CallStep, OtherwiseStep
<1>5. CASE RemoveTurboFrequencies \/ ReinsertTurboFrequencies
  BY <1>5, TurboStep
<1>6. CASE GetRollbackPoint
  <2> DEFINE readable == \A d \in Domains : ~Unreadable(d)
             r == IF readable THEN Here ELSE Fail(Here, "threw")
  <2>1. PICK reads : /\ Call(Domains, r) /\ UNCHANGED <<available, turbo>>
                     /\ point' = IF readable THEN [d \in Domains |-> Save(Here, d, reads[d])] ELSE point
    BY <1>6 DEF GetRollbackPoint
  <2>2. r.files = files /\ r.status \in Statuses
    BY <1>0, HereFacts DEF Fail, Results, Statuses
  <2> HIDE DEF r, readable
  <2>3. files' \in [Cores -> Settings] /\ Coherent'
    BY <1>0, <2>1, <2>2, QuietCall
  <2>4. \A d \in Domains : PointOK(Save(Here, d, reads[d]))
    BY <1>0, SaveFacts
  <2>5. point' # <<>> => \A d \in Domains : PointOK(point'[d])
    BY <1>0, <2>1, <2>4 DEF TypesOK
  <2>6. TypesOK'
    BY <1>0, <2>1, <2>3, <2>5 DEF TypesOK, PointOK
  <2>7. TableInv'
    BY <1>0, <2>1 DEF TableInv, ListsOf
  <2> QED
    BY <2>3, <2>6, <2>7 DEF CpuFreqInv
<1>7. CASE Rollback
  <2> DEFINE t == RollbackAll(Here)
  <2>1. Call(Domains, t) /\ UNCHANGED <<available, turbo, point>> /\ \A d \in Domains : PointOK(point[d])
    BY <1>0, <1>7 DEF Rollback, TypesOK
  <2>2. Progress(Here, t, Len(CoresOf))
    BY <1>0, <2>1, HereFacts, RollbackAllFacts
  <2> HIDE DEF t
  <2>3. files' = t.files /\ t \in Results /\ torn' = IF t.status = "threw" THEN torn \cup Domains ELSE torn
    BY <2>1, <2>2 DEF Call, Progress
  <2>4. ASSUME NEW d \in Domains \ torn' PROVE \A c \in CoresIn(d) : t.files[c] = t.files[First(d)]
    <3>1. t.status = "ok" /\ d \in Domains \ torn /\ d <= Len(CoresOf)
      BY <2>2, <2>3, <2>4, CpuFreqAssumption DEF Progress, Domains
    <3>2. Agree(Here, d)
      BY <1>0, <3>1, HereFacts DEF Coherent, Agree
    <3> QED
      BY <2>2, <3>1, <3>2 DEF Progress, Agree
  <2>5. Coherent' /\ files' \in [Cores -> Settings]
    BY <2>3, <2>4 DEF Coherent, First, CoresIn, Results
  <2> QED
    BY <2>1, <2>5, OtherwiseStep
<1>8. ASSUME NEW c \in Cores, Hotplug(c) PROVE CpuFreqInv'
  <2>1. UNCHANGED <<files, torn, available, turbo, point>>
    BY <1>8 DEF Hotplug
  <2> QED
    BY <1>0, <2>1, OtherwiseStep DEF Coherent, TypesOK, First, CoresIn
<1>9. CASE UNCHANGED vars
  BY <1>0, <1>9, OtherwiseStep DEF vars, Coherent, TypesOK, First, CoresIn
<1> QED
  BY <1>1, <1>2, <1>3, <1>4, <1>5, <1>6, <1>7, <1>8, <1>9 DEF Next

\* The invariant, for every number of domains, cores, frequencies and calls.
THEOREM CpuFreqInvariant == Spec => []CpuFreqInv
<1> QED
  BY InitInv, StepInv, PTL DEF Spec

\* The cores of a domain in which no call threw have the same settings: every
\* operation of the library, the measurements of getVoltageTable() and the
\* rollback of all the domains included, writes to all of them.
THEOREM CoresAgree == Spec => []DomainCoherent
<1>1. CpuFreqInv => DomainCoherent
  BY DomainFacts DEF CpuFreqInv, Coherent, DomainCoherent
<1> QED
  BY <1>1, CpuFreqInvariant, PTL

\* After a rollback() that does not throw, every core of every domain is back
\* at the point: the later domains do not disturb the earlier ones.
THEOREM RollbackIsFaithful == Spec => RollbackRestores
<1> DEFINE A == Rollback /\ status' = "ok" =>
                  \A d \in Domains : \A c \in Range(CoresOf[d]) :
                    /\ files'[c].governor = point[d].governor
                    /\ point[d].governor # "userspace" /\ ~RejectCrossed =>
                         Lower(files'[c]) = point[d].lower /\ files'[c].upper = point[d].upper
                    /\ /\ point[d].governor = "userspace"
                       /\ point[d].frequency \in Lower(files[c])..files[c].upper
                       => Current(files'[c]) = point[d].frequency
<1>1. ASSUME CpuFreqInv PROVE A
  <2> SUFFICES ASSUME Rollback, status' = "ok", NEW d \in Domains, NEW c \in CoresIn(d)
      PROVE  /\ files'[c].governor = point[d].governor
             /\ point[d].governor # "userspace" /\ ~RejectCrossed =>
                  Lower(files'[c]) = point[d].lower /\ files'[c].upper = point[d].upper
             /\ /\ point[d].governor = "userspace"
                /\ point[d].frequency \in Lower(files[c])..files[c].upper
                => Current(files'[c]) = point[d].frequency
    BY DEF CoresIn
  <2> DEFINE t == RollbackAll(Here)
  <2>1. files' = t.files /\ t.status = "ok"
    BY DEF Rollback, Call
  <2>2. Progress(Here, t, Len(CoresOf))
    <3>1. TypesOK /\ \A e \in Domains : PointOK(point[e]) /\ Range(available[e]) \subseteq Steps
      BY <1>1 DEF Rollback, CpuFreqInv, TypesOK, Range
    <3> QED
      BY <3>1, HereFacts, RollbackAllFacts
  <2> HIDE DEF t
  <2>3. d <= Len(CoresOf) /\ Here.files = files
    BY <1>1, HereFacts, CpuFreqAssumption DEF Domains, CpuFreqInv
  <2>4. Restored(Here, t, d)
    BY <2>1, <2>2, <2>3 DEF Progress
  <2> QED
    BY <2>1, <2>3, <2>4 DEF Restored
<1> QED
  BY <1>1, CpuFreqInvariant, PTL DEF RollbackRestores

\* getVoltageTable(), which switches to the userspace governor and steps through
\* all the frequencies, leaves the bounds of every core as they were, and its
\* governor and frequency if the governor is in the enum; a governor that is not
\* is gone.
THEOREM VoltageTableIsTransparent == Spec => VoltageTableRestores
<1> DEFINE A == \A d \in Domains \ torn :
                  (\E n \in 0..Len(CoresOf[d]) : CallGetVoltageTable(d, n)) /\ status' # "threw"
                  => \A c \in Range(CoresOf[d]) :
                       /\ Lower(files'[c]) = Lower(files[c]) /\ files'[c].upper = files[c].upper
                       /\ (files'[c].governor = files[c].governor) <=>
                            (files[c].governor \in Governors \/ "userspace" \notin Governors)
                       /\ /\ files[c].governor \in Governors \cap Fixed
                          /\ files[c].governor = "userspace" => Current(files[c]) \in Range(available[d])
                          => Current(files'[c]) = Current(files[c])
<1>1. ASSUME CpuFreqInv PROVE A
  <2>1. ASSUME NEW d \in Domains \ torn, NEW n \in 0..Len(CoresOf[d]), CallGetVoltageTable(d, n),
               status' # "threw", NEW c \in CoresIn(d)
        PROVE  Kept(d, files[c], files'[c])
    <3>1. PICK read \in GetCurrentGovernor(Here, d) : Call({d}, GetVoltageTable(Here, d, read))
      BY <2>1 DEF CallGetVoltageTable
    <3> DEFINE t == GetVoltageTable(Here, d, read)
    <3>2. files' = t.files /\ t.status # "threw"
      BY <2>1, <3>1 DEF Call
    <3>3. TypesOK /\ Here \in Results /\ Here.files = files /\ available[d] \in Seq(Steps)
      BY <1>1, HereFacts DEF CpuFreqInv, TypesOK
    <3>4. Agree(Here, d)
      BY <1>1, <3>3 DEF CpuFreqInv, Coherent, Agree
    <3>5. Kept(d, files[c], t.files[c])
      BY <2>1, <3>2, <3>3, <3>4, VoltageTableFacts
    <3> QED
      BY <3>2, <3>5
  <2> QED
    BY <2>1 DEF Kept, CoresIn
<1> QED
  BY <1>1, CpuFreqInvariant, PTL DEF VoltageTableRestores

\* Removing and reinserting turbo frequencies loses and duplicates nothing, and
\* keeps the frequencies in order but for the reinserted ones, wherever in the
\* table the turbo frequencies are.
THEOREM TurboTableIsConserved == Spec => []FrequenciesConserved
<1>1. ASSUME CpuFreqInv, NEW d \in Domains
      PROVE  /\ Len(available[d]) + Len(turbo[d]) = Len(Frequencies)
             /\ Range(available[d]) \cup Range(turbo[d]) = Steps
             /\ Ordered(available[d])
  <2>1. ListsOf(d).available = available[d] /\ ListsOf(d).turbo = turbo[d]
        /\ available[d] \in Seq(Steps) /\ turbo[d] \in Seq(Steps)
    BY <1>1 DEF ListsOf, CpuFreqInv, TypesOK
  <2>2. Range(available[d]) = Elements(available[d]) /\ Range(turbo[d]) = Elements(turbo[d])
    BY <2>1 DEF Range, Elements
  <2>3. Holds(ListsOf(d), Steps, Len(Frequencies))
    BY <1>1 DEF CpuFreqInv, TableInv
  <2> QED
    BY <2>1, <2>2, <2>3 DEF Holds
<1>2. CpuFreqInv => FrequenciesConserved
  BY <1>1 DEF FrequenciesConserved, Ordered
<1> QED
  BY <1>2, CpuFreqInvariant, PTL
=============================================================================
