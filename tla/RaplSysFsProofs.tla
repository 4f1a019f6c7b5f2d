--------------------------- MODULE RaplSysFsProofs ---------------------------
(***************************************************************************)
(* Proofs about RaplSysFs, for every set of domains and of threads, every  *)
(* range of each file and every value of _maxValue: whatever reads and     *)
(* resets interleave, no energy is lost or invented but the difference of  *)
(* the two ranges at each wrap, and none from before a reset is reported   *)
(* after it unless the zeroing is undone.                                  *)
(***************************************************************************)
EXTENDS RaplSysFs, TLAPS

\* How far a file of range m is when it has gone from v to f.
Distance(m, v, f) == IF v > f THEN m - v + f ELSE f - v

\* The energy of d when its counter stood at last[d], and at now.
AtLast(d) == energy[d] - Distance(RangeOf[d], last[d], file[d])
AtNow(d)  == energy[d] - Distance(RangeOf[d], now, file[d])

\* What the range of package 0 has more than the range of the file, n times.
Excess(d, n) == n * (MaxValue - RangeOf[d])

\* What n turns of the file of d are.
Turned(d, n) == n * RangeOf[d]

TypeOK ==
    /\ file \in [Domains -> Nat] /\ last \in [Domains -> Nat]
    /\ \A d \in Domains : file[d] \in Values(d) /\ last[d] \in Values(d)
    /\ joules \in [Domains -> Int] /\ turns \in [Domains -> Int]
    /\ reading \in Domains \cup {NoDomain}
    /\ lock \in Threads \cup {"free"}
    /\ sum \in Int /\ sumTurns \in Int /\ now \in Nat
    /\ reading \in Domains => now \in Values(reading)
    /\ energy \in [Domains -> Int]
    /\ resetFrom \in [Domains -> Int] /\ resetTo \in [Domains -> Int]
    /\ kept \in [Domains -> Int]
    /\ resetting \subseteq zeroing /\ zeroing \subseteq Domains

\* The lock protects read(); the client takes it inside reset() only for a
\* domain that reset() has still to read.
LockInv ==
    /\ lock = "free" <=> reading = NoDomain
    /\ lock = Client /\ zeroing # {} => reading \in resetting

\* The value a read holds was read after the one it is about to replace.
FreshInv(d) == reading = d => AtLast(d) <= AtNow(d)

\* reset() was called, and zeroed d, before now; the last one not undone was
\* called no later than the last one.
ClockInv(d) ==
    /\ resetFrom[d] <= energy[d] /\ resetTo[d] <= energy[d]
    /\ kept[d] <= resetFrom[d]

\* joules[d], and the sum about to replace it, hold all that was consumed
\* between the last zeroing and the value of the counter they were made from.
LowerInv(d) ==
    /\ joules[d] >= AtLast(d) - resetTo[d] + Excess(d, turns[d])
    /\ reading = d => sum >= AtNow(d) - resetTo[d] + Excess(d, sumTurns)

\* They hold nothing that was consumed before the reset() that kept[d] is about.
UpperInv(d) ==
    /\ joules[d] <= AtLast(d) - kept[d] + Excess(d, turns[d])
    /\ reading = d => sum <= AtNow(d) - kept[d] + Excess(d, sumTurns)

\* The turns they count were made since then.
TurnsInv(d) ==
    /\ Turned(d, turns[d]) + last[d] < AtLast(d) - kept[d] + RangeOf[d]
    /\ reading = d => Turned(d, sumTurns) + now < AtNow(d) - kept[d] + RangeOf[d]

\* Once reset() has read d, the value read is not older than its call.
ResetInv(d) ==
    /\ d \in zeroing \ resetting => AtLast(d) >= resetFrom[d]
    /\ lock = Client /\ zeroing # {} /\ reading = d => AtNow(d) >= resetFrom[d]

DomainInv(d) ==
    /\ FreshInv(d) /\ ClockInv(d) /\ LowerInv(d) /\ UpperInv(d)
    /\ TurnsInv(d) /\ ResetInv(d)

\* The inductive invariant.
SysFsInv ==
    /\ TypeOK
    /\ LockInv
    /\ \A d \in Domains : DomainInv(d)

-----------------------------------------------------------------------------
\* A counter is less than a turn away from any value it has had.
LEMMA DistanceRange ==
  ASSUME NEW d \in Domains, NEW a \in Values(d), NEW b \in Values(d)
  PROVE  /\ Distance(RangeOf[d], a, b) \in Nat /\ Distance(RangeOf[d], a, b) < RangeOf[d]
         /\ Distance(RangeOf[d], a, a) = 0
  BY SysFsAssumption DEF Values, Distance

\* One unit consumed is one unit further, unless a whole turn goes by.
LEMMA DistanceStep ==
  ASSUME NEW d \in Domains, NEW a \in Values(d), NEW b \in Values(d),
         Distance(RangeOf[d], a, b) + 1 < RangeOf[d]
  PROVE  /\ (b + 1) % RangeOf[d] \in Values(d)
         /\ Distance(RangeOf[d], a, (b + 1) % RangeOf[d]) = Distance(RangeOf[d], a, b) + 1
<1> DEFINE m == RangeOf[d]
           c == (b + 1) % m
<1>m. m \in Nat \ {0} /\ a \in 0..(m - 1) /\ b \in 0..(m - 1)
  BY SysFsAssumption DEF Values
<1>d. Distance(m, a, b) + 1 < m
  OBVIOUS
<1>g. SUFFICES c \in 0..(m - 1) /\ Distance(m, a, c) = Distance(m, a, b) + 1
  BY DEF Values
<1> HIDE DEF m
<1>1. c = IF b + 1 = m THEN 0 ELSE b + 1
  <2>1. \A x \in 0..(m - 1) : x % m = x
    BY <1>m
  <2>2. m % m = 0
    BY <1>m
  <2> QED
    BY <2>1, <2>2, <1>m
<1> HIDE DEF c
<1> QED
  BY <1>1, <1>m, <1>d DEF Distance

\* What the file has gone, and what read() makes of it.
LEMMA SinceLastIsDistance ==
  ASSUME NEW d \in Domains
  PROVE  /\ Gone(d) = Distance(RangeOf[d], last[d], file[d])
         /\ ~HasWrapped(d) => SinceLast(d) = Gone(d)
         /\ HasWrapped(d) => SinceLast(d) = MaxValue - last[d] + file[d]
  BY DEF SinceLast, Gone, HasWrapped, Distance

\* One corrected wrap more, one difference of ranges more.
LEMMA ExcessStep ==
  ASSUME NEW d \in Domains, NEW n \in Int
  PROVE  /\ Excess(d, n) \in Int /\ Turned(d, n) \in Int
         /\ Excess(d, 0) = 0 /\ Turned(d, 0) = 0
         /\ Excess(d, n + 1) = Excess(d, n) + MaxValue - RangeOf[d]
         /\ Turned(d, n + 1) = Turned(d, n) + RangeOf[d]
<1>1. RangeOf[d] \in Int /\ MaxValue \in Int /\ MaxValue - RangeOf[d] \in Int
  BY SysFsAssumption
<1>2. \A x \in Int : n * x \in Int /\ 0 * x = 0 /\ (n + 1) * x = n * x + x
  OBVIOUS
<1> QED
  BY <1>1, <1>2 DEF Excess, Turned

\* The types of the ghost clocks.
LEMMA ClockTypes ==
  ASSUME TypeOK, NEW d \in Domains
  PROVE  /\ AtLast(d) \in Int /\ AtNow(d) \in Int
         /\ energy[d] \in Int /\ joules[d] \in Int /\ sum \in Int
         /\ turns[d] \in Int /\ sumTurns \in Int
         /\ resetFrom[d] \in Int /\ resetTo[d] \in Int /\ kept[d] \in Int
         /\ file[d] \in Values(d) /\ last[d] \in Values(d) /\ now \in Nat
         /\ file[d] \in Nat /\ last[d] \in Nat
         /\ RangeOf[d] \in Nat \ {0} /\ MaxValue \in Nat
         /\ SinceLast(d) \in Int /\ Gone(d) \in Nat /\ AtLast(d) + Gone(d) = energy[d]
         /\ AtLast(d) <= energy[d]
         /\ reading = d => now \in Values(d) /\ AtNow(d) <= energy[d]
<1>1. /\ energy[d] \in Int /\ joules[d] \in Int /\ sum \in Int
      /\ turns[d] \in Int /\ sumTurns \in Int
      /\ resetFrom[d] \in Int /\ resetTo[d] \in Int /\ kept[d] \in Int
      /\ file[d] \in Values(d) /\ last[d] \in Values(d) /\ now \in Nat
      /\ file[d] \in Nat /\ last[d] \in Nat
      /\ reading = d => now \in Values(d)
      /\ RangeOf[d] \in Nat \ {0} /\ MaxValue \in Nat
  BY SysFsAssumption DEF TypeOK
<1>2. /\ Distance(RangeOf[d], last[d], file[d]) \in Nat
      /\ Distance(RangeOf[d], now, file[d]) \in Int
      /\ reading = d => Distance(RangeOf[d], now, file[d]) \in Nat
  <2>1. Distance(RangeOf[d], now, file[d]) \in Int
    BY <1>1 DEF Distance
  <2> QED
    BY <2>1, <1>1, DistanceRange
<1>3. SinceLast(d) \in Int
  BY <1>1 DEF SinceLast
<1> QED
  BY <1>1, <1>2, <1>3, SinceLastIsDistance DEF AtLast, AtNow

\* What a read adds: what the file has gone, and the difference of the ranges
\* if it has wrapped; it then counts one turn more.
LEMMA Added ==
  ASSUME TypeOK, NEW d \in Domains,
         NEW n, n = turns[d] + (IF HasWrapped(d) THEN 1 ELSE 0)
  PROVE  /\ n \in Int
         /\ SinceLast(d) = Gone(d) + Excess(d, n) - Excess(d, turns[d])
         /\ Turned(d, n) + file[d] = Turned(d, turns[d]) + last[d] + Gone(d)
<1>1. /\ turns[d] \in Int /\ file[d] \in Nat /\ last[d] \in Nat /\ Gone(d) \in Nat
      /\ RangeOf[d] \in Nat /\ MaxValue \in Nat
  BY ClockTypes
<1>2. /\ Excess(d, turns[d]) \in Int /\ Turned(d, turns[d]) \in Int
      /\ Excess(d, turns[d] + 1) = Excess(d, turns[d]) + MaxValue - RangeOf[d]
      /\ Turned(d, turns[d] + 1) = Turned(d, turns[d]) + RangeOf[d]
  BY <1>1, ExcessStep
<1>3. CASE HasWrapped(d)
  <2>1. n = turns[d] + 1 /\ SinceLast(d) = MaxValue - last[d] + file[d]
        /\ Gone(d) = RangeOf[d] - last[d] + file[d]
    BY <1>3 DEF SinceLast, Gone
  <2> QED
    BY <2>1, <1>1, <1>2
<1>4. CASE ~HasWrapped(d)
  <2>1. n = turns[d] /\ SinceLast(d) = file[d] - last[d] /\ Gone(d) = file[d] - last[d]
    BY <1>4, <1>1 DEF SinceLast, Gone
  <2> QED
    BY <2>1, <1>1, <1>2
<1> QED
  BY <1>3, <1>4

-----------------------------------------------------------------------------
\* After the reset() of init() nothing is unread and nothing counted.
LEMMA SysFsInvInit == Init => SysFsInv
<1> SUFFICES ASSUME Init PROVE SysFsInv
  OBVIOUS
<1>1. TypeOK
  <2>1. file \in [Domains -> Nat] /\ \A d \in Domains : file[d] \in Values(d)
    <3>1. \A d \in Domains : Values(d) \subseteq Nat
      BY SysFsAssumption DEF Values
    <3> QED
      BY <3>1 DEF Init
  <2> QED
    BY <2>1, SysFsAssumption DEF Init, TypeOK
<1>2. LockInv
  BY DEF Init, LockInv
<1>3. ASSUME NEW d \in Domains PROVE DomainInv(d)
  <2>1. /\ joules[d] = 0 /\ energy[d] = 0 /\ resetFrom[d] = 0 /\ resetTo[d] = 0
        /\ turns[d] = 0 /\ kept[d] = 0
        /\ reading # d /\ zeroing = {} /\ last[d] = file[d] /\ file[d] \in Values(d)
    BY SysFsAssumption DEF Init
  <2>2. AtLast(d) = 0
    BY <2>1, DistanceRange DEF AtLast
  <2>3. /\ Excess(d, turns[d]) = 0 /\ Turned(d, turns[d]) = 0
        /\ last[d] < RangeOf[d] /\ RangeOf[d] \in Nat /\ last[d] \in Nat
    <3>1. RangeOf[d] \in Nat /\ last[d] < RangeOf[d] /\ last[d] \in Nat
      BY <2>1, SysFsAssumption DEF Values
    <3>2. 0 \in Int
      OBVIOUS
    <3>3. Excess(d, 0) = 0 /\ Turned(d, 0) = 0
      BY <3>2, ExcessStep
    <3> QED
      BY <3>1, <3>3, <2>1
  <2> QED
    BY <2>1, <2>2, <2>3 DEF DomainInv, FreshInv, ClockInv, LowerInv, UpperInv, TurnsInv, ResetInv
<1> QED
  BY <1>1, <1>2, <1>3 DEF SysFsInv

\* The energy a domain consumes moves no ghost clock but its own energy.
LEMMA ConsumeKeeps ==
  ASSUME SysFsInv, NEW c \in Domains, Consume(c)
  PROVE  SysFsInv'
<1>u. UNCHANGED <<last, joules, turns, lock, reading, sum, sumTurns, now, resetting, zeroing,
                  resetFrom, resetTo, kept>>
  BY DEF Consume, counted, readVars, ghostVars
<1>f. /\ file' = [file EXCEPT ![c] = (file[c] + 1) % RangeOf[c]]
      /\ energy' = [energy EXCEPT ![c] = energy[c] + 1]
      /\ Gone(c) + 1 < RangeOf[c]
  BY DEF Consume
<1>t. TypeOK /\ LockInv /\ \A d \in Domains : DomainInv(d)
  BY DEF SysFsInv
<1>1. /\ (file[c] + 1) % RangeOf[c] \in Values(c)
      /\ Distance(RangeOf[c], last[c], (file[c] + 1) % RangeOf[c])
           = Distance(RangeOf[c], last[c], file[c]) + 1
  BY <1>f, <1>t, ClockTypes, DistanceStep, SinceLastIsDistance
<1>2. TypeOK'
  <2>1. file' \in [Domains -> Nat] /\ energy' \in [Domains -> Int]
        /\ \A d \in Domains : file'[d] \in Values(d)
    <3>1. (file[c] + 1) % RangeOf[c] \in Nat
      BY <1>1, SysFsAssumption DEF Values
    <3> QED
      BY <3>1, <1>1, <1>f, <1>t DEF TypeOK
  <2> QED
    BY <2>1, <1>u, <1>t DEF TypeOK, Values
<1>3. LockInv'
  BY <1>u, <1>t DEF LockInv
<1>4. ASSUME NEW d \in Domains PROVE DomainInv(d)'
  <2>t. /\ AtLast(d) \in Int /\ AtNow(d) \in Int /\ energy[d] \in Int /\ resetFrom[d] \in Int
        /\ resetTo[d] \in Int /\ AtLast(d) <= energy[d]
    BY <1>t, ClockTypes
  <2>1. AtLast(d)' = AtLast(d)
    <3>1. CASE d = c
      <4>1. /\ file'[c] = (file[c] + 1) % RangeOf[c] /\ energy'[c] = energy[c] + 1
            /\ last' = last
        BY <1>f, <1>u, <1>t DEF TypeOK
      <4>2. Distance(RangeOf[c], last[c], file[c]) \in Nat /\ energy[c] \in Int
        BY <1>t, ClockTypes, DistanceRange
      <4> QED
        BY <3>1, <4>1, <4>2, <1>1 DEF AtLast
    <3>2. CASE d # c
      BY <3>2, <1>f, <1>u, <1>t DEF AtLast, TypeOK
    <3> QED
      BY <3>1, <3>2
  <2>2. reading = d => AtNow(d)' = AtNow(d)
    <3>1. CASE d = c /\ reading = d
      <4>0. now \in Values(c)
        BY <3>1, <1>t DEF TypeOK
      <4>1. Distance(RangeOf[c], now, file[c]) + 1 < RangeOf[c]
        <5>1. energy[c] - Distance(RangeOf[c], last[c], file[c]) <= energy[c] - Distance(RangeOf[c], now, file[c])
          BY <3>1, <1>t DEF DomainInv, FreshInv, AtLast, AtNow
        <5>2. Distance(RangeOf[c], last[c], file[c]) + 1 < RangeOf[c]
          BY <1>f, SinceLastIsDistance
        <5>3. Distance(RangeOf[c], last[c], file[c]) \in Nat /\ Distance(RangeOf[c], now, file[c]) \in Nat /\ energy[c] \in Int
          BY <4>0, <1>t, ClockTypes, DistanceRange
        <5> QED
          BY <5>1, <5>2, <5>3, SysFsAssumption
      <4>2. Distance(RangeOf[c], now, (file[c] + 1) % RangeOf[c]) = Distance(RangeOf[c], now, file[c]) + 1
        BY <4>0, <4>1, <1>t, ClockTypes, DistanceStep
      <4>3. Distance(RangeOf[c], now, file[c]) \in Nat /\ energy[c] \in Int
        BY <4>0, <1>t, ClockTypes, DistanceRange
      <4>4. file'[c] = (file[c] + 1) % RangeOf[c] /\ energy'[c] = energy[c] + 1 /\ now' = now
        BY <1>f, <1>u, <1>t DEF TypeOK
      <4> QED
        BY <3>1, <4>2, <4>3, <4>4 DEF AtNow
    <3>2. CASE d # c
      BY <3>2, <1>f, <1>u, <1>t DEF AtNow, TypeOK
    <3> QED
      BY <3>1, <3>2
  <2>3. energy'[d] \in Int /\ energy'[d] >= energy[d]
    BY <1>f, <1>t DEF TypeOK
  <2>4. DomainInv(d)
    BY <1>t
  <2>5. /\ Excess(d, turns[d])' = Excess(d, turns[d])
 /\ Turned(d, turns[d])' = Turned(d, turns[d])
        /\ Excess(d, sumTurns)' = Excess(d, sumTurns)
        /\ Turned(d, sumTurns)' = Turned(d, sumTurns)
    BY <1>u DEF Excess, Turned
  <2> QED
    BY <2>t, <2>1, <2>2, <2>3, <2>4, <2>5, <1>u
    DEF DomainInv, FreshInv, ClockInv, LowerInv, UpperInv, TurnsInv, ResetInv
<1> QED
  BY <1>2, <1>3, <1>4 DEF SysFsInv

\* A read that starts holds the value of the counter, and the sum of joules
\* and all that was consumed since the last value.
LEMMA LoadKeeps ==
  ASSUME SysFsInv, NEW t \in Threads, NEW c \in Domains, ReadLoad(t, c),
         t = Client /\ zeroing # {} => c \in resetting
  PROVE  SysFsInv'
<1>u. UNCHANGED <<file, last, joules, turns, resetting, zeroing, energy, resetFrom, resetTo, kept>>
  BY DEF ReadLoad, counted, ghostVars
<1>f. /\ lock = "free" /\ lock' = t /\ reading' = c /\ now' = file[c]
      /\ sum' = joules[c] + SinceLast(c)
      /\ sumTurns' = turns[c] + (IF HasWrapped(c) THEN 1 ELSE 0)
  BY DEF ReadLoad, NewCumulative
<1>t. TypeOK /\ LockInv /\ \A d \in Domains : DomainInv(d)
  BY DEF SysFsInv
<1>c. /\ joules[c] \in Int /\ file[c] \in Values(c) /\ file[c] \in Nat /\ SinceLast(c) \in Int
      /\ AtLast(c) \in Int /\ AtLast(c) + Gone(c) = energy[c] /\ AtLast(c) <= energy[c]
      /\ energy[c] \in Int /\ resetFrom[c] \in Int /\ resetTo[c] \in Int /\ kept[c] \in Int
      /\ Gone(c) \in Nat /\ last[c] \in Nat /\ turns[c] \in Int /\ RangeOf[c] \in Nat
  BY <1>t, ClockTypes
<1>s. /\ sumTurns' \in Int
      /\ SinceLast(c) = Gone(c) + Excess(c, sumTurns') - Excess(c, turns[c])
      /\ Turned(c, sumTurns') + file[c] = Turned(c, turns[c]) + last[c] + Gone(c)
  BY <1>f, <1>t, Added
<1>e. /\ Excess(c, sumTurns') \in Int /\ Excess(c, turns[c]) \in Int
      /\ Turned(c, sumTurns') \in Int /\ Turned(c, turns[c]) \in Int
  BY <1>s, <1>c, ExcessStep
<1>x. \A d \in Domains :
        /\ Excess(d, turns[d])' = Excess(d, turns[d]) /\ Excess(d, sumTurns)' = Excess(d, sumTurns')
        /\ Turned(d, turns[d])' = Turned(d, turns[d]) /\ Turned(d, sumTurns)' = Turned(d, sumTurns')
  BY <1>u DEF Excess, Turned
<1>2. TypeOK'
  BY <1>c, <1>s, <1>u, <1>f, <1>t DEF TypeOK, Values
<1>3. LockInv'
  BY <1>u, <1>f, <1>t, SysFsAssumption DEF LockInv
<1>n. \A d \in Domains : AtLast(d)' = AtLast(d)
  BY <1>u DEF AtLast
<1>a. AtNow(c)' = energy[c]
  BY <1>u, <1>f, <1>c, DistanceRange DEF AtNow
<1>4. ASSUME NEW d \in Domains PROVE DomainInv(d)'
  <2>1. DomainInv(d)
    BY <1>t
  <2>2. CASE d = c
    <3>1. /\ joules[c] >= AtLast(c) - resetTo[c] + Excess(c, turns[c])
          /\ joules[c] <= AtLast(c) - kept[c] + Excess(c, turns[c])
          /\ Turned(c, turns[c]) + last[c] < AtLast(c) - kept[c] + RangeOf[c]
      BY <2>1, <2>2 DEF DomainInv, LowerInv, UpperInv, TurnsInv
    <3>2. /\ sum' >= energy[c] - resetTo[c] + Excess(c, sumTurns')
          /\ sum' <= energy[c] - kept[c] + Excess(c, sumTurns')
          /\ Turned(c, sumTurns') + file[c] < energy[c] - kept[c] + RangeOf[c]
      BY <3>1, <1>f, <1>c, <1>s, <1>e
    <3> QED
      BY <3>2, <2>1, <2>2, <1>u, <1>f, <1>n, <1>a, <1>c, <1>x
      DEF DomainInv, FreshInv, ClockInv, LowerInv, UpperInv, TurnsInv, ResetInv
  <2>3. CASE d # c
    BY <2>1, <2>3, <1>u, <1>f, <1>n, <1>x
    DEF DomainInv, FreshInv, ClockInv, LowerInv, UpperInv, TurnsInv, ResetInv
  <2> QED
    BY <2>2, <2>3
<1> QED
  BY <1>2, <1>3, <1>4 DEF SysFsInv

\* The store of read() moves the last value of its domain forward.
LEMMA StoreKeeps ==
  ASSUME SysFsInv, ReadStore
  PROVE  SysFsInv'
<1>u. UNCHANGED <<file, zeroing, energy, resetFrom, resetTo, kept>>
  BY DEF ReadStore, ghostVars
<1>f. /\ lock # "free" /\ lock' = "free" /\ reading' = NoDomain /\ sum' = 0 /\ now' = 0
      /\ sumTurns' = 0
      /\ turns' = [turns EXCEPT ![reading] = sumTurns]
      /\ joules' = [joules EXCEPT ![reading] = sum]
      /\ last' = [last EXCEPT ![reading] = now]
      /\ resetting' = resetting \/ resetting' = resetting \ {reading}
      /\ resetting' # resetting => lock = Client /\ resetting \cup zeroing # {}
  BY DEF ReadStore, Busy
<1>t. TypeOK /\ LockInv /\ \A d \in Domains : DomainInv(d)
  BY DEF SysFsInv
<1>r. reading \in Domains /\ NoDomain \notin Domains
  BY <1>f, <1>t, SysFsAssumption DEF TypeOK, LockInv
<1>2. TypeOK'
  <2>1. reading' \notin Domains
    BY <1>f, <1>r
  <2>2. /\ joules' \in [Domains -> Int] /\ last' \in [Domains -> Nat] /\ turns' \in [Domains -> Int]
        /\ \A d \in Domains : last'[d] \in Values(d)
    BY <1>f, <1>r, <1>t DEF TypeOK
  <2>3. resetting' \subseteq zeroing'
    BY <1>f, <1>u, <1>t DEF TypeOK
  <2>4. lock' \in Threads \cup {"free"} /\ reading' \in Domains \cup {NoDomain} /\ sum' \in Int
    BY <1>f
  <2> QED
    BY <2>1, <2>2, <2>3, <2>4, <1>u, <1>f, <1>t DEF TypeOK, Values
<1>3. LockInv'
  <2>1. Client # "free"
    BY SysFsAssumption
  <2> QED
    BY <2>1, <1>f DEF LockInv
<1>4. ASSUME NEW d \in Domains PROVE DomainInv(d)'
  <2>1. DomainInv(d)
    BY <1>t
  <2>t. /\ AtLast(d) \in Int /\ AtNow(d) \in Int /\ resetFrom[d] \in Int /\ sum \in Int
        /\ resetTo[d] \in Int
    BY <1>t, ClockTypes
  <2>2. reading' # d /\ lock' # Client
    BY <1>f, <1>r, SysFsAssumption
  <2>3. CASE d = reading
    <3>1. /\ AtLast(d)' = AtNow(d) /\ joules'[d] = sum /\ turns'[d] = sumTurns /\ last'[d] = now
          /\ Excess(d, turns[d])' = Excess(d, sumTurns)
          /\ Turned(d, turns[d])' = Turned(d, sumTurns)
      BY <2>3, <1>f, <1>u, <1>t DEF AtLast, AtNow, TypeOK, Excess, Turned
    <3>2. AtLast(d) <= AtNow(d)
      BY <2>1, <2>3 DEF DomainInv, FreshInv
    <3>3. d \in zeroing' \ resetting' => AtNow(d) >= resetFrom[d]
      <4>1. CASE d \in zeroing \ resetting
        BY <4>1, <3>2, <2>1, <2>t DEF DomainInv, ResetInv
      <4>2. CASE d \in resetting /\ d \notin resetting' /\ d \in zeroing
        <5>1. lock = Client
          BY <4>2, <1>f
        <5> QED
          BY <5>1, <4>2, <2>1, <2>3 DEF DomainInv, ResetInv
      <4> QED
        BY <4>1, <4>2, <1>u
    <3> QED
      BY <3>1, <3>2, <3>3, <2>1, <2>2, <2>3, <1>u
      DEF DomainInv, FreshInv, ClockInv, LowerInv, UpperInv, TurnsInv, ResetInv
  <2>4. CASE d # reading
    <3>1. /\ AtLast(d)' = AtLast(d) /\ joules'[d] = joules[d] /\ (d \in resetting' <=> d \in resetting)
          /\ turns'[d] = turns[d] /\ last'[d] = last[d]
          /\ Excess(d, turns[d])' = Excess(d, turns[d])
          /\ Turned(d, turns[d])' = Turned(d, turns[d])
      BY <2>4, <1>f, <1>u, <1>t DEF AtLast, TypeOK, Excess, Turned
    <3> QED
      BY <3>1, <2>1, <2>2, <2>4, <1>u
      DEF DomainInv, FreshInv, ClockInv, LowerInv, UpperInv, TurnsInv, ResetInv
  <2> QED
    BY <2>3, <2>4
<1> QED
  BY <1>2, <1>3, <1>4 DEF SysFsInv

\* A reset() that starts has every domain to read and to zero.
LEMMA BeginKeeps ==
  ASSUME SysFsInv, ResetBegin
  PROVE  SysFsInv'
<1>u. UNCHANGED <<file, last, joules, turns, lock, reading, sum, sumTurns, now, energy, resetTo, kept>>
  BY DEF ResetBegin, counted, readVars
<1>f. lock # Client /\ resetting' = Domains /\ zeroing' = Domains /\ resetFrom' = energy
  BY DEF ResetBegin
<1>t. TypeOK /\ LockInv /\ \A d \in Domains : DomainInv(d)
  BY DEF SysFsInv
<1>2. TypeOK'
  BY <1>u, <1>f, <1>t DEF TypeOK, Values
<1>3. LockInv'
  BY <1>u, <1>f, <1>t DEF LockInv
<1>4. ASSUME NEW d \in Domains PROVE DomainInv(d)'
  <2>1. /\ DomainInv(d) /\ energy[d] \in Int
        /\ resetFrom[d] \in Int /\ kept[d] \in Int
    BY <1>t, ClockTypes
  <2>2. /\ AtLast(d)' = AtLast(d) /\ AtNow(d)' = AtNow(d)
        /\ Excess(d, turns[d])' = Excess(d, turns[d])
        /\ Turned(d, turns[d])' = Turned(d, turns[d])
        /\ Excess(d, sumTurns)' = Excess(d, sumTurns)
        /\ Turned(d, sumTurns)' = Turned(d, sumTurns)
    BY <1>u DEF AtLast, AtNow, Excess, Turned
  <2> QED
    BY <2>1, <2>2, <1>u, <1>f
    DEF DomainInv, FreshInv, ClockInv, LowerInv, UpperInv, TurnsInv, ResetInv
<1> QED
  BY <1>2, <1>3, <1>4 DEF SysFsInv

\* A reset() that fails has zeroed nothing.
LEMMA CutKeeps ==
  ASSUME SysFsInv, ResetCut
  PROVE  SysFsInv'
<1>u. UNCHANGED <<file, last, joules, turns, lock, reading, sum, sumTurns, now, energy,
                  resetFrom, resetTo, kept>>
  BY DEF ResetCut, counted, readVars, ghostVars
<1>f. lock = "free" /\ resetting' = {} /\ zeroing' = {}
  BY DEF ResetCut
<1>t. TypeOK /\ LockInv /\ \A d \in Domains : DomainInv(d)
  BY DEF SysFsInv
<1>2. TypeOK'
  BY <1>u, <1>f, <1>t DEF TypeOK, Values
<1>3. LockInv'
  BY <1>u, <1>f, <1>t DEF LockInv
<1>4. ASSUME NEW d \in Domains PROVE DomainInv(d)'
  <2>1. DomainInv(d)
    BY <1>t
  <2>2. /\ AtLast(d)' = AtLast(d) /\ AtNow(d)' = AtNow(d)
        /\ Excess(d, turns[d])' = Excess(d, turns[d])
        /\ Turned(d, turns[d])' = Turned(d, turns[d])
        /\ Excess(d, sumTurns)' = Excess(d, sumTurns)
        /\ Turned(d, sumTurns)' = Turned(d, sumTurns)
    BY <1>u DEF AtLast, AtNow, Excess, Turned
  <2> QED
    BY <2>1, <2>2, <1>u, <1>f
    DEF DomainInv, FreshInv, ClockInv, LowerInv, UpperInv, TurnsInv, ResetInv
<1> QED
  BY <1>2, <1>3, <1>4 DEF SysFsInv

\* Zeroing a domain that reset() has read forgets nothing newer than the call.
LEMMA ZeroKeeps ==
  ASSUME SysFsInv, NEW c \in Domains, ResetZero(c)
  PROVE  SysFsInv'
<1>u. UNCHANGED <<file, last, lock, reading, sum, sumTurns, now, resetting, energy, resetFrom>>
  BY DEF ResetZero, readVars
<1>f. /\ resetting = {} /\ c \in zeroing /\ zeroing' = zeroing \ {c}
      /\ joules' = [joules EXCEPT ![c] = 0]
      /\ resetTo' = [resetTo EXCEPT ![c] = energy[c]]
      /\ turns' = [turns EXCEPT ![c] = 0]
      /\ kept' = IF reading = c THEN kept ELSE [kept EXCEPT ![c] = resetFrom[c]]
  BY DEF ResetZero
<1>t. TypeOK /\ LockInv /\ \A d \in Domains : DomainInv(d)
  BY DEF SysFsInv
<1>2. TypeOK'
  <2>1. joules' \in [Domains -> Int] /\ resetTo' \in [Domains -> Int]
    BY <1>f, <1>t DEF TypeOK
  <2>2. kept' \in [Domains -> Int] /\ turns' \in [Domains -> Int]
    BY <1>f, <1>t DEF TypeOK
  <2> QED
    BY <2>1, <2>2, <1>u, <1>f, <1>t DEF TypeOK, Values
<1>3. LockInv'
  BY <1>u, <1>f, <1>t DEF LockInv
<1>4. ASSUME NEW d \in Domains PROVE DomainInv(d)'
  <2>1. DomainInv(d)
    BY <1>t
  <2>t. /\ AtLast(d) \in Int /\ AtNow(d) \in Int /\ resetFrom[d] \in Int /\ sum \in Int
        /\ AtLast(d) <= energy[d] /\ energy[d] \in Int
        /\ resetTo[d] \in Int /\ kept[d] \in Int /\ last[d] \in Values(d) /\ RangeOf[d] \in Nat
        /\ turns[d] \in Int /\ sumTurns \in Int
    BY <1>t, ClockTypes
  <2>e. /\ Excess(d, sumTurns) \in Int /\ Excess(d, 0) = 0 /\ Turned(d, 0) = 0
    BY <2>t, ExcessStep
  <2>2. /\ AtLast(d)' = AtLast(d) /\ AtNow(d)' = AtNow(d)
        /\ Excess(d, sumTurns)' = Excess(d, sumTurns)
        /\ Turned(d, sumTurns)' = Turned(d, sumTurns)
    BY <1>u DEF AtLast, AtNow, Excess, Turned
  <2>3. CASE d = c
    <3>1. /\ joules'[d] = 0 /\ resetTo'[d] = energy[d] /\ turns'[d] = 0
          /\ Excess(d, turns[d])' = 0 /\ Turned(d, turns[d])' = 0
      BY <2>3, <2>e, <1>f, <1>t DEF TypeOK, Excess, Turned
    <3>2. AtLast(d) >= resetFrom[d] /\ last[d] < RangeOf[d] /\ last[d] \in Nat
      BY <2>1, <2>3, <2>t, <1>f DEF DomainInv, ResetInv, Values
    <3>3. reading = d => sum >= AtNow(d) - energy[d] + Excess(d, sumTurns)
      BY <2>e, <2>t, <2>1 DEF DomainInv, LowerInv, ClockInv
    <3>4. LowerInv(d)'
      BY <3>1, <3>3, <2>t, <2>2, <1>u DEF LowerInv
    <3>5. UpperInv(d)' /\ TurnsInv(d)'
      <4>1. CASE reading = d
        <5>1. kept'[d] = kept[d]
          BY <4>1, <2>3, <1>f
        <5>2. AtLast(d) >= kept[d]
          BY <3>2, <2>1, <2>t DEF DomainInv, ClockInv
        <5> QED
          BY <5>1, <5>2, <3>1, <3>2, <2>t, <2>1, <2>2, <1>u DEF DomainInv, UpperInv, TurnsInv
      <4>2. CASE reading # d
        <5>1. kept'[d] = resetFrom[d]
          BY <4>2, <2>3, <1>f, <1>t DEF TypeOK
        <5> QED
          BY <5>1, <4>2, <3>1, <3>2, <2>t, <2>2, <1>u DEF UpperInv, TurnsInv
      <4> QED
        BY <4>1, <4>2
    <3> QED
      BY <3>1, <3>4, <3>5, <2>t, <2>1, <2>2, <2>3, <1>u, <1>f
      DEF DomainInv, FreshInv, ClockInv, ResetInv
  <2>4. CASE d # c
    <3>1. /\ joules'[d] = joules[d] /\ resetTo'[d] = resetTo[d]
          /\ d \in zeroing' <=> d \in zeroing
          /\ turns'[d] = turns[d] /\ kept'[d] = kept[d]
          /\ Excess(d, turns[d])' = Excess(d, turns[d])
          /\ Turned(d, turns[d])' = Turned(d, turns[d])
      BY <2>4, <1>f, <1>t DEF TypeOK, Excess, Turned
    <3> QED
      BY <3>1, <2>1, <2>2, <2>4, <1>u, <1>f
      DEF DomainInv, FreshInv, ClockInv, LowerInv, UpperInv, TurnsInv, ResetInv
  <2> QED
    BY <2>3, <2>4
<1> QED
  BY <1>2, <1>3, <1>4 DEF SysFsInv

\* Every step of the client, the refresher and the hardware preserves it.
LEMMA SysFsInvStep == SysFsInv /\ [Next]_vars => SysFsInv'
<1> SUFFICES ASSUME SysFsInv, [Next]_vars PROVE SysFsInv'
  OBVIOUS
<1>1. CASE ReadStore
  BY <1>1, StoreKeeps
<1>2. CASE ResetBegin
  BY <1>2, BeginKeeps
<1>3. ASSUME NEW d \in Domains, Consume(d) PROVE SysFsInv'
  BY <1>3, ConsumeKeeps
<1>4. ASSUME NEW d \in Domains, ResetRead(d) PROVE SysFsInv'
  <2>1. ReadLoad(Client, d) /\ d \in resetting
    BY <1>4 DEF ResetRead
  <2> QED
    BY <2>1, LoadKeeps, SysFsAssumption
<1>5. ASSUME NEW d \in Domains, ResetZero(d) PROVE SysFsInv'
  BY <1>5, ZeroKeeps
<1>6. ASSUME NEW d \in Domains, NEW t \in Threads, GetJoules(t, d) PROVE SysFsInv'
  <2>1. ReadLoad(t, d) /\ ~(t = Client /\ zeroing # {})
    BY <1>6 DEF GetJoules, Busy
  <2> QED
    BY <2>1, LoadKeeps
<1>8. CASE ResetCut
  BY <1>8, CutKeeps
<1>7. CASE UNCHANGED vars
  <2>1. UNCHANGED <<file, last, joules, turns, lock, reading, sum, sumTurns, now, resetting,
                    zeroing, energy, resetFrom, resetTo, kept>>
    BY <1>7 DEF vars, counted, readVars, ghostVars
  <2>2. TypeOK' /\ LockInv'
    BY <2>1 DEF SysFsInv, TypeOK, LockInv, Values
  <2>3. ASSUME NEW d \in Domains PROVE DomainInv(d)'
    <3>1. /\ DomainInv(d) /\ AtLast(d)' = AtLast(d) /\ AtNow(d)' = AtNow(d)
          /\ Excess(d, turns[d])' = Excess(d, turns[d])
          /\ Turned(d, turns[d])' = Turned(d, turns[d])
          /\ Excess(d, sumTurns)' = Excess(d, sumTurns)
          /\ Turned(d, sumTurns)' = Turned(d, sumTurns)
      BY <2>1 DEF SysFsInv, AtLast, AtNow, Excess, Turned
    <3> QED
      BY <3>1, <2>1 DEF DomainInv, FreshInv, ClockInv, LowerInv, UpperInv, TurnsInv, ResetInv
  <2> QED
    BY <2>2, <2>3 DEF SysFsInv
<1> QED
  BY <1>1, <1>2, <1>3, <1>4, <1>5, <1>6, <1>7, <1>8 DEF Next

\* What a read would return is bounded by the ghost clocks.
LEMMA SysFsInvImplies == SysFsInv => NothingIsLost /\ NothingOlderThanReset
<1> SUFFICES ASSUME SysFsInv PROVE NothingIsLost /\ NothingOlderThanReset
  OBVIOUS
<1>1. ASSUME NEW d \in Domains
      PROVE  /\ Reported(d) >= energy[d] - resetTo[d] + Correction(d)
             /\ Reported(d) <= energy[d] - kept[d] + Correction(d)
             /\ Turns(d) * RangeOf[d] < energy[d] - kept[d] + RangeOf[d]
  <2>1. TypeOK /\ DomainInv(d)
    BY DEF SysFsInv
  <2>2. /\ AtLast(d) \in Int /\ joules[d] \in Int /\ energy[d] \in Int /\ kept[d] \in Int
        /\ resetTo[d] \in Int /\ SinceLast(d) \in Int /\ AtLast(d) + Gone(d) = energy[d]
        /\ Gone(d) \in Nat /\ turns[d] \in Int /\ RangeOf[d] \in Nat
        /\ file[d] \in Nat /\ last[d] \in Nat
    BY <2>1, ClockTypes
  <2>3. /\ joules[d] >= AtLast(d) - resetTo[d] + Excess(d, turns[d])
        /\ joules[d] <= AtLast(d) - kept[d] + Excess(d, turns[d])
        /\ Turned(d, turns[d]) + last[d] < AtLast(d) - kept[d] + RangeOf[d]
    BY <2>1 DEF DomainInv, LowerInv, UpperInv, TurnsInv
  <2>4. /\ Turns(d) \in Int
        /\ SinceLast(d) = Gone(d) + Excess(d, Turns(d)) - Excess(d, turns[d])
        /\ Turned(d, Turns(d)) + file[d] = Turned(d, turns[d]) + last[d] + Gone(d)
    BY <2>1, Added DEF Turns
  <2>5. /\ Excess(d, Turns(d)) \in Int /\ Excess(d, turns[d]) \in Int
        /\ Turned(d, Turns(d)) \in Int /\ Turned(d, turns[d]) \in Int
    BY <2>2, <2>4, ExcessStep
  <2>6. Correction(d) = Excess(d, Turns(d)) /\ Turned(d, Turns(d)) = Turns(d) * RangeOf[d]
    BY DEF Correction, Excess, Turned
  <2>7. /\ Reported(d) >= energy[d] - resetTo[d] + Excess(d, Turns(d))
        /\ Reported(d) <= energy[d] - kept[d] + Excess(d, Turns(d))
        /\ Turned(d, Turns(d)) < energy[d] - kept[d] + RangeOf[d]
    BY <2>2, <2>3, <2>4, <2>5 DEF Reported
  <2> QED
    BY <2>6, <2>7
<1> QED
  BY <1>1 DEF NothingIsLost, NothingOlderThanReset

\* In every execution SysFsInv holds: the type invariant, and the bounds on
\* what read() has accumulated, in terms of when its counter was read.
THEOREM SysFsInvariant == Spec => []SysFsInv
<1> QED
  BY SysFsInvInit, SysFsInvStep, PTL DEF Spec

\* However the reads of the client and of the refresher and a reset()
\* interleave, the energy consumed since a domain was zeroed is reported, but
\* for what the range of package 0 is short of the file's at each wrap.
THEOREM EnergyIsNotLost == Spec => []NothingIsLost
<1> QED
  BY SysFsInvImplies, SysFsInvariant, PTL

\* Energy consumed before the last reset() that was not undone was called is
\* not reported after it; each wrap that adds the difference of the two ranges
\* is a turn that the file has made since.
THEOREM ResetForgetsThePast == Spec => []NothingOlderThanReset
<1> QED
  BY SysFsInvImplies, SysFsInvariant, PTL
=============================================================================
