---------------------------- MODULE RaplMsrProofs ----------------------------
(***************************************************************************)
(* Proofs about RaplMsr, for every set of domains, every register width    *)
(* and every latency below a quarter of the wrapping interval.             *)
(***************************************************************************)
EXTENDS RaplMsr, TLAPS

Register == 0..(Modulus - 1)

\* What % does to a value at most one turn of the register away.
LEMMA ModOneTurn ==
  /\ \A x \in 0..(Modulus - 1) : x % Modulus = x
  /\ Modulus % Modulus = 0
  BY RaplAssumption

\* deltaDiff() in 32-bit arithmetic is the distance from c1 up to c2.
LEMMA DeltaDiffValue ==
  ASSUME NEW a \in Register, NEW b \in Register
  PROVE  DeltaDiff(a, b) = IF b >= a THEN b - a ELSE Modulus - a + b
<1> USE RaplAssumption DEF Register
<1>1. CASE b > a
  BY <1>1 DEF DeltaDiff
<1>2. CASE b = a
  <2>1. (Modulus - 1) - a + 1 + b = Modulus
    BY <1>2
  <2> QED
    BY <1>2, <2>1, ModOneTurn DEF DeltaDiff
<1>3. CASE b < a
  <2>1. (Modulus - 1) - a + 1 + b = Modulus - a + b /\ Modulus - a + b \in 0..(Modulus - 1)
    BY <1>3
  <2> QED
    BY <1>3, <2>1, ModOneTurn DEF DeltaDiff
<1> QED
  BY <1>1, <1>2, <1>3

\* One unit consumed is one unit more to read, unless a whole turn is unread.
LEMMA DeltaDiffStep ==
  ASSUME NEW a \in Register, NEW b \in Register, NEW e \in {0, 1},
         DeltaDiff(a, b) + e < Modulus
  PROVE  /\ (b + e) % Modulus \in Register
         /\ DeltaDiff(a, (b + e) % Modulus) = DeltaDiff(a, b) + e
<1> USE RaplAssumption DEF Register
<1> DEFINE c == (b + e) % Modulus
<1>1. c = IF b + e = Modulus THEN 0 ELSE b + e
  BY ModOneTurn
<1>2. c \in Register
  BY <1>1
<1>3. /\ DeltaDiff(a, b) = IF b >= a THEN b - a ELSE Modulus - a + b
      /\ DeltaDiff(a, c) = IF c >= a THEN c - a ELSE Modulus - a + c
  BY <1>2, DeltaDiffValue
<1> HIDE DEF c
<1> QED
  BY <1>1, <1>2, <1>3 DEF c

\* A round of the refresher fits in one turn of the register.
LEMMA RoundFits == Period \in Nat /\ Period + 2 * Latency < Modulus
  BY RaplAssumption DEF Period

-----------------------------------------------------------------------------
\* What a reading may assume: the registers hold 32-bit values.
LEMMA UnreadType ==
  ASSUME TypeOK, NEW d \in Domains
  PROVE  /\ register[d] \in Register /\ last[d] \in Register
         /\ Unread(d) \in 0..(Modulus - 1)
<1>1. register[d] \in Register /\ last[d] \in Register
  BY DEF TypeOK, Register
<1>2. Unread(d) = IF register[d] >= last[d] THEN register[d] - last[d]
                  ELSE Modulus - last[d] + register[d]
  BY <1>1, DeltaDiffValue DEF Unread
<1> QED
  BY <1>1, <1>2, RaplAssumption DEF Register

\* Reading a register leaves nothing unread.
LEMMA UnreadAfterRead ==
  ASSUME NEW a \in Register
  PROVE  DeltaDiff(a, a) = 0
  BY DeltaDiffValue, RaplAssumption DEF Register

\* The part of NoWrapIsMissed that steps have to preserve.
ReadInTime ==
    \A d \in Domains : IF refresher = "read" /\ d \notin todo
                       THEN Unread(d) <= timer - Period
                       ELSE Unread(d) <= timer + Latency

\* The inductive invariant.  ReadInTime needs to know how far the timer of
\* the refresher can be: at most Latency past its timeout, and past the timeout
\* during a round.
WrapInv ==
    /\ TypeOK
    /\ timer <= Period + Latency
    /\ refresher = "read" => timer >= Period
    /\ ReadInTime

\* No tick makes a whole turn unread.
LEMMA UnreadBelowTurn ==
  ASSUME WrapInv, NEW d \in Domains
  PROVE  /\ Unread(d) <= timer + Latency
         /\ timer < Period + Latency => Unread(d) + 1 < Modulus
<1>1. Unread(d) \in 0..(Modulus - 1)
  BY UnreadType DEF WrapInv
<1>2. Unread(d) <= timer - Period \/ Unread(d) <= timer + Latency
  BY DEF WrapInv, ReadInTime
<1>3. timer \in Nat /\ timer <= Period + Latency
  BY DEF WrapInv, TypeOK
<1>4. Latency \in Nat /\ Modulus \in Nat
  BY RaplAssumption
<1> QED
  BY <1>1, <1>2, <1>3, <1>4, RoundFits

\* A tick adds to what is unread of each domain exactly what it consumed.
LEMMA TickStep ==
  ASSUME WrapInv, Tick
  PROVE  \E e \in [Domains -> {0, 1}] :
           /\ register' = [d \in Domains |-> (register[d] + e[d]) % Modulus]
           /\ energy' = [d \in Domains |-> energy[d] + e[d]]
           /\ \A d \in Domains : register'[d] \in Register /\ Unread(d)' = Unread(d) + e[d]
<1>1. PICK e \in [Domains -> {0, 1}] :
        /\ register' = [d \in Domains |-> (register[d] + e[d]) % Modulus]
        /\ energy' = [d \in Domains |-> energy[d] + e[d]]
  BY DEF Tick
<1>2. ASSUME NEW d \in Domains
      PROVE  register'[d] \in Register /\ Unread(d)' = Unread(d) + e[d]
  <2>1. register[d] \in Register /\ last[d] \in Register /\ Unread(d) \in 0..(Modulus - 1)
    BY UnreadType DEF WrapInv
  <2>2. e[d] \in {0, 1} /\ Unread(d) + e[d] < Modulus
    <3>1. timer < Period + Latency
      BY DEF Tick
    <3>2. Unread(d) + 1 < Modulus
      BY <3>1, UnreadBelowTurn
    <3> QED
      BY <2>1, <3>2, RaplAssumption
  <2>3. /\ (register[d] + e[d]) % Modulus \in Register
        /\ DeltaDiff(last[d], (register[d] + e[d]) % Modulus) = DeltaDiff(last[d], register[d]) + e[d]
    BY <2>1, <2>2, DeltaDiffStep DEF Unread
  <2>4. register'[d] = (register[d] + e[d]) % Modulus /\ last' = last
    BY <1>1 DEF Tick
  <2> QED
    BY <2>3, <2>4 DEF Unread
<1> QED
  BY <1>1, <1>2

\* A reading moves what was unread into joules and leaves nothing unread.
LEMMA UpdateStep ==
  ASSUME TypeOK, NEW d \in Domains, UpdateCounter(d), register' = register
  PROVE  /\ joules' \in [Domains -> Nat] /\ last' \in [Domains -> Register]
         /\ joules'[d] = joules[d] + Unread(d)
         /\ Unread(d)' = 0
         /\ \A c \in Domains \ {d} : joules'[c] = joules[c] /\ Unread(c)' = Unread(c)
<1>1. /\ joules' = [joules EXCEPT ![d] = @ + Unread(d)]
      /\ last' = [last EXCEPT ![d] = register[d]]
  BY DEF UpdateCounter
<1>2. /\ joules \in [Domains -> Nat] /\ last \in [Domains -> Register]
      /\ register[d] \in Register /\ Unread(d) \in Nat
  BY UnreadType, RaplAssumption DEF TypeOK, Register
<1>3. Unread(d)' = 0
  BY <1>1, <1>2, UnreadAfterRead DEF Unread
<1>4. \A c \in Domains \ {d} : joules'[c] = joules[c] /\ Unread(c)' = Unread(c)
  BY <1>1, <1>2 DEF Unread
<1> QED
  BY <1>1, <1>2, <1>3, <1>4

-----------------------------------------------------------------------------
\* The counter starts, after the reset() of init(), with nothing unread.
LEMMA WrapInvInit == Init => WrapInv
<1> SUFFICES ASSUME Init PROVE WrapInv
  OBVIOUS
<1>1. register \in [Domains -> 0..(Modulus - 1)] /\ last = register
  BY RaplAssumption DEF Init
<1>2. fatal \in BOOLEAN
  BY Zenon DEF Init
<1>3. /\ joules \in [Domains -> Nat] /\ energy \in [Domains -> Nat]
      /\ result \in [domain : Domains \cup {NoDomain}, value : Nat \cup {-1}]
  BY DEF Init
<1>4. TypeOK
  BY <1>1, <1>2, <1>3 DEF Init, TypeOK
<1>5. \A d \in Domains : Unread(d) = 0
  BY <1>1, UnreadAfterRead DEF Unread, Register
<1>6. timer = 0 /\ refresher = "wait" /\ Latency \in Nat /\ Period \in Nat
  BY RaplAssumption, RoundFits DEF Init
<1> QED
  BY <1>4, <1>5, <1>6 DEF WrapInv, ReadInTime

\* Every tick, read, reset and refresh preserves the inductive invariant.
LEMMA WrapInvStep == WrapInv /\ [Next]_vars => WrapInv'
<1> SUFFICES ASSUME WrapInv, [Next]_vars PROVE WrapInv'
  OBVIOUS
<1>c. Period \in Nat /\ Latency \in Nat /\ Modulus \in Nat
  BY RaplAssumption, RoundFits
<1>t. /\ passed \subseteq Domains
      /\ register \in [Domains -> Register] /\ last \in [Domains -> Register]
      /\ joules \in [Domains -> Nat] /\ energy \in [Domains -> Nat] /\ timer \in Nat
      /\ result \in [domain : Domains \cup {NoDomain}, value : Nat \cup {-1}]
      /\ resetting \subseteq Domains /\ todo \subseteq Domains
      /\ refresher \in {"wait", "read"} /\ fatal \in BOOLEAN
  BY DEF WrapInv, TypeOK, Register
<1>u. \A d \in Domains : Unread(d) \in Nat
  BY UnreadType, RaplAssumption DEF WrapInv
<1>w. /\ timer <= Period + Latency
      /\ refresher = "read" => timer >= Period
      /\ \A d \in Domains : IF refresher = "read" /\ d \notin todo
                            THEN Unread(d) <= timer - Period
                            ELSE Unread(d) <= timer + Latency
  BY DEF WrapInv, ReadInTime
<1>1. CASE Tick
  <2>1. PICK e \in [Domains -> {0, 1}] :
          /\ register' = [d \in Domains |-> (register[d] + e[d]) % Modulus]
          /\ energy' = [d \in Domains |-> energy[d] + e[d]]
          /\ \A d \in Domains : register'[d] \in Register /\ Unread(d)' = Unread(d) + e[d]
    BY <1>1, TickStep
  <2>2. /\ timer' = timer + 1 /\ timer < Period + Latency
        /\ UNCHANGED <<last, joules, result, resetting, passed, refresher, todo, fatal>>
    BY <1>1 DEF Tick
  <2>3. register' \in [Domains -> Register] /\ energy' \in [Domains -> Nat]
    BY <2>1, <1>t
  <2>4. TypeOK'
    BY <2>2, <2>3, <1>t DEF TypeOK, Register
  <2>5. ASSUME NEW d \in Domains
        PROVE  IF refresher = "read" /\ d \notin todo
               THEN Unread(d)' <= timer' - Period
               ELSE Unread(d)' <= timer' + Latency
    <3>1. Unread(d)' <= Unread(d) + 1
      BY <2>1, <1>u
    <3>2. Unread(d)' \in Int
      BY <2>1, <1>u
    <3> QED
      BY <3>1, <3>2, <2>2, <1>c, <1>t, <1>u, <1>w
  <2>6. ReadInTime'
    BY <2>2, <2>5 DEF ReadInTime
  <2> QED
    BY <2>2, <2>4, <2>6, <1>c, <1>t, <1>w DEF WrapInv
<1>2. ASSUME NEW d \in Domains, GetJoules(d) PROVE WrapInv'
  <2>1. /\ UpdateCounter(d) /\ register' = register
        /\ result' = [domain |-> d, value |-> joules'[d]]
        /\ UNCHANGED <<resetting, passed, refresher, todo, timer, energy, fatal>>
    BY <1>2 DEF GetJoules
  <2>2. /\ joules' \in [Domains -> Nat] /\ last' \in [Domains -> Register]
        /\ Unread(d)' = 0 /\ \A c \in Domains \ {d} : Unread(c)' = Unread(c)
    BY <2>1, UpdateStep DEF WrapInv
  <2>3. TypeOK'
    <3>1. result' \in [domain : Domains \cup {NoDomain}, value : Nat \cup {-1}]
      BY <2>1, <2>2
    <3> QED
      BY <2>1, <2>2, <3>1, <1>t DEF TypeOK, Register
  <2>4. ReadInTime'
    BY <2>1, <2>2, <1>c, <1>t, <1>w DEF ReadInTime
  <2> QED
    BY <2>1, <2>3, <2>4, <1>w DEF WrapInv
<1>3. ASSUME NEW d \in Domains, RefreshDomain(d) PROVE WrapInv'
  <2>1. /\ UpdateCounter(d) /\ register' = register /\ refresher = "read"
        /\ todo' = todo \ {d}
        /\ UNCHANGED <<result, resetting, passed, refresher, timer, energy, fatal>>
    BY <1>3 DEF RefreshDomain
  <2>2. /\ joules' \in [Domains -> Nat] /\ last' \in [Domains -> Register]
        /\ Unread(d)' = 0 /\ \A c \in Domains \ {d} : Unread(c)' = Unread(c)
    BY <2>1, UpdateStep DEF WrapInv
  <2>3. TypeOK'
    BY <2>1, <2>2, <1>t DEF TypeOK, Register
  <2>4. ReadInTime'
    BY <2>1, <2>2, <1>c, <1>t, <1>w DEF ReadInTime
  <2> QED
    BY <2>1, <2>3, <2>4, <1>w DEF WrapInv
<1>4. ASSUME NEW d \in Domains, ResetRead(d) PROVE WrapInv'
  <2>1. /\ last' = [last EXCEPT ![d] = register[d]] /\ passed' = passed \cup {d}
        /\ resetting' = resetting \ {d}
        /\ UNCHANGED <<register, joules, result, refresher, todo, timer, energy, fatal>>
    BY <1>4 DEF ResetRead
  <2>2. Unread(d)' = 0 /\ \A c \in Domains \ {d} : Unread(c)' = Unread(c)
    BY <2>1, <1>t, UnreadAfterRead DEF Unread
  <2>3. TypeOK'
    BY <2>1, <1>t DEF TypeOK, Register
  <2>4. ReadInTime'
    BY <2>1, <2>2, <1>c, <1>t, <1>w DEF ReadInTime
  <2> QED
    BY <2>1, <2>3, <2>4, <1>w DEF WrapInv
<1>8. CASE ResetZero
  <2>1. /\ joules' = [d \in Domains |-> IF d \in passed THEN 0 ELSE joules[d]]
        /\ passed' = {}
        /\ UNCHANGED <<register, last, result, resetting, refresher, todo, timer, energy, fatal>>
    BY <1>8 DEF ResetZero
  <2>2. TypeOK'
    BY <2>1, <1>t DEF TypeOK, Register
  <2> QED
    BY <2>1, <2>2, <1>w DEF WrapInv, ReadInTime, Unread
<1>5. CASE RefreshBegin
  <2>1. /\ refresher = "wait" /\ timer >= Period /\ refresher' = "read" /\ todo' = Domains
        /\ UNCHANGED <<register, last, joules, result, resetting, passed, timer, energy, fatal>>
    BY <1>5 DEF RefreshBegin
  <2>2. TypeOK'
    BY <2>1, <1>t DEF TypeOK, Register
  <2>3. ReadInTime'
    BY <2>1, <1>w DEF ReadInTime, Unread
  <2> QED
    BY <2>1, <2>2, <2>3, <1>w DEF WrapInv
<1>6. CASE RefreshEnd
  <2>1. /\ refresher = "read" /\ todo = {} /\ refresher' = "wait" /\ timer' = 0
        /\ UNCHANGED <<register, last, joules, result, resetting, passed, todo, energy, fatal>>
    BY <1>6 DEF RefreshEnd
  <2>2. TypeOK'
    BY <2>1, <1>t DEF TypeOK, Register
  <2>3. ASSUME NEW d \in Domains PROVE Unread(d)' <= Latency
    <3>1. Unread(d)' = Unread(d)
      BY <2>1 DEF Unread
    <3> QED
      BY <3>1, <2>1, <1>c, <1>t, <1>u, <1>w
  <2>4. ReadInTime'
    BY <2>1, <2>3, <1>c DEF ReadInTime
  <2> QED
    BY <2>1, <2>2, <2>4, <1>c DEF WrapInv
<1>7. CASE ResetBegin \/ (\E d \in Domains : ResetThrows(d) \/ GetThrows(d))
  <2>1. /\ UNCHANGED <<register, last, joules, refresher, todo, timer, energy, fatal>>
        /\ resetting' \subseteq Domains /\ passed' \subseteq Domains
        /\ result' \in [domain : Domains \cup {NoDomain}, value : Nat \cup {-1}]
    BY <1>7, <1>t DEF ResetBegin, ResetThrows, GetThrows
  <2>2. TypeOK'
    BY <2>1, <1>t DEF TypeOK, Register
  <2> QED
    BY <2>1, <2>2, <1>w DEF WrapInv, ReadInTime, Unread
<1>9. CASE (\E d \in Domains : RefreshThrows(d)) \/ UNCHANGED vars
  <2>1. UNCHANGED <<register, last, joules, result, resetting, passed, refresher, todo, timer, energy>>
    BY <1>9 DEF RefreshThrows, vars
  <2>2. fatal' \in BOOLEAN
    BY <1>9, <1>t, Zenon DEF RefreshThrows, vars
  <2>3. TypeOK'
    BY <2>1, <2>2, <1>t DEF TypeOK, Register
  <2> QED
    BY <2>1, <2>3, <1>w DEF WrapInv, ReadInTime, Unread
<1> QED
  BY <1>1, <1>2, <1>3, <1>4, <1>5, <1>6, <1>7, <1>8, <1>9 DEF Next

\* The inductive invariant holds in every behaviour.
LEMMA WrapInvariant == Spec => []WrapInv
  BY WrapInvInit, WrapInvStep, PTL DEF Spec

\* What is unread was consumed since the counter was created.
Counted == \A d \in Domains : Unread(d) <= energy[d]

LEMMA CountedInvariant == Spec => []Counted
<1>1. Init => Counted
  <2> SUFFICES ASSUME Init, NEW d \in Domains PROVE Unread(d) <= energy[d]
    BY DEF Counted
  <2>1. last[d] = register[d] /\ register[d] \in Register /\ energy[d] = 0
    BY DEF Init, Register
  <2> QED
    BY <2>1, UnreadAfterRead DEF Unread
<1>2. WrapInv /\ Counted /\ [Next]_vars => Counted'
  <2> SUFFICES ASSUME WrapInv, Counted, [Next]_vars, NEW d \in Domains
               PROVE  Unread(d)' <= energy'[d]
    BY DEF Counted
  <2>t. /\ TypeOK /\ Unread(d) \in Nat /\ energy[d] \in Nat /\ Unread(d) <= energy[d]
        /\ register \in [Domains -> Register] /\ last \in [Domains -> Register]
    BY UnreadType, RaplAssumption DEF WrapInv, TypeOK, Counted, Register
  <2>1. CASE Tick
    BY <2>1, <2>t, TickStep
  <2>2. ASSUME NEW c \in Domains, GetJoules(c) \/ RefreshDomain(c) \/ ResetRead(c)
        PROVE  Unread(d)' <= energy'[d]
    <3>1. last' = [last EXCEPT ![c] = register[c]] /\ register' = register /\ energy' = energy
      BY <2>2 DEF GetJoules, RefreshDomain, ResetRead, UpdateCounter
    <3>2. Unread(d)' = 0 \/ Unread(d)' = Unread(d)
      BY <3>1, <2>t, UnreadAfterRead DEF Unread
    <3> QED
      BY <3>1, <3>2, <2>t
  <2>3. CASE \/ ResetBegin \/ ResetZero \/ RefreshBegin \/ RefreshEnd \/ UNCHANGED vars
             \/ \E c \in Domains : GetThrows(c) \/ ResetThrows(c) \/ RefreshThrows(c)
    <3>1. UNCHANGED <<register, last, energy>>
      BY <2>3 DEF ResetBegin, ResetZero, RefreshBegin, RefreshEnd, GetThrows, ResetThrows,
                  RefreshThrows, vars
    <3> QED
      BY <3>1, <2>t DEF Unread
  <2> QED
    BY <2>1, <2>2, <2>3 DEF Next
<1> QED
  BY <1>1, <1>2, WrapInvariant, PTL DEF Spec

\* However reads and resets of clients interleave with the refresher, it reads
\* every register before a whole turn of it has gone by.
THEOREM NoWrapMissed == Spec => [](TypeOK /\ NoWrapIsMissed)
<1>1. WrapInv => TypeOK /\ NoWrapIsMissed
  <2> SUFFICES ASSUME WrapInv, NEW d \in Domains
               PROVE  TypeOK /\ Unread(d) <= SinceReading(d) /\ SinceReading(d) < Modulus
    BY DEF NoWrapIsMissed, WrapInv
  <2>1. TypeOK /\ Unread(d) <= SinceReading(d)
    BY DEF WrapInv, ReadInTime, SinceReading
  <2>2. timer \in Nat /\ timer <= Period + Latency
    BY DEF WrapInv, TypeOK
  <2>3. SinceReading(d) < Modulus
    BY <2>2, RoundFits, RaplAssumption DEF SinceReading
  <2> QED
    BY <2>1, <2>3
<1> QED
  BY <1>1, WrapInvariant, PTL

-----------------------------------------------------------------------------
\* The value of Base, and the types its arithmetic needs.
LEMMA BaseValue ==
  ASSUME TypeOK
  PROVE  /\ Base = [d \in Domains |-> energy[d] - (joules[d] + Unread(d))]
         /\ \A d \in Domains : energy[d] \in Nat /\ joules[d] \in Nat /\ Unread(d) \in Nat
  BY UnreadType, RaplAssumption DEF Base, TypeOK

\* Base changes only where what is reported changes by something else than
\* what was consumed.
LEMMA BaseUnchanged ==
  ASSUME TypeOK, TypeOK',
         \A d \in Domains : energy'[d] - (joules'[d] + Unread(d)') = energy[d] - (joules[d] + Unread(d))
  PROVE  Base' = Base
  BY DEF Base

\* The counter read through wrapping 32-bit registers, with clients and the
\* refresher interleaved, implements the meter that energy.hpp documents:
\* each read returns exactly what was consumed since the last reset.
THEOREM MsrImplementsMeter == Spec => IsEnergyMeter
<1>1. Init => Meter!Init
  <2> SUFFICES ASSUME Init PROVE Meter!Init
    OBVIOUS
  <2>1. TypeOK /\ \A d \in Domains : Unread(d) = 0
    <3>1. last = register /\ register \in [Domains -> 0..(Modulus - 1)]
      BY RaplAssumption DEF Init
    <3> QED
      BY <3>1, WrapInvInit, UnreadAfterRead DEF WrapInv, Unread, Register
  <2>2. Base = [d \in Domains |-> 0]
    BY <2>1, BaseValue DEF Init
  <2>3. Mark = [d \in Domains |-> -1]
    BY DEF Init, Mark
  <2> QED
    BY <2>2, <2>3 DEF Init, Meter!Init, Meter!NoMark
<1>2. WrapInv /\ WrapInv' /\ Counted /\ [Next]_vars => [Meter!Next]_Meter!meterVars
  <2> SUFFICES ASSUME WrapInv, WrapInv', Counted, [Next]_vars PROVE [Meter!Next]_Meter!meterVars
    OBVIOUS
  <2>t. TypeOK /\ TypeOK'
    BY DEF WrapInv
  <2>u. \A d \in Domains : energy[d] \in Nat /\ joules[d] \in Nat /\ Unread(d) \in Nat
    BY <2>t, BaseValue
  <2>e. energy' \in [Domains -> Nat]
    BY <2>t DEF TypeOK
  <2>1. CASE Tick
    <3>1. PICK e \in [Domains -> {0, 1}] :
            /\ energy' = [d \in Domains |-> energy[d] + e[d]]
            /\ \A d \in Domains : Unread(d)' = Unread(d) + e[d]
      BY <2>1, TickStep
    <3>2. joules' = joules /\ result' = result /\ passed' = passed
      BY <2>1 DEF Tick
    <3>m. Mark' = Mark
      <4>1. ASSUME NEW d \in Domains PROVE energy'[d] - Unread(d)' = energy[d] - Unread(d)
        BY <3>1, <2>u
      <4> QED
        BY <4>1, <3>2 DEF Mark
    <3>3. Base' = Base
      <4>1. ASSUME NEW d \in Domains
            PROVE  energy'[d] - (joules'[d] + Unread(d)') = energy[d] - (joules[d] + Unread(d))
        <5>1. e[d] \in {0, 1} /\ energy'[d] = energy[d] + e[d] /\ Unread(d)' = Unread(d) + e[d]
          BY <3>1
        <5> QED
          BY <5>1, <3>2, <2>u
      <4> QED
        BY <4>1, <2>t, BaseUnchanged
    <3>4. \A d \in Domains : energy'[d] >= energy[d]
      BY <3>1, <2>u
    <3> QED
      BY <3>2, <3>3, <3>4, <3>m, <2>e DEF Meter!Next, Meter!Consume
  <2>2. ASSUME NEW d \in Domains, UpdateCounter(d), register' = register, energy' = energy
        PROVE  Base' = Base /\ joules'[d] = energy[d] - Base[d]
    <3>1. /\ joules'[d] = joules[d] + Unread(d) /\ Unread(d)' = 0
          /\ \A c \in Domains \ {d} : joules'[c] = joules[c] /\ Unread(c)' = Unread(c)
      BY <2>2, <2>t, UpdateStep
    <3>2. ASSUME NEW c \in Domains
          PROVE  energy'[c] - (joules'[c] + Unread(c)') = energy[c] - (joules[c] + Unread(c))
      <4>1. CASE c = d
        BY <4>1, <3>1, <2>2, <2>u
      <4>2. CASE c # d
        BY <4>2, <3>1, <2>2
      <4> QED
        BY <4>1, <4>2
    <3>3. Base[d] = energy[d] - (joules[d] + Unread(d))
      BY DEF Base
    <3> QED
      BY <3>1, <3>2, <3>3, <2>t, <2>u, BaseUnchanged
  <2>m. Unlocked => \A d \in Domains : Mark[d] = -1
    BY DEF Unlocked, Mark
  <2>n. ASSUME passed = {}, passed' = {} PROVE Mark' = Mark
    BY <2>n DEF Mark
  <2>3. ASSUME NEW d \in Domains, GetJoules(d) PROVE Meter!GetJoules(d)
    <3>1. /\ UpdateCounter(d) /\ register' = register /\ energy' = energy
          /\ result' = [domain |-> d, value |-> joules'[d]]
          /\ Unlocked /\ passed' = passed
      BY <2>3 DEF GetJoules
    <3>2. Mark' = Mark /\ \A c \in Domains : Mark[c] = -1
      BY <3>1, <2>m, <2>n DEF Unlocked
    <3> QED
      BY <3>1, <3>2, <2>2 DEF Meter!GetJoules, Meter!NoMark
  <2>4. ASSUME NEW d \in Domains, RefreshDomain(d) PROVE UNCHANGED Meter!meterVars
    <3>1. /\ UpdateCounter(d) /\ register' = register /\ energy' = energy /\ result' = result
          /\ Unlocked /\ passed' = passed
      BY <2>4 DEF RefreshDomain
    <3>2. Mark' = Mark
      BY <3>1, <2>n DEF Unlocked
    <3> QED
      BY <3>1, <3>2, <2>2 DEF Meter!meterVars
  <2>5. ASSUME NEW d \in Domains, ResetRead(d) PROVE Meter!ResetReaches(d)
    <3>1. /\ last' = [last EXCEPT ![d] = register[d]] /\ joules' = joules
          /\ register' = register /\ energy' = energy /\ result' = result
          /\ passed' = passed \cup {d}
      BY <2>5 DEF ResetRead
    <3>2. Unread(d)' = 0 /\ \A c \in Domains \ {d} : Unread(c)' = Unread(c)
      BY <3>1, <2>t, UnreadAfterRead DEF Unread, TypeOK, Register
    <3>3. Mark' = [Mark EXCEPT ![d] = energy[d]]
      <4>1. ASSUME NEW c \in Domains
            PROVE  (IF c \in passed' THEN energy'[c] - Unread(c)' ELSE -1)
                   = IF c = d THEN energy[d] ELSE Mark[c]
        BY <3>1, <3>2, <2>u DEF Mark
      <4> QED
        BY <4>1 DEF Mark
    <3>4. ASSUME NEW c \in Domains
          PROVE  /\ Base'[c] = energy'[c] - (joules'[c] + Unread(c)') /\ Base'[c] \in Int
                 /\ Base[c] = energy[c] - (joules[c] + Unread(c))
                 /\ c # d => Base'[c] = Base[c]
      <4>1. /\ Base'[c] = energy'[c] - (joules'[c] + Unread(c)')
            /\ Base[c] = energy[c] - (joules[c] + Unread(c))
        BY DEF Base
      <4>2. Unread(c)' \in Nat
        BY <3>2, <2>u
      <4> QED
        BY <4>1, <4>2, <3>1, <3>2, <2>u
    <3>5. Base' \in [Domains -> Int]
      <4>1. Base' = [c \in Domains |-> Base'[c]]
        BY DEF Base
      <4> QED
        BY <4>1, <3>4
    <3>6. Base[d] <= Base'[d] /\ Base'[d] <= energy[d]
      BY <3>1, <3>2, <3>4, <2>u
    <3> QED
      BY <3>1, <3>3, <3>4, <3>5, <3>6 DEF Meter!ResetReaches
  <2>6. CASE ResetZero
    <3>1. /\ joules' = [d \in Domains |-> IF d \in passed THEN 0 ELSE joules[d]]
          /\ passed' = {}
          /\ UNCHANGED <<register, last, result, energy>>
      BY <2>6 DEF ResetZero
    <3>2. \A d \in Domains : Unread(d)' = Unread(d)
      BY <3>1 DEF Unread
    <3>3. Mark' = [d \in Domains |-> -1]
      BY <3>1 DEF Mark
    <3>4. Base' = [d \in Domains |-> IF Mark[d] # -1 THEN Mark[d] ELSE Base[d]]
      <4>1. ASSUME NEW d \in Domains
            PROVE  energy'[d] - (joules'[d] + Unread(d)') = IF Mark[d] # -1 THEN Mark[d] ELSE Base[d]
        <5>0. Base[d] = energy[d] - (joules[d] + Unread(d))
          BY DEF Base
        <5>1. CASE d \in passed
          <6>1. joules'[d] = 0
            BY <5>1, <3>1
          <6>2. Mark[d] = energy[d] - Unread(d) /\ Mark[d] # -1
            BY <5>1, <2>u DEF Mark, Counted
          <6> QED
            <7>1. energy'[d] - (joules'[d] + Unread(d)') = energy[d] - Unread(d)
              BY <6>1, <3>1, <3>2, <2>u
            <7> QED
              BY <7>1, <6>2
        <5>2. CASE d \notin passed
          BY <5>0, <5>2, <3>1, <3>2 DEF Mark
        <5> QED
          BY <5>1, <5>2
      <4> QED
        BY <4>1 DEF Base
    <3> QED
      BY <3>1, <3>3, <3>4 DEF Meter!ResetTakesEffect, Meter!NoMark, Meter!Next
  <2>7. ASSUME NEW d \in Domains, ResetThrows(d) PROVE Meter!ResetFails
    <3>1. UNCHANGED <<register, last, joules, energy, result>> /\ passed' = {}
      BY <2>7 DEF ResetThrows
    <3>2. Mark' = [c \in Domains |-> -1]
      BY <3>1 DEF Mark
    <3> QED
      BY <3>1, <3>2 DEF Meter!ResetFails, Meter!NoMark, Base, Unread
  <2>8. ASSUME NEW d \in Domains, GetThrows(d) PROVE Meter!GetFails(d)
    <3>1. /\ UNCHANGED <<register, last, joules, energy, passed>>
          /\ result' = [domain |-> d, value |-> -1]
      BY <2>8 DEF GetThrows
    <3> QED
      BY <3>1 DEF Meter!GetFails, Mark, Base, Unread
  <2>9. CASE \/ ResetBegin \/ RefreshBegin \/ RefreshEnd
             \/ \E d \in Domains : RefreshThrows(d)
             \/ UNCHANGED vars
    <3>1. UNCHANGED <<register, last, joules, energy, result, passed>>
      BY <2>9 DEF ResetBegin, RefreshBegin, RefreshEnd, RefreshThrows, vars
    <3> QED
      BY <3>1 DEF Meter!meterVars, Base, Mark, Unread
  <2> QED
    BY <2>1, <2>3, <2>4, <2>5, <2>6, <2>7, <2>8, <2>9 DEF Next, Meter!Next
<1> QED
  BY <1>1, <1>2, WrapInvariant, CountedInvariant, PTL DEF Spec, IsEnergyMeter, Meter!Spec

=============================================================================
