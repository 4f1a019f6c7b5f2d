----------------------------- MODULE EnergyMeter -----------------------------
(***************************************************************************)
(* What an energy counter promises (include/mammut/energy/energy.hpp): a   *)
(* read returns the energy "consumed ... since the counter creation (or    *)
(* since the last call of reset())".  A call may also fail.  A read that   *)
(* fails changes nothing.  A reset that fails part way may have lost       *)
(* energy of the domains it had reached: they then report less than what   *)
(* was consumed, never more.                                               *)
(***************************************************************************)
EXTENDS Integers

CONSTANTS
    Domains,  \* the metered components: a CPU and one of cpu, cores, graphic, dram
    NoDomain

VARIABLES
    energy,  \* what each domain has consumed since the counter was created
    base,    \* the value of energy at the last reset
    mark,    \* the value of energy when the running reset reached the domain
    result   \* the last value a call returned, and the domain it was about

meterVars == <<energy, base, mark, result>>

NoMark == -1

Init ==
    /\ energy = [d \in Domains |-> 0]
    /\ base = [d \in Domains |-> 0]
    /\ mark = [d \in Domains |-> NoMark]
    /\ result = [domain |-> NoDomain, value |-> 0]

\* Time passes and domains consume energy.
Consume ==
    /\ energy' \in [Domains -> Nat]
    /\ \A d \in Domains : energy'[d] >= energy[d]
    /\ UNCHANGED <<base, mark, result>>

\* No call returns while a reset is half done.
GetJoules(d) ==
    /\ \A c \in Domains : mark[c] = NoMark
    /\ result' = [domain |-> d, value |-> energy[d] - base[d]]
    /\ UNCHANGED <<energy, base, mark>>

GetFails(d) ==
    /\ result' = [domain |-> d, value |-> -1]
    /\ UNCHANGED <<energy, base, mark>>

\* A reset reaches d; if it fails later, d restarts from some value up to this.
ResetReaches(d) ==
    /\ mark' = [mark EXCEPT ![d] = energy[d]]
    /\ base' \in [Domains -> Int]
    /\ base[d] <= base'[d] /\ base'[d] <= energy[d]
    /\ \A c \in Domains \ {d} : base'[c] = base[c]
    /\ UNCHANGED <<energy, result>>

\* The reset of the domains reached so far takes effect.
ResetTakesEffect ==
    /\ base' = [d \in Domains |-> IF mark[d] # NoMark THEN mark[d] ELSE base[d]]
    /\ mark' = [d \in Domains |-> NoMark]
    /\ UNCHANGED <<energy, result>>

ResetFails ==
    /\ mark' = [d \in Domains |-> NoMark]
    /\ UNCHANGED <<energy, base, result>>

Next ==
    \/ Consume
    \/ ResetTakesEffect
    \/ ResetFails
    \/ \E d \in Domains : GetJoules(d) \/ GetFails(d) \/ ResetReaches(d)

Spec == Init /\ [][Next]_meterVars
=============================================================================
