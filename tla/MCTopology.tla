----------------------------- MODULE MCTopology -----------------------------
(* Instances of Topology for TLC. *)
EXTENDS Topology

CONSTANTS MCCores, MCPackages, MCCoreIds

\* Two threads of one physical core and a third core in a second CPU with the
\* same core_id, core 0 fixed and clock modulation, as on x86: off in core 0, on
\* in core 1, with the reserved bit 0 set, which is all there is in core 2.
X86 == [lowest |-> 0, highest |-> 3, present |-> 0..2, hotpluggable |-> 1..2, modulated |-> 0..2,
        package |-> [v \in 0..2 |-> IF v = 1 THEN 1 ELSE 0], core |-> [v \in 0..2 |-> 0],
        found |-> [v \in 0..2 |-> CASE v = 0 -> 0 [] v = 1 -> 27 [] v = 2 -> 1]]

\* Two cores that can both be unplugged and have no such register, as on ARM.
Arm == [lowest |-> 0, highest |-> 1, present |-> {0, 1}, hotpluggable |-> {0, 1}, modulated |-> {},
        package |-> [v \in {0, 1} |-> 0], core |-> [v \in {0, 1} |-> v],
        found |-> [v \in {0, 1} |-> 0]]

MCCalledMachines == {X86, Arm}

\* Every way to place a non-empty set of cores in packages and cores.
MCMachines ==
  MCCalledMachines
  \cup UNION {[lowest : {Min(MCCores)}, highest : {Max(MCCores)}, present : {P}, hotpluggable : {P}, modulated : {P},
               package : [P -> MCPackages], core : [P -> MCCoreIds], found : {[v \in P |-> 0]}] :
              P \in (SUBSET MCCores) \ {{}}}
=============================================================================
