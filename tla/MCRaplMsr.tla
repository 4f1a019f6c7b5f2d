------------------------------ MODULE MCRaplMsr ------------------------------
(* Instances of RaplMsr for TLC: CPUs whose registers have Modulus values. *)
EXTENDS RaplMsr, TLC

CONSTANTS pkg, dram

MCDomains == {pkg, dram}
MCCpuOf   == [d \in MCDomains |-> "cpu0"]
Symmetry  == Permutations(MCDomains)
=============================================================================
