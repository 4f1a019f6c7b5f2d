----------------------------- MODULE MCRaplSysFs -----------------------------
(* Instances of RaplSysFs for TLC: the client, the refresher and files of   *)
(* which one goes less far than that of package 0, and one further.       *)
EXTENDS RaplSysFs, TLC

CONSTANTS dram, core, refresher

MCDomains == {dram, core}
MCRange   == dram :> 2 @@ core :> 4
MCThreads == {Client, refresher}
=============================================================================
