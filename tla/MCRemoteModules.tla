-------------------------- MODULE MCRemoteModules --------------------------
(* Instances of RemoteModules for TLC. *)
EXTENDS RemoteModules

\* One core, nothing to measure, every module activated.
Bare ==
  [mask |-> {"cpufreq", "topology", "energy"}, interest |-> {}, watts |-> {1}, plugs |-> {}, sysfs |-> FALSE, msr |-> FALSE, dram |-> TRUE, amester |-> FALSE, faults |-> FALSE,
   eof |-> FALSE, has |-> TRUE, cpus |-> {0, 1}, cores |-> {0}, since |-> 0, levels |-> {}, fixed |-> {}, ticking |-> {}, flags |-> <<0, 1>>,
   domains |-> FALSE, boost |-> "disabled", zones |-> <<>>, sockets |-> 2]

\* Every kind of plug counter, with the counters of the processors.
Measuring == {[Bare EXCEPT !.interest = {"energy", "counters"}, !.plugs = {kind}, !.sysfs = TRUE, !.watts = {1, 2}, !.eof = kind = "smartpower2"] : kind \in Range(PlugKinds)}
  \cup {[Bare EXCEPT !.interest = {"energy", "counters"}, !.plugs = {"file", "smartgauge"}, !.msr = TRUE],
        [Bare EXCEPT !.interest = {"energy", "counters"}, !.msr = TRUE, !.dram = FALSE],
        [Bare EXCEPT !.interest = {"energy", "counters"}, !.sysfs = TRUE, !.amester = TRUE],
        [Bare EXCEPT !.interest = {"energy", "facade"}]}

\* Cores of which one begins with the identifier of another.
Cores == {[Bare EXCEPT !.interest = {"topology", "idle", "energy"}, !.cores = {1, 10}, !.since = 1, !.ticking = {1, 10}, !.sysfs = TRUE],
          [Bare EXCEPT !.interest = {"topology", "idle", "facade"}, !.cores = {0, 1}, !.since = 1, !.ticking = {1}],
          [Bare EXCEPT !.interest = {"topology", "levels"}, !.cores = {1}, !.since = 3, !.levels = {0, 1}, !.fixed = {0}, !.ticking = {1}],
          [Bare EXCEPT !.interest = {"topology", "cores", "cpufreq"}, !.cores = {0, 1}]}

\* Servers without some of the modules; those that do not start are left out.
Masked == {[Bare EXCEPT !.interest = {"topology", "energy", "cpufreq", "facade"}, !.sysfs = TRUE, !.mask = mask] :
             mask \in SUBSET {"cpufreq", "topology", "energy"}}

Frequencies == {[Bare EXCEPT !.interest = {"cpufreq", "facade"}, !.domains = TRUE]}
  \cup {[Bare EXCEPT !.interest = {"cpufreq", "boost"}, !.boost = boost, !.faults = faults] : boost \in {"unsupported", "enabled"}, faults \in BOOLEAN}

\* Machines whose files and devices may fail once the server runs.
Faulty == {[Bare EXCEPT !.interest = {"energy", "counters"}, !.plugs = {kind}, !.faults = TRUE] : kind \in Range(PlugKinds)}
  \cup {[Bare EXCEPT !.interest = {"energy", "counters"}, !.msr = TRUE, !.dram = dram, !.faults = TRUE] : dram \in BOOLEAN}
  \cup {[Bare EXCEPT !.interest = {"energy", "counters"}, !.amester = TRUE, !.faults = TRUE],
         [Bare EXCEPT !.interest = {"topology", "idle", "cores"}, !.cores = {0, 1}, !.ticking = {1}, !.faults = TRUE],
         [Bare EXCEPT !.interest = {"topology", "levels"}, !.cores = {1}, !.levels = {0, 1}, !.fixed = {0}, !.ticking = {1}, !.faults = TRUE]}

Capped == {[Bare EXCEPT !.interest = {"caps"}, !.zones = <<"cpus", "memory">>, !.sockets = 1],
           [Bare EXCEPT !.interest = {"caps"}, !.zones = <<"cpus">>]}

MCMachines == Measuring \cup Cores \cup Masked \cup Frequencies \cup Faulty \cup Capped
=============================================================================
