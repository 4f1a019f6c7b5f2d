------------------------------ MODULE Hierarchy ------------------------------
(***************************************************************************)
(* How Mammut groups the virtual cores of a machine into physical cores   *)
(* and CPUs (topology.cpp).  A machine is what sysfs shows when the        *)
(* topology is constructed: the identifiers that are possible, the virtual *)
(* cores that are online, and for each of these its physical_package_id    *)
(* and its core_id.  A virtual core is represented by its coordinates.     *)
(***************************************************************************)
EXTENDS Integers, Sequences, FiniteSets, SequencesExt

\* A loop over the vector s that keeps the elements at the positions I.
Kept(s, I) ==
  LET kept[n \in 0..Len(s)] ==
        IF n = 0 THEN <<>> ELSE IF n \in I THEN Append(kept[n - 1], s[n]) ELSE kept[n - 1]
  IN  kept[Len(s)]

\* The elements of s without repetitions, in the order in which they first
\* appear: a vector that is filled under !utils::contains().
Distinct(s) == Kept(s, {i \in DOMAIN s : \A j \in 1..(i - 1) : s[j] # s[i]})

CpuIds(s)          == [i \in DOMAIN s |-> s[i].cpuId]
PhysicalCoreIds(s) == [i \in DOMAIN s |-> s[i].physicalCoreId]
VirtualCoreIds(s)  == [i \in DOMAIN s |-> s[i].virtualCoreId]

\* The virtual cores in the order of their identifiers, less the ones that are
\* offline.
OnlineIds(m) ==
  LET possible == [i \in 1..(m.highest - m.lowest + 1) |-> m.lowest + i - 1]
  IN  Kept(possible, {i \in DOMAIN possible : possible[i] \in m.present})

\* Mutant: the map of unique identifiers is keyed by core_id alone.
CorePairOfCoreId(m, v) == <<0, m.core[v]>>

\* core_id is not unique, the pair with the package is.
CorePair(m, v) == <<m.package[v], m.core[v]>>

\* uniquePhysicalCoreIds: the pairs are numbered as they are met.
CorePairs(m) == Distinct([i \in DOMAIN OnlineIds(m) |-> CorePair(m, OnlineIds(m)[i])])
UniqueCoreId(m, v) == (CHOOSE k \in DOMAIN CorePairs(m) : CorePairs(m)[k] = CorePair(m, v)) - 1

\* The coordinates that the constructor reads.
Coordinates(m) ==
  [i \in DOMAIN OnlineIds(m) |-> LET v == OnlineIds(m)[i]
                                 IN  [cpuId |-> m.package[v], physicalCoreId |-> UniqueCoreId(m, v), virtualCoreId |-> v]]

BuildVirtualCoresVector(coord, cpuId, physicalCoreId) ==
  Kept(coord, {i \in DOMAIN coord : coord[i].cpuId = cpuId /\ coord[i].physicalCoreId = physicalCoreId})

BuildPhysicalCoresVector(coord, cpuId) ==
  LET ids == Distinct(PhysicalCoreIds(Kept(coord, {i \in DOMAIN coord : coord[i].cpuId = cpuId})))
  IN  [i \in DOMAIN ids |-> [physicalCoreId |-> ids[i],
                             virtualCores   |-> BuildVirtualCoresVector(coord, cpuId, ids[i])]]

BuildCpuVector(coord) ==
  LET ids == Distinct(CpuIds(coord))
  IN  [i \in DOMAIN ids |-> [cpuId |-> ids[i], physicalCores |-> BuildPhysicalCoresVector(coord, ids[i])]]

VirtualCoresFromPhysicalCores(cpu) ==
  FlattenSeq([i \in DOMAIN cpu.physicalCores |-> cpu.physicalCores[i].virtualCores])

\* _physicalCores and _virtualCores of the topology: filled while the CPUs
\* are built, hence grouped by CPU and not in the order of the identifiers.
PhysicalCores(cpus) == FlattenSeq([i \in DOMAIN cpus |-> cpus[i].physicalCores])
VirtualCores(cpus)  == FlattenSeq([i \in DOMAIN cpus |-> VirtualCoresFromPhysicalCores(cpus[i])])

\* The first physical core with that identifier, in the order of the CPUs.
GetPhysicalCore(cpus, physicalCoreId) ==
  LET all == PhysicalCores(cpus)
  IN  all[CHOOSE i \in DOMAIN all : /\ all[i].physicalCoreId = physicalCoreId
                                    /\ \A j \in 1..(i - 1) : all[j].physicalCoreId # physicalCoreId]

VirtualToPhysical(cpus, virtualCores) ==
  Distinct([i \in DOMAIN virtualCores |-> GetPhysicalCore(cpus, virtualCores[i].physicalCoreId)])

GetOneVirtualPerPhysical(virtualCores) ==
  Kept(virtualCores, {i \in DOMAIN virtualCores :
                        \A j \in 1..(i - 1) : virtualCores[j].physicalCoreId # virtualCores[i].physicalCoreId})

\* Mutant: the server sends the first virtual core of each physical core.
GetTopologyResOnePerPhysical(cpus) == GetOneVirtualPerPhysical(VirtualCores(cpus))

\* The coordinates with which a server answers GetTopology.
GetTopologyRes(cpus) == VirtualCores(cpus)

\* The topology that a client builds from them.
RemoteTopology(coordinates) == BuildCpuVector(coordinates)

\* The units that can be plugged and modulated, each as its virtual cores in
\* the order in which an operation on the unit visits them.
Units(cpus) ==
  {VirtualCoreIds(VirtualCoresFromPhysicalCores(cpus[i])) : i \in DOMAIN cpus}
  \cup {VirtualCoreIds(PhysicalCores(cpus)[i].virtualCores) : i \in DOMAIN PhysicalCores(cpus)}
  \cup {<<VirtualCores(cpus)[i].virtualCoreId>> : i \in DOMAIN VirtualCores(cpus)}
=============================================================================
