------------------------------ MODULE Topology ------------------------------
(***************************************************************************)
(* A topology object over the cores of a machine: hotplugging and clock   *)
(* modulation of its units, rollback points, and the copy of the hierarchy *)
(* that a remote client builds.  One thread calls the object; other        *)
(* programs may plug and unplug cores at any time, also between two system *)
(* calls of an operation.                                                  *)
(*                                                                         *)
(* Percentages of clock modulation are counted in steps (_clkModStep), so  *)
(* that Full steps are 100%.  Of the register IA32_CLOCK_MODULATION the    *)
(* model has bits 0 to 4: bit 4 enables modulation, bits 3 to              *)
(* _clkModLowBit hold the duty cycle.                                      *)
(***************************************************************************)
EXTENDS Hierarchy

CONSTANTS
  Machines,       \* the machines a topology is built for
  CalledMachines, \* the ones among them on which operations are explored
  ClkModLowBit,   \* 0 with extended clock modulation, 1 without
  CallValues,     \* the modulations, in steps, that callers ask for
  Garbage,        \* what an uninitialised register value may hold
  MaxCalls,       \* bound: operations called
  MaxToggles      \* bound: cores plugged or unplugged by other programs

Full == 2^(4 - ClkModLowBit)
ClkModValues == 1..Full

\* The bits of a register from low to high.
Field(r, high, low) == (r \div 2^low) % 2^(high - low + 1)

\* What sysfs shows of a machine: the identifiers that are possible, which of
\* them are online, can be unplugged and have the register, and where they are;
\* and what is found in the registers: firmware or another program may have
\* enabled modulation (with a duty cycle: 0 is reserved) and set a reserved bit.
IsMachine(m) ==
  /\ m.lowest \in Nat /\ m.highest \in Nat
  /\ m.present \subseteq m.lowest..m.highest /\ m.present # {}
  /\ m.hotpluggable \subseteq m.present /\ m.modulated \subseteq m.present
  /\ DOMAIN m.package = m.present /\ DOMAIN m.core = m.present
  /\ m.found \in [m.present -> 0..31]
  /\ \A v \in m.present : Field(m.found[v], 4, 4) = 1 => Field(m.found[v], 3, ClkModLowBit) # 0

ASSUME TopologyAssumption ==
  /\ \A m \in Machines : IsMachine(m)
  /\ ClkModLowBit \in {0, 1}
  /\ CalledMachines \subseteq Machines
  /\ CallValues \subseteq ClkModValues
  /\ Garbage \subseteq 0..31 /\ Garbage # {}
  /\ MaxCalls \in Nat /\ MaxToggles \in Nat

VARIABLES
  machine,    \* what sysfs shows at construction
  cpus,       \* _cpus of the local topology
  remote,     \* _cpus of the topology of a client, <<>> before it asks
  online,     \* which cores are online
  reg,        \* the clock modulation register of each core
  call,       \* the operation under way
  point,      \* the last rollback point, and whether it was taken in peace
  calls, toggles,
  disturbed,  \* ghost: cores others have toggled during the last operation
  garbled,    \* ghost: cores toggled between two accesses to their register
  refused,    \* ghost: cores the kernel refused to unplug in the last operation
  asked       \* ghost: the modulation last set on each core, or found there

machineVars == <<machine, cpus>>
ghosts == <<disturbed, garbled, refused, asked>>
vars == <<machine, cpus, remote, online, reg, call, point, calls, toggles,
          disturbed, garbled, refused, asked>>

Cores == machine.present
Ids == VirtualCoreIds(VirtualCores(cpus))

(***************************************************************************)
(* Register access, through a file of /dev/cpu that is opened when the     *)
(* topology is built.  An access to a core that is offline fails.          *)
(***************************************************************************)

HasClockModulation(v) == v \in machine.modulated
Accessible(v) == HasClockModulation(v) /\ online[v]

\* Mutant: the bits of the old value are not cleared before the OR.
WithBitsOred(old, high, low, value) ==
  LET bits == {b \in 0..4 : Field(old, b, b) = 1 \/ (b \in low..high /\ Field(value, b - low, b - low) = 1)}
  IN  MapThenSumSet(LAMBDA b : 2^b, bits)

\* Msr::writeBits, once it has the old value: the bits from low to high are
\* replaced.
WithBits(old, high, low, value) ==
  old + (Field(value, high - low, 0) - Field(old, high, low)) * 2^low

\* The calls of writeBits that setClockModulation makes: 100% clears the
\* enable bit and the duty cycle, other values set the one and then the other.
Writes(value) ==
  IF value = Full
  THEN <<[high |-> 4, low |-> ClkModLowBit, value |-> 0]>>
  ELSE <<[high |-> 4, low |-> 4, value |-> 1],
         [high |-> 3, low |-> ClkModLowBit, value |-> value]>>

\* What getClockModulation returns if nobody disturbs it.
GetClockModulation(v) ==
  IF Accessible(v) /\ Field(reg[v], 4, 4) = 1 THEN Field(reg[v], 3, ClkModLowBit) ELSE Full

IsHotPluggable(v) == v \in machine.hotpluggable
IsHotPlugged(v)   == IsHotPluggable(v) => online[v]

\* Writing to the file "online": the kernel keeps the last core online, and
\* writeFile() does not see that its write has failed.
LastOnline(v) == \A w \in Cores \ {v} : ~online[w]
WriteOnline(v, value) ==
  /\ online' = [online EXCEPT ![v] = value \/ (@ /\ LastOnline(v))]
  /\ refused' = IF ~value /\ online[v] /\ LastOnline(v) THEN refused \cup {v} ELSE refused

Idle == [op |-> "none", todo |-> <<>>, writes |-> <<>>, value |-> 0, old |-> 0, step |-> "idle"]

Init ==
  /\ machine \in Machines
  /\ cpus = BuildCpuVector(Coordinates(machine))
  /\ remote = <<>>
  /\ online = [v \in Cores |-> TRUE]
  /\ reg = machine.found
  /\ call = Idle
  /\ point = [plugged |-> <<>>, clockModulation |-> <<>>, inPeace |-> TRUE]
  /\ calls = 0 /\ toggles = 0
  /\ disturbed = {} /\ garbled = {} /\ refused = {}
  /\ asked = [v \in Cores |-> GetClockModulation(v)]

(***************************************************************************)
(* Operations.  Each visits the cores of its unit one after the other.     *)
(***************************************************************************)

\* The caller begins an operation that visits the cores of todo.
Begin(op, todo, value, step) ==
  /\ call.step = "idle"
  /\ calls < MaxCalls /\ machine \in CalledMachines
  /\ call' = [Idle EXCEPT !.op = op, !.todo = todo, !.value = value, !.step = step]
  /\ calls' = calls + 1
  /\ disturbed' = {} /\ refused' = {}
  /\ UNCHANGED <<machineVars, remote, online, reg, toggles, garbled, asked>>

HotPlug(u) == Begin("hotPlug", u, 0, "plug") /\ UNCHANGED point
HotUnplug(u) == Begin("hotUnplug", u, 0, "plug") /\ UNCHANGED point
SetClockModulation(u, value) == Begin("set", u, value, "check") /\ UNCHANGED point
GetRollbackPoint ==
  /\ Begin("point", Ids, 0, "save")
  /\ point' = [plugged |-> <<>>, clockModulation |-> <<>>, inPeace |-> TRUE]
Rollback ==
  /\ Len(point.clockModulation) = Len(Ids)
  /\ Begin("rollback", Ids, 0, "restore")
  /\ UNCHANGED point

\* The step with which an operation comes to its next core.
FirstStep == [hotPlug |-> "plug", hotUnplug |-> "plug", set |-> "check",
              point |-> "save", rollback |-> "restore"]

\* The operation moves to its next core, or returns.
Visited ==
  LET rest == Tail(call.todo)
  IN  IF rest = <<>> THEN [Idle EXCEPT !.op = call.op]
      ELSE [call EXCEPT !.todo = rest, !.writes = <<>>, !.step = FirstStep[call.op]]

\* hotPlug() and hotUnplug() of a virtual core.
Plug ==
  /\ call.step = "plug"
  /\ LET v == Head(call.todo)
     IN  IF IsHotPluggable(v) THEN WriteOnline(v, call.op = "hotPlug")
         ELSE UNCHANGED <<online, refused>>
  /\ call' = Visited
  /\ UNCHANGED <<machineVars, remote, reg, point, calls, toggles, disturbed, garbled, asked>>

\* The test of setClockModulation(): a value that is not offered is an
\* exception, which ends the whole operation.
Check ==
  /\ call.step = "check"
  /\ call' = IF call.value \in ClkModValues
             THEN [call EXCEPT !.writes = Writes(call.value), !.step = "read"]
             ELSE [Idle EXCEPT !.op = "thrown"]
  /\ UNCHANGED <<machineVars, remote, online, reg, point, calls, toggles, ghosts>>

\* writeBits() reads the register; if that fails oldValue is uninitialised.
ReadOld ==
  /\ call.step = "read"
  /\ LET v == Head(call.todo)
     IN  \E old \in IF Accessible(v) THEN {reg[v]} ELSE Garbage :
            call' = [call EXCEPT !.old = old, !.step = "write"]
  /\ UNCHANGED <<machineVars, remote, online, reg, point, calls, toggles, ghosts>>

\* writeBits() writes the register; nobody looks at its result.
WriteNew ==
  /\ call.step = "write"
  /\ LET v    == Head(call.todo)
         w    == Head(call.writes)
         more == Len(call.writes) > 1
     IN  /\ reg' = IF Accessible(v) THEN [reg EXCEPT ![v] = WithBits(call.old, w.high, w.low, w.value)] ELSE reg
         /\ asked' = IF Accessible(v) /\ ~more THEN [asked EXCEPT ![v] = call.value] ELSE asked
         /\ call' = IF more THEN [call EXCEPT !.writes = Tail(@), !.step = "read"] ELSE Visited
  /\ UNCHANGED <<machineVars, remote, online, point, calls, toggles, disturbed, garbled, refused>>

\* getRollbackPoint(): isHotPlugged() of a core, ...
SavePlugged ==
  /\ call.step = "save"
  /\ point' = [point EXCEPT !.plugged = Append(@, IsHotPlugged(Head(call.todo)))]
  /\ call' = [call EXCEPT !.step = "enabled"]
  /\ UNCHANGED <<machineVars, remote, online, reg, calls, toggles, ghosts>>

\* ... then the first read of getClockModulation(), which returns 100% if
\* modulation is off or the read fails, ...
SaveEnabled ==
  /\ call.step = "enabled"
  /\ LET v == Head(call.todo)
     IN  IF Accessible(v) /\ Field(reg[v], 4, 4) = 1
         THEN call' = [call EXCEPT !.step = "duty"] /\ UNCHANGED point
         ELSE /\ call' = Visited
              /\ point' = [point EXCEPT !.clockModulation = Append(@, Full)]
  /\ UNCHANGED <<machineVars, remote, online, reg, calls, toggles, ghosts>>

\* ... and the second one, which yields 0 if it fails.
SaveDuty ==
  /\ call.step = "duty"
  /\ LET v == Head(call.todo)
     IN  point' = [point EXCEPT !.clockModulation =
                     Append(@, IF Accessible(v) THEN Field(reg[v], 3, ClkModLowBit) ELSE 0)]
  /\ call' = Visited
  /\ UNCHANGED <<machineVars, remote, online, reg, calls, toggles, ghosts>>

\* Mutant: rollback() only plugs what was plugged.
RestoreOnlyPlugs ==
  /\ call.step = "restore"
  /\ LET v == Head(call.todo)
         i == Len(Ids) - Len(call.todo) + 1
     IN  /\ IF IsHotPluggable(v) /\ point.plugged[i] THEN WriteOnline(v, TRUE)
            ELSE UNCHANGED <<online, refused>>
         /\ call' = [call EXCEPT !.value = point.clockModulation[i], !.step = "check"]
  /\ UNCHANGED <<machineVars, remote, reg, point, calls, toggles, disturbed, garbled, asked>>

\* rollback() brings a core back online or offline, and then sets its
\* modulation, which has no effect on a core that is offline.
RestorePlugged ==
  /\ call.step = "restore"
  /\ LET v == Head(call.todo)
         i == Len(Ids) - Len(call.todo) + 1
     IN  /\ IF IsHotPluggable(v) /\ IsHotPlugged(v) # point.plugged[i]
            THEN WriteOnline(v, point.plugged[i])
            ELSE UNCHANGED <<online, refused>>
         /\ call' = IF HasClockModulation(v)
                    THEN [call EXCEPT !.value = point.clockModulation[i], !.step = "check"]
                    ELSE Visited
  /\ UNCHANGED <<machineVars, remote, reg, point, calls, toggles, disturbed, garbled, asked>>

\* Another program plugs or unplugs a core.
Toggle(v) ==
  /\ toggles < MaxToggles /\ machine \in CalledMachines
  /\ IsHotPluggable(v)
  /\ online[v] => ~LastOnline(v)
  /\ online' = [online EXCEPT ![v] = ~@]
  /\ toggles' = toggles + 1
  /\ disturbed' = disturbed \cup {v}
  /\ garbled' = IF call.step \in {"read", "write"} /\ Head(call.todo) = v
                THEN garbled \cup {v} ELSE garbled
  /\ point' = IF call.op = "point" /\ call.step # "idle" THEN [point EXCEPT !.inPeace = FALSE] ELSE point
  /\ UNCHANGED <<machineVars, remote, reg, call, calls, refused, asked>>

\* A client asks for the topology of this machine and builds its own.
GetTopology ==
  /\ remote = <<>>
  /\ remote' = RemoteTopology(GetTopologyRes(cpus))
  /\ UNCHANGED <<machineVars, online, reg, call, point, calls, toggles, ghosts>>

Next ==
  \/ \E u \in Units(cpus) :
        HotPlug(u) \/ HotUnplug(u) \/ (\E value \in CallValues : SetClockModulation(u, value))
  \/ GetRollbackPoint \/ Rollback
  \/ Plug \/ Check \/ ReadOld \/ WriteNew
  \/ SavePlugged \/ SaveEnabled \/ SaveDuty \/ RestorePlugged
  \/ \E v \in Cores : Toggle(v)
  \/ GetTopology

Spec == Init /\ [][Next]_vars

(***************************************************************************)
(* Properties.                                                             *)
(***************************************************************************)

\* The virtual cores that were online are grouped as the hardware groups
\* them, although core_id repeats across packages and cores may be missing:
\* each appears once, two share a CPU iff they share a package and a physical
\* core iff they share package and core_id, the identifier of a physical core
\* leads back to the core that holds them, and the helpers that count physical
\* cores take one virtual core of each.
GroupsFollowHardware ==
  LET all  == VirtualCores(cpus)
      phys == PhysicalCores(cpus)
      Same(v, w) == machine.package[v] = machine.package[w] /\ machine.core[v] = machine.core[w]
      Members(p) == {v.virtualCoreId : v \in ToSet(p.virtualCores)}
  IN  /\ IsInjective(Ids) /\ ToSet(Ids) = Cores
      /\ \A i \in DOMAIN cpus :
            {v.virtualCoreId : v \in ToSet(VirtualCoresFromPhysicalCores(cpus[i]))}
              = {w \in Cores : machine.package[w] = cpus[i].cpuId}
      /\ \A i \in DOMAIN all :
            Members(GetPhysicalCore(cpus, all[i].physicalCoreId))
              = {w \in Cores : Same(all[i].virtualCoreId, w)}
      /\ ToSet(VirtualToPhysical(cpus, all)) = ToSet(phys)
      /\ Len(GetOneVirtualPerPhysical(all)) = Len(phys)

\* The topology of a client has the CPUs, physical and virtual cores of the
\* server's, with the same identifiers and in the same order, though it is
\* built from a list in which the cores are no longer sorted.
RemoteMirrorsServer == remote # <<>> => remote = cpus

\* Between operations a core reports the modulation that was last set on it
\* while it was online, or was found there, whichever unit it was set through and whatever the
\* register held, unless others toggled the core between two accesses to
\* its register.
ReportsWhatWasSet ==
  call.step = "idle" =>
    \A v \in Cores \ garbled : online[v] => GetClockModulation(v) = asked[v]

\* A rollback brings every core back online or offline and to the modulation
\* it had when the point was taken, unless others toggle cores during one of
\* the two or the kernel refuses to take the last core offline; and it
\* completes unless cores were toggled while the point was taken or between
\* two accesses to a register.
RollbackRestoresCores ==
  /\ call = [Idle EXCEPT !.op = "rollback"] /\ point.inPeace /\ disturbed = {} /\ refused = {}
       => \A i \in DOMAIN Ids :
            /\ IsHotPlugged(Ids[i]) = point.plugged[i]
            /\ GetClockModulation(Ids[i]) = point.clockModulation[i]
  /\ call.op = "thrown" => ~point.inPeace \/ garbled # {}
=============================================================================
