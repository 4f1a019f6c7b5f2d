--------------------------- MODULE RemoteModules ---------------------------
(***************************************************************************)
(* Objects of a client whose modules are proxies of those of a server: two *)
(* Mammut objects that share a communicator, what they ask the modules of  *)
(* the servant of their connection, and the power caps of a local Energy.  *)
(*                                                                         *)
(* A step is one remote call, which RemoteCall shows to be executed once   *)
(* and one at a time.  A constructor is a sequence of them, between which  *)
(* time passes.                                                            *)
(***************************************************************************)
EXTENDS EnergyModule, FreqModule, TopologyModule

CONSTANTS
  Machines,  \* the machines, and what the client is interested in
  Objects,   \* the Mammut objects
  MaxBegun,  \* bound: calls of the client
  MaxTicks   \* bound: the time

\* Cores, processors and idle levels are finitely many numbers, and power caps
\* are for zones of some sockets.
IsMachine(m) ==
  /\ m.cores \subseteq Nat /\ IsFiniteSet(m.cores) /\ m.cores # {} /\ m.ticking \subseteq m.cores
  /\ m.levels \subseteq Nat /\ IsFiniteSet(m.levels) /\ m.since \in Nat
  /\ m.cpus \subseteq Nat /\ IsFiniteSet(m.cpus) /\ m.watts \subseteq Nat
  /\ {m.dram, m.faults, m.domains} \subseteq BOOLEAN
  /\ m.zones \in Seq(CounterTypes) /\ m.sockets \in Nat \ {0}

ASSUME MachinesAssumption == MaxTicks \in Nat /\ \A m \in Machines : IsMachine(m)

VARIABLES
  machine,
  world,   \* energy, idle times and files of the machine
  servant,  \* the servant: its status and its modules
  cl,      \* the modules of each client object
  caps, point, \* power caps, and the last rollback point
  call,    \* the call under way: requests still to be sent, answers so far
  last,    \* what the last call came to
  own,     \* ghost: what each object has reset, and nobody else since
  begun

proxyVars == <<machine, world, servant, cl, caps, point, call, last, own, begun>>

\* checkDependencies()
CheckDependencies(mask) == ("cpufreq" \in mask => "topology" \in mask) /\ ("energy" \in mask => "topology" \in mask)

NoModules == [topology |-> FALSE, energy |-> FALSE, cpufreq |-> FALSE, counters |-> {}]
NoCall == [op |-> "none", k |-> 0, todo |-> <<>>, sent |-> 0, arg |-> 0, acc |-> 0, counters |-> {}, from |-> 0, was |-> 0]
NoResult == [op |-> "none", k |-> 0, status |-> "ok", val |-> 0, due |-> <<>>, req |-> <<>>, sent |-> 0, was |-> 0]

\* The machine has been up for m.since, in which its cores were idle.
World(watts, m) ==
  [now |-> 1, joules |-> watts, watts |-> watts, seen |-> {watts}, sample |-> [joules |-> 0, at |-> 0, watts |-> watts],
   online |-> m.cores, idle |-> [v \in m.cores |-> m.since],
   time |-> [v \in m.cores |-> [l \in m.levels |-> m.since]], count |-> [v \in m.cores |-> [l \in m.levels |-> m.since]], disabled |-> {}]

\* Servant::Servant(): the modules of the connection.
Servant(m, w) ==
  [status |-> "up", energy |-> Energy(m, w), topology |-> TopologyNew(m, w),
   cpufreq |-> [domains |-> m.domains, boost |-> m.boost]]

ProxyInit ==
  /\ machine \in {m \in Machines : CheckDependencies(m.mask)}
  /\ \E watts \in machine.watts : world = World(watts, machine)
  /\ servant = Servant(machine, world)
  /\ cl = [k \in Objects |-> NoModules]
  /\ caps = [zone \in Range(machine.zones) |-> [s \in 0..(machine.sockets - 1) |-> [watts |-> [i \in {0, 1} |-> 9], enabled |-> TRUE]]]
  /\ point = CapsPoint(caps)
  /\ call = NoCall /\ last = NoResult /\ begun = 0
  /\ own = [k \in Objects |-> <<>>]

(***************************************************************************)
(* The machine.                                                            *)
(***************************************************************************)

\* Idle times, and a table of times or counts, after a tick in which cores were
\* idle in the level l.
Idled(f, cores)    == [v \in DOMAIN f |-> IF v \in cores THEN f[v] + 1 ELSE f[v]]
Grown(f, cores, l) == [v \in DOMAIN f |-> IF v \in cores THEN [f[v] EXCEPT ![l] = @ + 1] ELSE f[v]]

\* Time passes: one core at most is idle, in a level, and the power changes.
Tick(watts, cores, l) ==
  /\ world.now < MaxTicks /\ machine.interest \cap {"counters", "idle", "levels"} # {}
  /\ world' = [world EXCEPT !.now = @ + 1, !.joules = @ + world.watts, !.watts = watts, !.seen = @ \cup {watts},
                            !.idle = Idled(@, cores), !.time = Grown(@, cores, l), !.count = Grown(@, cores, l)]
  /\ UNCHANGED <<machine, servant, cl, caps, point, call, last, own, begun>>

\* Amester takes a sample.
Sample ==
  /\ machine.amester \/ "amester" \in machine.plugs
  /\ world' = [world EXCEPT !.sample = [joules |-> world.joules, at |-> world.now, watts |-> world.watts]]
  /\ UNCHANGED <<machine, servant, cl, caps, point, call, last, own, begun>>

(***************************************************************************)
(* What an object has reset itself.  An entry is lost when another object  *)
(* resets the same, or when one is made whose constructor does.            *)
(***************************************************************************)
Without(f, key) == [x \in DOMAIN f \ {key} |-> f[x]]
Lose(key) == [k \in Objects |-> Without(own[k], key)]
With(f, key, value) == [x \in DOMAIN f \cup {key} |-> IF x = key THEN value ELSE f[x]]
Hold(key, value) == [Lose(key) EXCEPT ![call.k] = With(@, key, value)]

Key(req) == IF req.module = "energy" THEN <<"counter", req.type>>
            ELSE IF req.cmd \in {"GetIdleTime", "ResetIdleTime"} THEN <<"idle", req.v>>
            ELSE IF req.cmd \in {"GetTime", "ResetTime"} THEN <<"time", req.v, req.l>>
            ELSE <<"count", req.v, req.l>>

\* The requests that may change what a counter counts from: the one for INA231
\* returns the energy since its last reading, and the init() of the memory of
\* the registers does nothing.  Those after which it counts from now: the init()
\* of the processors' counters, and no other, resets them.
Touches(req) ==
  LET kind == servant.energy[req.type].kind
  IN  req.cmd = "RESET" \/ (req.cmd = "INIT" /\ kind # "dram") \/ (req.cmd = "GET" /\ kind = "ina")
Restarts(req, o) == req.cmd = "RESET" \/ (req.cmd = "INIT" /\ servant.energy[req.type].kind = "rapl" /\ o.val)

Owned(req, o) ==
  LET keeps == req.cmd \in {"ResetIdleTime", "ResetTime", "ResetCount"}
      mine == call.op = "newTopology" \/ call.op \notin {"newEnergy", "newCpuFreq"}
      value == CASE req.cmd = "ResetTime" -> world.time[req.v][req.l]
                 [] req.cmd = "ResetCount" -> world.count[req.v][req.l]
                 [] req.cmd = "ResetIdleTime" -> [idle |-> world.idle[req.v], lines |-> StatLines(req.v, world)]
                 [] OTHER -> [joules |-> world.joules, at |-> world.now]
  IN  IF o.status = "ok" /\ req.module = "topology" /\ keeps THEN (IF mine THEN Hold(Key(req), value) ELSE Lose(Key(req)))
      ELSE IF req.module = "energy" /\ Touches(req) THEN (IF o.status = "ok" /\ Restarts(req, o) THEN Hold(Key(req), value) ELSE Lose(Key(req)))
      ELSE own

\* The least and the most that a reading may be which counts from the reset of
\* the object that reads, none if it need not.
Due(req, from) ==
  IF req.module = "energy" /\ req.cmd = "GET" /\ Key(req) \in DOMAIN own[call.k]
  THEN LET base == own[call.k][Key(req)]
           kind == servant.energy[req.type].kind
           elapsed == world.now - base.at
       IN  CASE kind = "dram" /\ ~machine.dram -> <<0, 0>>
             [] kind \in {"rapl", "smartgauge"} \/ (kind = "dram" /\ machine.dram) -> <<from - base.joules, world.joules - base.joules>>
             [] kind = "amester" /\ Cardinality(world.seen) > 1 -> <<>>
             [] kind = "smartpower2" -> <<0, Max(world.seen) * elapsed>>
             [] OTHER -> <<Min(world.seen) * elapsed, Max(world.seen) * elapsed>>
  ELSE IF req.cmd \in {"GetIdleTime", "GetTime", "GetCount"} /\ Key(req) \in DOMAIN own[call.k]
  THEN LET base == own[call.k][Key(req)]
       IN  CASE req.cmd = "GetTime" -> <<(world.time[req.v][req.l] - base) % W>>
             [] req.cmd = "GetCount" -> <<(world.count[req.v][req.l] - base) % W>>
             [] req.cmd = "GetIdleTime" /\ {base.lines, StatLines(req.v, world)} # {{req.v}} -> <<>>
             [] OTHER -> <<world.idle[req.v] - base.idle - (IF StringToInt(world.idle[req.v]) < StringToInt(base.idle) THEN W ELSE 0)>>
  ELSE <<>>

(***************************************************************************)
(* Calls.                                                                  *)
(***************************************************************************)

\* The client may make a call of a family that it is interested in.
Ready(family) == family \in machine.interest /\ call.op = "none" /\ servant.status = "up" /\ begun < MaxBegun

\* The client begins a call, which sends the requests of todo.
Begin(family, k, op, todo, arg) ==
  /\ Ready(family) /\ begun' = begun + 1
  /\ call' = [NoCall EXCEPT !.op = op, !.k = k, !.todo = todo, !.arg = arg, !.from = world.joules, !.was = caps]
  /\ last' = NoResult
  /\ UNCHANGED <<machine, world, servant, cl, caps, point, own>>

\* A call that sends nothing.
Return(family, k, op, status, val) ==
  /\ Ready(family) /\ begun' = begun + 1
  /\ last' = [NoResult EXCEPT !.op = op, !.k = k, !.status = status, !.val = val]
  /\ UNCHANGED <<machine, world, caps, point, call, own>>

\* Servant::run(): the request is given to its module, if that is activated.
Answers(req) ==
  LET of(o, module) == [status |-> o.status, val |-> o.val, servant |-> [servant EXCEPT ![module] = o.module], world |-> world, caps |-> caps]
      same(status)  == [status |-> status, val |-> 0, servant |-> servant, world |-> world, caps |-> caps]
  IN  CASE req.module = "caps" -> {[same(o.status) EXCEPT !.caps = o.module] : o \in SetCap(req, caps)}
        [] req.module # "caps" /\ req.module \notin machine.mask -> {same("thrown")}
        [] req.module = "energy" /\ "energy" \in machine.mask ->
             {of(o, "energy") : o \in EnergyProcessMessage(req, servant.energy, world, machine)}
        [] req.module = "cpufreq" /\ "cpufreq" \in machine.mask ->
             {of(o, "cpufreq") : o \in {FreqProcessMessage(req, servant.cpufreq)} \cup FreqFaults(req, servant.cpufreq, machine)}
        [] req.module = "topology" /\ "topology" \in machine.mask ->
             {[of(o, "topology") EXCEPT !.world = o.world] :
                o \in {TopologyProcessMessage(req, servant.topology, world, machine)} \cup TopologyFaults(req, servant.topology, world, machine)}

\* Requests that an answer makes a constructor send: the plug counter is reset
\* once it is known to be there.
Follow(req, val) ==
  IF req.module = "topology" THEN TopologyFollow(req, val)
  ELSE IF call.op = "newEnergy" /\ req.cmd = "INIT" /\ req.type = "plug" /\ val THEN <<EnergyReq("RESET", "plug")>>
  ELSE <<>>

\* What the call makes of the answers: a getter of the counter of the
\* processors adds them up, or takes the one of its processor.
Accumulate(req, val) ==
  IF req.module = "energy" /\ req.cmd = "GET" /\ req.type = "cpus"
  THEN CASE call.op = "getJoulesComponents" -> CpusTotal(val)
         [] call.op = "getJoulesCpu" -> val[call.arg]
         [] call.op = "getJoulesCpuAll" -> call.acc + val[SetToSeq(machine.cpus)[call.sent + 1]]
  ELSE val

\* How many times the energy of the machine a getter counts.
Share == CASE call.op \in {"getJoulesComponents", "getJoulesCpuAll"} -> CpusTotal([cpu \in machine.cpus |-> cpu + 1])
           [] call.op = "getJoulesCpu" -> call.arg + 1
           [] OTHER -> 1

\* The objects that a call leaves which is done.
Made(counters) ==
  CASE call.op = "newTopology" -> [cl EXCEPT ![call.k].topology = TRUE]
    [] call.op = "newEnergy" -> [cl EXCEPT ![call.k].energy = TRUE, ![call.k].counters = counters]
    [] call.op = "newCpuFreq" -> [cl EXCEPT ![call.k].cpufreq = TRUE]
    [] OTHER -> cl

\* Communicator::remoteCall(): the next request is sent, and answered.
Serve ==
  /\ call.op # "none" /\ call.todo # <<>>
  /\ \E o \in Answers(Head(call.todo)) :
       LET req  == Head(call.todo)
           todo == IF o.status = "ok" THEN Follow(req, o.val) \o Tail(call.todo) ELSE <<>>
           acc  == IF o.status = "ok" THEN Accumulate(req, o.val) ELSE 0
           counters == IF req.module = "energy" /\ req.cmd = "INIT" /\ o.val THEN call.counters \cup {req.type} ELSE call.counters
           due  == Due(req, call.from)
       IN  /\ servant' = IF o.status \in {"died", "stuck"} THEN [o.servant EXCEPT !.status = o.status] ELSE o.servant
           /\ world' = o.world /\ caps' = o.caps /\ own' = Owned(req, o)
           /\ IF todo # <<>>
              THEN /\ call' = [call EXCEPT !.todo = todo, !.sent = @ + 1, !.acc = acc, !.counters = counters]
                   /\ UNCHANGED <<cl, last>>
              ELSE /\ call' = NoCall
                   /\ cl' = IF o.status = "ok" THEN Made(counters) ELSE cl
                   /\ last' = [op |-> call.op, k |-> call.k, status |-> o.status, val |-> acc, req |-> req, sent |-> call.sent, was |-> call.was,
                               due |-> IF req.module = "energy" THEN [i \in DOMAIN due |-> Share * due[i]] ELSE due]
  /\ UNCHANGED <<machine, point, begun>>

(***************************************************************************)
(* Mammut: the modules of an object are made when they are asked for first *)
(* and released together.                                                  *)
(***************************************************************************)
NewTopology(k) == ~cl[k].topology /\ Begin("topology", k, "newTopology", <<CoreReq("GetTopology", 0)>>, 0)
NewEnergy(k) ==
  ~cl[k].energy /\ Begin("energy", k, "newEnergy", NewEnergyBefore \o <<CoreReq("GetTopology", 0)>> \o NewEnergyAfter, 0)

\* CpuFreqRemote makes no DomainRemote: the server ends if there are domains.
NewCpuFreq(k) == ~cl[k].cpufreq /\ Begin("cpufreq", k, "newCpuFreq", <<FreqReq("GetDomains", 0), CoreReq("GetTopology", 0)>>, 0)

\* There are no remote tasks: a pointer to an exception is thrown.
GetInstanceTask(k) == Return("facade", k, "getInstanceTask", "pointer thrown", 0) /\ UNCHANGED <<servant, cl>>

\* The destructor of a remote Energy deletes power cappers that nobody has set.
ReleaseModules(k) ==
  /\ cl[k] # NoModules
  /\ \E status \in {"ok"} \cup (IF cl[k].energy THEN {"crashed"} ELSE {}) :
       /\ Return("facade", k, "releaseModules", status, 0)
       /\ servant' = IF status = "crashed" THEN [servant EXCEPT !.status = "abandoned"] ELSE servant
  /\ cl' = [cl EXCEPT ![k] = NoModules]

(***************************************************************************)
(* The operations of the modules.                                          *)
(***************************************************************************)
EnergyOp(k, type) ==
  /\ cl[k].energy /\ type \in cl[k].counters
  /\ \/ Begin("counters", k, "reset", <<EnergyReq("RESET", type)>>, 0)
     \/ type # "cpus" /\ Begin("counters", k, "getJoules", <<EnergyReq("GET", type)>>, 0)
     \/ type = "cpus" /\ Begin("counters", k, "getJoulesComponents", <<EnergyReq("GET", type)>>, 0)
     \/ type = "cpus" /\ Begin("counters", k, "getJoulesCpuAll", GetJoulesAll(machine), 0)
     \/ \E cpu \in machine.cpus : type = "cpus" /\ Begin("counters", k, "getJoulesCpu", <<EnergyReq("GET", type)>>, cpu)

\* getCounter() without a type.
DefaultCounter(k) ==
  /\ cl[k].energy
  /\ Return("counters", k, "getCounter", "ok", GetCounter([type \in CounterTypes |-> type \in cl[k].counters]))
  /\ UNCHANGED <<servant, cl>>

CoreOp(k, v, cmd) == cl[k].topology /\ Begin(IF cmd \in {"GetIdleTime", "ResetIdleTime", "HotPlug", "HotUnplug"} THEN "idle" ELSE "cores",
                                             k, cmd, <<CoreReq(cmd, v)>>, 0)
LevelOp(k, v, l, cmd) == cl[k].topology /\ Begin("levels", k, cmd, <<LevelReq(cmd, v, l)>>, 0)
UnitOp(k, cmd, type, id) == cl[k].topology /\ Begin("cores", k, cmd, <<UnitReq(cmd, type, id)>>, 0)

\* The functions of clock modulation are not supported by a remote core.
ClockModulation(k) == cl[k].topology /\ Return("cores", k, "clockModulation", "thrown", 0) /\ UNCHANGED <<servant, cl>>

BoostOp(k, cmd) == cl[k].cpufreq /\ Begin("boost", k, cmd, <<FreqReq(cmd, 0)>>, 0)

\* The power caps of a local Energy.
CapOp(zone, cap) ==
  /\ zone \in Range(machine.zones)
  /\ \/ Begin("caps", 0, "set", SetAllReqs(zone, machine.sockets, cap), [zone |-> zone, cap |-> cap])
     \/ \E s \in 0..(machine.sockets - 1) :
          \/ Begin("caps", 0, "setSocket", SetSocketReqs(zone, s, cap), 0)
          \/ \E i \in {0, 1} : Begin("caps", 0, "setWindow", <<CapReq(zone, i, s, cap)>>, 0)
GetRollbackPoint ==
  /\ Ready("caps") /\ begun' = begun + 1
  /\ \E status \in {"ok", "thrown"} :
       /\ last' = [NoResult EXCEPT !.op = "getRollbackPoint", !.status = status]
       /\ point' = IF status = "ok" THEN CapsPoint(caps) ELSE point
  /\ UNCHANGED <<machine, world, servant, cl, caps, call, own>>
RollbackCaps == Begin("caps", 0, "rollback", RollbackReqs(point, machine.zones, machine.sockets), 0)

ProxyNext ==
  \/ \E watts \in machine.watts, l \in machine.levels \cup {0} :
       \E cores \in {{}} \cup {{v} : v \in machine.ticking} : Tick(watts, cores, l)
  \/ Sample \/ Serve \/ GetRollbackPoint \/ RollbackCaps
  \/ \E zone \in CounterTypes, cap \in [value : {2, 4}, preparedOnly : BOOLEAN] : CapOp(zone, cap)
  \/ \E k \in Objects :
       \/ NewTopology(k) \/ NewEnergy(k) \/ NewCpuFreq(k) \/ GetInstanceTask(k) \/ ReleaseModules(k)
       \/ \E type \in CounterTypes : EnergyOp(k, type)
       \/ DefaultCounter(k) \/ ClockModulation(k)
       \/ \E v \in machine.cores :
            \/ \E cmd \in CoreCmds \ {"IdleLevelsGet"} : CoreOp(k, v, cmd)
            \/ \E l \in machine.levels, cmd \in LevelCmds : LevelOp(k, v, l, cmd)
            \/ \E cmd \in {"Maximize", "Reset"}, type \in {"physical", "virtual"} : UnitOp(k, cmd, type, v)
       \/ \E cmd \in {"Maximize", "Reset"}, type \in {"topology", "cpu"} : UnitOp(k, cmd, type, 0)
       \/ \E cmd \in CpuCmds : UnitOp(k, cmd, "cpu", 0)
       \/ \E cmd \in {"IsBoostingSupported", "IsBoostingEnabled", "EnableBoosting", "DisableBoosting"} : BoostOp(k, cmd)

ProxySpec == ProxyInit /\ [][ProxyNext]_proxyVars

(***************************************************************************)
(* Properties.                                                             *)
(***************************************************************************)

\* What a counter returns to an object that has reset it is the energy since
\* then: exactly, or for a counter that multiplies power and time between the
\* least and the most that its powers make of that time (a line of a
\* SmartPower2 may be cut short, and counts as 0).  This holds as long as no
\* other object of the connection has reset the counter or been made, the
\* power that Amester shows did not change, and the counter for INA231 was not
\* read before.  A device that fails in the meantime, or an object whose init()
\* fails, changes nothing of it.  The counter of the memory returns 0 where the
\* registers are there but none of the memory is.
OwnResetCounts ==
  last.status = "ok" /\ last.due # <<>> /\ last.req.module = "energy" =>
    last.due[1] <= last.val /\ last.val <= last.due[2]

\* The idle time of a core, and the time and the count of its levels, count
\* from the last reset by the object that reads them, modulo 2^32, although
\* the baseline is kept by the server; as long as no topology has been made
\* over the connection since, by getInstanceEnergy() or getInstanceCpuFreq()
\* too.  The idle time falls short by 2^32 when it has passed 2^31, and is
\* that of another core if the identifier of one begins with that of the core.
IdleSinceReset ==
  last.status = "ok" /\ last.due # <<>> /\ last.req.module = "topology" => last.val = last.due[1]

\* The requests for counters that end the server, and those that throw, when
\* what they read is no longer there.
KnownEnds ==
  ({"INIT", "RESET", "GET"} \X {"amester"}) \cup {<<"GET", "smartpower2">>, <<"GET", "file">>, <<"INIT", "smartgauge">>}
KnownThrows ==
  ({"INIT", "RESET", "GET"} \X {"smartgauge", "rapl"}) \cup ({"RESET", "GET"} \X {"dram"})
    \cup {<<"INIT", "ina">>, <<"GET", "ina">>, <<"GET", "file">>}

\* A call that fails does so for a reason that lies outside of the modules, or
\* is one of the failures known.  With files and devices that keep working the
\* server ends only when it is asked for its domains or for the components of a
\* counter of the processors that it has not, it reads a SmartPower2 that has
\* ended for ever, and a client ends when it releases a remote Energy.  When one
\* of them may fail, a counter answers with an exception or ends the server as
\* its kind has it, and a SmartGauge that another object has not found again
\* ends it at the next request.  A counter that was not found is never asked
\* for, and a constructor never finds that a module it needs is not activated
\* after another one has answered.
FailuresAreKnown ==
  LET kind == servant.energy[last.req.type].kind
  IN  CASE last.status \in {"ok", "pointer thrown"} -> TRUE
        [] last.status = "crashed" -> last.op = "releaseModules"
        [] last.status = "died" ->
             \/ last.req.cmd = "GetDomains" \/ (last.req.cmd = "HAS" /\ servant.energy.cpus.kind = "none")
             \/ machine.faults /\ last.req.module = "energy" /\ <<last.req.cmd, kind>> \in KnownEnds
             \/ machine.faults /\ last.req.module = "energy" /\ kind = "smartgauge" /\ ~servant.energy[last.req.type].dev
        [] last.status = "stuck" -> machine.eof /\ servant.energy.plug.kind = "smartpower2"
        [] last.status = "thrown" ->
             \/ last.op \in {"clockModulation", "set", "setSocket", "setWindow", "getRollbackPoint", "rollback"}
             \/ last.req.module \notin machine.mask /\ last.sent = 0
             \/ last.op \in {"Enable", "Disable"} /\ ~IsEnableable(last.req.l, machine)
             \/ last.op \in {"EnableBoosting", "DisableBoosting"} /\ machine.boost = "unsupported"
             \/ machine.faults /\ last.req.module = "energy" /\ <<last.req.cmd, kind>> \in KnownThrows
             \/ machine.faults /\ last.req.module = "cpufreq" /\ machine.boost # "unsupported"
             \/ machine.faults /\ last.req.module = "topology" /\ last.req.cmd \notin {"GetTopology", "IdleLevelsGet", "Reset"}

\* A rollback of the power caps that succeeds restores both windows of every
\* socket of every zone, and whether they are enabled; one that fails leaves
\* each of them restored or as it was.  A cap that is set for all the sockets
\* gives each of them its share, in both windows.
CapsRestored ==
  /\ last.op = "rollback" /\ last.status = "ok" => CapsPoint(caps) = point
  /\ last.op = "rollback" /\ last.status = "thrown" =>
       \A zone \in DOMAIN caps : \A s \in DOMAIN caps[zone] : \A i \in {0, 1} :
         caps[zone][s].watts[i] \in {last.was[zone][s].watts[i], point[zone][s][i].value}
  /\ last.op = "set" /\ last.status = "ok" =>
       \A s \in DOMAIN caps[last.req.zone], i \in {0, 1} : caps[last.req.zone][s].watts[i] = last.req.cap.value
=============================================================================
