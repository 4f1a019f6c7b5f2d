---------------------------- MODULE EnergyModule ----------------------------
(***************************************************************************)
(* The module Energy as it answers the requests of a client: the counters  *)
(* that it finds on a machine m and what they make of the energy that the  *)
(* world w has consumed, and the power caps.                               *)
(*                                                                         *)
(* A counter is the record of its members: last (_lastValue), at           *)
(* (_lastTimestamp, _lastRead, or _timeOffset for Amester), cum            *)
(* (_cumulativeJoules) and dev, whether its device is open.  The counters  *)
(* of the processors are taken to be exact meters, as RaplMsr and          *)
(* RaplSysFs show under their assumptions.  On a machine with m.faults     *)
(* files and devices that were found may fail from then on.                *)
(***************************************************************************)
EXTENDS Integers, Sequences, FiniteSets, SequencesExt, FiniteSetsExt

PlugKinds == <<"smartpower2", "smartgauge", "amester", "file", "ina">>

NoCounter == [kind |-> "none", last |-> 0, at |-> 0, cum |-> 0, dev |-> FALSE]

Reading(c, val) == [counter |-> c, val |-> val]

\* CounterAmesterLinux: the last sample, and the energy that the last power
\* makes of the time since then.  init() takes the sample to be of now.
GetAdjustedValue(c, w)  == w.sample.joules + w.sample.watts * (w.now - (w.sample.at + c.at))
InitAmester(c, w)      == [c EXCEPT !.last = w.sample.joules, !.at = w.now - w.sample.at]
ResetAmester(c, w)     == [c EXCEPT !.last = GetAdjustedValue(c, w)]
GetJoulesAmester(c, w) == Reading(c, GetAdjustedValue(c, w) - c.last)

\* CounterPlugSmartGaugeLinux.
InitSmartGauge(c, w)      == [c EXCEPT !.last = w.joules, !.dev = TRUE]
ResetSmartGauge(c, w)     == [c EXCEPT !.last = w.joules]
GetJoulesSmartGauge(c, w) == Reading(c, w.joules - c.last)

\* CounterPlugSmartPower2Linux: the powers that a reading may find are those of
\* the lines, read in the order in which they were written, however old they
\* are; a line that is cut short, or no file, stands for 0.
InitSmartPower2(c, w)     == [c EXCEPT !.at = w.now, !.dev = TRUE]
ResetSmartPower2(c, w)    == [c EXCEPT !.cum = 0, !.at = w.now]
GetWattsSmartPower2(c, w) == IF c.dev THEN w.seen \cup {0} ELSE {0}
GetJoulesSmartPower2(c, w, watts) ==
  LET cum == c.cum + watts * (w.now - c.at) IN Reading([c EXCEPT !.cum = cum, !.at = w.now], cum)

\* Mutant: the time of the last reading survives a reset.
ResetFileCumulative(c, w) == [c EXCEPT !.cum = 0]

\* CounterPlugFileLinux.
InitFile(c, w)     == [c EXCEPT !.at = w.now]
ResetFile(c, w)    == [c EXCEPT !.cum = 0, !.at = w.now]
GetWattsFile(c, w) == {w.watts}
GetJoulesFile(c, w, watts) ==
  LET cum == c.cum + watts * (w.now - c.at) IN Reading([c EXCEPT !.cum = cum, !.at = w.now], cum)

\* CounterPlugINALinux, which returns the energy since the last reading.
InitIna(c, w)     == [c EXCEPT !.at = w.now]
ResetIna(c, w)    == [c EXCEPT !.cum = 0, !.at = w.now]
GetWattsIna(c, w) == {w.watts}
GetJoulesIna(c, w, watts) ==
  LET j == watts * (w.now - c.at) IN Reading([c EXCEPT !.cum = @ + j, !.at = w.now], j)

\* The counters of the processors, and CounterMemoryRaplLinux, whose init()
\* looks whether there is one and no more.  Without a register of the memory on
\* every processor, as on all those of AMD, there are no joules of the memory.
ResetRapl(c, w)        == [c EXCEPT !.last = w.joules]
GetJoulesRapl(c, w)    == Reading(c, w.joules - c.last)
InitMemory(c, w)       == c
GetJoulesDram(c, w, m) == Reading(c, IF m.dram THEN w.joules - c.last ELSE 0)

\* The three operations of a Counter: getJoules() may leave several.
InitCounter(c, w) ==
  CASE c.kind = "amester" -> InitAmester(c, w)
    [] c.kind = "smartgauge" -> InitSmartGauge(c, w)
    [] c.kind = "smartpower2" -> InitSmartPower2(c, w)
    [] c.kind = "file" -> InitFile(c, w)
    [] c.kind = "ina" -> InitIna(c, w)
    [] c.kind = "rapl" -> ResetRapl(c, w)
    [] c.kind = "dram" -> InitMemory(c, w)

ResetCounter(c, w) ==
  CASE c.kind = "amester" -> ResetAmester(c, w)
    [] c.kind = "smartgauge" -> ResetSmartGauge(c, w)
    [] c.kind = "smartpower2" -> ResetSmartPower2(c, w)
    [] c.kind = "file" -> ResetFile(c, w)
    [] c.kind = "ina" -> ResetIna(c, w)
    [] c.kind \in {"rapl", "dram"} -> ResetRapl(c, w)

GetJoules(c, w, m) ==
  CASE c.kind = "amester" -> {GetJoulesAmester(c, w)}
    [] c.kind = "smartgauge" -> {GetJoulesSmartGauge(c, w)}
    [] c.kind = "smartpower2" -> {GetJoulesSmartPower2(c, w, watts) : watts \in GetWattsSmartPower2(c, w)}
    [] c.kind = "file" -> {GetJoulesFile(c, w, watts) : watts \in GetWattsFile(c, w)}
    [] c.kind = "ina" -> {GetJoulesIna(c, w, watts) : watts \in GetWattsIna(c, w)}
    [] c.kind = "rapl" -> {GetJoulesRapl(c, w)}
    [] c.kind = "dram" -> {GetJoulesDram(c, w, m)}

(***************************************************************************)
(* What they may come to when a file or a device has failed: init()        *)
(* returns FALSE, an exception is thrown which the servant answers, or the *)
(* server ends.  A reset of the registers that is cut short has set back   *)
(* those of some processors: the joules left are between the two.          *)
(***************************************************************************)
Outcome(c, status, val) == [counter |-> c, status |-> status, val |-> val]
Unavailable(c) == Outcome(c, "ok", FALSE)
Throws(c) == Outcome(c, "thrown", FALSE)
Dies(c)   == Outcome(c, "died", FALSE)

\* The handle of a SmartGauge that was not found again is used all the same.
NoDevice(c) == c.kind = "smartgauge" /\ ~c.dev

ResetCut(c, w) == {Throws([c EXCEPT !.last = joules]) : joules \in c.last..w.joules}

InitFails(c, w) ==
  CASE c.kind = "amester" -> {Unavailable(c), Dies(c)}
    [] c.kind = "smartgauge" -> {Unavailable([c EXCEPT !.dev = FALSE]), Throws([c EXCEPT !.dev = TRUE]), Dies(c)}
    [] c.kind = "smartpower2" -> {Unavailable([c EXCEPT !.dev = FALSE])}
    [] c.kind = "file" -> {Unavailable(c)}
    [] c.kind = "ina" -> {Unavailable([c EXCEPT !.at = w.now]), Throws([c EXCEPT !.at = w.now])}
    [] c.kind = "rapl" -> {Unavailable(c)} \cup ResetCut(c, w)
    [] c.kind = "dram" -> {}

ResetFails(c, w) ==
  CASE c.kind = "amester" -> {Dies(c)}
    [] c.kind = "smartgauge" -> {Throws(c)}
    [] c.kind \in {"smartpower2", "file", "ina"} -> {}
    [] c.kind \in {"rapl", "dram"} -> ResetCut(c, w)

\* A file or a line with something else than was expected ends the server.
GetJoulesFails(c, m) ==
  CASE c.kind \in {"amester", "smartpower2"} -> {Dies(c)}
    [] c.kind = "file" -> {Throws(c), Dies(c)}
    [] c.kind \in {"smartgauge", "ina", "rapl"} -> {Throws(c)}
    [] c.kind = "dram" -> IF m.dram THEN {Throws(c)} ELSE {}

(***************************************************************************)
(* Energy::Energy(): the first plug counter in the order of PlugKinds that *)
(* is there, and the counters of the processors and of the memory.         *)
(***************************************************************************)
NewCounter(kind, w) == InitCounter([NoCounter EXCEPT !.kind = kind], w)
FirstPlug(m, w) ==
  LET first == SelectInSeq(PlugKinds, LAMBDA kind : kind \in m.plugs)
  IN  IF first = 0 THEN NoCounter ELSE NewCounter(PlugKinds[first], w)
FirstCpus(m, w) == IF m.sysfs \/ m.msr THEN NewCounter("rapl", w) ELSE NoCounter
FirstMemory(m, w) ==
  IF m.msr THEN [NewCounter("dram", w) EXCEPT !.last = w.joules]
  ELSE IF m.amester THEN NewCounter("amester", w) ELSE NoCounter
Energy(m, w) == [plug |-> FirstPlug(m, w), cpus |-> FirstCpus(m, w), memory |-> FirstMemory(m, w)]

CounterTypes == {"cpus", "memory", "plug"}

\* getCountersTypes() and getCounter(): the most precise of those there are.
GetCounter(e) == IF e.cpus THEN "cpus" ELSE IF e.memory THEN "memory" ELSE IF e.plug THEN "plug" ELSE "none"

(***************************************************************************)
(* Energy::processMessage(): the states that it may leave the counters e   *)
(* in, with its answer.  A request for a counter that is not there ends    *)
(* the server, except the one that asks for it.                            *)
(***************************************************************************)
EnergyReq(cmd, type) == [module |-> "energy", cmd |-> cmd, type |-> type]

\* What can go wrong on the machine does, or not.
Faults(outcomes, m) == IF m.faults THEN outcomes ELSE {}

\* Mutant: a counter that is not there is taken to be initialised.
NoCounterInitialised(c) == {Outcome(c, "ok", TRUE)}
NoCounterInit(c) == {Unavailable(c)}

InitMessage(c, w, m) ==
  IF c.kind = "none" THEN NoCounterInit(c)
  ELSE {Outcome(InitCounter(c, w), "ok", TRUE)} \cup Faults(InitFails(c, w), m)

ResetMessage(c, w, m) ==
  IF c.kind = "none" \/ NoDevice(c) THEN {Dies(c)}
  ELSE {Outcome(ResetCounter(c, w), "ok", TRUE)} \cup Faults(ResetFails(c, w), m)

\* The values of the processors, or the one of the counter.
GetMessage(type, c, w, m) ==
  IF c.kind = "none" \/ NoDevice(c) THEN {Dies(c)}
  ELSE {Outcome(r.counter, "ok", IF type = "cpus" THEN [cpu \in m.cpus |-> (cpu + 1) * r.val] ELSE r.val) : r \in GetJoules(c, w, m)}
       \cup Faults(GetJoulesFails(c, m), m)
       \cup (IF c.kind = "smartpower2" /\ c.dev /\ m.eof THEN {Outcome(c, "stuck", 0)} ELSE {})

HasMessage(type, c, m) ==
  IF type # "cpus" THEN {Throws(c)} ELSE IF c.kind = "none" THEN {Dies(c)} ELSE {Outcome(c, "ok", m.has)}

EnergyProcessMessage(req, e, w, m) ==
  LET c == e[req.type]
      outcomes == CASE req.cmd = "INIT" -> InitMessage(c, w, m)
                    [] req.cmd = "RESET" -> ResetMessage(c, w, m)
                    [] req.cmd = "GET" -> GetMessage(req.type, c, w, m)
                    [] req.cmd = "HAS" -> HasMessage(req.type, c, m)
  IN  {[module |-> [e EXCEPT ![req.type] = o.counter], status |-> o.status, val |-> o.val] : o \in outcomes}

(***************************************************************************)
(* The proxies of a client.                                                *)
(***************************************************************************)

\* What a getter of CounterCpusRemote makes of an answer: the sum of the
\* processors, or the value of one.
CpusTotals(val) ==
  LET cpus == SetToSeq(DOMAIN val)
      total[n \in 0..Len(cpus)] == IF n = 0 THEN 0 ELSE total[n - 1] + val[cpus[n]]
  IN  total
CpusTotal(val) == CpusTotals(val)[Cardinality(DOMAIN val)]

\* Energy::Energy(communicator), less the topology that CounterCpusRemote asks
\* for: that is between the two sequences.
NewEnergyBefore == <<EnergyReq("INIT", "plug"), EnergyReq("INIT", "memory")>>
NewEnergyAfter  == <<EnergyReq("HAS", "cpus"), EnergyReq("HAS", "cpus"), EnergyReq("HAS", "cpus"), EnergyReq("INIT", "cpus")>>

\* getJoulesCpuAll() and its siblings ask once for each processor.
GetJoulesAll(m) == [i \in 1..Cardinality(m.cpus) |-> EnergyReq("GET", "cpus")]

(***************************************************************************)
(* Power caps: for every zone and socket the limits of its two windows and *)
(* whether they are enabled.  A request is one set() of PowerCapperLinux,  *)
(* of which both calls of raplcap may fail.                                *)
(***************************************************************************)
CapReq(zone, window, socket, cap) == [module |-> "caps", cmd |-> "set", zone |-> zone, window |-> window, socket |-> socket, cap |-> cap]

SetCap(req, caps) ==
  LET limited == [caps EXCEPT ![req.zone][req.socket].watts[req.window] = req.cap.value]
      enabled == [limited EXCEPT ![req.zone][req.socket].enabled = ~req.cap.preparedOnly]
  IN  {[module |-> caps, status |-> "thrown", val |-> 0], [module |-> limited, status |-> "thrown", val |-> 0],
       [module |-> enabled, status |-> "ok", val |-> 0]}

\* get(socketId, windowId)
GetCap(caps, zone, socket, window) ==
  [value |-> caps[zone][socket].watts[window], preparedOnly |-> ~caps[zone][socket].enabled]

\* set(socketId, cap), and set(cap), which divides the cap among the sockets.
SetSocketReqs(zone, socket, cap) == [i \in 1..2 |-> CapReq(zone, i - 1, socket, cap)]
SetAllReqs(zone, sockets, cap) ==
  FlattenSeq([i \in 1..sockets |-> SetSocketReqs(zone, i - 1, [cap EXCEPT !.value = @ \div sockets])])

\* Mutant: both windows are set to the cap of the first.
SecondWindowFirst(point, zone, socket) == point[zone][socket][0]

SecondCap(point, zone, socket) == point[zone][socket][1]

\* getRollbackPoint() and rollback() of the module.
CapsPoint(caps) ==
  [zone \in DOMAIN caps |-> [socket \in DOMAIN caps[zone] |-> [window \in {0, 1} |-> GetCap(caps, zone, socket, window)]]]
RollbackReqs(point, zones, sockets) ==
  FlattenSeq([z \in 1..Len(zones) |-> FlattenSeq([i \in 1..sockets |->
    <<CapReq(zones[z], 0, i - 1, point[zones[z]][i - 1][0]),
      CapReq(zones[z], 1, i - 1, SecondCap(point, zones[z], i - 1))>>])])
=============================================================================
