--------------------------- MODULE TopologyModule ---------------------------
(***************************************************************************)
(* The module Topology as it answers the requests of a client: idle times, *)
(* idle levels, hotplug and utilization of the virtual cores of a machine  *)
(* m, as the files of the world w show them.                               *)
(*                                                                         *)
(* The state t of the module are the members _lastProcIdleTime,            *)
(* _lastAbsTime and _lastAbsCount of its virtual cores and their levels,   *)
(* and the cores whose utilization is maximised.  Files hold numbers that  *)
(* the code cuts to W values, those of an int or of an uint.               *)
(***************************************************************************)
EXTENDS Integers, Sequences, FiniteSets, SequencesExt, FiniteSetsExt

CONSTANT W \* 2^32 in the code
ASSUME WAssumption == W \in Nat \ {0} /\ W % 2 = 0

\* stringToInt(), as an int and converted to an uint.
StringToInt(n) == ((n + W \div 2) % W) - W \div 2
StringToUint(n) == n % W

\* The lines of /proc/stat that contain "cpu" and the identifier of v: those of
\* the identifiers that begin with it too, of which there are two digits.
StatLines(v, w) == {u \in w.online : u = v \/ (u >= 10 /\ u \div 10 = v)}

\* getProcStatTime(): the last such line, or -1.
GetAbsoluteIdleTime(v, w) ==
  IF StatLines(v, w) = {} THEN -1 ELSE StringToInt(w.idle[Max(StatLines(v, w))])

\* hasFlag() looks for a flag between spaces, which the last one is not.
HasFlag(flag, m) == m.flags # <<>> /\ \E i \in 1..(Len(m.flags) - 1) : m.flags[i] = flag

\* The cores of a unit, none if there is no such unit: of the one processor, of
\* a physical core or a virtual one.
UnitCores(type, id, m) ==
  CASE type = "topology" -> m.cores
    [] type = "cpu" -> {v \in m.cores : id = 0}
    [] OTHER -> {v \in m.cores : v = id}

\* Time and count of a level, and what they are since the last reset, in uint.
GetAbsoluteTime(v, l, w)  == StringToUint(w.time[v][l])
GetAbsoluteCount(v, l, w) == StringToUint(w.count[v][l])
GetTime(t, v, l, w)       == (GetAbsoluteTime(v, l, w) - t.time[v][l]) % W
GetCount(t, v, l, w)      == (GetAbsoluteCount(v, l, w) - t.count[v][l]) % W

GetIdleTime(t, v, w) == GetAbsoluteIdleTime(v, w) - t.idle[v]
GetAbsoluteTicks(w)  == w.now

\* The core 0 has no file online.
IsHotPluggable(v) == v # 0

(***************************************************************************)
(* Topology::Topology(): the constructors of the cores and the levels      *)
(* reset their times.                                                      *)
(***************************************************************************)
NewLevels(v, m, w) ==
  [time |-> [l \in m.levels |-> GetAbsoluteTime(v, l, w)], count |-> [l \in m.levels |-> GetAbsoluteCount(v, l, w)]]
TopologyNew(m, w) ==
  [idle  |-> [v \in m.cores |-> GetAbsoluteIdleTime(v, w)],
   time  |-> [v \in m.cores |-> NewLevels(v, m, w).time],
   count |-> [v \in m.cores |-> NewLevels(v, m, w).count],
   spin  |-> {}]

CoreReq(cmd, v) == [module |-> "topology", cmd |-> cmd, v |-> v, l |-> 0]
LevelReq(cmd, v, l) == [module |-> "topology", cmd |-> cmd, v |-> v, l |-> l]
UnitReq(cmd, type, id) == [module |-> "topology", cmd |-> cmd, type |-> type, v |-> id, l |-> 0]

CoreCmds == {"IdleLevelsGet", "GetIdleTime", "ResetIdleTime", "IsHotPluggable", "IsHotPlugged", "HotPlug", "HotUnplug", "HasFlag", "GetAbsoluteTicks"}
CpuCmds  == {"GetCpuVendorId", "GetCpuFamily", "GetCpuModel"}
\* GetName stands for what is only read: name, description, latency and power.
LevelCmds == {"GetTime", "ResetTime", "GetCount", "ResetCount", "GetAbsTime", "GetAbsCount", "IsEnabled", "IsEnableable", "Enable", "Disable", "GetName"}

\* Mutant: the request is applied to every level.
AddressedAll(req, m) == m.levels

\* PROCESS_IDLE_LEVEL: the levels that a request is applied to.
Addressed(req, m) == {l \in m.levels : l = req.l}

\* f with the value new for the core and the levels of a request.
ForLevels(f, req, m, new) == [f EXCEPT ![req.v] = [l \in m.levels |-> IF l \in Addressed(req, m) THEN new[req.v][l] ELSE f[req.v][l]]]

\* A level in m.fixed has no file to disable it, and is enabled.
IsEnableable(l, m)    == l \notin m.fixed
IsEnabled(v, l, w, m) == IsEnableable(l, m) => <<v, l>> \notin w.disabled

\* The answer of the level of a request, 0 if none was addressed.
OfLevel(req, m, val) == IF Addressed(req, m) = {} THEN 0 ELSE val[Max(Addressed(req, m))]

Answer(t, w, status, val) == [module |-> t, world |-> w, status |-> status, val |-> val]
Thrown(t, w) == Answer(t, w, "thrown", 0)

\* The requests for an idle level of a core.
LevelMessage(req, t, w, m) ==
  LET ok(val)    == Answer(t, w, "ok", val)
      of(f(_))   == ok(OfLevel(req, m, [l \in m.levels |-> f(l)]))
      all(f(_, _, _)) == [v \in m.cores |-> [l \in m.levels |-> f(v, l, w)]]
      write(set) == IF IsEnableable(req.l, m) THEN [ok(0) EXCEPT !.world.disabled = set] ELSE Thrown(t, w)
  IN  CASE req.cmd = "GetTime" -> of(LAMBDA l : GetTime(t, req.v, l, w))
        [] req.cmd = "GetCount" -> of(LAMBDA l : GetCount(t, req.v, l, w))
        [] req.cmd = "GetAbsTime" -> of(LAMBDA l : GetAbsoluteTime(req.v, l, w))
        [] req.cmd = "GetAbsCount" -> of(LAMBDA l : GetAbsoluteCount(req.v, l, w))
        [] req.cmd = "ResetTime" -> [ok(0) EXCEPT !.module.time = ForLevels(@, req, m, all(GetAbsoluteTime))]
        [] req.cmd = "ResetCount" -> [ok(0) EXCEPT !.module.count = ForLevels(@, req, m, all(GetAbsoluteCount))]
        [] req.cmd = "GetName" -> ok(req.l)
        [] req.cmd = "IsEnableable" -> ok(IsEnableable(req.l, m))
        [] req.cmd = "IsEnabled" -> ok(IsEnabled(req.v, req.l, w, m))
        [] req.cmd = "Enable" -> write(w.disabled \ {<<req.v, req.l>>})
        [] req.cmd = "Disable" -> write(w.disabled \cup {<<req.v, req.l>>})

\* The requests for a core.  A core that is not hot pluggable stays as it is,
\* and so does the last one that is online.
CoreMessage(req, t, w, m) ==
  LET ok(val)     == Answer(t, w, "ok", val)
      online(set) == [ok(0) EXCEPT !.world.online = IF IsHotPluggable(req.v) /\ set # {} THEN set ELSE w.online]
  IN  CASE req.cmd = "IdleLevelsGet" -> ok(m.levels)
        [] req.cmd = "GetIdleTime" -> ok(GetIdleTime(t, req.v, w))
        [] req.cmd = "ResetIdleTime" -> [ok(0) EXCEPT !.module.idle[req.v] = GetAbsoluteIdleTime(req.v, w)]
        [] req.cmd = "IsHotPluggable" -> ok(IsHotPluggable(req.v))
        [] req.cmd = "IsHotPlugged" -> ok(req.v \in w.online)
        [] req.cmd = "HotPlug" -> online(w.online \cup {req.v})
        [] req.cmd = "HotUnplug" -> online(w.online \ {req.v})
        [] req.cmd = "HasFlag" -> ok(HasFlag(req.l, m))
        [] req.cmd = "GetAbsoluteTicks" -> ok(GetAbsoluteTicks(w))

\* The request to maximise the utilization of a unit, or to reset it.
SetUtilization(req, t, w, m) ==
  LET cores == UnitCores(req.type, req.v, m)
  IN  IF cores = {} THEN Thrown(t, w)
      ELSE [Answer(t, w, "ok", 0) EXCEPT !.module.spin = IF req.cmd = "Maximize" THEN @ \cup cores ELSE @ \ cores]

(***************************************************************************)
(* Topology::processMessage().                                             *)
(***************************************************************************)
TopologyProcessMessage(req, t, w, m) ==
  CASE req.cmd = "GetTopology" -> Answer(t, w, "ok", m.cores)
    [] req.cmd \in CpuCmds -> IF req.v = 0 THEN Answer(t, w, "ok", req.cmd) ELSE Thrown(t, w)
    [] req.cmd \in {"Maximize", "Reset"} -> SetUtilization(req, t, w, m)
    [] req.cmd \in CoreCmds -> IF req.v \in m.cores THEN CoreMessage(req, t, w, m) ELSE Thrown(t, w)
    [] req.cmd \in LevelCmds -> IF req.v \in m.cores /\ m.levels # {} THEN LevelMessage(req, t, w, m) ELSE Thrown(t, w)

(***************************************************************************)
(* What a request may also come to when a file of the machine has failed,  *)
(* or a thread to maximise a utilization cannot be made: an exception that *)
(* the servant answers.                                                    *)
(***************************************************************************)
ReadsFile(req, m) ==
  \/ req.cmd \in CpuCmds \cup {"GetIdleTime", "ResetIdleTime", "HasFlag"}
  \/ req.cmd \in {"IsHotPlugged", "HotPlug", "HotUnplug"} /\ IsHotPluggable(req.v)
  \/ req.cmd \in LevelCmds \ {"IsEnableable", "IsEnabled"}
  \/ req.cmd = "IsEnabled" /\ IsEnableable(req.l, m)

\* The thread of a core cannot be made, or not be moved to it, when those of
\* some of the cores have been.
MaximizeFails(req, t, w, m) ==
  LET cores == UnitCores(req.type, req.v, m)
  IN  {[Thrown(t, w) EXCEPT !.module.spin = (@ \ {cut[1]}) \cup cut[2]] : cut \in cores \X SUBSET cores}

TopologyFaults(req, t, w, m) ==
  CASE m.faults /\ ReadsFile(req, m) -> {Thrown(t, w)}
    [] m.faults /\ req.cmd = "Maximize" -> MaximizeFails(req, t, w, m)
    [] OTHER -> {}

(***************************************************************************)
(* The proxies of a client: what a constructor asks for after an answer.   *)
(***************************************************************************)
NewLevelReqs(v, l) == <<LevelReq("ResetTime", v, l), LevelReq("ResetCount", v, l)>>
NewCoreReqs(v)     == <<CoreReq("IdleLevelsGet", v), CoreReq("ResetIdleTime", v)>>
TopologyFollow(req, val) ==
  LET each(reqs(_)) == FlattenSeq([i \in 1..Cardinality(val) |-> reqs(SetToSeq(val)[i])])
  IN  CASE req.cmd = "GetTopology" -> each(NewCoreReqs)
        [] req.cmd = "IdleLevelsGet" -> each(LAMBDA l : NewLevelReqs(req.v, l))
        [] OTHER -> <<>>
=============================================================================
