----------------------------- MODULE FreqModule -----------------------------
(***************************************************************************)
(* The module CpuFreq as it answers the requests of a client: its state f  *)
(* is whether there are frequency domains, and the boosting file.  What is *)
(* done to a domain is the subject of CpuFreq: no client can ask for it,   *)
(* since the request for the domains, which a CpuFreqRemote sends before   *)
(* it makes a DomainRemote, is never answered by a server that has some.   *)
(***************************************************************************)

FreqReq(cmd, arg) == [module |-> "cpufreq", cmd |-> cmd, arg |-> arg]

\* isBoostingSupported() and isBoostingEnabled(), and what enableBoosting() and
\* disableBoosting() leave, unless they throw because the file is not there.
IsBoostingSupported(f) == f.boost # "unsupported"
IsBoostingEnabled(f)   == f.boost = "enabled"
WriteBoosting(f, boost) == [f EXCEPT !.boost = boost]

\* CpuFreq::processMessage().  The request for the domains writes to entries of
\* its answer that nobody has added.
FreqProcessMessage(req, f) ==
  LET ok(val)  == [module |-> f, status |-> "ok", val |-> val]
      boost(b) == IF IsBoostingSupported(f) THEN [ok(0) EXCEPT !.module = WriteBoosting(f, b)] ELSE [ok(0) EXCEPT !.status = "thrown"]
  IN  CASE req.cmd = "GetDomains" -> IF f.domains THEN [ok(0) EXCEPT !.status = "died"] ELSE ok(0)
        [] req.cmd = "IsBoostingSupported" -> ok(IsBoostingSupported(f))
        [] req.cmd = "IsBoostingEnabled" -> ok(IsBoostingEnabled(f))
        [] req.cmd = "EnableBoosting" -> boost("enabled")
        [] req.cmd = "DisableBoosting" -> boost("disabled")

\* The file is read or written, which may fail, if it was there at the start.
FreqFaults(req, f, m) ==
  IF m.faults /\ IsBoostingSupported(f) /\ req.cmd \in {"IsBoostingEnabled", "EnableBoosting", "DisableBoosting"}
  THEN {[module |-> f, status |-> "thrown", val |-> 0]} ELSE {}
=============================================================================
