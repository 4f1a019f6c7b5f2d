----------------------------- MODULE MCRemoteCall -----------------------------
(* Instances of RemoteCall for TLC: a client with two threads, one with one. *)
EXTENDS RemoteCall, TLC

CONSTANTS c1, c2, t1, t2, t3

MCClients  == {c1, c2}
MCThreads  == {t1, t2, t3}
MCClientOf == (t1 :> c1) @@ (t2 :> c1) @@ (t3 :> c2)
=============================================================================
