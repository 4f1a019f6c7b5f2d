----------------------------- MODULE MCThrottler -----------------------------
(* Instances of Throttler for TLC. *)
EXTENDS Throttler, TLC

CONSTANTS h1, h2, p1, p2

MCHandlers == {h1, h2}
MCPids     == {p1, p2}

\* The identifier p1 may be used again; p2 may not be signalled.
MCRecycled    == {p1}
MCUnpermitted == {p2}

\* Addresses are interchangeable in the safety run.
Symmetry == Permutations(MCHandlers)
=============================================================================
