------------------------------ MODULE MCTasks ------------------------------
(* Instances of Tasks for TLC. *)
EXTENDS Tasks

\* What the callers do does not interact, so that each has one interest.  All
\* of three cores are online, or the first and the last of them where that
\* makes a difference, and there are as many threads and handlers as make one.
MCMachines ==
  [online : {{0, 1, 2}}, spaces : {0}, caller : {"priority", "place"}, ids : {{1, 2, 3}}, handlers : {{1, 2}}]
    \cup [online : {{0, 2}}, spaces : {0}, caller : {"place"}, ids : {{1, 2}}, handlers : {{1, 2}}]
    \cup [online : {{0, 1, 2}}, spaces : {0}, caller : {"usage"}, ids : {{1, 2}}, handlers : {{1}, {2}}]
    \cup [online : {{0, 1, 2}}, spaces : {0}, caller : {"count"}, ids : {{1}}, handlers : {{1}}]
    \cup [online : {{0, 1, 2}}, spaces : {1}, caller : {"usage", "priority", "place"}, ids : {{1}}, handlers : {{1}}]
MCMoves == {{1}, {0, 2}}
=============================================================================
