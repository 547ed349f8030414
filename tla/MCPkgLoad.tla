----------------------------- MODULE MCPkgLoad ------------------------------
(* A program r that imports a, b and c, all of which have to be built, and   *)
(* two workers.                                                              *)
EXTENDS PkgLoad

CONSTANTS r, a, b, c, main, w1, w2

MCPkgs == {r, a, b, c}
MCWorkers == {w1, w2}
FanProjects ==
  {[imports |-> [p \in MCPkgs |-> IF p = r THEN <<a, b, c>> ELSE <<>>],
    units |-> [p \in MCPkgs |-> 1], stale |-> MCPkgs, workers |-> MCWorkers, queuecap |-> 2]}
=============================================================================
