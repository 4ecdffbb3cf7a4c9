------------------------------ MODULE MCAgentRun ------------------------------
(* Instances of AgentRun for TLC.  The configurations choose the bounds and  *)
(* the parts of the environment that are switched on.                        *)
EXTENDS AgentRun, TLC

(* The messages a user routes to a run are interchangeable. *)
Symmetry == Permutations(Sources)
=============================================================================
