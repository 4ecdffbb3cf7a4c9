------------------------------ MODULE MCWorkLane ------------------------------
(* Instances of WorkLane for TLC. *)
EXTENDS WorkLane, TLC

(* The messages of the owner are interchangeable. *)
Symmetry == Permutations(Sources)
=============================================================================
