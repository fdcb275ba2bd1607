------------------------------ MODULE MCProbeApp ------------------------------
(* Instances of ProbeApp for TLC. *)
EXTENDS ProbeApp, TLC

\* The requests are interchangeable.
Symmetry == Permutations(Tasks)
===============================================================================
