-------------------------- MODULE MCErrorRequestQueue --------------------------
(* Two processes, two problems, a short file.                               *)
EXTENDS ErrorRequestQueue, TLC

Symmetry == Permutations(Processes) \cup Permutations(Problems)
=============================================================================
