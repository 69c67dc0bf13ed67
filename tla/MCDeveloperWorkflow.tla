--------------------------- MODULE MCDeveloperWorkflow ---------------------------
(***************************************************************************)
(* TLC instance of DeveloperWorkflow: two developers, two runtimes and two *)
(* sensors to disagree about.                                              *)
(***************************************************************************)
EXTENDS DeveloperWorkflow, TLC

CONSTANTS p1, p2, v1, v2, r1, r2, s1, s2

Interchangeable == Permutations(Procs) \cup Permutations(Variants)
                   \cup Permutations(Runtimes) \cup Permutations(Sensors)
=============================================================================
