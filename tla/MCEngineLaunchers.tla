------------------------- MODULE MCEngineLaunchers -------------------------
(* Calls on one output, made directly or by owners; two operations where the *)
(* output does not belong to one.                                            *)
EXTENDS OwnerReplay, TLC

Interchangeable == Permutations(Calls) \cup Permutations(Ops) \cup Permutations(Owners)
=============================================================================
