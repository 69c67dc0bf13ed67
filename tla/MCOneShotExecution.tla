------------------------ MODULE MCOneShotExecution ------------------------
(* A small instance of OneShotExecution for TLC. *)
EXTENDS OneShotExecution, TLC

CONSTANTS c1, c2,   \* calls
          v2, v4    \* an operation of the plan per host profile
=============================================================================
