------------------------ MODULE MCScenarioClosure ------------------------
(* A small instance of ScenarioClosure for TLC. *)
EXTENDS ScenarioClosure, TLC

CONSTANTS c1, c2,   \* calls
          o1, o2,   \* two operations of the plan
          d1        \* a diagnostic of it

\* No property tells calls or closure operations apart.
CallSymmetry == Permutations(Calls) \cup Permutations(Closures)
=============================================================================
