--------------------------- MODULE MCEventJournal ---------------------------
(***************************************************************************)
(* TLC instances of EventJournal.  Two interchangeable selections: enough  *)
(* for a second process to lock another block than the first one did.      *)
(***************************************************************************)
EXTENDS EventJournal, TLC

CONSTANTS s1, s2

SelectionSymmetry == Permutations(Selections)
=============================================================================
