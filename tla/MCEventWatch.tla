---------------------------- MODULE MCEventWatch ----------------------------
(***************************************************************************)
(* TLC instances of EventWatch: a chain of two heights with one log in     *)
(* each block, or two blocks that fork at the second height.               *)
(***************************************************************************)
EXTENDS EventWatch, TLC

CONSTANTS A, B, C,      \* block hashes
          la, lb, lc    \* target logs

TwoNumber == A :> 1 @@ B :> 2
TwoBlock == la :> A @@ lb :> B
ForkNumber == A :> 1 @@ B :> 2 @@ C :> 2
ForkBlock == la :> A @@ lb :> B @@ lc :> C
=============================================================================
