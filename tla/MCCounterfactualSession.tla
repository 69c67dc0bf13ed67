------------------------ MODULE MCCounterfactualSession ------------------------
(* Two processes on one session that admits one variant, three questions for   *)
(* it, and a completed run of each of two; hand edits of the first question.*)
EXTENDS CounterfactualSession, TLC

CONSTANTS p1, p2, a, b, c, ra, rb, source

TwoProcs      == {p1, p2}
ThreeVariants == {a, b, c}
TwoRuns       == {ra, rb}
RunOfTwo      == ra :> a @@ rb :> b
Editable      == {a}
=============================================================================
