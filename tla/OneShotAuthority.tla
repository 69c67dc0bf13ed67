-------------------------- MODULE OneShotAuthority --------------------------
(***************************************************************************)
(* What everything in this repository that may execute natively promises   *)
(* of its authority, with no journal, marker, process or crash in sight:   *)
(* at most one selection is ever chosen, the authority is spent on that    *)
(* selection and on no other, and native execution is entered at most      *)
(* once, on the selection the authority was spent on.  EventJournal,       *)
(* EventWatch, OneShotExecution and EngineLaunchers are each shown to      *)
(* implement this specification.                                           *)
(***************************************************************************)
EXTENDS Sequences

CONSTANTS Selections, None

VARIABLES chosen,   \* the selection the authority is bound to, or None
          spent,    \* TRUE once the authority is used up
          entered   \* the selections native execution was entered for

vars == <<chosen, spent, entered>>

Init == chosen = None /\ spent = FALSE /\ entered = << >>

Choose(v) ==
  /\ chosen = None
  /\ chosen' = v
  /\ UNCHANGED <<spent, entered>>

Spend ==
  /\ chosen # None
  /\ ~spent
  /\ spent' = TRUE
  /\ UNCHANGED <<chosen, entered>>

Enter ==
  /\ spent
  /\ entered = << >>
  /\ entered' = <<chosen>>
  /\ UNCHANGED <<chosen, spent>>

Next == (\E v \in Selections \ {None} : Choose(v)) \/ Spend \/ Enter

Spec == Init /\ [][Next]_vars
=============================================================================
