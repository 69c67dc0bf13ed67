------------------------------ MODULE VariantLedger ------------------------------
(***************************************************************************)
(* What a counterfactual session promises about each variant, whoever      *)
(* works on it and whenever somebody dies (SESSIONS.md, "Storage"; the     *)
(* header of session/core.py): it is declared once, prepared once after    *)
(* that, verified once after that, and nothing recorded is overwritten.    *)
(***************************************************************************)
CONSTANTS Variants, Runs, RunOf, Labels, None

VARIABLE entry

Blank(stage) == [stage |-> stage, run |-> None, label |-> None]

LInit == entry = [v \in Variants |-> Blank("unknown")]

Advance(v, from, to) ==
  /\ entry[v].stage = from
  /\ entry' = [entry EXCEPT ![v] = to]

Declare(v) == Advance(v, "unknown", Blank("declared"))
Prepare(v) == Advance(v, "declared", Blank("prepared"))
Verify(v)  == \E r \in Runs, label \in Labels :
                /\ RunOf[r] = v
                /\ Advance(v, "prepared", [stage |-> "verified", run |-> r, label |-> label])

LNext == \E v \in Variants : Declare(v) \/ Prepare(v) \/ Verify(v)

LSpec == LInit /\ [][LNext]_entry
=============================================================================
