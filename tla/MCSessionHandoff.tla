---------------------------- MODULE MCSessionHandoff ----------------------------
(* One importer, and two users who work on the session or export it.          *)
EXTENDS SessionHandoff, TLC

CONSTANTS u, w, i, a, b, c, source

OneImporter   == {i}
TwoUsers      == {u, w}
Everybody     == {u, w, i}
ThreeVariants == {a, b, c}
NoRuns  == {}
RunOfNone == [r \in {} |-> a]
Editable  == {a}

Package(mode, fails, variants, ref) ==
  [mode |-> mode, fails |-> fails, variants |-> variants,
   reference |-> [v \in variants |-> ref]]
Good      == Package("COMPLETE", {}, {a, b}, "same")
AllKinds  == {Good, Package("COMPLETE", {}, {a}, "none"), Package("COMPLETE", {}, {b}, "other"),
              Package("METADATA_ONLY", {}, {a}, "same"), Package("COMPLETE", {"pin"}, {a}, "same"),
              Package("COMPLETE", {"source", "variants"}, {a, b}, "same")}

Reference == [working |-> {u}, exporters |-> {}, packages |-> AllKinds,
              reconstruct |-> TRUE, edits |-> {}]
Rerun     == [working |-> {u}, exporters |-> {}, packages |-> {Good},
              reconstruct |-> FALSE, edits |-> {a}]
Exports   == [working |-> {}, exporters |-> {u, w}, packages |-> {Good},
              reconstruct |-> TRUE, edits |-> {}]
Beside    == [working |-> {u, w}, exporters |-> {w}, packages |-> {},
              reconstruct |-> TRUE, edits |-> {}]
Alone     == [working |-> {}, exporters |-> {}, packages |-> {Good},
              reconstruct |-> TRUE, edits |-> {}]
Situations == {Reference, Rerun, Exports, Beside}
OnlyAlone == {Alone}
=============================================================================
