-------------------------- MODULE CounterfactualSession --------------------------
(***************************************************************************)
(* A counterfactual session on disk (session/core.py with the profile      *)
(* adapter session/hookr.py): one pinned source, a few registered          *)
(* variants, and for each variant a prepared directory and at most one     *)
(* verification record.  Several processes work on the same directory with *)
(* no lock: every operation looks at the directory, and later creates a    *)
(* file or renames a directory, so the look and the act are two steps.     *)
(* A crash ends a call between two steps and leaves the files it wrote.    *)
(* A variant stands for its descriptor and its derived id.  Commitments    *)
(* are abstracted to the set "drifted" of artefacts whose bytes no longer  *)
(* match: every reader stops on one of those.                              *)
(***************************************************************************)
EXTENDS Naturals, FiniteSets

CONSTANTS
  Procs,        \* the processes that have the session's home open
  Variants,     \* the questions somebody may register
  Runs,         \* completed native runs: one operation, one retained input each
  RunOf,        \* the variant whose prepared input a run executed
  MaxVariants,  \* MAX_VARIANTS
  Source,       \* the name of the retained source among the artefacts
  MayDrift,     \* the artefacts that somebody edits or restores by hand
  None          \* no variant, no run, no label

ASSUME ConstantsAssumption ==
  /\ IsFiniteSet(Procs) /\ Procs # {}
  /\ IsFiniteSet(Variants)
  /\ RunOf \in [Runs -> Variants]
  /\ MaxVariants \in Nat \ {0}
  /\ Source \notin Variants
  /\ MayDrift \subseteq Variants \cup {Source}
  /\ None \notin Variants /\ None \notin Runs

Labels == {"RECORDED_RUN_VERIFIED", "TEST_ONLY_BINDING_CHECKED"}

VARIABLES
  session,       \* the session directory: TRUE once it is in place
  registered,    \* the variants whose directory is in place
  prepared,      \* how many of mkdir, SCENARIO, SDK_RESULT, PREPARATION are there
  verification,  \* VERIFICATION.json of each variant, with how far it is written
  coverage,      \* COVERAGE.json: "absent", "torn" or "recorded"
  drifted,       \* artefacts that do not match their commitments now
  call,          \* what each process is in the middle of
  answer         \* the last comparison that was returned to anybody

files == <<session, registered, prepared, verification, coverage>>
vars  == <<session, registered, prepared, verification, coverage, drifted, call, answer>>

Complete == 4
NoRecord == [stage |-> "absent", run |-> None, label |-> None]
Idle     == [op |-> "idle", variant |-> None, run |-> None, label |-> None,
             todo |-> {}, rows |-> {}]
Doing(op, v) == [Idle EXCEPT !.op = op, !.variant = v]
NoAnswer == [status |-> "NO_VERIFIED_VARIANTS", rows |-> {}]

Rows    == [variant : Variants, run : Runs, label : Labels]
Ops     == {"idle", "place", "register", "mkdir", "save", "cover", "covering",
            "verifier", "record", "recording", "compare"}
Calls   == [op : Ops, variant : Variants \cup {None}, run : Runs \cup {None},
            label : Labels \cup {None}, todo : SUBSET Variants, rows : SUBSET Rows]
Records == [stage : {"absent", "torn", "complete"}, run : Runs \cup {None},
            label : Labels \cup {None}]

\* The state holds what its variables are meant to hold.
TypeOK ==
  /\ session \in BOOLEAN
  /\ registered \in SUBSET Variants
  /\ prepared \in [Variants -> 0 .. Complete]
  /\ verification \in [Variants -> Records]
  /\ coverage \in {"absent", "torn", "recorded"}
  /\ drifted \in SUBSET (Variants \cup {Source})
  /\ call \in [Procs -> Calls]
  /\ answer \in [status : {"NO_VERIFIED_VARIANTS", "VERIFIED_VARIANTS_COMPARED",
                           "TEST_ONLY_COMPARISON_NOT_EVIDENCE"},
                 rows : SUBSET Rows]

Init ==
  /\ session = FALSE /\ registered = {} /\ drifted = {}
  /\ prepared = [v \in Variants |-> 0]
  /\ verification = [v \in Variants |-> NoRecord]
  /\ coverage = "absent"
  /\ call = [p \in Procs |-> Idle]
  /\ answer = NoAnswer

-----------------------------------------------------------------------------
(* What a reader finds.                                                    *)

\* _retained_source: the pin and the header are derived again before each use
SourceIntact == session /\ Source \notin drifted

\* _load_variant: the record is there and is the one its descriptor derives
Loads(v) == v \in registered /\ v \notin drifted

\* _preparation and check_prepared: all the files, from this source and variant
IsPrepared(v) == Loads(v) /\ SourceIntact /\ prepared[v] = Complete

Free(p) == call[p].op = "idle"
In(p, op) == call[p].op = op
Becomes(p, c) == call' = [call EXCEPT ![p] = c]
Returns(p) == Becomes(p, Idle)

-----------------------------------------------------------------------------
(* create: the whole session is staged beside its place and renamed in.    *)

StageSession(p) ==
  /\ Free(p) /\ ~ session
  /\ Becomes(p, Doing("place", None))
  /\ UNCHANGED <<files, drifted, answer>>

\* A rename onto a session that another creator placed fails, and that is opened.
RenamedSession == session' = TRUE /\ UNCHANGED <<registered, prepared, verification, coverage>>

PlaceSession(p) ==
  /\ In(p, "place")
  /\ IF session THEN UNCHANGED files ELSE RenamedSession
  /\ Returns(p) /\ UNCHANGED <<drifted, answer>>

-----------------------------------------------------------------------------
(* add_variant: look for the directory and count the others; rename later. *)

BelowLimit == Cardinality(registered) < MaxVariants

CheckVariant(p, v) ==
  /\ Free(p) /\ session
  /\ v \notin registered /\ BelowLimit
  /\ Becomes(p, Doing("register", v))
  /\ UNCHANGED <<files, drifted, answer>>

\* A rename onto a directory that holds a record fails: alreadyRegistered.
RenameVariant(p) ==
  /\ In(p, "register")
  /\ registered' = registered \cup {call[p].variant}
  /\ Returns(p)
  /\ UNCHANGED <<session, prepared, verification, coverage, drifted, answer>>

-----------------------------------------------------------------------------
(* prepare_variant: look for prepared/, create it, save three files in it. *)

CheckUnprepared(p, v) ==
  /\ Free(p) /\ Loads(v) /\ SourceIntact
  /\ prepared[v] = 0
  /\ Becomes(p, Doing("mkdir", v))
  /\ UNCHANGED <<files, drifted, answer>>

\* The adapter reads the source against the pin again, and mkdir is exclusive.
CanMakeDirectory(v) == SourceIntact /\ prepared[v] = 0

MakeDirectory(p) ==
  LET v == call[p].variant IN
  /\ In(p, "mkdir")
  /\ IF CanMakeDirectory(v)
     THEN /\ prepared' = [prepared EXCEPT ![v] = 1]
          /\ Becomes(p, Doing("save", v))
     ELSE Returns(p) /\ UNCHANGED prepared
  /\ UNCHANGED <<session, registered, verification, coverage, drifted, answer>>

SaveFile(p) ==
  LET v == call[p].variant
      n == prepared[v] + 1 IN
  /\ In(p, "save")
  /\ prepared' = [prepared EXCEPT ![v] = n]
  /\ Becomes(p, IF n = Complete THEN Idle ELSE call[p])
  /\ UNCHANGED <<session, registered, verification, coverage, drifted, answer>>

-----------------------------------------------------------------------------
(* coverage: one report for the source, saved once.  A report that was not *)
(* evaluated is not saved, and one that is there is compared, not written. *)

EvaluateCoverage(p) ==
  /\ Free(p) /\ SourceIntact /\ coverage = "absent"
  /\ Becomes(p, Doing("cover", None))
  /\ UNCHANGED <<files, drifted, answer>>

\* open 'xb' fails if another process created the file since
CreateCoverage(p) ==
  /\ In(p, "cover")
  /\ IF coverage = "absent"
     THEN coverage' = "torn" /\ Becomes(p, Doing("covering", None))
     ELSE Returns(p) /\ UNCHANGED coverage
  /\ UNCHANGED <<session, registered, prepared, verification, drifted, answer>>

WriteCoverage(p) ==
  /\ In(p, "covering")
  /\ coverage' = "recorded" /\ Returns(p)
  /\ UNCHANGED <<session, registered, prepared, verification, drifted, answer>>

-----------------------------------------------------------------------------
(* verify_selected: bind the run, look for a record, run the verifier,     *)
(* create the record exclusively, write it.                                *)

\* run_binding: the run retains the input that this variant prepared
BoundToDirectory(r, v) ==  \* mutant: out.exists() is enough
  Loads(v) /\ SourceIntact /\ prepared[v] > 0 /\ RunOf[r] = v

BoundTo(r, v) == IsPrepared(v) /\ RunOf[r] = v

BindRun(p, v, r, label) ==
  /\ Free(p) /\ BoundTo(r, v)
  /\ verification[v].stage = "absent"
  /\ Becomes(p, [Doing("verifier", v) EXCEPT !.run = r, !.label = label])
  /\ UNCHANGED <<files, drifted, answer>>

\* admit_verification: only a complete comparison of this run is recorded
VerifierAnswers(p) ==
  /\ In(p, "verifier")
  /\ \/ Becomes(p, [call[p] EXCEPT !.op = "record"])
     \/ Returns(p)
  /\ UNCHANGED <<files, drifted, answer>>

CreateOver(v) == v \in Variants       \* mutant: open 'w' instead of 'x'

ExclusiveCreate(v) == verification[v].stage = "absent"

CreateRecord(p) ==
  LET v == call[p].variant IN
  /\ In(p, "record")
  /\ IF ExclusiveCreate(v)
     THEN /\ verification' = [verification EXCEPT ![v].stage = "torn"]
          /\ Becomes(p, [call[p] EXCEPT !.op = "recording"])
     ELSE Returns(p) /\ UNCHANGED verification
  /\ UNCHANGED <<session, registered, prepared, coverage, drifted, answer>>

WriteRecord(p) ==
  /\ In(p, "recording")
  /\ verification' = [verification EXCEPT ![call[p].variant] =
                        [stage |-> "complete", run |-> call[p].run, label |-> call[p].label]]
  /\ Returns(p)
  /\ UNCHANGED <<session, registered, prepared, coverage, drifted, answer>>

-----------------------------------------------------------------------------
(* compare_verified: list the variants, read them one by one, answer.      *)

ListVariants(p) ==
  /\ Free(p) /\ session
  /\ Becomes(p, [Idle EXCEPT !.op = "compare", !.todo = registered])
  /\ UNCHANGED <<files, drifted, answer>>

\* A torn record, a drifted variant or source stops the whole comparison.
ReadVariant(p, v) ==
  LET left == [call[p] EXCEPT !.todo = @ \ {v}]
      row  == [variant |-> v, run |-> verification[v].run, label |-> verification[v].label] IN
  /\ In(p, "compare") /\ v \in call[p].todo
  /\ Becomes(p, CASE ~ Loads(v) -> Idle
                  [] verification[v].stage = "absent" /\ Loads(v) -> left
                  [] verification[v].stage = "complete" /\ IsPrepared(v) ->
                       [left EXCEPT !.rows = @ \cup {row}]
                  [] OTHER -> Idle)
  /\ UNCHANGED <<files, drifted, answer>>

\* the weakest label decides
AnyProduction(rows) ==    \* mutant: one production row is enough
  IF \E row \in rows : row.label = "RECORDED_RUN_VERIFIED"
  THEN "VERIFIED_VARIANTS_COMPARED" ELSE "NO_VERIFIED_VARIANTS"

Verdict(rows) ==
  IF rows = {} THEN "NO_VERIFIED_VARIANTS"
  ELSE IF {row.label : row \in rows} = {"RECORDED_RUN_VERIFIED"}
       THEN "VERIFIED_VARIANTS_COMPARED"
       ELSE "TEST_ONLY_COMPARISON_NOT_EVIDENCE"

AnswerComparison(p) ==
  /\ In(p, "compare") /\ call[p].todo = {}
  /\ answer' = [status |-> Verdict(call[p].rows), rows |-> call[p].rows]
  /\ Returns(p) /\ UNCHANGED <<files, drifted>>

-----------------------------------------------------------------------------
(* The environment: edits, and processes that die.                         *)

Edit(a) ==
  /\ session /\ a \in MayDrift /\ a \in registered \cup {Source}
  /\ drifted' = IF a \in drifted THEN drifted \ {a} ELSE drifted \cup {a}
  /\ UNCHANGED <<files, call, answer>>

Crash(p) == ~ Free(p) /\ Returns(p) /\ UNCHANGED <<files, drifted, answer>>

Step(p) ==
  \/ PlaceSession(p) \/ RenameVariant(p)
  \/ MakeDirectory(p) \/ SaveFile(p)
  \/ CreateCoverage(p) \/ WriteCoverage(p)
  \/ VerifierAnswers(p) \/ CreateRecord(p) \/ WriteRecord(p)
  \/ \E v \in Variants : ReadVariant(p, v)
  \/ AnswerComparison(p)

Start(p) ==
  \/ StageSession(p) \/ EvaluateCoverage(p) \/ ListVariants(p)
  \/ \E v \in Variants : CheckVariant(p, v) \/ CheckUnprepared(p, v)
  \/ \E v \in Variants, r \in Runs, label \in Labels : BindRun(p, v, r, label)

Next ==
  \/ \E p \in Procs : Start(p) \/ Step(p) \/ Crash(p)
  \/ \E a \in MayDrift : Edit(a)

Spec == Init /\ [][Next]_vars

-----------------------------------------------------------------------------
(* What makes the session correct.                                         *)

\* A verification record that exists belongs to a variant whose preparation was
\* complete, and the run it names executed that variant's prepared input: a
\* directory that a crash left half filled never takes a result.
VerifiedIsPrepared ==
  \A v \in Variants :
    verification[v].stage # "absent" =>
      /\ v \in registered /\ prepared[v] = Complete
      /\ verification[v].stage = "complete" => RunOf[verification[v].run] = v

\* What the last comparison said is still what the records say, although they
\* were read one by one while others wrote; and it is called a comparison of
\* verified variants only if every row in it is a production verification.
AnswerStands ==
  /\ \A row \in answer.rows :
       verification[row.variant] = [stage |-> "complete", run |-> row.run, label |-> row.label]
  /\ answer.status = "VERIFIED_VARIANTS_COMPARED" =>
       \A row \in answer.rows : verification[row.variant].label = "RECORDED_RUN_VERIFIED"

\* A session holds at most MaxVariants variants: the limit SESSIONS.md states and
\* the refusal of add_variant repeats.  The count that add_variant looks at is
\* stale when it renames, so this is not what the code keeps.
AtMostMaxVariants == Cardinality(registered) <= MaxVariants

\* What it keeps instead: every process but one may be past the check when the
\* session is full, and it is no worse than that.
OvershootBounded ==
  Cardinality(registered) <= (MaxVariants + Cardinality(Procs)) - 1

\* The session implements the ledger: each variant is declared, prepared and
\* verified once, in that order, and no call, race or crash takes a step back.
Entry(v) ==
  CASE v \notin registered -> [stage |-> "unknown", run |-> None, label |-> None]
    [] v \in registered /\ verification[v].stage = "complete" ->
         [verification[v] EXCEPT !.stage = "verified"]
    [] v \in registered /\ verification[v].stage # "complete" /\ prepared[v] = Complete ->
         [stage |-> "prepared", run |-> None, label |-> None]
    [] OTHER -> [stage |-> "declared", run |-> None, label |-> None]

Ledger == INSTANCE VariantLedger WITH entry <- [v \in Variants |-> Entry(v)]

ImplementsLedger == Ledger!LSpec
=============================================================================
