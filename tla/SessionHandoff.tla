----------------------------- MODULE SessionHandoff -----------------------------
(***************************************************************************)
(* Moving a session between installations (session/handoff.py), beside the *)
(* processes that use the session meanwhile.  An importer authenticates a  *)
(* package, places a whole new session or completes the one that is there  *)
(* through the session's own add_variant and prepare_variant, and dies or  *)
(* is run again at any point.  An exporter reads the variants one by one   *)
(* and writes a package directory whose manifest comes last.               *)
(*                                                                         *)
(* A package is its mode, the checks of authenticate() that it fails, its  *)
(* variants, and the exporter's reference for each: none, the preparation  *)
(* that this source derives ("same"), or another one ("other").            *)
(***************************************************************************)
EXTENDS CounterfactualSession

CONSTANTS
  Users,       \* processes that work on the session itself
  Importers,   \* processes that import
  Setups,      \* the situations to look at: one is chosen at the start
  MaxDeaths    \* bound: how many importers' calls die

(* A situation: the users at work on the session, the users that export, the   *)
(* packages that somebody may import, whether with preparations, and the       *)
(* artefacts that somebody edits or restores.                                  *)

Checks == {"pin", "json", "claims", "files", "header", "adapter", "source", "variants"}
References == {"none", "same", "other"}

ASSUME HandoffAssumption ==
  /\ Users \cup Importers = Procs /\ Users \cap Importers = {}
  /\ \A s \in Setups :
       /\ s.working \subseteq Users /\ s.exporters \subseteq Users
       /\ s.reconstruct \in BOOLEAN /\ s.edits \subseteq MayDrift
       /\ \A k \in s.packages :
            /\ k.mode \in {"COMPLETE", "METADATA_ONLY"} /\ k.fails \subseteq Checks
            /\ k.variants \subseteq Variants /\ k.reference \in [k.variants -> References]
  /\ MaxDeaths \in Nat

VARIABLES
  setup,    \* the situation
  import,   \* each importer's progress
  added,    \* the variants that an importer's current call has added
  overtaken, \* whether others registered or edited something since it looked
  export,   \* each user's export in progress: what is left and what it has read
  out,      \* the export directory: entries written so far
  deaths

hvars == <<vars, setup, import, added, overtaken, export, out, deaths>>

NoPackage == [mode |-> "METADATA_ONLY", fails |-> {}, variants |-> {}, reference |-> <<>>]
Resting   == [stage |-> "rest", package |-> NoPackage, left |-> {}]
NotExporting == [stage |-> "rest", left |-> {}, entries |-> {}]
Entry0(v, ready) == [variant |-> v, prepared |-> ready]
NoDirectory == [files |-> 0, entries |-> {}]

HInit ==
  /\ Init
  /\ setup \in Setups
  /\ import = [i \in Importers |-> Resting]
  /\ added = [i \in Importers |-> {}]
  /\ overtaken = [i \in Importers |-> FALSE]
  /\ export = [u \in Users |-> NotExporting]
  /\ out = NoDirectory
  /\ deaths = 0

At(i, stage) == Free(i) /\ import[i].stage = stage
Goes(i, stage) == import' = [import EXCEPT ![i].stage = stage]
Quiet == UNCHANGED <<added, overtaken, export, out, deaths, setup>>
SessionUnchanged == UNCHANGED vars

-----------------------------------------------------------------------------
(* authenticate: every check passes, or nothing is read further.           *)

Authentic(k) == k.fails = {} /\ Cardinality(k.variants) <= MaxVariants
Importable(k) == Authentic(k) /\ k.mode = "COMPLETE"

\* An import that was refused, stopped or killed may be run again.
Begin(i) ==
  /\ Free(i) /\ import[i].stage \in {"rest", "stopped"}
  /\ \E k \in setup.packages :
       /\ Importable(k)
       /\ import' = [import EXCEPT ![i] = [stage |-> IF session THEN "open" ELSE "place",
                                           package |-> k, left |-> {}]]
  /\ added' = [added EXCEPT ![i] = {}]
  /\ SessionUnchanged /\ UNCHANGED <<overtaken, export, out, deaths, setup>>

\* _stage_and_place: the new session has all its variants; losing the rename to
\* another creator or importer is not an error, that session is completed instead.
PlaceImported(i) ==
  /\ At(i, "place")
  /\ IF session THEN UNCHANGED <<session, registered>>
     ELSE session' = TRUE /\ registered' = import[i].package.variants
  /\ Goes(i, "open")
  /\ UNCHANGED <<prepared, verification, coverage, drifted, call, answer>> /\ Quiet

\* The session is opened, and what is missing is compared with the limit.
StoredWithinLimit(k) == Cardinality(registered) <= MaxVariants  \* mutant: union not taken

WithinLimit(k) == Cardinality(registered \cup k.variants) <= MaxVariants

OpenExisting(i) ==
  LET k == import[i].package IN
  /\ At(i, "open")
  /\ IF SourceIntact /\ WithinLimit(k)
     THEN import' = [import EXCEPT ![i].stage = "check", ![i].left = k.variants \ registered]
     ELSE Goes(i, "stopped")
  /\ overtaken' = [overtaken EXCEPT ![i] = FALSE]
  /\ SessionUnchanged /\ UNCHANGED <<added, export, out, deaths, setup>>

\* Every stored counterpart is checked before the first missing one is added.
CounterpartsMatch(i) ==
  \A v \in import[i].package.variants \ import[i].left : Loads(v)

CheckCounterparts(i) ==
  /\ At(i, "check")
  /\ Goes(i, IF CounterpartsMatch(i) THEN "add" ELSE "stopped")
  /\ SessionUnchanged /\ Quiet

\* The session's own add_variant, for each missing variant in turn.
AddMissingAlone(i, v) ==   \* mutant: a concurrent registration is not expected
  /\ At(i, "add") /\ v \in import[i].left
  /\ CheckVariant(i, v)
  /\ import' = [import EXCEPT ![i].left = @ \ {v}]
  /\ added' = [added EXCEPT ![i] = @ \cup {v}]
  /\ UNCHANGED <<overtaken, export, out, deaths, setup>>

AddMissing(i, v) ==
  /\ At(i, "add") /\ v \in import[i].left
  /\ \/ /\ CheckVariant(i, v)
        /\ import' = [import EXCEPT ![i].left = @ \ {v}]
        /\ added' = [added EXCEPT ![i] = @ \cup {v}]
     \/ /\ Loads(v)                        \* alreadyRegistered by somebody else
        /\ import' = [import EXCEPT ![i].left = @ \ {v}]
        /\ SessionUnchanged /\ UNCHANGED added
     \/ /\ ~ Loads(v) /\ (v \in registered \/ ~ BelowLimit)
        /\ Goes(i, "stopped")
        /\ SessionUnchanged /\ UNCHANGED added
  /\ UNCHANGED <<overtaken, export, out, deaths, setup>>

AllAdded(i) ==
  /\ At(i, "add") /\ import[i].left = {}
  /\ import' = [import EXCEPT ![i].stage = IF setup.reconstruct THEN "prepare" ELSE "imported",
                              ![i].left = IF setup.reconstruct THEN @ \cup import[i].package.variants ELSE {}]
  /\ SessionUnchanged /\ Quiet

\* The session's own prepare_variant; its files appear one by one (SaveFile).
\* A directory that is there must be complete, or the import stops.
PrepareNext(i, v) ==
  /\ At(i, "prepare") /\ v \in import[i].left
  /\ \/ CheckUnprepared(i, v) /\ UNCHANGED import
     \/ /\ IsPrepared(v)
        /\ import' = [import EXCEPT ![i].left = @ \ {v}]
        /\ SessionUnchanged
     \/ /\ prepared[v] > 0 \/ ~ Loads(v) \/ ~ SourceIntact
        /\ ~ IsPrepared(v)
        /\ Goes(i, "stopped")
        /\ SessionUnchanged
  /\ Quiet

\* An authentic package may still carry a wrong reference: that is a stop.
ReferenceAdopted(k) == k.mode = "COMPLETE"   \* mutant: references not compared

Reconstructed(k) == \A v \in k.variants : k.reference[v] # "other"

CompareReferences(i) ==
  /\ At(i, "prepare") /\ import[i].left = {}
  /\ Goes(i, IF Reconstructed(import[i].package) THEN "imported" ELSE "stopped")
  /\ SessionUnchanged /\ Quiet

Die(i) ==
  /\ import[i].stage \notin {"rest", "stopped", "imported"} /\ deaths < MaxDeaths
  /\ deaths' = deaths + 1
  /\ import' = [import EXCEPT ![i] = Resting]
  /\ Returns(i)
  /\ UNCHANGED <<files, drifted, answer, added, overtaken, export, out, setup>>

-----------------------------------------------------------------------------
(* export: read the variants one by one, then write the directory.         *)

Exporting(u, stage) == Free(u) /\ export[u].stage = stage
ExportGoes(u, e) == export' = [export EXCEPT ![u] = e]
ExportQuiet == SessionUnchanged /\ UNCHANGED <<import, added, overtaken, deaths, setup>>

BeginExport(u) ==
  /\ u \in setup.exporters /\ Exporting(u, "rest") /\ SourceIntact
  /\ ExportGoes(u, [stage |-> "read", left |-> registered, entries |-> {}])
  /\ ExportQuiet /\ UNCHANGED out

\* An incomplete preparation or a torn verification record stops the export.
ExportableAnyway(v) == Loads(v) /\ SourceIntact   \* mutant: the files are not checked

Exportable(v) ==
  /\ Loads(v) /\ SourceIntact /\ prepared[v] \in {0, Complete}
  /\ verification[v].stage # "torn"

ReadEntry(u, v) ==
  LET e == export[u] IN
  /\ Exporting(u, "read") /\ v \in e.left
  /\ ExportGoes(u, IF Exportable(v)
                   THEN [e EXCEPT !.left = @ \ {v},
                                  !.entries = @ \cup {Entry0(v, prepared[v] > 0)}]
                   ELSE NotExporting)
  /\ ExportQuiet /\ UNCHANGED out

\* mkdir is exclusive: an export never overwrites one that is there.
OutputOverwritten == out.files >= 0   \* mutant: mkdir(exist_ok=True)

FreshOutput == out.files = 0

MakeOutput(u) ==
  /\ Exporting(u, "read") /\ export[u].left = {}
  /\ IF FreshOutput
     THEN ExportGoes(u, [export[u] EXCEPT !.stage = "write"]) /\ out' = [files |-> 1, entries |-> {}]
     ELSE ExportGoes(u, NotExporting) /\ UNCHANGED out
  /\ ExportQuiet

\* the source first, the manifest last
WriteOutput(u) ==
  LET n == out.files + 1 IN
  /\ Exporting(u, "write")
  /\ out' = [files |-> n, entries |-> IF n = 3 THEN export[u].entries ELSE {}]
  /\ ExportGoes(u, IF n = 3 THEN NotExporting ELSE export[u])
  /\ ExportQuiet

\* A write fails and the directory is removed; or the process dies and it stays.
AbandonOutput(u) ==
  /\ Exporting(u, "write")
  /\ out' \in {NoDirectory, out}
  /\ ExportGoes(u, NotExporting)
  /\ ExportQuiet

-----------------------------------------------------------------------------
ImportStep(i) ==
  \/ PlaceImported(i) \/ OpenExisting(i) \/ CheckCounterparts(i)
  \/ \E v \in Variants : AddMissing(i, v) \/ PrepareNext(i, v)
  \/ AllAdded(i) \/ CompareReferences(i)

ExportStep(u) ==
  \/ BeginExport(u) \/ MakeOutput(u) \/ WriteOutput(u) \/ AbandonOutput(u)
  \/ \E v \in Variants : ReadEntry(u, v)

\* prepare_variant raises when another process made the directory first.
AfterCall(i) ==
  IF In(i, "mkdir") /\ call'[i].op = "idle"
  THEN [import[i] EXCEPT !.stage = "stopped"] ELSE import[i]

CallStep(p) ==
  /\ Step(p)
  /\ import' = [i \in Importers |-> AfterCall(i)]
  /\ overtaken' = [i \in Importers |-> overtaken[i] \/ (i # p /\ registered' # registered)]
  /\ UNCHANGED <<added, export, out, deaths, setup>>

\* What a user's call does to what packages hold: reports and comparisons do nothing.
UserStarts(u) ==
  \/ StageSession(u)
  \/ \E v \in Variants : CheckVariant(u, v) \/ CheckUnprepared(u, v)

UserStep(u) ==
  /\ u \in setup.working /\ export[u].stage = "rest"
  /\ UserStarts(u) \/ Crash(u)
  /\ UNCHANGED <<import, added, overtaken, export, out, deaths, setup>>

EditStep(a) ==
  /\ a \in setup.edits /\ Edit(a)
  /\ overtaken' = [i \in Importers |-> TRUE]
  /\ UNCHANGED <<import, added, export, out, deaths, setup>>

HNext ==
  \/ \E p \in Procs : CallStep(p)
  \/ \E a \in MayDrift : EditStep(a)
  \/ \E i \in Importers : Begin(i) \/ ImportStep(i) \/ Die(i)
  \/ \E u \in Users : UserStep(u) \/ ExportStep(u)

HSpec == HInit /\ [][HNext]_hvars

\* Somebody runs the import again whenever it has not succeeded, and a call
\* that is under way goes on unless its process dies.
HLive == HSpec /\ \A i \in Importers : WF_hvars(Begin(i) \/ ImportStep(i))
               /\ \A p \in Procs : WF_hvars(CallStep(p))

-----------------------------------------------------------------------------
\* An import that reported success stands for good: every variant of the package
\* is registered here, and with prepare=True prepared here, whoever else worked
\* on the session and however often the import died before.
ImportedIsComplete ==
  \A i \in Importers : import[i].stage = "imported" =>
    /\ import[i].package.variants \subseteq registered
    /\ setup.reconstruct => \A v \in import[i].package.variants :
                    prepared[v] = Complete /\ import[i].package.reference[v] # "other"

\* Unless somebody else registered or edited something after it had looked, an
\* import that stops before its preparations leaves the session as it found it,
\* and one that succeeds found every variant of the package intact: the limit
\* and every stored counterpart are checked before anything is added.
JudgedBeforeAdding ==
  \A i \in Importers : ~ setup.reconstruct /\ ~ overtaken[i] =>
    /\ import[i].stage = "stopped" => added[i] = {}
    /\ import[i].stage = "imported" => \A v \in import[i].package.variants : Loads(v)

\* A finished package describes the session it came from: every entry is a
\* registered variant, and a preparation reference is of a complete preparation.
\* Two exports into one directory never mix.
PackageIsFaithful ==
  /\ out.files = 3 => \A e \in out.entries :
       e.variant \in registered /\ (e.prepared => prepared[e.variant] = Complete)
  /\ Cardinality({u \in Users : export[u].stage = "write"}) <= 1

\* HANDOFF.md: "if the process dies part-way, [...] running the same import again
\* completes it": it does once nobody edits the records any more, unless others
\* have filled the session beyond what the package needs.
Fits(i) == import[i].stage # "rest" => WithinLimit(import[i].package)

RerunCompletes ==
  \A i \in Importers :
    <>[](drifted = {} /\ Fits(i)) => <>(import[i].stage = "imported")

\* Without preparations that is what the code does.
RerunAddsAll ==
  \A i \in Importers :
    ~ setup.reconstruct /\ <>[](drifted = {} /\ Fits(i)) => <>(import[i].stage = "imported")
=============================================================================
