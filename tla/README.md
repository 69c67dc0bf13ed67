# Verification of RHOOK: what happens once, and what is said about it

RHOOK runs a contract call twice from one authenticated chain state, once as it
was and once with declared parameters changed, and seals what happened.  Nothing
is retried, nothing is taken from a provider or a child process on trust, an
execution that was authorised once must happen at most once whatever crashes,
and every answer the tools give (ready, completed, verified, nothing consumed,
cleanup confirmed) must be true of the files and processes behind it.  These
modules state that for the two halves of the program: the Go event watcher with
its durable journal, and the Python SDK with its sessions, launchers, stages and
descriptors.  TLC checks each on a small instance; all properties but the liveness
ones are also theorems, checked by TLAPS for every value of the constants.

## Inventory

Paths are relative to `src/sdk/` (`PS` is `engine/native/prestate`, `RA` is `rhook_alpha`).

| component | state | operations | what is hard | what must hold |
|---|---|---|---|---|
| event journal (`PS/event_journal.go`) | `journal.jsonl`, two marker files, `seq`, `state`, `fatalReason` | open and replay, `Update`, `Marker`, `CheckMarkers`, `Halt` | failing writes and fsyncs, kills, power loss, latching a failure under a mutex | what was decided is durable before it is acted on; an uncertain journal is refused |
| event watcher and controller (`PS/event_watch.go`, `event_controller.go`, `event_transport.go`, `quiet_coverage.go`) | `EventState`, the socket, the events and disconnected channels, the captures' done channels | resume, connect, subscribe, observe, cover a range, lock, consume, enter, reconnect, drain, stop | main goroutine, reader and captures interleave; the provider omits, repeats, delays; deadlines | the lock is the first eligible block; a contradiction stops the run; budgets survive restarts; every run ends |
| counterfactual session (`RA/session/core.py`, `hookr.py`, `handoff.py`) | directories of variants, preparations, verifications, packages | add, prepare, verify, compare, export, import | several processes and no lock; a look and an act are two steps; deaths in the middle; hand edits | a record is written once and stays bound to its variant; an import that died is completed by itself |
| developer workflow (`RA/session/plan.py`, `workflow.py`) | home: runtime, key, sensor; markers, grants, run directories, records | plan, ready, run, result | two developers of one home; what was told is relied on later | ready stays runnable, verified stays verified, a card shows one run |
| one-shot execution (`RA/execution.py`, `profile_overlay.py`, `consent.py`, `cases/authority.py`, `cases/native.py`, `cases/scenario/api.py`) | attempt markers, authorizations, grants, `CONSUMED.json`, outputs, the process group | register, authorise, launch, run, record, clean up | concurrent calls, kills, a worker that outlives its parents, expiry during a run | one run per plan, within its authority; every answer is true |
| profile descriptors and overlays (`RA/profile_descriptor.py`, `config_overlay.py`, `interventions.py`, `dynamic_fee.py`, the preparation part of `execution.py`, `profile_overlay.py`, `cases/scenario/api.py`) | catalogue, descriptors, prepared directories | validate, compose, prepare, bind, write the worlds | three implementations of one meaning; files replaced between steps | a composition is a parallel assignment; prepared, reviewed and written are one derivation |
| scenario closure (`RA/cases/scenario/closure.py`, `diagnostic.py`, `closure-main.mjs`, `outcome.py`, `engine/repro/portable/legacy_guards.py`) | consent, broker, stages, results, evidence | launch, acquire, discover, seal, final run, diagnose, clean up | launcher, child, broker, worker; failures at every step | the final run is offline after a sealed acquisition; no false cleanup; the first failure is reported |
| engine supervisors (`engine/supervisor`, `engine/repro`, `engine/plan_native`, `engine/sdk_alpha/kit.py`, `engine/case_sdk`) | one output directory, its records and manifest | claim, admit, spawn, sample, reap, judge, seal, verify | torn records, unreaped workers, six variants of one protocol | one worker; counts that are not known are not claimed; nothing changes under a seal |
| owner's consent and controlled interface (`RA/api.py`, `RA/consent.py`, `developer/cli.py`, `engine/case_sdk/cli.py`) | `local-consents/<plan>`, `workflows/<plan>` | issue, consume, latch, dispatch, hear, report, verify | three processes deep, each may die and leave the next one running | one child per plan; what is reported is what the launcher recorded, or that nothing is known |
| host admission (`engine/supervisor/legacy-admission`, `engine/sdk_alpha/resources.py`, `RA/cases/scenario/host_v3.py`, `host_v4.py`) | packets, the guard, `SUMMARY.json` | sample, admit, guard, hand over, summarise | a host that moves between two readings | pairwise checks say what they mean together |
| case SDK (`RA/cases`) | capsules, owned process groups | register, run, verify, clean up | orphans, timeouts | cleanup is confirmed or reported |
| scenario acquisition (`RA/cases/scenario/acquire.mjs`, `discovery.mjs`, `page-on-miss.mjs`, `prefetch.mjs`) | broker, socket, provisional scenario | page on a miss | two processes with deadlines | what was paged is authenticated |
| scenario worker (`RA/cases/scenario/native`, geth) | two EVM worlds, its own record | run a pair | geth | a record that tells the truth |
| observed selection (`PS/observed_selection.go`) | delivered transactions, bound block logs | record, judge in delivery order, lock | captures end in any order | decisions follow delivery order |
| event meter (`PS/event_journal.go`, from `EventMeter`) | RPC counts, billing, rate window, body credit | reserve, spend, refund | several scopes under shared limits | no limit is exceeded |
| RPC source and monitor (`PS/rpc.go`, `monitor_cu.go`, `monitor_selector.go`) | call ids, totals, fatal error | call, record, select | late answers, partial bodies | intent recorded before a call |
| event capture (`PS/event_capture.go`) | files of one capture | acquire one block's evidence | deadlines | partial evidence is labelled |
| prospective execution (`PS/prospective.go`, `hookr_prospective.go`, `runner.go`, `bridge.go`) | two EVM worlds | run a pair | geth itself | worlds differ in one declared slot |
| proofs, packages, economics (`PS/proof.go`, `package.go`, `economics.go`, ...) | none | pure functions | arithmetic | agreement with a reference |
| profile parity and recorded results (`RA/profile_parity.py`, `RA/cases/scenario/recorded.py`) | none | compare finished files | one process | agreement |
| supervision (`PS/internal/controllersafety`) | a heartbeat pipe | exit on loss | a stuck parent | the process exits |
| witness forge (`RA/cases/witness`) | transport budgets | capture, qualify | socket races | no budget is exceeded |
| evidence verifiers (`src/core`, `src/runtime`, `src/host`, `verify-pack`), installers, build tools | files | re-verify, copy, hash | parsing | |

How they meet.  The watcher calls the journal for everything it decides; its
reader and captures call the controller, which serialises them on `c.mu`; native
execution is called by the watcher after the consumption row.  On the Python
side a session prepares inputs from descriptors; the developer workflow binds a
prepared variant, a runtime and a sensor to one operation and hands it to
one-shot execution, whose launcher spawns a runner, whose worker is supervised
by a stage under host admission; a closure drives a broker, a discovery stage and
an offline one; and a verification record brings the result back into the
session.  They share files only, created exclusively or renamed into place.

The hazards, each at its line with the properties that would catch it, are in
`PROJECT.json`; a hazard no property covers says there why.

## Modules

    OneShotAuthority          choose once, spend once, enter once
      ^ EventJournal   ^ EventWatch   ^ OneShotExecution   ^ EngineLaunchers <- EXTENDS - OwnerReplay
    VariantLedger             a variant is declared, prepared, verified, in that order
      ^ CounterfactualSession        <- EXTENDS - SessionHandoff
        (its stages are what DeveloperWorkflow starts from)
    ProfileDescriptor <- EXTENDS - ConfigOverlay <- EXTENDS - ScenarioPreparation
    SupervisedStage   <- EXTENDS - ScenarioClosure
    HostAdmission

`^` is a refinement that a run checks.  `MC...` modules and `.cfg` files are the
instances for TLC; `...Proofs` modules hold inductive invariants and theorems.

**OneShotAuthority** is the abstract specification: `chosen`, `spent`, `entered`.

**EventJournal** is the journal and the order in which the main goroutine uses
it.  `file`, `torn`, `synced` are journal.jsonl with its unsynced tail and a
partial last row; `marker` the two O_EXCL files with their durability; `seq`,
`state`, `fatal` the fields of `EventJournal`; `update` the `Update` that holds
`j.mu`, with the phases write and sync; `pc` the step of `RunEventWatcher`.
`UpdateBegins`/`WriteRow`/`RowAcknowledged` are one successful `Update`,
`WriteFails`/`SyncFails` its failures, `MarkerCreate`/`MarkerSynced`/`MarkerFails`
are `Marker`.  Other goroutines write rows at any time (`OtherUpdate`).
`Killed` keeps the page cache, `PowerLoss` does not: it drops a suffix of the
unsynced rows, perhaps leaving part of one, and any unsynced marker.  A row's
hash chain is its sequence number, since every row is written by this code.

**EventWatch** is the whole watcher with its goroutines: the main one (`pc`), the
reader (`reader`), one capture per block (`running`), the socket (`conn`) and the
two channels (`queue`, `lost`).  A journal row is one atomic step here, because
`EventJournal` covers what happens inside one; a failing row is its effect, the
latched reason (`HardFailure`, `EvidenceHalts`).  Each `Main` action is a piece
of `runEventWatcherWith` between two points where another goroutine can matter:
a row, a snapshot, a lock of `c.mu`, a channel operation, a call.  `Observe`
keeps `c.mu` until its own `Halt` has been written, so it is two steps, and
every other holder of `c.mu` waits (`ControllerFree`).  `CompleteRange` is
`Fetch` (answer and snapshot), `MainObserves`, `RangeObserved`, `Judge`, and one
of the closing rows `LockRow` and `CoverageComplete`.  The provider is the `\E`
of `ReaderReads`, `Fetch`, `FirstHead` and `Select`.

Modelling choices of the watcher: activation is block 0; only target swaps are logs;
header checks (chain id, cursor reorg, tail, gap) and RPC budgets are an error
the provider can cause at any call; the row limit 512 of `Observe` is left out
(`Captures` bounds the cases); policy and authority identities do not change
between starts; the observed policy is not modelled.

**VariantLedger** is the second abstract specification: an entry per variant, one
step at a time, nothing taken back.

**CounterfactualSession** is `session/core.py` with the Hookr adapter.  `registered`,
`prepared`, `verification` are the directories; `drifted` the artefacts edited by
hand; `call` the call each process has in progress, with what it has seen so far.
Every operation looks first (`CheckVariant`, `BindRun`, `ListVariants`) and acts later
(`RenameVariant`, `CreateRecord`, `AnswerComparison`); each file of a preparation or a
record is one step (`SaveFile`, `WriteRecord`), and a process dies between any two.

**SessionHandoff** extends it with `handoff.py`: an importer that opens a package,
places a new session or judges the one that is there, adds and prepares through
the session's own calls, and may die and be run again; exporters that read the
session entry by entry and write the manifest last.  `setup` is the situation of a
behaviour, chosen in `HInit`.

**DeveloperWorkflow** is `session-plan`, `session-ready`, `session-run` and
`session-result` over one home.  `home` is its runtime, key and sensor; `marker`,
`consumed`, `dir`, `record` the files of an attempt and a verification, as
`OneShotExecution` and `CounterfactualSession` have them in detail; `planned`,
`ready`, `verified`, `cards` what was answered.  Other users of the home run under
another host profile, attach a run, edit or delete one (`OtherRun`, `OtherAttach`, ...).
A card is read in three steps, as `_recorded_run` does: is the directory there
(`CardLooks`), do its files give the manifest (`CardChecks`), and only then the loads
(`CardLoads`).  `past` of a run directory are the calls between the last two when it was edited.

**OneShotExecution** is one plan, its operations and every call that may execute it.
`marker`, `auth`, `power` (the preflight directory), `grant` and `consumed` are the
exclusive files; `out` the
output; `worker` the native process; `run` and `launch` each call's runner and
launcher.  `kind` says which family of plan it is.  Files are exclusive creations,
deaths keep files and release the lock, and a clock of coarse ticks decides expiry.

**ProfileDescriptor** is `profile_descriptor.py` as operators: `Loadable` descriptors,
`Canonical` order of interventions, `Compose` as left folds over masked fields.
**ConfigOverlay** has the two compiled implementations of the same interventions.
**ScenarioPreparation** uses both: jobs that authenticate a source, prepare an output
directory file by file, bind it to an operation and write the two worlds, while
other preparations, replaced sources, catalogues and descriptors and edited files
come between the steps.

**SupervisedStage** is one stage: the worker, the supervisor loop, sampler and host
guard with their records, and `inspect_stage`.  The worker is not trusted: it may
exit in any way over any record.  **ScenarioClosure** extends it with launcher, child,
broker, discovery, final run, diagnostics and the final report.

**EngineLaunchers** is six older launchers of one protocol; `kind` picks one per
behaviour.  An answer's invocation counts are the set of counts it leaves open.

**OwnerReplay** puts two more processes around its case launcher: an owner, who issues
and consumes a consent and latches the plan, and the engine's CLI as the owner's
child, which is a launcher call.  `latch` and `consent` are the two directories.  Calls
without an owner stay possible, and so does a workflow with an approval but no consent.

**HostAdmission** is the sensor that reads value by value, the two-sample admission and
the runtime guards under the four profiles `legacy`, `v2`, `v3`, `v4`; `chain` and
`served` are the history of what was accepted.

Common to the Python modules: a hash is the value it is of; a check of inputs,
deadlines, power or host may fail at any time; clocks exist only where a property
needs one (`OneShotExecution`).

## What the runs check

| run | instance | properties |
|---|---|---|
| `journal` | 2 selections, 5 rows, 2 starts, guarded and default policy | `MarkersPrecedeRows`, `DurableBeforeNative`, `NothingAfterFatal`, `ResumesOnlyUntouched`, `ImplementsOneShot` |
| `watch_default` | 3 blocks, a fork at height 2, ranges of 2, 2 captures, 1 reconnect, 2 starts | `ConnectionsBounded`, `NothingPassedUnjudged`, `RefusedNeverNative`, `ImplementsOneShot` |
| `watch_quiet` | quiet policy, 2 blocks, 1 capture, native execution disabled, fairness | `NothingLeftBehind`, `Terminates` |
| `session` | 2 processes, 3 variants, 2 runs, limit 1, one variant edited | `VerifiedIsPrepared`, `AnswerStands`, `ImplementsLedger` |
| `session_limit` | the same | `AtMostMaxVariants` (violated, see below) |
| `handoff` | 1 importer, 2 users, 3 variants, limit 2, 1 death, four situations, fairness | `ImportedIsComplete`, `PackageIsFaithful`, `JudgedBeforeAdding`, `RerunAddsAll` |
| `handoff_prepare` | the importer alone, with preparations | `RerunCompletes` (violated, see below) |
| `workflow` | 2 developers, 1 variant, 2 runtimes, 2 sensors, 1 death | `ReadyStands`, `VerifiedIsConsented`, `CardIsOneRun`, no deadlock |
| `oneshot` | 2 calls, 2 operations (host v2 and v4), clock to 4 | `CompletedIsReal`, `NothingConsumed`, `WithinAuthority`, `GoneMeansGone`, `AnswerIsRecorded`, `ImplementsOneShot` |
| `admission` | 17 descriptors, up to 2 interventions, 1 or 2 jobs, words of 7 bits; or 4 host profiles, 1 move, 2 free pages, 2 samples, 2 guards | `ParallelAssignment`, `LegacyParity`, `PreparedIsOneDerivation`, `WorldsAsPlanned`, `StoodStill`, `SummaryIsTrue` |
| `closure` | 2 calls, 2 closure operations, 1 diagnostic | `ClosureIsReal`, `CleanupIsTrue`, `FirstFailureKept` |
| `launchers` | 2 calls, 2 operations, 6 kinds, 2 owners | `EveryAnswerIsTrue`, `SealedIsQuiet`, `ImplementsOneShot` |

The journal and the watcher:

- `MarkersPrecedeRows`: whatever fails, a lock or consumption row, acknowledged
  or not, has its durable marker naming the same block.  So `JOURNAL_MARKER_MISSING`
  and the mismatch errors of `CheckMarkers` never arise from the program's own crashes.
- `DurableBeforeNative`: native execution has a consumption behind it that survives
  any later power loss.
- `NothingAfterFatal`: the promise of the comment in `Update` ("no waiting
  transaction may slip between a failed physical write and its hard cancellation"):
  from the failure to the end of the process a guarded journal writes no row and
  acknowledges none, of whatever type, except STOP.
- `ResumesOnlyUntouched`: a process that goes on does so over a file in which no
  row at all, not even an unacknowledged one, locks, consumes or stops.
- `ImplementsOneShot` (in four modules): over all processes one thing is chosen,
  spent once and entered at most once: in `EventJournal` over the durable rows, in
  `EventWatch` over the acknowledged state, in `OneShotExecution` over grant and
  `CONSUMED.json`, in `EngineLaunchers` over the claimed output.
- `NothingPassedUnjudged`: the cursor never passes a notified block that was not
  judged, although the range is compared with a stale snapshot first; nor does a lock
  pass a lower block of its own range whose capture finished later.
- `RefusedNeverNative`: once a notification was refused before the consumption,
  native execution is not entered, although the reader is still on its way to `Halt`.
  What saves it is that `load` takes `c.mu`; without that the run finds the race.
- `ConnectionsBounded`: sockets over all processes stay within the budget.
- `NothingLeftBehind`: a drain that ends as one has every case recorded
  (`DrainCompletesCaptures`); no goroutine outlives the main one.
- `Terminates`: under fairness every process ends.

The session and its users:

- `VerifiedIsPrepared`, `ImplementsLedger`: two verifications, a death in the middle of
  a preparation, an edit: nothing recorded is overwritten or belongs to something else.
- `AnswerStands`: a comparison read record by record while others write is one that
  the records still support, and its label is that of its weakest row.
- `AtMostMaxVariants`: the limit of 8 variants, which is checked on a stale count.  It does
  not hold; `OvershootBounded`, which is proved, says by how much it can be missed.
- `ImportedIsComplete`, `JudgedBeforeAdding`, `RerunAddsAll`: an import brought what the
  package says; one that stops adds nothing except what others cause after it
  looked; one that died is completed by running it again.
- `PackageIsFaithful`: a finished package holds only what the session held.
- `ReadyStands`, `VerifiedIsConsented`: the answers of the workflow stay true although
  each was made from several reads.
- `CardIsOneRun`: a card's rows and roots are of one recorded run, and what was edited before
  the card's own check of the manifest is refused.  An edit after that check and before the
  loads does reach the card, which calls it `MATCHES_MANIFEST_AND_VERIFICATION` (`late`).

Execution, stages and hosts:

- `CompletedIsReal`, `NothingConsumed`, `GoneMeansGone`, `AnswerIsRecorded`: what a launcher
  or a runner says (completed; nothing was consumed; the group is gone; this is
  the result) is so, whatever was killed in between.
- `WithinAuthority`: a run called completed ended before its grant did, and a gated
  grant before the owner's authorization; the property is about the margins.
- `ClosureIsReal`, `CleanupIsTrue`, `FirstFailureKept`: discovery and the offline pair ran
  once each and in that order; no cleanup is claimed while something runs; a later
  failure never hides the first one.
- `EveryAnswerIsTrue`: in a launcher's result unknown counts are left open and known ones
  are what ran, and the kit's verifier, which asks the files, agrees with its
  launcher, which asked the process (`AnswersAreTrue`); the results of workflow and
  consent say no more than the launcher's does, and one latch starts one child
  (`OuterAnswersAreTrue`); a sealed pass verifies from its records (`PassVerifies`).  `SealedIsQuiet`: nothing
  writes below a manifest, neither a worker nor a sensor of the admission.  Sensors of the runtime guard are not followed.
- `StoodStill`, `SummaryIsTrue`: what is asked of neighbouring packets holds of all of
  them together, under each profile.

Preparation:

- `ParallelAssignment`: a composition does not depend on the order in which kinds and
  assignments are walked.  `LegacyParity`: interpreter, compiled overlay and SDK 0.4
  accept and write the same, on originals with the pinned base fee and any other settings.  `PreparedIsOneDerivation`, `WorldsAsPlanned`: one
  directory, one derivation; and the worlds are what was reviewed.

Each property of a passing run has a mutant, an operator beside the definition it
replaces that makes one plausible mistake (a dropped check, a lock not taken, a
missing wait, an off-by-one in a limit); with it TLC finds the property violated.

**Bounds.**  Five rows are begin, activate, lock, consume and stop of one process,
or two processes that fail on the way.  Two starts are enough for every "the next
process" property because a started process depends only on the disk.  Two
selections suffice for locking a different block.  In `EventWatch` two heights
give a range of two blocks to be judged in order, or a range, a later block and a block behind the lock; the fork adds a third
hash at the second height; a queue of one makes overflow happen; two captures are
exceeded by three blocks.  In the session a limit of one with two processes and three
variants puts the stale count at its worst; two runs are enough for a record of
the wrong one.  The handoff's situations keep apart what would multiply: who else
works, what may be edited, which packages exist.  In the workflow two of each
registered thing are enough to disagree.  Two calls of a one-shot execution
contend for every file; a third would meet only finished ones.  Its times are
the code's in proportion (a run of 2 ticks, a grant of 3, margins of 4, an
authorization of 5, of which the clock shows 4), so that each expiry can fall
inside a run.  Seven bits hold three fields beside each other in a word.  Two
launcher calls and two owners give a loser at each level: of the grant, of the
latch, of the lock and of the output; a third would find only what the loser finds.  One movement of the host is enough to tell any two readings apart.
`MCAdmission` instantiates preparations and host together: they share no state, so a start either
has something to prepare, and then the host rests, or has not, and then only the host moves.
`MaxRows`, `MaxStarts`, `Tip`, `MaxDeaths`, `Horizon`, `MaxMoves`, `MaxUsed`, `MaxFree`,
`MaxSamples` and `MaxGuards` are bounds of the models; the theorems hold for every
value of those they mention.

Deadlock is checked in `workflow` only.  Elsewhere a behaviour ends, because calls,
starts and rows are bounded; a watcher stuck on the way is what `Terminates` excludes
and an import stuck on the way what `RerunAddsAll` does.

**Fairness.**  `FairSpec` (watcher): weak fairness of the main goroutine, of the reader
unless it is blocked in a read of an open socket, of each capture, and of the end
of the window.  The Go scheduler runs every ready goroutine; each RPC call has a
deadline; a capture runs under `CaptureSeconds` and the window's context; the
window is a context deadline.  Nothing is assumed of the provider.  `HLive` (import):
a call in progress goes on unless its process dies, and somebody runs the
import again, which is what HANDOFF.md tells the user to do.

## Where code and documentation differ

Two runs show one divergence each.

`session_limit`: `SESSIONS.md:289` says "at most 8 variants per session", and `VARIANT_LIMIT`
(`session/core.py:197`) repeats it.  But the count is taken before the variant's directory is renamed
in, and nothing is locked between: two processes that both see seven variants leave nine.
The theorem `Overshoot` says that it is never worse than one variant more per other process.

`handoff_prepare`: `HANDOFF.md:82` promises that after a
death "running the same import again completes it".  With `prepare=True` it does not:
a death inside `prepare_variant` leaves a directory that exists without being
complete, and `session/core.py:248` stops every later import there.  Without
preparations the promise holds (`RerunAddsAll`).

Smaller things the models show, none of them against a stated property: an edit of a retained
run between `session/workflow.py:346` and the loads after it shows in a card (reading first and
checking what was read would exclude it); a death between `RUNTIME.json` and its
key leaves a home that answers ready and can never run (`abandoned` in
`DeveloperWorkflow`); a closure's `RESULT` may say COMPLETED with `cleanupConfirmed` false,
and a launcher's stop replaces the child's cause code; in `native.replay` and the
workflow an attempt can be burned without a recorded result when creating the
evidence directory fails; the host guard catches the stage's own deadline alarm
and calls it a host stop; the pair launcher does not ask for the worker's exit code;
a consent whose owner died between its directory and `GRANT.json` can never be issued;
and where an error precedes the latch, the consent's `RESULT.json` says
`operationPermanentlyClosed` although the workflow would still take its
`ENGINE_AUTHORITY.json` until that expires.

## What is proved

Fifty-seven theorems, for all values of the constants that satisfy the named assumptions:
`DistinctContents` and `BoundsAreNat` of `EventJournal`, `ChainAssumption` and `PolicyAssumption`
of `EventWatch`, `ConstantsAssumption` of `CounterfactualSession`, `HandoffAssumption` of `SessionHandoff`, `NothingIsNone` and
`DeathsAreNat` of `DeveloperWorkflow`, `HostAssumption` of `HostAdmission`, `CallAssumption` and
`TimeAssumption` of `OneShotExecution`, `LauncherAssumption` of `EngineLaunchers`,
`ClosureAssumption` of `ScenarioClosure`, `PreparationAssumption` and `ShippedAssumption` of
`ScenarioPreparation`, `DescriptorAssumption` of `ProfileDescriptor`, `OverlayAssumption` and
`LayoutAssumption` of `ConfigOverlay`.  Each is an inductive invariant (`IInv`, `HInv`, `PInv`),
follows from one, or (`ComposeInParallel`, `ThreeAnswers`) is about descriptors alone.  `TimeAssumption` is what the constants of `api.py` and `authority.py` satisfy: a workflow
fits into its grant, and a grant into the margin that is asked of the owner's authorization.
`OverlayAssumption` says that each registered field is a position (target, word, offset, width),
`LayoutAssumption` that `lpBps` lies in the reviewed words and is wide enough for LP100 (16 bits in the
code).  `ShippedAssumption` is what `hookr-1.json` says of the two kinds that are also compiled: where
their fields lie, what they require, what they assign, and that they have no conditions afterwards.

| module | `Spec =>` |
|---|---|
| `EventJournalProofs` | `TypeCorrect`: `[]TypeOK`; `Inductive`: `[]IInv`; `MarkersFirst`: `[]MarkersPrecedeRows`; `ConsumptionIsDurable`: `[]DurableBeforeNative`; `NothingSlipsThrough`: `NothingAfterFatal`; `NoResume`: `ResumesOnlyUntouched`; `JournalIsOneShot`: `ImplementsOneShot` |
| `EventWatchProofs` | `WatchTypeCorrect`: `[]TypeOK`; `WatchInductive`: `[]IInv`; `FirstEligible`: `[]NothingPassedUnjudged`; `RefusalStops`: `[]RefusedNeverNative`; `WithinBudget`: `[]ConnectionsBounded`; `ReturnsAlone`: `[]NothingLeftBehind`; `WatchIsOneShot`: `ImplementsOneShot` |
| `CounterfactualSessionProofs` | `SessionInductive`: `[]IInv`; `RecordsArePrepared`: `[]VerifiedIsPrepared`; `ComparisonStands`: `[]AnswerStands`; `Overshoot`: `[]OvershootBounded`; `SessionIsLedger`: `ImplementsLedger` |
| the same, from `HSpec` of `SessionHandoff` | `HandoffInductive`: `[]HInv`; `ImportsAreComplete`: `[]ImportedIsComplete`; `ImportsJudgeFirst`: `[]JudgedBeforeAdding`; `PackagesAreFaithful`: `[]PackageIsFaithful`; `HandedRecordsArePrepared`: `[]VerifiedIsPrepared`; `FinishedStandsHolds`: `[][FinishedStands]_hvars` |
| `DeveloperWorkflowProofs` | `WorkflowInductive`: `[]IInv`; `ReadyStays`: `[]ReadyStands`; `VerifiedStays`: `[]VerifiedIsConsented`; `CardsAreOneRun`: `[]CardIsOneRun` |
| `OneShotExecutionProofs` | `Invariant`: `[]IInv`; `CompletedIsRealHolds`, `NothingConsumedHolds`, `WithinAuthorityHolds`, `GoneMeansGoneHolds`, `AnswerIsRecordedHolds`: `[]CompletedIsReal` and so on; `AnswerStandsHolds`: `[][AnswerStands]_vars`; `ExecutionIsOneShot`: `ImplementsOneShot` |
| `ScenarioClosureProofs` | `Invariant`: `[]IInv`; `ClosureIsRealHolds`: `[]ClosureIsReal`; `CleanupIsTrueHolds`: `[]CleanupIsTrue`; `FirstFailureKeptHolds`: `[]FirstFailureKept` |
| `OwnerReplayProofs` (from `OSpec`) | `Invariant`: `[]IInv`; `EveryAnswerIsTrueHolds`: `[]EveryAnswerIsTrue`; `SealedIsQuietHolds`: `[]SealedIsQuiet`; `RecordsStandHolds`: `[][RecordsStand]_allVars`; `LaunchersAreOneShot`: `ImplementsOneShot` |
| `AdmissionProofs` | `HostInductive`: `[]IInv`; `HostStoodStill`: `[]StoodStill`; `HostSummary`: `[]SummaryIsTrue` |
| the same, from `PSpec` of `ScenarioPreparation` | `PreparationInductive`: `[]PInv`; `PreparedIsOneDerivationHolds`: `[]PreparedIsOneDerivation`; `WorldsAsPlannedHolds`: `[]WorldsAsPlanned`; `PreparedStandsHolds`: `[][PreparedStands]_pvars`; `ParallelAssignmentHolds`: `[]ParallelAssignment`; `LegacyParityHolds`: `[]LegacyParity` |
| the same, of any descriptor and list | `ComposeInParallel`: `Compose` is a parallel assignment; `ThreeAnswers`: interpreter, registry and SDK 0.4 give one answer |

**The journal.**  `IInv` is needed because none of the properties is inductive: a
power loss makes any property of `file` a property of each of its prefixes, and a
restart turns the last row into the state of the next process.  So it says of
every row, and of `state`, that the durable markers repeat what it says
(`RowsRecorded`, `StateRecorded`); that a consumption row lies behind a durable
lock row (`ConsumedAfterLock`, or a power loss could keep the one and lose the
other); that the `Update` in flight is the one its issuer asked for, applied to
the current state (`InFlight`); and what the main goroutine knows at each step
(`Control`).  The step lemmas first show that durable markers are never changed
(`MarkersStep`) and that rows only come from the update in flight (`FileStep`);
the parts of `IInv` follow from these two, one lemma each.  For the refinement,
`chosen` is the lock of any durable row, which `IInv` makes unique.

The two action properties need more (`ChainInv`).  A row that was written but not
acknowledged is not in `state`, so `state` alone does not say that the file is
untouched: what does is that such a row leaves `seq` behind the file, and the next
row written then breaks the chain (`InStep`).  In a file whose rows do chain, each
row keeps what the earlier ones said (`RowsKeepTouched`), and the replay accepts
no other file.

**The watcher.**  The parts of its `IInv` are one argument each: from the
consumption to native execution nothing was entered yet (`AuthorityKnown`); the
reader lives only between subscription and closing (`ThreadsKnown`); a generation
is counted before its socket is opened, so a kill between the two loses a
connection and never gains one (`Budgeted`); a refusal has either stopped the
operation or still holds `c.mu`, which `LoadLocked` needs (`RefusalHolds`); a case is
PENDING exactly while its capture runs, until a stop (`CasesKnown`); and what is
left of the range in work, observed or judged, is what `Judge` will still see
(`RangeKnown`).  `StateStep` first says what a row may change and `FlowStep` from
where the main goroutine comes to a step; then each part has its step lemma.

**The session.**  Without a lock a call's knowledge is a look that others may have
overtaken, so `IInv` says of each call (`CallKnown`) only what no step of another
process can take back: registered stays registered, complete stays complete, a
record once there stays.  `Exclusive` is what exclusive creation gives: at most one
process is inside the preparation, or the record, of one variant.
`NothingUnregistered` and `RecordsKnown` tie directories to each other, `AnswerKnown` the rows
read so far to the records.  `Counted` is the strengthening the limit needs: the
registered variants and the processes between count and rename are together at
most `MaxVariants + Cardinality(Procs) - 1`; a process may pass the check only when
fewer than `MaxVariants` are registered, and there are at most all other processes
at that point.  The refinement compares the entry of each variant before and after.

**The handoff.**  Every step of importers and exporters is a step of the session, the placing
of a whole session where there was none, or the death of a call (`StepsOfSession`), so the session's `IInv`
holds beside the imports (`SessionPart`); the placing is sound because before it nothing is there and
nobody adds (`PlaceKnown`).  `ImportKnown` says what an import may rely on at each stage; all of it
only grows (registered, complete), so other calls keep it.  What it judged is another
matter: others may register or edit a variant after it was looked at, and then `overtaken` is set.
`JudgedKnown` therefore speaks of imports nobody overtook: what is left to add, with the
variant in work (`Pending`), is not registered yet and the whole package still fits under the
limit, which takes an argument about cardinalities (`AddKeeps`).  `ExportKnown` holds what an exporter has
read to what the session says now (`Told`).

**The workflow.**  Every file of an attempt is created once, and the lemma `StandsStep`
says what a step can never take back (markers, grants, records, preparations, the
binding of the home once its key is there).  `HomeKnown` and `RunsKnown` relate these files to
each other; `CallKnown` says what each call may still rely on at each of its steps,
and is preserved for the other processes' steps by `KnownStands`, which needs only
`StandsStep`, and for the process's own by one lemma per step.  About to load a run, a call knows that
it is unedited or was edited past its own check (`EditKept`, `ReadStep`).  `AnswersKnown` are then the
three properties.  The one condition in `ReadyStands`, `abandoned`, is needed exactly for
a death between `RUNTIME.json` and `.consent.key`.

**The host.**  A packet is a few readings of a host that moves between them, and all that is known of them is their order: counters only grow (`CountersOnlyGrow`), so a
later reading is at least an earlier one.  `ChainKnown` says that the sample which is
judged next is the last of `chain`; with that, `StoodStill` for all pairs follows from the
check of one pair and transitivity.  For `v4` the invariant says that what the guard has
counted (`Tally`) is what `served` holds, so that `SUMMARY.json` is.

**One-shot execution.**  Everything of a plan is created by whoever consumed its grant, and
that call keeps the lock until it has answered; `LockIsHeld`, `ConsumedByRun` and
`BelongToConsumer` say so of the lock, the runner and the files, and `Progress` how far the
runner's output and worker have come at each of its steps.  A worker outlives the runner that
started it, so `CompleteWorker` ties every COMPLETED, of a runner or of the output, to the state
of the worker and not to the runner being alive.  `Margins` is the arithmetic: the clock may stand
anywhere between two steps, and all that the checks at the beginning of a run leave is
`began + Workflow <= grant.expires`.  `NothingConsumed` is the hardest, since it speaks of what
a child never will do: `MarkerFirst` says that a gated runner opens nothing before its own
operation's marker, and `LaunchesItsChild` that a launcher which looks for that marker has no
child any more.  `AnswerStands`, which no run checks, is the action property behind them: a
recorded result is not changed by late manifests, other calls or deaths.

**Launchers and owners.**  The invariant is `LInv` for six kinds of launcher at once and `OwnInv`
for the owners around one of them.  `TrueAnswer(a)` is the statement that is inductive where
`AnswersAreTrue` is not: a count may only be given once the worker has stopped or has written
its record, because a running worker with a torn record could still change it.
`RecordsAreTrue` relates what a supervisor measured to the worker, `BelongToClaim` lets one call at
most be between claim and seal.  Of the owners, `OneLatched` says that the latch admits one and that its child is the
only one, `ConsentFirst` in which order consent, authority and results are written, and
`OuterKnown` that each outer record knows nothing or is the launcher's own final answer.

**The closure.**  One call gets the consent, so stages, outputs and broker are its own
(`OfTheConsent`); where it stands in its workflow (`Placed`) says what is believed of discovery
and of the final stage, and `FinalLast` what has to be true of the broker before the offline
worker is entered.  The proof first shows what a step never takes back: a stage that was
judged stays judged and a broker that exited stays so, although worker, supervisor, sampler and
guard go on.  For the first failure `FirstTold` says which records a stage may have at each
point of its supervision, since the sampler and the guard may each still write
one after another one was first.

**Preparation.**  `JobKnown` is a preparation's own memory, which nobody else writes: what it
authenticated (`Examined`) it authenticated for good, although two families read the source twice
and all of them read the installed descriptor while it may be replaced.  mkdir gives a directory to
one of them (`OneOwner`), so as long as nobody edits it the directory holds what its owner wrote
(`Holds`, `Untouched`).  For the descriptor family the plan may name another descriptor than the
input; that it does not is what the read-back before PREPARATION.json adds (`PlanIsOfInput`).
`WorldsAsPlanned` also speaks of edited inputs, so it rests on what an edit cannot change
(`FilesKept`) and on what binding and admission compare.  The LP family binds its plan only by
the LP field of the written word, so its case needs that the field read back is the one written
(`PutThenGet`, `LpReadBack`).  Up to here `Compose` and the registries are opaque.

**Composition.**  `ComposeInParallel` opens `Compose`, which walks over kinds, requirements and
assignments in canonical order and writes while it walks.  Three things are shown of it for lists and words of any length.

- *The walk is a run.*  A left fold is the last value of a function that holds what the fold has after each
  element (`WalkRuns`).  That function exists by induction on the number of elements, which is the well-foundedness
  of the naturals applied to a set of counterexamples; so no induction theorem with an operator
  parameter is needed.  Along the run `AppliedUpTo` is inductive: every assignment so far is in the words, its
  bits are the used ones, and every segment of bits away from them is as in the originals.
- *Fields are segments of bits.*  `PutField` and `GetField` are divisions by powers of two, of which the
  provers know nothing.  `2 ^ n` is the number of subsets of `1 .. n`, which gives that it is positive and that
  `2 ^ (m + n) = 2 ^ m * 2 ^ n` (`PowerIsPositive`, `PowerOfSum`); from there, that a field reads what was
  written into it, and that what lies apart from it reads as before (`FieldWritten`, `StateWritten`).  `validate` keeps the fields
  of a descriptor apart (`FieldsApart`), so what is read while the walk writes is what the originals had.
- *The order of the request does not matter.*  The kinds of an admitted request are all different and
  ordered, so their ranks are a bijection, and the canonical list depends only on the set of items
  (`RanksAreBijective`, `CanonicalForm`); a request and its reverse are therefore refused or composed alike.

**Parity.**  `ThreeAnswers` compares two loops that walk in different orders over different data.  It does not run them
side by side: both are brought to one description.  An answer is OK if and only if no kind comes twice and every item
finds the settings that its rows replace (`ItemOk`, `OverlayAnswer`, `InterpreterAnswer`); and the words of an OK answer are
`RowsWritten`, the values of the rows in their fields and the originals everywhere else.  Words of which both are true are
equal, because they agree in every bit (`BitsDecide`, `FieldsDecide`, `RowsDecide`).  The registry writes the mode byte
as one field and the interpreter as a flag of one bit beside two parts it only compares: `ModeIsItsParts`
is the arithmetic between the two.  SDK 0.4 makes one or three writes and clears that bit; `SingleAnswer` shows that these are the
rows as well.  That neither implementation refuses with `NO_EFFECT` needs that no row replaces a setting
by itself (`EveryRowBites`): LP100 by LP100 is excluded by the parameter, the base fee by the strict comparison.

**What the proofs changed.**  The models wrote some chains of the code's `if ... elif ...` as `CASE`
whose arms overlapped.  TLC takes the first arm that is true, as the code does; TLA+ leaves the
choice open, and so the theorems failed.  They are `IF` chains now (`Primary`, `Unstopped`,
`Judged`, `CaseAnswers`) or their arms exclude each other (`CaseFailures`).

`LegacyParity` was false as first stated, and its proof said why: the registry writes the base fee
of the pinned profile, the interpreter that of the originals, and nothing in the three functions makes the two the
same.  `original_words` does (`config_overlay.py` 155-157: it refuses a Root record with another base fee), before
either compiled implementation is called.  No document of the run had such a record, so TLC had not seen it.  `LegacyShape`
now states the condition, and the document `base2` has another base fee: without the condition TLC finds
`LegacyParity` violated by it.

**Only model-checked.**  Liveness (`Terminates`, `RerunAddsAll`), because the proof system
has neither `ENABLED` nor fairness here.  Every other property of a passing run is also a theorem.

## Not modelled

- **Prospective execution, scenario worker, proofs, packages, economics**: geth, hash
  functions and arithmetic on finished results.  They appear as a step with an
  outcome, or as the equality of values.
- **Scenario acquisition's paging, RPC source, event capture, event meter**: their state is
  byte counts, CU windows and socket buffers under several sums of limits.  The
  closure sees a broker that acquired, accepted and sealed or did not; the watcher sees
  a call or a capture that succeeds or fails at any time, which includes every refusal
  of a budget.  What the meter promises (no limit is exceeded) is not shown.
- **Observed selection**: the third policy of the watcher, with its own lists of
  delivered transactions; `EventWatch` has the other two.
- **Supervision** by heartbeat is `Killed`, which may happen at any step.
- **Case SDK**: process groups and cleanup are in the modules that use them; capsules,
  registry and command line read and write single files.
- **Go twin of the descriptor validator, witness forge, evidence verifiers, installers,
  build and release tools, profile parity and recorded results**: one process over
  finished files, or code in other languages without shared state.

If the project is extended, the order is: observed selection composed with the drain of
`EventWatch`; the event meter with a clock that steps back.
