-------------------------- MODULE ScenarioClosure --------------------------
(***************************************************************************)
(* The closure of one scenario plan (cases/scenario/closure.py), and the   *)
(* diagnostic of its result (diagnostic.py), which shares its home, lock   *)
(* and supervision.  A launcher (run_owned) spawns `scenario-close` in a   *)
(* process group of its own; that child spends the plan's closure consent, *)
(* starts a broker that acquires data from a provider, runs a discovery    *)
(* worker that asks the broker for what is missing, waits for the broker   *)
(* to end, and then runs the final worker offline on what was captured.    *)
(* A call made inside a group (session tools) runs without a launcher.     *)
(* Any process may be killed between two steps.                            *)
(*                                                                         *)
(* Deadlines (30 s of acquisition, 180 s in all) may pass at any time: a   *)
(* step that has one may always fail.  A check of inputs, files, power or  *)
(* host may fail too.  Each operation of the plan has its own output       *)
(* directory.  The final stage's own consent is the one OneShotExecution   *)
(* is about; another run of the plan may have taken it (Stops at accept).  *)
(* Closures and diagnostics share the lock and nothing else, so a          *)
(* behaviour has calls of one kind; a busy lock is Raises.                 *)
(***************************************************************************)
EXTENDS SupervisedStage

CONSTANTS Calls,        \* the calls made, each once
          Closures,     \* closure operations of the plan
          Diagnostics,  \* diagnostic operations of the plan
          None

Ops == Closures \cup Diagnostics
ASSUME ClosureAssumption ==
  /\ Stages = {"discovery", "final", "diagnostic"}
  /\ None \notin Calls \cup Ops /\ Closures \cap Diagnostics = {}

VARIABLES kind,      \* what the calls ask for: "closure" or "diagnostic"
          launch,    \* each call's launcher
          run,       \* each call's child
          evidence,  \* <out>.workflow: the call that created it, and its SDK_RESULT.json
          out,       \* the output directory of each operation
          consent,   \* the call that created closure-consents/<plan> (diagnostic-consents/<plan>)
          lock,      \* holder of .replay.lock
          broker     \* the broker process and what it captured

vars == <<kind, stage, entered, launch, run, evidence, out, consent, lock, broker>>

NoLaunch == [at |-> "idle", op |-> None, gone |-> FALSE, stop |-> FALSE]
NoRun == [at |-> "idle", op |-> None, cause |-> "none", offline |-> "none"]
NoResult == [status |-> "none", clean |-> FALSE, cause |-> "none"]
NoBroker == [by |-> None, state |-> "none", files |-> {}]

Init ==
  /\ kind \in {"closure", "diagnostic"}
  /\ stage = [s \in Stages |-> NoStage] /\ entered = << >>
  /\ launch = [c \in Calls |-> NoLaunch] /\ run = [c \in Calls |-> NoRun]
  /\ evidence = [o \in Ops |-> [by |-> None, answer |-> NoResult]]
  /\ out = [o \in Ops |-> [by |-> None, result |-> NoResult]]
  /\ consent = None
  /\ lock = None /\ broker = NoBroker

Active(c) == run[c].at \notin {"idle", "returned", "ended"}
Launching(c) == launch[c].at \in {"spawn", "wait", "sweep", "report"}
Goes(c, at) == run' = [run EXCEPT ![c].at = at]
Fails(c, at, cause) == run' = [run EXCEPT ![c].at = at, ![c].cause = cause]
Leaves(c) == lock' = IF lock = c THEN None ELSE lock
\* A process that ends keeps no locals.
Ends(c) == run' = [run EXCEPT ![c] = [NoRun EXCEPT !.at = "ended"]] /\ Leaves(c)
stages == <<kind, stage, entered>>
files == <<evidence, out, consent>>
\* The stages of a call are its own, since the consent is.
OwnStages(c) == IF consent = c THEN Stages ELSE {}

-----------------------------------------------------------------------------
(* The broker (closure-main.mjs, acquire.mjs, discovery.mjs) and the workers. *)

BrokerAlive == broker.state \in {"acquiring", "ready", "finished"}

\* PROVISIONAL_SCENARIO.json, then DISCOVERY_READY.json once its socket listens.
BrokerReady ==
  /\ broker.state = "acquiring"
  /\ broker' = [broker EXCEPT !.state = "ready", !.files = {"ready"}]
  /\ UNCHANGED <<stages, launch, run, files, lock>>

\* The discovery worker's `finish` request, sent after its record, closes the socket.
BrokerFinished ==
  /\ broker.state = "ready"
  /\ stage["discovery"].worker = "running" /\ stage["discovery"].native = "complete"
  /\ broker' = [broker EXCEPT !.state = "finished"]
  /\ UNCHANGED <<stages, launch, run, files, lock>>

\* The final header, SCENARIO.json and ACQUISITION_RESULT.json; exit 0.
BrokerCaptures ==
  /\ broker.state = "finished"
  /\ broker' = [broker EXCEPT !.state = "exit0", !.files = @ \cup {"scenario"}]
  /\ UNCHANGED <<stages, launch, run, files, lock>>

\* A failed request, its own deadline, a signal, its CPU limit.
BrokerFails ==
  /\ BrokerAlive
  /\ broker' = [broker EXCEPT !.state = "exit1"]
  /\ UNCHANGED <<stages, launch, run, files, lock>>

Worker(s) == WorkerStep(s) /\ UNCHANGED <<kind, launch, run, files, lock, broker>>

-----------------------------------------------------------------------------
(* The child: closure.run and diagnostic.run. *)

\* account, prepare, the exact operation, a fresh output.
Begin(c) ==
  /\ run[c].at = "begin" /\ out[run[c].op].by = None
  /\ Goes(c, "lock")
  /\ UNCHANGED <<stages, launch, files, lock, broker>>

Acquire(c) ==
  /\ run[c].at = "lock" /\ lock = None
  /\ lock' = c /\ Goes(c, "issue")
  /\ UNCHANGED <<stages, launch, files, broker>>

\* authority.issue and consume: the plan's consent directory, for ever; either may fail
\* and leave it.
Consent(c) ==
  /\ run[c].at = "issue" /\ consent = None
  /\ consent' = c
  /\ (Goes(c, "make") /\ UNCHANGED lock) \/ Ends(c)
  /\ UNCHANGED <<stages, launch, evidence, out, broker>>

\* out.mkdir, BINDING.json or STARTED.json.
MakeOut(c) ==
  /\ run[c].at = "make" /\ out[run[c].op].by = None
  /\ out' = [out EXCEPT ![run[c].op].by = c]
  /\ \/ Goes(c, IF kind = "closure" THEN "preflight" ELSE "dispatch") /\ UNCHANGED lock
     \/ Ends(c)
  /\ UNCHANGED <<stages, launch, evidence, consent, broker>>

\* An error before the try block: nothing more is written.
Raises(c) ==
  /\ run[c].at \in {"begin", "lock", "issue", "make"}
  /\ Ends(c)
  /\ UNCHANGED <<stages, launch, files, broker>>

\* An error in the try block.
Stops(c) ==
  /\ run[c].at \in {"preflight", "wait", "discover", "broker", "accept", "offline", "verify", "dispatch"}
  /\ Fails(c, IF kind = "closure" THEN "cleanup" ELSE "seal", "other")
  /\ UNCHANGED <<stages, launch, files, lock, broker>>

\* Power, admission, drift, BROKER_CONFIG.json; the broker.
Preflight(c) ==
  /\ run[c].at = "preflight"
  /\ broker' = [NoBroker EXCEPT !.by = c, !.state = "acquiring"]
  /\ Goes(c, "wait")
  /\ UNCHANGED <<stages, launch, files, lock>>

\* The broker is polled until it is ready; a dead one, a deadline, the host are Stops.
Ready(c) ==
  /\ run[c].at = "wait" /\ "ready" \in broker.files
  /\ Goes(c, "discover")
  /\ UNCHANGED <<stages, launch, files, lock, broker>>

\* _discover_once, with a grant and a directory of its own; the worker is started.
Discover(c) ==
  /\ run[c].at = "discover"
  /\ Start("discovery") /\ Goes(c, "discovery")
  /\ UNCHANGED <<kind, launch, files, lock, broker>>

\* Its directory, staging and grant: a failure leaves a directory without records.
StagingFails(c) ==
  /\ run[c].at = "discover"
  /\ stage' = [stage EXCEPT !["discovery"] = Closed(@)]
  /\ Fails(c, "cleanup", "other")
  /\ UNCHANGED <<kind, entered, launch, files, lock, broker>>

\* While the worker is sampled so is the broker: it must be alive or done.
Samples(c) ==
  /\ run[c].at \in Stages
  /\ run[c].at = "discovery" => broker.state # "exit1"
  /\ Sample(run[c].at)
  /\ UNCHANGED <<kind, launch, run, files, lock, broker>>

Supervises(c) ==
  /\ run[c].at \in Stages
  /\ StageStep(run[c].at)
  /\ UNCHANGED <<kind, launch, run, files, lock, broker>>

\* require_stage, and for a worker that ended well a complete pair of worlds.
Judged(s) ==
  IF stage[s].at = "raised" THEN "other"
  ELSE IF Primary(stage[s]) # "none" THEN Primary(stage[s])
  ELSE IF stage[s].native # "complete" THEN "other"
  ELSE "none"

CloseStage(s, cause) ==
  stage' = [stage EXCEPT ![s] = IF cause = "none" THEN [Closed(stage[s]) EXCEPT !.at = "believed", !.first = stage[s].first]
                                ELSE Closed(@)]

Judge(c) ==
  LET s == run[c].at IN
  /\ s \in {"discovery", "diagnostic"} /\ stage[s].at \in {"measured", "raised"}
  /\ run' = [run EXCEPT ![c].cause = Judged(s),
                        ![c].at = IF s = "diagnostic" THEN "seal"
                                  ELSE IF Judged(s) = "none" THEN "broker" ELSE "cleanup"]
  /\ CloseStage(s, Judged(s))
  /\ UNCHANGED <<kind, entered, launch, files, lock, broker>>

BrokerUnwaited(c) ==
  /\ run[c].at = "broker"
  /\ broker.state # "exit1"
  /\ run' = [run EXCEPT ![c].at = "accept"]
  /\ UNCHANGED <<stages, launch, files, lock, broker>>

\* The broker must exit with 0 before the deadline, with an authenticated capture.
AwaitBroker(c) ==
  /\ run[c].at = "broker"
  /\ broker.state = "exit0" /\ "scenario" \in broker.files
  /\ run' = [run EXCEPT ![c].at = "accept"]
  /\ UNCHANGED <<stages, launch, files, lock, broker>>

\* The capture is frozen and checked, power, the scenario's own binding and consent; then
\* api._execute: output, staging, admission.
Accept(c) ==
  /\ run[c].at = "accept"
  /\ Goes(c, "offline")
  /\ UNCHANGED <<stages, launch, files, lock, broker>>

\* api._execute answers by itself when it fails before its worker.
Undispatched(c) ==
  /\ run[c].at = "offline"
  /\ \E o \in {"clean", "unclean"} :
       run' = [run EXCEPT ![c].at = "cleanup", ![c].offline = o, ![c].cause = "other"]
  /\ UNCHANGED <<stages, launch, files, lock, broker>>

RunOffline(c) ==
  /\ run[c].at = "offline"
  /\ Start("final") /\ Goes(c, "final")
  /\ UNCHANGED <<kind, launch, files, lock, broker>>

Dispatch(c) ==
  /\ run[c].at = "dispatch"
  /\ Start("diagnostic") /\ Goes(c, "diagnostic")
  /\ UNCHANGED <<kind, launch, files, lock, broker>>

\* api._execute catches what its supervision raises, confirms the cleanup (whose own
\* evidence may be missing) and seals its result, which may fail and escape.
Executed(c) ==
  LET cause == Judged("final") IN
  /\ run[c].at = "final" /\ stage["final"].at \in {"measured", "raised"}
  /\ \/ \E clean \in {FALSE, ConfirmedClosed(stage["final"])} :
          run' = [run EXCEPT ![c].offline = IF clean THEN "clean" ELSE "unclean",
                             ![c].cause = IF cause = "none" /\ ~clean THEN "other" ELSE cause,
                             ![c].at = IF cause = "none" /\ clean THEN "verify" ELSE "cleanup"]
     \/ Fails(c, "cleanup", "other")
  /\ CloseStage("final", cause)
  /\ UNCHANGED <<kind, entered, launch, files, lock, broker>>

\* verify, compare, compare_worlds, the workflow deadline.
Verify(c) ==
  /\ run[c].at = "verify"
  /\ Goes(c, "cleanup")
  /\ UNCHANGED <<stages, launch, files, lock, broker>>

\* finally: terminate, kill, and wait for the broker, which may not be seen to end.
Cleanup(c) ==
  /\ run[c].at = "cleanup"
  /\ broker' = IF BrokerAlive THEN [broker EXCEPT !.state = "exit1"] ELSE broker
  /\ Goes(c, "save")
  /\ UNCHANGED <<stages, launch, files, lock>>
BrokerUnreaped(c) ==
  /\ run[c].at = "cleanup" /\ BrokerAlive
  /\ Goes(c, "save")
  /\ UNCHANGED <<stages, launch, files, lock, broker>>

DiscoveryPresumedClean == stage["discovery"].native = "missing" \/ ConfirmedClosed(stage["discovery"])

\* discovery_cleanup: what never started is clean, what started must have said so.
DiscoveryClean == stage["discovery"] = NoStage \/ ConfirmedClosed(stage["discovery"])

ClosureResult(c) ==
  [status |-> IF run[c].cause = "none" THEN "COMPLETED" ELSE "STOP",
   clean |-> ~BrokerAlive /\ DiscoveryClean /\ run[c].offline # "unclean",
   cause |-> run[c].cause]
\* Whatever the cleanup finds, a diagnostic that is not clean has stopped.
DiagnosticResult(c, clean) ==
  [status |-> IF run[c].cause = "none" /\ clean THEN "COMPLETED" ELSE "STOP",
   clean |-> clean, cause |-> run[c].cause]

\* RESULT.json, written once at the very end; returned and printed.
Save(c) ==
  /\ \/ /\ run[c].at = "save"
        /\ out' = [out EXCEPT ![run[c].op].result = ClosureResult(c)]
     \/ /\ run[c].at = "seal"
        /\ \E clean \in {FALSE, stage["diagnostic"] = NoStage \/ ConfirmedClosed(stage["diagnostic"])} :
             out' = [out EXCEPT ![run[c].op].result = DiagnosticResult(c, clean)]
  /\ run' = [run EXCEPT ![c] = [NoRun EXCEPT !.at = "returned"]] /\ Leaves(c)
  /\ UNCHANGED <<stages, launch, evidence, consent, broker>>
SaveFails(c) ==
  /\ run[c].at \in {"save", "seal"}
  /\ Ends(c)
  /\ UNCHANGED <<stages, launch, files, broker>>

\* Nobody will judge an unfinished stage of a dead child.
Abandoned(s) == IF stage[s].at \in {"looping", "stopping", "measured", "raised"} THEN Closed(stage[s]) ELSE stage[s]
Abandon(c) == stage' = [s \in Stages |-> IF s \in OwnStages(c) THEN Abandoned(s) ELSE stage[s]]

\* SIGKILL: files and processes stay.
RunKilled(c) ==
  /\ Active(c)
  /\ Ends(c) /\ Abandon(c)
  /\ UNCHANGED <<kind, entered, launch, files, broker>>

RunStep(c) ==
  \/ Begin(c) \/ Acquire(c) \/ Consent(c) \/ MakeOut(c) \/ Raises(c) \/ Stops(c)
  \/ Preflight(c) \/ Ready(c) \/ Discover(c) \/ StagingFails(c) \/ Dispatch(c) \/ Samples(c) \/ Supervises(c) \/ Judge(c)
  \/ AwaitBroker(c) \/ Accept(c) \/ Undispatched(c) \/ RunOffline(c) \/ Executed(c) \/ Verify(c)
  \/ Cleanup(c) \/ BrokerUnreaped(c) \/ Save(c) \/ SaveFails(c)

-----------------------------------------------------------------------------
(* The launcher: run_owned. *)

\* From a shell; a diagnostic and a call from inside a group have no launcher here.
Launch(c, o) ==
  /\ kind = "closure"
  /\ launch[c].at = "idle" /\ run[c].at = "idle" /\ o \in Closures
  /\ out[o].by = None /\ evidence[o].by = None
  /\ evidence' = [evidence EXCEPT ![o].by = c]
  /\ launch' = [launch EXCEPT ![c] = [NoLaunch EXCEPT !.at = "spawn", !.op = o]]
  /\ UNCHANGED <<stages, run, out, consent, lock, broker>>
Direct(c, o) ==
  /\ o \in (IF kind = "closure" THEN Closures ELSE Diagnostics)
  /\ launch[c].at = "idle" /\ run[c].at = "idle"
  /\ run' = [run EXCEPT ![c] = [NoRun EXCEPT !.at = "begin", !.op = o]]
  /\ UNCHANGED <<stages, launch, files, lock, broker>>

Spawn(c) ==
  /\ launch[c].at = "spawn"
  /\ \/ /\ run' = [run EXCEPT ![c] = [NoRun EXCEPT !.at = "begin", !.op = launch[c].op]]
        /\ launch' = [launch EXCEPT ![c].at = "wait"]
     \/ /\ launch' = [launch EXCEPT ![c].at = "report", ![c].stop = TRUE]
        /\ UNCHANGED run
  /\ UNCHANGED <<stages, files, lock, broker>>

\* What runs in the group of a call: the child, its broker and its workers.
GroupRunning(c) ==
  \/ Active(c)
  \/ broker.by = c /\ BrokerAlive
  \/ \E s \in OwnStages(c) : stage[s].worker = "running"
KillGroup(c) ==
  /\ broker' = IF broker.by = c /\ BrokerAlive THEN [broker EXCEPT !.state = "exit1"] ELSE broker
  /\ stage' = [s \in Stages |-> IF s \in OwnStages(c) THEN GroupKilled(Abandoned(s)) ELSE stage[s]]
  /\ UNCHANGED <<kind, entered>>

\* guards.capture: the child ends, or a limit kills its group.
Captured(c) ==
  /\ launch[c].at = "wait"
  /\ \/ /\ ~Active(c)
        /\ launch' = [launch EXCEPT ![c].at = "sweep"]
        /\ UNCHANGED <<stages, broker, run, lock>>
     \/ /\ Active(c)
        /\ launch' = [launch EXCEPT ![c].at = "sweep", ![c].stop = TRUE]
        /\ Ends(c) /\ KillGroup(c)
  /\ UNCHANGED files

\* finish_group: what is left is killed, and must be seen to be gone.
Sweep(c) ==
  /\ launch[c].at = "sweep"
  /\ \/ /\ KillGroup(c)
        /\ launch' = [launch EXCEPT ![c].at = "report", ![c].gone = TRUE, ![c].stop = @ \/ GroupRunning(c)]
     \/ /\ launch' = [launch EXCEPT ![c].at = "report", ![c].stop = TRUE]
        /\ UNCHANGED <<stages, broker>>
  /\ UNCHANGED <<run, files, lock>>

\* The printed result is the stored one, of this operation.
Linked(c) == run[c].at = "returned" /\ out[launch[c].op].by = c /\ out[launch[c].op].result.status # "none"

\* SDK_RESULT.json.
Report(c) ==
  LET o == launch[c].op
      child == out[o].result
      clean == launch[c].gone /\ Linked(c) /\ child.clean
      completed == clean /\ ~launch[c].stop /\ child.status = "COMPLETED"
  IN /\ launch[c].at = "report"
     /\ evidence' = [evidence EXCEPT ![o].answer =
          [status |-> IF completed THEN "COMPLETED" ELSE "STOP", clean |-> clean,
           cause |-> IF launch[c].stop THEN "stop" ELSE IF Linked(c) THEN child.cause ELSE "unlinked"]]
     /\ launch' = [launch EXCEPT ![c] = [NoLaunch EXCEPT !.at = "answered", !.op = o]]
     /\ UNCHANGED <<stages, run, out, consent, lock, broker>>

LauncherKilled(c) ==
  /\ Launching(c)
  /\ launch' = [launch EXCEPT ![c] = [NoLaunch EXCEPT !.at = "ended"]]
  /\ UNCHANGED <<stages, run, files, lock, broker>>

Next ==
  \/ \E c \in Calls, o \in Ops : Launch(c, o) \/ Direct(c, o)
  \/ \E c \in Calls :
       \/ RunStep(c) \/ RunKilled(c)
       \/ Spawn(c) \/ Captured(c) \/ Sweep(c) \/ Report(c) \/ LauncherKilled(c)
  \/ BrokerReady \/ BrokerFinished \/ BrokerCaptures \/ BrokerFails
  \/ \E s \in Stages : Worker(s)

Spec == Init /\ [][Next]_vars

-----------------------------------------------------------------------------
(* Properties. *)

\* A worker whose run is believed: supervised to its end, complete, bridges closed.
Believed(s) ==
  stage[s].at = "believed" /\ stage[s].first = "none" /\ stage[s].worker = "exit0" /\ stage[s].native = "complete"

OfflineAfterAcquisition ==
  /\ \A i, j \in DOMAIN entered : entered[i] = entered[j] => i = j
  /\ stage["final"].at # "none" => /\ broker.state = "exit0" /\ "scenario" \in broker.files
                                   /\ Believed("discovery")
AnsweredFromOwnRun ==
  \A o \in Closures : evidence[o].answer.status = "COMPLETED" =>
    LET c == evidence[o].by IN
    /\ out[o].by = c /\ out[o].result.status = "COMPLETED"
    /\ Believed("discovery") /\ Believed("final")
    /\ ~GroupRunning(c)
ResultComplete ==
  \A o \in Closures : out[o].result.status = "COMPLETED" => Believed("discovery") /\ Believed("final")

\* What is called a completed closure is one: discovery and the offline pair were each
\* entered once, the second only after the broker had ended with an authenticated
\* capture, both are believed by inspect_stage, and the launcher's answer is its own
\* child's stored result with nothing of its group left running.
ClosureIsReal == OfflineAfterAcquisition /\ AnsweredFromOwnRun /\ ResultComplete

\* cleanupConfirmed is never claimed while something runs: an answer's covers the whole
\* group; a RESULT's covers the broker and the discovery worker with its bridges and, when
\* api._execute answered, the offline worker; a diagnostic's covers its worker.
CleanupIsTrue ==
  /\ \A o \in Ops : evidence[o].answer.clean => ~GroupRunning(evidence[o].by)
  /\ \A o \in Closures : out[o].result.clean =>
       /\ ~BrokerAlive /\ stage["discovery"].worker # "running"
       /\ stage["discovery"] # NoStage => Bridges(stage["discovery"]) = "CONFIRMED"
  /\ \A o \in Diagnostics : out[o].result.clean => stage["diagnostic"].worker # "running"

\* Whatever else fails or is written afterwards, a stage is reported with its first
\* recorded failure: a limit by the supervisor's stop, a host guard or observer failure
\* by its own record, and a failure of the worker itself only if supervision had none.
FirstFailureKept ==
  \A c \in Calls, s \in Stages : run[c].at = s /\ stage[s].at = "measured" => ReportsFirst(stage[s])
=============================================================================
