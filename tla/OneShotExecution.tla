-------------------------- MODULE OneShotExecution --------------------------
(***************************************************************************)
(* One prepared plan in one SDK home, and every call that may execute it:  *)
(* a runner (`scenario-run`, cases/scenario/api.py, or `replay`,           *)
(* cases/native.py) and a launcher (execution.py, profile_overlay.py) that *)
(* spawns a runner in a process group of its own.  They share files that   *)
(* are created exclusively: the attempt marker of an operation, the        *)
(* preflight, consent and output directories of the plan, CONSUMED.json.   *)
(* Any process may be killed between two steps; a killed one leaves its    *)
(* files, releases its lock and may leave a worker behind.                 *)
(*                                                                         *)
(* The plan is of one of three kinds.  "scenario": the runner issues and   *)
(* consumes its grant itself.  "profile": in addition the owner authorizes *)
(* one operation, only a launcher's child runs it, and the runner opens    *)
(* the marker.  "case": the grant is issued by an earlier call.            *)
(*                                                                         *)
(* A check of inputs, files or the host may fail at any time (Raises,      *)
(* Fails).  Wall and monotonic clock are one clock of coarse ticks.  Plans *)
(* share nothing but the lock: a run of another plan is a failed Acquire.  *)
(***************************************************************************)
EXTENDS Naturals, Sequences

CONSTANTS Calls,         \* the calls made, each once
          Ops, V4Ops,    \* the operations of the plan; those bound to host v3 or v4
          None,
          Workflow,      \* ticks: 180 s, which is also what a grant must have left
          GrantLife,     \* 600 s
          RunMargin,     \* 660 s
          LaunchMargin,  \* 900 s
          AuthLife,      \* 86400 s
          Horizon        \* bound of the clock

ASSUME CallAssumption == None \notin Calls \cup Ops /\ V4Ops \subseteq Ops
ASSUME TimeAssumption ==
  /\ {Workflow, GrantLife, RunMargin, LaunchMargin, AuthLife, Horizon} \subseteq Nat
  /\ 0 < Workflow /\ Workflow <= GrantLife /\ GrantLife < RunMargin

VARIABLES now, kind,
          marker,    \* per operation: the call that created execution-attempts/<op>.json
          auth,      \* per operation: end of the owner's authorization, 0 without one
          power,     \* the call that created preflight/<plan>, or None
          grant,     \* consents/<plan>: its operation and end (0: no GRANT.json in it)
          consumed,  \* the call that created CONSUMED.json
          out,       \* the output directory
          noted,     \* RESULT.json in the consent directory (replay's last resort)
          lock,      \* holder of .replay.lock
          worker,    \* the native worker
          entered,   \* history: the operations a worker was started for
          run,       \* each call's runner
          launch     \* each call's launcher

owner == <<marker, auth, power, grant, consumed>>
vars == <<now, kind, owner, out, noted, lock, worker, entered, run, launch>>

Kinds == {"scenario", "profile", "case"}
Gated == kind = "profile"
Ended == {"idle", "returned", "ended"}   \* ended: raised or killed
Active(c) == run[c].at \notin Ended
Launching(c) == launch[c].at \in {"mark", "spawn", "wait", "sweep", "report"}

NoRun == [at |-> "idle", op |-> None, began |-> 0, dispatched |-> FALSE, reaped |-> FALSE,
          status |-> "none", clean |-> FALSE]
NoLaunch == [at |-> "idle", op |-> None, gone |-> FALSE, stop |-> FALSE,
             status |-> "none", closed |-> FALSE, clean |-> FALSE]
NoOut == [by |-> None, op |-> None, files |-> {}, status |-> "none", clean |-> FALSE, endedAt |-> 0]

Init ==
  /\ now = 0 /\ kind \in Kinds
  /\ marker = [o \in Ops |-> None] /\ auth = [o \in Ops |-> 0]
  /\ power = None /\ grant = [op |-> None, expires |-> 0] /\ consumed = None
  /\ out = NoOut /\ noted = "none" /\ lock = None
  /\ worker = [by |-> None, state |-> "none"] /\ entered = << >>
  /\ run = [c \in Calls |-> NoRun] /\ launch = [c \in Calls |-> NoLaunch]

Goes(c, at) == run' = [run EXCEPT ![c].at = at]
\* flock: released by return, exception and death.  A dead process keeps no locals.
Leaves(c) == lock' = IF lock = c THEN None ELSE lock
Ends(c) == run' = [run EXCEPT ![c] = [NoRun EXCEPT !.at = "ended"]] /\ Leaves(c)
Authorized(o, remaining) == now < auth[o] /\ auth[o] - now >= remaining

-----------------------------------------------------------------------------
(* The owner, and the entry points of a runner. *)

\* authorize_profile: one record per operation, written once, before anything else.
Authorize(o) ==
  /\ Gated /\ o \in V4Ops
  /\ out.by = None /\ grant.op = None /\ marker[o] = None /\ auth[o] = 0
  /\ auth' = [auth EXCEPT ![o] = now + AuthLife]
  /\ UNCHANGED <<now, kind, marker, power, grant, consumed, out, noted, lock, worker, entered, run, launch>>

AuthorizeCaseAgain(o) ==
  /\ kind = "case"
  /\ grant' \in {[op |-> o, expires |-> now + GrantLife], [op |-> o, expires |-> 0]}
  /\ UNCHANGED <<now, kind, marker, auth, power, consumed, out, noted, lock, worker, entered, run, launch>>

\* native.authorize: the grant of a case plan, issued by a call of its own.
AuthorizeCase(o) ==
  /\ kind = "case" /\ grant.op = None
  /\ grant' \in {[op |-> o, expires |-> now + GrantLife], [op |-> o, expires |-> 0]}
  /\ UNCHANGED <<now, kind, marker, auth, power, consumed, out, noted, lock, worker, entered, run, launch>>

\* scenario-run or replay from a shell; v3 and v4 operations need a launcher's group.
DirectRun(c, o) ==
  /\ launch[c].at = "idle" /\ run[c].at = "idle"
  /\ \/ kind = "scenario" /\ o \notin V4Ops
     \/ kind = "case" /\ grant.op = o
  /\ run' = [run EXCEPT ![c] = [NoRun EXCEPT !.at = "begin", !.op = o]]
  /\ UNCHANGED <<now, kind, owner, out, noted, lock, worker, entered, launch>>

-----------------------------------------------------------------------------
(* The runner. *)

\* Consent, host, binding and (gated) the authorization, before the lock.
Begin(c) ==
  /\ run[c].at = "begin"
  /\ Gated => Authorized(run[c].op, RunMargin)
  /\ run' = [run EXCEPT ![c].at = "lock", ![c].began = now]
  /\ UNCHANGED <<now, kind, owner, out, noted, lock, worker, entered, launch>>

AcquireWithoutAttempt(c) ==
  /\ run[c].at = "lock" /\ lock = None
  /\ lock' = c
  /\ Goes(c, IF kind = "case" THEN "consume" ELSE "power")
  /\ UNCHANGED <<now, kind, owner, out, noted, worker, entered, launch>>

\* operation_lock: never waits; OPERATION_BUSY is Raises.
Acquire(c) ==
  /\ run[c].at = "lock" /\ lock = None
  /\ lock' = c
  /\ Goes(c, CASE Gated -> "attempt" [] kind = "case" -> "consume" [] OTHER -> "power")
  /\ UNCHANGED <<now, kind, owner, out, noted, worker, entered, launch>>

\* _open_profile_attempt, right after the authoritative check.
OpenAttempt(c) ==
  /\ run[c].at = "attempt"
  /\ Authorized(run[c].op, RunMargin) /\ marker[run[c].op] = None
  /\ marker' = [marker EXCEPT ![run[c].op] = c]
  /\ Goes(c, "power")
  /\ UNCHANGED <<now, kind, auth, power, grant, consumed, out, noted, lock, worker, entered, launch>>

\* power.observe: a fresh directory, then two observations that may fail and leave it.
ObservePower(c) ==
  /\ run[c].at = "power" /\ power = None
  /\ power' = c
  /\ \/ Goes(c, "issue") /\ UNCHANGED lock
     \/ Ends(c)
  /\ UNCHANGED <<now, kind, marker, auth, grant, consumed, out, noted, worker, entered, launch>>

IssueUncapped(c) ==
  /\ run[c].at = "issue" /\ grant.op = None
  /\ Gated => Authorized(run[c].op, Workflow)
  /\ grant' = [op |-> run[c].op, expires |-> now + GrantLife]
  /\ Goes(c, "consume")
  /\ UNCHANGED <<now, kind, marker, auth, power, consumed, out, noted, lock, worker, entered, launch>>

\* authority.issue: a fresh consent directory; a gated grant ends with its authorization.
Issue(c) ==
  LET o == run[c].op
      life == IF Gated /\ auth[o] < now + GrantLife THEN auth[o] ELSE now + GrantLife
  IN /\ run[c].at = "issue" /\ grant.op = None
     /\ Gated => Authorized(o, Workflow)
     /\ \/ grant' = [op |-> o, expires |-> life] /\ Goes(c, "consume") /\ UNCHANGED lock
        \/ grant' = [op |-> o, expires |-> 0] /\ Ends(c)
     /\ UNCHANGED <<now, kind, marker, auth, power, consumed, out, noted, worker, entered, launch>>

\* authority.consume: the grant binds this operation, has time left, and is consumed once.
Consume(c) ==
  /\ run[c].at = "consume" /\ grant.op = run[c].op
  /\ now < grant.expires /\ grant.expires - now >= Workflow
  /\ consumed = None
  /\ consumed' = c
  /\ Goes(c, "make")
  /\ UNCHANGED <<now, kind, marker, auth, power, grant, out, noted, lock, worker, entered, launch>>

\* An error before the run is under way: nothing more is written, the lock is released.
Raises(c) ==
  /\ run[c].at \in {"begin", "lock", "attempt", "power", "issue", "consume"}
  /\ Ends(c)
  /\ UNCHANGED <<now, kind, owner, out, noted, worker, entered, launch>>

\* Escapes from the run: replay still answers (LastResort), scenario-run raises.
Escapes(c) == IF kind = "case" THEN Goes(c, "late") /\ UNCHANGED lock ELSE Ends(c)

\* out.mkdir and STARTED.json.
MakeOut(c) ==
  /\ run[c].at = "make"
  /\ \/ /\ out.by = None
        /\ out' = [NoOut EXCEPT !.by = c, !.op = run[c].op, !.files = {"started"}]
        /\ (Goes(c, "admit") /\ UNCHANGED lock) \/ Escapes(c)
     \/ Escapes(c) /\ UNCHANGED out
  /\ UNCHANGED <<now, kind, owner, noted, worker, entered, launch>>

\* Staging, host admission within its deadline, DISPATCH_INTENT.json.
Admit(c) ==
  /\ run[c].at = "admit" /\ now - run[c].began <= Workflow
  /\ out' = [out EXCEPT !.files = @ \cup {"intent"}]
  /\ run' = [run EXCEPT ![c].at = "dispatch", ![c].dispatched = TRUE]
  /\ UNCHANGED <<now, kind, owner, noted, lock, worker, entered, launch>>

Dispatch(c) ==
  /\ run[c].at = "dispatch"
  /\ worker' = [by |-> c, state |-> "running"]
  /\ entered' = Append(entered, run[c].op)
  /\ Goes(c, "work")
  /\ UNCHANGED <<now, kind, owner, out, noted, lock, launch>>

\* The worker ends by itself, whether or not anyone still supervises it.
WorkerEnds ==
  /\ worker.state = "running"
  /\ \E s \in {"complete", "failed"} : worker' = [worker EXCEPT !.state = s]
  /\ UNCHANGED <<now, kind, owner, out, noted, lock, entered, run, launch>>

\* monitored: waits for the worker or stops it at a limit; reaping may fail.
Supervise(c) ==
  /\ run[c].at = "work"
  /\ worker' = IF worker.state = "running" THEN [worker EXCEPT !.state = "killed"] ELSE worker
  /\ \E reaped \in BOOLEAN : run' = [run EXCEPT ![c].at = "judge", ![c].reaped = reaped]
  /\ UNCHANGED <<now, kind, owner, out, noted, lock, entered, launch>>

\* A complete pair, in time, and its records verified.
Judge(c) ==
  /\ run[c].at = "judge" /\ worker.state = "complete" /\ run[c].reaped
  /\ now - run[c].began <= Workflow
  /\ run' = [run EXCEPT ![c].at = "clean", ![c].status = "COMPLETED"]
  /\ out' = [out EXCEPT !.endedAt = now]
  /\ UNCHANGED <<now, kind, owner, noted, lock, worker, entered, launch>>

\* What a failed run is called: before the dispatch always a host stop; after it the
\* case runner reads its worker's record, if it got as far as that.
ScenarioFailures(c) == IF run[c].dispatched THEN {"STOP"} ELSE {"HOST_STOP"}
CaseFailures(c) ==
  CASE ~run[c].dispatched -> {"HOST_STOP"}
    [] run[c].dispatched /\ run[c].at = "judge" -> {"INTERRUPTED", "STOP"}
    [] OTHER -> {"INTERRUPTED"}
Failures(c) == IF kind = "case" THEN CaseFailures(c) ELSE ScenarioFailures(c)

\* Any error inside the run, the alarm included.
Fails(c) ==
  /\ run[c].at \in {"admit", "dispatch", "judge"}
  /\ \E s \in Failures(c) : run' = [run EXCEPT ![c].at = "clean", ![c].status = s]
  /\ UNCHANGED <<now, kind, owner, out, noted, lock, worker, entered, launch>>

\* cleanup_confirmed reads the records of the worker and of the host samplers, any of
\* which may be missing; a case's may itself fail and escape.
CleanupConfirmed(c) == {FALSE, ~run[c].dispatched \/ run[c].reaped}
Clean(c) ==
  /\ run[c].at = "clean"
  /\ \/ \E clean \in CleanupConfirmed(c) :
          run' = [run EXCEPT ![c].at = "manifest", ![c].clean = clean,
                             ![c].status = IF clean THEN @ ELSE "INTERRUPTED"]
     \/ kind = "case" /\ Goes(c, "late")
  /\ UNCHANGED <<now, kind, owner, out, noted, lock, worker, entered, launch>>

\* seal_result: MANIFEST.json, then RESULT.json.
SealManifest(c) ==
  /\ run[c].at = "manifest"
  /\ \/ out' = [out EXCEPT !.files = @ \cup {"manifest"}] /\ Goes(c, "result") /\ UNCHANGED lock
     \/ Escapes(c) /\ UNCHANGED out
  /\ UNCHANGED <<now, kind, owner, noted, worker, entered, launch>>

SealResult(c) ==
  /\ run[c].at = "result"
  /\ \/ /\ out' = [out EXCEPT !.files = @ \cup {"result"}, !.status = run[c].status, !.clean = run[c].clean]
        /\ run' = [run EXCEPT ![c].at = "returned", ![c].began = 0] /\ Leaves(c)
     \/ Escapes(c) /\ UNCHANGED out
  /\ UNCHANGED <<now, kind, owner, noted, worker, entered, launch>>

LastResortInOutput(c) ==
  LET began == "intent" \in out.files
      status == IF began THEN "INTERRUPTED" ELSE "HOST_STOP"
  IN /\ run[c].at = "late"
     /\ out' = IF out.by = None \/ "result" \in out.files THEN out
               ELSE [out EXCEPT !.files = @ \cup {"result"}, !.status = status, !.clean = ~began]
     /\ run' = [run EXCEPT ![c].at = "lateManifest", ![c].status = status, ![c].clean = ~began]
     /\ UNCHANGED <<now, kind, owner, noted, lock, worker, entered, launch>>

\* replay's except: the answer goes to the consent directory and, if there is one
\* without a result, to the output, whose manifest comes after it here.
LastResort(c) ==
  LET began == "intent" \in out.files
      status == IF began THEN "INTERRUPTED" ELSE "HOST_STOP"
  IN /\ run[c].at = "late"
     /\ noted' = status
     /\ out' = IF out.by = None \/ "result" \in out.files THEN out
               ELSE [out EXCEPT !.files = @ \cup {"result"}, !.status = status, !.clean = ~began]
     /\ run' = [run EXCEPT ![c].at = "lateManifest", ![c].status = status, ![c].clean = ~began]
     /\ UNCHANGED <<now, kind, owner, lock, worker, entered, launch>>

LateManifest(c) ==
  /\ run[c].at = "lateManifest"
  /\ out' = IF out.by = None THEN out ELSE [out EXCEPT !.files = @ \cup {"manifest"}]
  /\ run' = [run EXCEPT ![c].at = "returned", ![c].began = 0] /\ Leaves(c)
  /\ UNCHANGED <<now, kind, owner, noted, worker, entered, launch>>

\* SIGKILL, or the power: files and worker stay.
RunKilled(c) ==
  /\ Active(c)
  /\ Ends(c)
  /\ UNCHANGED <<now, kind, owner, out, noted, worker, entered, launch>>

RunStep(c) ==
  \/ Begin(c) \/ Acquire(c) \/ OpenAttempt(c) \/ ObservePower(c) \/ Issue(c) \/ Consume(c) \/ Raises(c)
  \/ MakeOut(c) \/ Admit(c) \/ Dispatch(c) \/ Supervise(c) \/ Judge(c) \/ Fails(c) \/ Clean(c)
  \/ SealManifest(c) \/ SealResult(c) \/ LastResort(c) \/ LateManifest(c)

-----------------------------------------------------------------------------
(* The launcher. *)

LaunchGoes(c, at) == launch' = [launch EXCEPT ![c].at = at]
LauncherEnds(c) == launch' = [launch EXCEPT ![c] = [NoLaunch EXCEPT !.at = "ended"]]

\* The checks that write nothing.  A gated launcher leaves the marker to its child.
Launch(c, o) ==
  /\ launch[c].at = "idle" /\ run[c].at = "idle" /\ kind # "case"
  /\ Gated => o \in V4Ops /\ Authorized(o, LaunchMargin)
  /\ marker[o] = None /\ out.by = None
  /\ launch' = [launch EXCEPT ![c].at = IF Gated THEN "spawn" ELSE "mark", ![c].op = o]
  /\ UNCHANGED <<now, kind, owner, out, noted, lock, worker, entered, run>>

\* The ungated launcher's own marker, created exclusively.
Mark(c) ==
  /\ launch[c].at = "mark"
  /\ \/ /\ marker[launch[c].op] = None
        /\ marker' = [marker EXCEPT ![launch[c].op] = c] /\ LaunchGoes(c, "spawn")
     \/ /\ marker[launch[c].op] # None
        /\ LauncherEnds(c) /\ UNCHANGED marker
  /\ UNCHANGED <<now, kind, auth, power, grant, consumed, out, noted, lock, worker, entered, run>>

\* evidence.mkdir, which may fail, and the child, which may not start.
Spawn(c) ==
  /\ launch[c].at = "spawn"
  /\ \/ /\ run' = [run EXCEPT ![c] = [NoRun EXCEPT !.at = "begin", !.op = launch[c].op]]
        /\ LaunchGoes(c, "wait")
     \/ LauncherEnds(c) /\ UNCHANGED run
     \/ launch' = [launch EXCEPT ![c].at = "report", ![c].stop = TRUE] /\ UNCHANGED run
  /\ UNCHANGED <<now, kind, owner, out, noted, lock, worker, entered>>

OwnWorker(c) == worker.by = c /\ worker.state = "running"
GroupKilled(c) == worker' = IF OwnWorker(c) THEN [worker EXCEPT !.state = "killed"] ELSE worker

\* guards.capture: the child ended, or its group is killed at a limit.
Captured(c) ==
  /\ launch[c].at = "wait"
  /\ \/ /\ ~Active(c)
        /\ LaunchGoes(c, "sweep") /\ UNCHANGED <<worker, run, lock>>
     \/ /\ Active(c)
        /\ launch' = [launch EXCEPT ![c].at = "sweep", ![c].stop = TRUE]
        /\ Ends(c) /\ GroupKilled(c)
  /\ UNCHANGED <<now, kind, owner, out, noted, entered>>

SweepWithoutKill(c) ==
  /\ launch[c].at = "sweep"
  /\ \E gone \in BOOLEAN :
       launch' = [launch EXCEPT ![c].at = "report", ![c].gone = gone, ![c].stop = @ \/ ~gone \/ OwnWorker(c)]
  /\ UNCHANGED <<now, kind, owner, out, noted, lock, worker, entered, run>>

\* finish_group: what is left of the group is killed, and must be seen to be gone.
Sweep(c) ==
  /\ launch[c].at = "sweep"
  /\ GroupKilled(c)
  /\ \E gone \in BOOLEAN :
       launch' = [launch EXCEPT ![c].at = "report", ![c].gone = gone, ![c].stop = @ \/ ~gone \/ OwnWorker(c)]
  /\ UNCHANGED <<now, kind, owner, out, noted, lock, entered, run>>

StoredResult(c) == [there |-> "result" \in out.files, op |-> out.op, status |-> out.status, clean |-> out.clean]

\* What the child printed: its own answer, if it returned one.
ChildResult(c) == [there |-> run[c].at = "returned", op |-> run[c].op, status |-> run[c].status, clean |-> run[c].clean]

\* The printed result is the sealed one, of this operation.
Linked(c) ==
  LET child == ChildResult(c) IN
  /\ child.there /\ "result" \in out.files
  /\ child.op = launch[c].op /\ out.op = launch[c].op
  /\ child.status = out.status /\ child.clean = out.clean

Report(c) ==
  LET child == ChildResult(c)
      clean == launch[c].gone /\ Linked(c) /\ child.clean
      completed == clean /\ child.status = "COMPLETED" /\ ~launch[c].stop
  IN /\ launch[c].at = "report"
     /\ launch' = [launch EXCEPT ![c].at = "reported", ![c].clean = clean,
                     ![c].status = IF completed THEN "EXECUTION_COMPLETED" ELSE "EXECUTION_STOP",
                     ![c].closed = ~Gated \/ marker[launch[c].op] # None]
     /\ UNCHANGED <<now, kind, owner, out, noted, lock, worker, entered, run>>

\* The launcher dies; its child goes on.
LauncherKilled(c) ==
  /\ Launching(c)
  /\ LauncherEnds(c)
  /\ UNCHANGED <<now, kind, owner, out, noted, lock, worker, entered, run>>

LaunchStep(c) == Mark(c) \/ Spawn(c) \/ Captured(c) \/ Sweep(c) \/ Report(c)

Tick ==
  /\ now < Horizon
  /\ now' = now + 1
  /\ UNCHANGED <<kind, owner, out, noted, lock, worker, entered, run, launch>>

Next ==
  \/ \E o \in Ops : Authorize(o) \/ AuthorizeCase(o)
  \/ \E c \in Calls, o \in Ops : DirectRun(c, o) \/ Launch(c, o)
  \/ \E c \in Calls : RunStep(c) \/ RunKilled(c) \/ LaunchStep(c) \/ LauncherKilled(c)
  \/ WorkerEnds
  \/ Tick

Spec == Init /\ [][Next]_vars

-----------------------------------------------------------------------------
(* Properties. *)

Authority == INSTANCE OneShotAuthority
               WITH Selections <- Ops, chosen <- grant.op, spent <- consumed # None, entered <- entered

\* Over all runners, launchers, crashes and both operations of the plan: one
\* operation is granted, its grant is consumed once, and a worker is started
\* at most once, for that operation (cases/authority.py, api.run, native.replay).
ImplementsOneShot == Authority!Spec

\* A launcher answers EXECUTION_COMPLETED only for the pair its own child ran:
\* this operation, a sealed result, a complete worker, and nothing left running.
CompletedIsReal ==
  \A c \in Calls : launch[c].status = "EXECUTION_COMPLETED" =>
    /\ out.by = c /\ out.op = launch[c].op /\ out.status = "COMPLETED"
    /\ {"manifest", "result"} \subseteq out.files
    /\ consumed = c /\ worker = [by |-> c, state |-> "complete"]

\* "Nothing was consumed" (attemptConsumed FALSE, profile_overlay._launch) is
\* true: the child opened no attempt, no preflight, no grant, and never will.
NothingConsumed ==
  \A c \in Calls : launch[c].at = "reported" /\ ~launch[c].closed =>
    /\ launch[c].status = "EXECUTION_STOP" /\ ~Active(c)
    /\ c \notin {power, consumed, out.by, worker.by} \cup {marker[o] : o \in Ops}

\* A completed run ended while its grant was valid, and a gated grant ends no
\* later than the owner's authorization (the margins of api.py and authority.py).
WithinAuthority ==
  out.status = "COMPLETED" =>
    /\ out.endedAt <= grant.expires
    /\ Gated => grant.expires <= auth[out.op]

\* A launcher that reports its group gone leaves no process of it behind
\* (workflow.finish_group), whatever was killed and in which order.
GoneMeansGone ==
  \A c \in Calls : launch[c].at = "reported" /\ launch[c].gone => ~Active(c) /\ ~OwnWorker(c)

\* Whoever consumed the authority and returned an answer has recorded that answer,
\* in the output or, as a case's last resort, in the consent directory.
AnswerIsRecorded ==
  \A c \in Calls : run[c].at = "returned" =>
    /\ consumed = c
    /\ \/ out.by = c /\ "result" \in out.files /\ out.status = run[c].status
       \/ noted = run[c].status
=============================================================================
