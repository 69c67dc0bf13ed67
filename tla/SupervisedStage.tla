-------------------------- MODULE SupervisedStage --------------------------
(***************************************************************************)
(* One native stage under supervision: the worker, which records its own   *)
(* completion and exits; the supervisor loop of guards.monitored with the  *)
(* sampler of sdk_alpha/kit.py and the host guard of host_v3.py, whose     *)
(* failures are recorded in files of their own; and inspect_stage          *)
(* (outcome.py), which judges the stage from those records.                *)
(*                                                                         *)
(* Limits (wall clock, CPU, storage, output, telemetry gap, signal) may be *)
(* hit at any time: they are one stop, "limit".  Logs and numbers are left *)
(* out.  A record may be unwritable (no record) or unreadable ("invalid"). *)
(* inspect_stage takes nothing on trust from the worker, and the model     *)
(* lets it exit with 0 over any record, or none, which worker.go does not. *)
(***************************************************************************)
EXTENDS Naturals, Sequences

CONSTANTS Stages    \* the names of the stages

VARIABLES stage,    \* each stage's processes and records
          entered   \* history: the stages whose worker was started, in order

NoStage ==
  [at |-> "none",         \* none, looping, stopping, measured, raised, over
   worker |-> "none",     \* none, running, exit0, exit1
   native |-> "missing",  \* NATIVE_COMPLETION.json: missing, invalid, complete, stopped, open
   stop |-> "none",       \* the supervisor's stop: none, limit, generic
   host |-> "missing", observer |-> "missing",   \* the two STOP records
   sampled |-> FALSE,     \* resourcesReliable
   record |-> FALSE,      \* PROCESS_COMPLETION.json
   first |-> "none"]      \* history: the first failure: limit, host, observer, other

Start(s) ==
  /\ stage[s] = NoStage
  /\ \/ /\ stage' = [stage EXCEPT ![s].at = "looping", ![s].worker = "running"]
        /\ entered' = Append(entered, s)
     \/ /\ stage' = [stage EXCEPT ![s].at = "stopping", ![s].stop = "generic", ![s].first = "other"]
        /\ UNCHANGED entered
     \/ /\ stage' = [stage EXCEPT ![s].at = "stopping", ![s].stop = "generic", ![s].first = "other",
                                  ![s].worker = "running"]
        /\ entered' = Append(entered, s)

WorkerRecords(s) ==
  /\ stage[s].worker = "running" /\ stage[s].native = "missing"
  /\ \E n \in {"complete", "stopped", "open", "invalid"} : stage' = [stage EXCEPT ![s].native = n]
  /\ UNCHANGED entered

WorkerExits(s) ==
  /\ stage[s].worker = "running"
  /\ \E e \in {"exit0", "exit1"} : stage' = [stage EXCEPT ![s].worker = e]
  /\ UNCHANGED entered

\* A pass of the loop whose sample is good.
Sample(s) ==
  /\ stage[s].at = "looping" /\ stage[s].worker = "running"
  /\ stage' = [stage EXCEPT ![s].sampled = TRUE]
  /\ UNCHANGED entered

FirstOf(r, f) == IF r.first = "none" THEN f ELSE r.first
Stopped(r, stop) == IF r.stop = "none" THEN stop ELSE r.stop

\* A sampler that raises: the host guard and the observer leave a record, ps and a
\* check of the broker do not.
SampleFails(r) ==
  LET s == [r EXCEPT !.stop = Stopped(r, "generic")] IN
  {[s EXCEPT !.first = FirstOf(r, "other")]}
    \cup {[s EXCEPT !.first = FirstOf(r, "host"), !.host = x] : x \in {"present", "invalid"}}
    \cup {[s EXCEPT !.first = FirstOf(r, "observer"), !.observer = x] : x \in {"present", "invalid"}}
LimitHit(r) == [r EXCEPT !.stop = "limit", !.first = FirstOf(r, "limit")]

\* The pass that leaves the loop: a limit, then perhaps a failing sample after it; a
\* failing sample; or the worker's end.
LoopEnds(s) ==
  LET r == stage[s]
      ends == {LimitHit(r)}
                \cup (IF r.worker = "running" THEN SampleFails(LimitHit(r)) \cup SampleFails(r) ELSE {r})
  IN /\ r.at = "looping"
     /\ \E e \in ends : stage' = [stage EXCEPT ![s] = [e EXCEPT !.at = "stopping"]]
     /\ UNCHANGED entered

\* Kill and reap; then the CPU limit, which gives way to an earlier stop; then the
\* record.  A worker that is not reaped in time, or a full disk, leaves none.
Reap(s) ==
  LET r == stage[s]
      reaped == IF r.worker = "running" THEN [r EXCEPT !.worker = "exit1"] ELSE r
      late == [reaped EXCEPT !.stop = Stopped(r, "limit"), !.first = FirstOf(r, "limit")]
  IN /\ r.at = "stopping"
     /\ \/ \E x \in {r, reaped} : stage' = [stage EXCEPT ![s] = [x EXCEPT !.at = "raised"]]
        \/ \E x \in {reaped, late} :
             stage' = [stage EXCEPT ![s] = [x EXCEPT !.at = "measured", !.record = TRUE]]
     /\ UNCHANGED entered

\* Killing the process group.
GroupKilled(r) == [r EXCEPT !.worker = IF @ = "running" THEN "exit1" ELSE @]

\* What is left of a stage once it has been judged or abandoned.
Closed(r) == [NoStage EXCEPT !.at = "over", !.worker = r.worker, !.native = r.native, !.record = r.record]

StageStep(s) == LoopEnds(s) \/ Reap(s)
WorkerStep(s) == WorkerRecords(s) \/ WorkerExits(s)

-----------------------------------------------------------------------------
(* inspect_stage. *)

Present == {"complete", "stopped", "open"}
Terminated(r) == r.record /\ r.worker \in {"exit0", "exit1"}
Bridges(r) ==
  CASE r.native \in {"complete", "stopped"} -> "CONFIRMED"
    [] r.native = "open" -> "UNCONFIRMED"
    [] OTHER -> "UNKNOWN"

\* What is wrong with a stage that no record stopped; the first of these.
Unstopped(r) ==
  IF "invalid" \in {r.host, r.observer} THEN "unreadable"
  ELSE IF ~Terminated(r) \/ ~r.sampled THEN "unconfirmed"
  ELSE IF r.worker # "exit0" THEN "exit"
  ELSE IF r.native \notin Present THEN "native"
  ELSE "none"

PrimaryHostFirst(r) ==
  IF r.host = "present" THEN "host"
  ELSE IF r.observer = "present" THEN "observer"
  ELSE IF r.record /\ r.stop # "none" THEN r.stop
  ELSE Unstopped(r)

\* The stop a stage is reported with, "none" if it may be believed.
Primary(r) ==
  IF r.record /\ r.stop = "limit" THEN "limit"
  ELSE IF r.host = "present" THEN "host"
  ELSE IF r.observer = "present" THEN "observer"
  ELSE IF r.record /\ r.stop # "none" THEN "generic"
  ELSE Unstopped(r)

\* Process and bridges of a stage are both known to be closed.
ConfirmedClosed(r) == Terminated(r) /\ Bridges(r) = "CONFIRMED"

\* The stage reports its first failure, where that one was recorded.
ReportsFirst(r) ==
  LET p == Primary(r) IN
  CASE r.first = "limit" -> p = "limit"
    [] r.first = "host" -> p = IF r.host = "present" THEN "host" ELSE "generic"
    [] r.first = "observer" -> p = IF r.observer = "present" THEN "observer" ELSE "generic"
    [] r.first = "other" -> p = "generic"
    [] OTHER -> p \in {"none", "unconfirmed", "exit", "native"}
=============================================================================
