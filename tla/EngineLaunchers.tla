--------------------------- MODULE EngineLaunchers ---------------------------
(***************************************************************************)
(* The engine's own one-shot launchers, older than the SDK's: each claims  *)
(* one output exclusively, admits the host, starts one worker in a session *)
(* of its own, samples it, kills and reaps it, judges what it recorded and *)
(* answers once.  They differ in what they check, in what a failure is     *)
(* called, and in when a manifest may seal the output.  The kinds:         *)
(*   prospective  supervisor/legacy-admission/tools/run_once.py            *)
(*   pair         supervisor/pair03/tools/run_once.py                      *)
(*   portable     repro/portable_pair03.py                                 *)
(*   plan         plan_native/launch.py                                    *)
(*   kit          sdk_alpha/kit.py, whose verify_run judges again          *)
(*   case         case_sdk/workflow.py                                     *)
(*                                                                         *)
(* Any check of inputs, authority, files or deadlines may fail at any time *)
(* (Refuses, Errs): there is no clock.  An answer's invocation counts are  *)
(* the set of counts it leaves open: all of them where the code has null.  *)
(* A worker may outlive its launcher.                                      *)
(***************************************************************************)
EXTENDS Naturals, Sequences

CONSTANTS Calls,    \* the calls made, each once
          Ops,      \* operations bound to the one output
          None

ASSUME LauncherAssumption == None \notin Calls \cup Ops

VARIABLES
  kind,
  bound,      \* the sealed operation (pair, prospective), or BINDINGS.json (case, kit)
  proposed,   \* the kit's proposal directory exists
  lock,
  out,        \* the output directory and its records
  worker,
  entered,    \* history: the operations a worker was started for
  call        \* each call's progress

vars == <<kind, bound, proposed, lock, out, worker, entered, call>>

Kinds == {"prospective", "pair", "portable", "plan", "kit", "case"}
Locked == kind \in {"kit", "case"}
WithIntent == kind \in {"plan", "kit", "case"}    \* these record their intent, and sample the host
Sealed == kind \in {"prospective", "pair", "case"}    \* here the output is of one operation
Worlds == IF kind = "prospective" THEN 1 ELSE 2
AnyCount == 0 .. 2

Unmeasured == [known |-> FALSE, stop |-> FALSE, reaped |-> FALSE, sampled |-> FALSE]
NoAnswer == [terminal |-> "none", counts |-> AnyCount]
NoCall == [at |-> "idle", op |-> None, only |-> FALSE, dispatched |-> FALSE, stop |-> FALSE,
           sampled |-> FALSE, measured |-> Unmeasured, verified |-> FALSE, answer |-> NoAnswer]
NoOutput == [by |-> None, op |-> None, started |-> FALSE, sensor |-> "none", intent |-> FALSE,
             hostStop |-> FALSE, measured |-> Unmeasured, final |-> NoAnswer, late |-> FALSE,
             sealed |-> FALSE]
NoWorker == [by |-> None, state |-> "none", worlds |-> 0, record |-> "none", exit |-> "none"]

Init ==
  /\ kind \in Kinds
  /\ bound \in IF Sealed THEN Ops ELSE {None}
  /\ proposed = FALSE /\ lock = None
  /\ out = NoOutput /\ worker = NoWorker /\ entered = << >>
  /\ call = [c \in Calls |-> NoCall]

Active(c) == call[c].at \notin {"idle", "done", "ended"}
Goes(c, at) == call' = [call EXCEPT ![c].at = at]
Unlocks(c) == lock' = IF lock = c THEN None ELSE lock
Ends(c) == call' = [call EXCEPT ![c] = [NoCall EXCEPT !.at = "ended"]] /\ Unlocks(c)
Answers(c, a) == call' = [call EXCEPT ![c].at = "answer", ![c].answer = a]
Answer(terminal, counts) == [terminal |-> terminal, counts |-> counts]
Interrupted == Answer("INTERRUPTED", AnyCount)

-----------------------------------------------------------------------------
(* Before the output is claimed nothing is consumed. *)

\* Authority, approval or flags are exact, and the sources, the build and the package match.
Begins(c, o) ==
  /\ call[c].at = "idle"
  /\ Sealed => bound = o
  /\ call' = [call EXCEPT ![c] = [NoCall EXCEPT !.at = IF Locked THEN "lock" ELSE "claim", !.op = o]]
  /\ UNCHANGED <<kind, bound, proposed, lock, out, worker, entered>>

\* `prepare` of the kit, which takes no lock.
Prepares(c, o) ==
  /\ kind = "kit" /\ call[c].at = "idle"
  /\ call' = [call EXCEPT ![c] = [NoCall EXCEPT !.at = "bind", !.op = o, !.only = TRUE]]
  /\ UNCHANGED <<kind, bound, proposed, lock, out, worker, entered>>

\* operation_lock and operator_lock never wait.
Locks(c) ==
  /\ call[c].at = "lock" /\ lock = None
  /\ lock' = c
  /\ Goes(c, IF kind = "kit" THEN "bind" ELSE "claim")
  /\ UNCHANGED <<kind, bound, proposed, out, worker, entered>>

\* kit.prepare: a fresh proposal directory, then BINDINGS.json in it; a replay takes
\* the binding that is there.
Binds(c) ==
  /\ call[c].at = "bind"
  /\ \/ bound = call[c].op /\ ~call[c].only /\ Goes(c, "claim") /\ UNCHANGED proposed
     \/ ~proposed /\ proposed' = TRUE /\ Goes(c, "store")
  /\ UNCHANGED <<kind, bound, lock, out, worker, entered>>

StoresBinding(c) ==
  /\ call[c].at = "store"
  /\ bound' = call[c].op
  /\ IF call[c].only THEN Ends(c) ELSE Goes(c, "claim") /\ UNCHANGED lock
  /\ UNCHANGED <<kind, proposed, out, worker, entered>>

Refuses(c) ==
  /\ call[c].at \in {"lock", "bind", "store", "claim"}
  /\ Ends(c)
  /\ UNCHANGED <<kind, bound, proposed, out, worker, entered>>

ClaimsAgain(c) ==
  /\ call[c].at = "claim"
  /\ out' = [NoOutput EXCEPT !.by = c, !.op = call[c].op]
  /\ Goes(c, "open")
  /\ UNCHANGED <<kind, bound, proposed, lock, worker, entered>>

\* mkdir of the output (STARTED.json where there is none): irreversible, whatever fails later.
Claims(c) ==
  /\ call[c].at = "claim" /\ out.by = None
  /\ out' = [NoOutput EXCEPT !.by = c, !.op = call[c].op]
  /\ Goes(c, "open")
  /\ UNCHANGED <<kind, bound, proposed, lock, worker, entered>>

\* STARTED.json and the authority's own bytes; an error here escapes without an answer.
Opens(c) ==
  /\ call[c].at = "open"
  /\ \/ out' = [out EXCEPT !.started = TRUE] /\ Goes(c, "admit") /\ UNCHANGED lock
     \/ Ends(c) /\ UNCHANGED out
  /\ UNCHANGED <<kind, bound, proposed, worker, entered>>

-----------------------------------------------------------------------------
(* Admission and supervision. *)

\* The host was refused, or something before the worker's start went wrong.
Refusal == IF kind = "prospective" THEN Interrupted ELSE Answer("HOST_STOP", {0})
PreparationError(intent) ==
  CASE kind \in {"plan", "case"} -> Answer("HOST_STOP", {0})
    [] kind = "kit" -> Answer("INTERRUPTED", IF intent THEN AnyCount ELSE {0})
    [] OTHER -> Interrupted

\* Two readings of the sensor, each a child that must be seen to have been reaped.
Admits(c) ==
  /\ call[c].at = "admit" /\ out.sensor = "none"
  /\ \/ out' = [out EXCEPT !.sensor = "accepted"] /\ UNCHANGED call
     \/ \E s \in {"refused", "unreaped"} : out' = [out EXCEPT !.sensor = s] /\ Answers(c, Refusal)
  /\ UNCHANGED <<kind, bound, proposed, lock, worker, entered>>

\* The deadline of the preparation, then the intent: recorded, or not, or half.
Intends(c) ==
  /\ call[c].at = "admit" /\ out.sensor = "accepted"
  /\ \/ /\ out' = [out EXCEPT !.intent = WithIntent]
        /\ call' = [call EXCEPT ![c].at = "dispatch", ![c].dispatched = TRUE]
     \/ \E intent \in {FALSE, WithIntent} :
          out' = [out EXCEPT !.intent = intent] /\ Answers(c, PreparationError(intent))
  /\ UNCHANGED <<kind, bound, proposed, lock, worker, entered>>

AdmissionErrs(c) ==
  /\ call[c].at = "admit" /\ out.sensor = "none"
  /\ Answers(c, PreparationError(FALSE))
  /\ UNCHANGED <<kind, bound, proposed, lock, out, worker, entered>>

\* The worker starts; or it does not; or it does and the supervisor fails at once.
Dispatches(c) ==
  /\ call[c].at = "dispatch"
  /\ \/ /\ worker' = [NoWorker EXCEPT !.by = c, !.state = "running"]
        /\ entered' = Append(entered, call[c].op)
        /\ \E stop \in BOOLEAN :
             call' = [call EXCEPT ![c].at = IF stop THEN "reap" ELSE "watch", ![c].stop = stop]
     \/ call' = [call EXCEPT ![c].at = "reap", ![c].stop = TRUE] /\ UNCHANGED <<worker, entered>>
     \/ Goes(c, "judge") /\ UNCHANGED <<worker, entered>>
  /\ UNCHANGED <<kind, bound, proposed, lock, out>>

\* One pass of the loop: RSS and identity of the worker and, where the host is sampled
\* too, a reading that may stop the run and then leaves STOP.json.
Samples(c) ==
  /\ call[c].at = "watch" /\ worker.state = "running"
  /\ \/ call' = [call EXCEPT ![c].sampled = TRUE] /\ UNCHANGED out
     \/ /\ WithIntent
        /\ out' = [out EXCEPT !.hostStop = TRUE]
        /\ call' = [call EXCEPT ![c].at = "reap", ![c].stop = TRUE]
  /\ UNCHANGED <<kind, bound, proposed, lock, worker, entered>>

\* The worker ended, or a limit, a signal or a failing sampler stops the loop.
Stops(c) ==
  /\ call[c].at = "watch"
  /\ \/ worker.state = "ended" /\ Goes(c, "reap")
     \/ call' = [call EXCEPT ![c].at = "reap", ![c].stop = TRUE]
  /\ UNCHANGED <<kind, bound, proposed, lock, out, worker, entered>>

Running(c) == worker.by = c /\ worker.state = "running"
Started(c) == worker.by = c
Measure(c, stop, reaped) ==
  [known |-> TRUE, stop |-> stop, reaped |-> reaped, sampled |-> call[c].sampled]

\* Kill, wait five seconds, and write PROCESS_COMPLETION.json.  A worker that cannot be
\* reaped makes the supervisor raise; the prospective one only notes it.
Reaps(c) ==
  /\ call[c].at = "reap"
  /\ \E reaped \in {FALSE, Started(c)}, late \in {FALSE, kind # "prospective"}, stored \in BOOLEAN :
       LET m == Measure(c, call[c].stop \/ late \/ (kind = "prospective" /\ Started(c) /\ ~reaped), reaped)
           raises == ~stored \/ (Started(c) /\ ~reaped /\ kind # "prospective")
       IN /\ reaped \/ ~Started(c) \/ Running(c)
          /\ worker' = IF reaped /\ Running(c) THEN [worker EXCEPT !.state = "ended", !.exit = "signal"]
                       ELSE worker
          /\ call' = [call EXCEPT ![c].at = "judge", ![c].measured = IF raises THEN Unmeasured ELSE m]
          /\ out' = [out EXCEPT !.measured = IF raises THEN Unmeasured ELSE m]
  /\ UNCHANGED <<kind, bound, proposed, lock, entered>>

-----------------------------------------------------------------------------
(* The worker (native/saved-pair): each world is counted before it is run; the    *)
(* completion holds those counts, and only a complete pair exits with 0.          *)

WorkerEnters ==
  /\ worker.state = "running" /\ worker.record = "none" /\ worker.worlds < Worlds
  /\ worker' = [worker EXCEPT !.worlds = @ + 1]
  /\ UNCHANGED <<kind, bound, proposed, lock, out, entered, call>>

WorkerRecords ==
  /\ worker.state = "running" /\ worker.record = "none"
  /\ \E r \in {"stop", "torn"} \cup (IF worker.worlds = Worlds THEN {"go"} ELSE {}) :
       worker' = [worker EXCEPT !.record = r]
  /\ UNCHANGED <<kind, bound, proposed, lock, out, entered, call>>

WorkerExits ==
  /\ worker.state = "running"
  /\ \E e \in {"one", "signal"} \cup (IF worker.record = "go" THEN {"zero"} ELSE {}) :
       worker' = [worker EXCEPT !.state = "ended", !.exit = e]
  /\ UNCHANGED <<kind, bound, proposed, lock, out, entered, call>>

WorkerStep == WorkerEnters \/ WorkerRecords \/ WorkerExits

-----------------------------------------------------------------------------
(* Judgement.  `Recorded` is what a completion that was believed reports. *)

Recorded(terminal) == Answer(terminal, {worker.worlds})
Reliable(m) == m.known /\ ~m.stop /\ m.sampled /\ m.reaped
Readable == worker.record \in {"go", "stop"}

\* validate_native_completion: record and exit code must agree.
ProspectiveAnswers(m) ==
  {Interrupted} \cup
    CASE m.known /\ ~m.stop /\ worker.record = "go" /\ worker.exit = "zero" -> {Recorded("PASS")}
      [] m.known /\ ~m.stop /\ worker.record = "stop" /\ worker.exit # "zero" -> {Recorded("STOP")}
      [] OTHER -> {}

\* The exit code is not asked for here.
PairAnswers(m) ==
  {Interrupted} \cup
    IF ~Reliable(m) \/ ~Readable THEN {}
    ELSE {Recorded(IF worker.record = "go" THEN "PASS" ELSE "STOP")}

\* reconcile_completion and accept_native_completion: a success is provisional until the
\* recorded baseline has been compared.
PortableAnswers(m) ==
  {Interrupted} \cup
    CASE Reliable(m) /\ worker.record = "go" /\ worker.exit = "zero" ->
           {Recorded("PASS"), Recorded("MISMATCH"), Recorded("INTERRUPTED")}
      [] Reliable(m) /\ worker.record = "stop" /\ worker.exit = "one" -> {Recorded("STOP")}
      [] OTHER -> {}

\* As the portable launcher; without a completion, or with one not believed, null counts.
KitAnswers(m) == PortableAnswers(m)

PlanAnswersZero(m) ==
  IF m.known /\ m.reaped /\ Readable
  THEN {Answer("INTERRUPTED", {0}), Recorded(IF worker.record = "stop" THEN "STOP" ELSE "INTERRUPTED")}
  ELSE {Answer("INTERRUPTED", {0})}

\* What a failed plan run says: the counts of the completion only once its writer is gone.
PlanAnswers(m) ==
  IF m.known /\ m.reaped /\ Readable
  THEN {Interrupted, Recorded(IF worker.record = "stop" THEN "STOP" ELSE "INTERRUPTED")}
  ELSE {Interrupted}

\* normalize_result over the completion, read again; `failed` is a failed verifier.
CaseAnswers(m, verified, failed) ==
  LET status == IF failed THEN "VERIFICATION_FAILED"
                ELSE IF worker.record = "stop" THEN "STOP"
                ELSE IF verified THEN "PASS" ELSE "INTERRUPTED"
      unread == Answer(IF failed THEN "VERIFICATION_FAILED" ELSE "INTERRUPTED", AnyCount)
  IN {unread} \cup IF m.known /\ m.reaped /\ Readable THEN {Recorded(status)} ELSE {}

FailedAnswers(c, failed) ==
  LET m == call[c].measured IN
  CASE kind = "prospective" -> ProspectiveAnswers(m)
    [] kind = "pair" -> PairAnswers(m)
    [] kind = "portable" -> PortableAnswers(m)
    [] kind = "kit" -> KitAnswers(m)
    [] kind = "plan" -> PlanAnswers(m)
    [] OTHER -> CaseAnswers(m, FALSE, failed)

Judges(c) ==
  /\ call[c].at = "judge"
  /\ \E a \in FailedAnswers(c, FALSE) : Answers(c, a)
  /\ UNCHANGED <<kind, bound, proposed, lock, out, worker, entered>>

\* verify_completion: only a complete pair in a clean process is handed to the verifier.
HandsOver(c) ==
  /\ call[c].at = "judge" /\ kind \in {"plan", "case"}
  /\ Reliable(call[c].measured) /\ worker.record = "go" /\ worker.exit = "zero"
  /\ Goes(c, "verify")
  /\ UNCHANGED <<kind, bound, proposed, lock, out, worker, entered>>

\* The verifier's process, within what is left of the workflow's time.
Verifies(c) ==
  /\ call[c].at = "verify"
  /\ \/ \E a \in FailedAnswers(c, kind = "case") : Answers(c, a)
     \/ kind = "plan" /\ Answers(c, Answer("PASS", {2}))
     \/ kind = "case" /\ \E a \in CaseAnswers(call[c].measured, TRUE, FALSE) : Answers(c, a)
  /\ UNCHANGED <<kind, bound, proposed, lock, out, worker, entered>>

-----------------------------------------------------------------------------
(* The answer and the seal. *)

\* cleanup_confirmed of the case launcher: worker and sensors are known to be gone.
CleanupConfirmed(c) ==
  {FALSE, /\ call[c].dispatched => call[c].measured.known /\ call[c].measured.reaped
          /\ out.sensor # "unreaped"}

MaySealUnreaped(c, clean) == kind \in {"plan", "kit"} \/ (kind = "case" /\ clean)

\* A manifest is published only when all owned native writers are reaped.
MaySeal(c, clean) ==
  LET reaped == call[c].measured.known /\ call[c].measured.reaped IN
  CASE kind = "plan" -> ~call[c].dispatched \/ reaped
    [] kind = "kit" -> ~out.intent \/ reaped
    [] kind = "case" -> clean
    [] OTHER -> FALSE

\* FINAL_RESULT.json, then the end or the manifest; late: past a time limit that only the kit's verifier asks for.
Finishes(c) ==
  /\ call[c].at = "answer"
  /\ \/ \E clean \in CleanupConfirmed(c), late \in {FALSE, kind = "kit"} :
          /\ out' = [out EXCEPT !.late = late,
                       !.final = IF kind = "case" /\ ~clean THEN [call[c].answer EXCEPT !.terminal = "INTERRUPTED"]
                                 ELSE call[c].answer]
          /\ IF MaySeal(c, clean)
             THEN call' = [call EXCEPT ![c] = [NoCall EXCEPT !.at = "seal"]] /\ UNCHANGED lock
             ELSE call' = [call EXCEPT ![c] = [NoCall EXCEPT !.at = "done"]] /\ Unlocks(c)
     \/ Ends(c) /\ UNCHANGED out
  /\ UNCHANGED <<kind, bound, proposed, worker, entered>>

Seals(c) ==
  /\ call[c].at = "seal"
  /\ out' = [out EXCEPT !.sealed = TRUE]
  /\ call' = [call EXCEPT ![c].at = "done"] /\ Unlocks(c)
  /\ UNCHANGED <<kind, bound, proposed, worker, entered>>

\* SIGKILL or a full disk: the files stay, the lock goes, the worker lives on.
Killed(c) ==
  /\ Active(c)
  /\ Ends(c)
  /\ UNCHANGED <<kind, bound, proposed, out, worker, entered>>

Step(c) ==
  \/ Locks(c) \/ Binds(c) \/ StoresBinding(c) \/ Refuses(c) \/ Claims(c) \/ Opens(c)
  \/ Admits(c) \/ Intends(c) \/ AdmissionErrs(c) \/ Dispatches(c) \/ Samples(c) \/ Stops(c)
  \/ Reaps(c) \/ Judges(c) \/ HandsOver(c) \/ Verifies(c) \/ Finishes(c) \/ Seals(c)

Next ==
  \/ \E c \in Calls, o \in Ops : Begins(c, o) \/ Prepares(c, o)
  \/ \E c \in Calls : Step(c) \/ Killed(c)
  \/ WorkerStep

Spec == Init /\ [][Next]_vars

\* verify_run of the kit, over the records of a sealed run.
KitVerifies ==
  /\ out.sealed /\ out.final.terminal = "PASS" /\ ~out.late
  /\ out.sensor = "accepted" /\ ~out.hostStop /\ out.measured.sampled
  /\ worker.record = "go" /\ worker.worlds = 2 /\ out.final.counts = {2}
  /\ Reliable(out.measured) /\ worker.exit = "zero"

-----------------------------------------------------------------------------
(* Properties. *)

Authority == INSTANCE OneShotAuthority
               WITH Selections <- Ops, chosen <- out.op, spent <- out.started, entered <- entered

\* Whatever calls race or die, the output is claimed once, for one operation even where
\* several are bound to it, and a worker is started at most once, for that operation,
\* after the authority was recorded as used (consume_output, STARTED.json).
ImplementsOneShot == Authority!Spec

\* The kit's verifier and its launcher judge alike: a sealed run that was answered in
\* time verifies exactly if the launcher called it a pass, although verify_run asks
\* the records for everything again and _replay asked the process.
VerifierAgrees ==
  kind = "kit" /\ out.sealed /\ ~out.late => (KitVerifies <=> out.final.terminal = "PASS")

\* Every answer is true of the worker: its invocation counts leave open what really
\* ran (zero only if no world was entered, by a worker that no longer runs), and a
\* pass is a complete pair that ended by itself, sampled and never stopped.
AnswersAreTrue ==
  LET f == out.final IN
  f.terminal # "none" =>
    /\ worker.worlds \in f.counts
    /\ f.counts # AnyCount => worker.state # "running" \/ worker.record # "none"
    /\ f.terminal = "PASS" =>
         /\ worker.by = out.by /\ worker.state = "ended" /\ worker.record = "go"
         /\ worker.worlds = Worlds /\ ~out.hostStop /\ ~out.measured.stop
         /\ kind # "prospective" => out.measured.sampled
    /\ VerifierAgrees

\* A sealed output stays as its manifest lists it: no worker that could still write
\* into it is running ("publish a manifest only when all owned native writers are
\* reaped", plan_native/launch.py); the case launcher's sensors are gone as well.
SealedIsQuiet ==
  out.sealed =>
    /\ worker.state # "running"
    /\ kind = "case" => out.sensor # "unreaped"
=============================================================================
