----------------------- MODULE OneShotExecutionProofs -----------------------
(***************************************************************************)
(* That one prepared plan is executed at most once, within its authority,  *)
(* and answered truthfully, for any number of calls, operations and crashes. *)
(***************************************************************************)
EXTENDS OneShotExecution, TLAPS

Before == {"begin", "lock", "attempt", "power", "issue", "consume"}
UnderWay == {"make", "admit", "dispatch", "work", "judge", "clean", "manifest", "result"}
Late == {"late", "lateManifest"}
Consumer == UnderWay \cup Late \cup {"returned"}   \* has consumed the grant
Locked == (Before \ {"begin", "lock"}) \cup UnderWay \cup Late
RunStages == Ended \cup Before \cup UnderWay \cup Late

LaunchStages == {"idle", "mark", "spawn", "wait", "sweep", "report", "reported", "ended"}
Statuses == {"none", "COMPLETED", "STOP", "HOST_STOP", "INTERRUPTED"}
Files == {"started", "intent", "manifest", "result"}

Runs == [at : RunStages, op : Ops \cup {None}, began : Nat, dispatched : BOOLEAN,
         reaped : BOOLEAN, status : Statuses, clean : BOOLEAN]
Launches == [at : LaunchStages, op : Ops \cup {None}, gone : BOOLEAN, stop : BOOLEAN,
             status : {"none", "EXECUTION_COMPLETED", "EXECUTION_STOP"},
             closed : BOOLEAN, clean : BOOLEAN]
Outputs == [by : Calls \cup {None}, op : Ops \cup {None}, files : SUBSET Files,
            status : Statuses, clean : BOOLEAN, endedAt : Nat]
Workers == [by : Calls \cup {None}, state : {"none", "running", "complete", "failed", "killed"}]

TypeOK ==
  /\ now \in Nat /\ kind \in Kinds
  /\ marker \in [Ops -> Calls \cup {None}] /\ auth \in [Ops -> Nat]
  /\ power \in Calls \cup {None} /\ consumed \in Calls \cup {None}
  /\ grant \in [op : Ops \cup {None}, expires : Nat]
  /\ out \in Outputs /\ noted \in Statuses
  /\ lock \in Calls \cup {None}
  /\ worker \in Workers /\ entered \in Seq(Ops)
  /\ run \in [Calls -> Runs] /\ launch \in [Calls -> Launches]

\* A runner past the lock holds it, so there is one.
LockIsHeld == \A c \in Calls : run[c].at \in Locked => lock = c

\* A run under way, or that has answered, consumed the grant for its own operation.
ConsumedByRun ==
  \A c \in Calls :
    /\ run[c].at \in Before \cup Consumer => run[c].op \in Ops
    /\ run[c].at \in Consumer => consumed = c /\ grant.op = run[c].op
    /\ run[c].at = "idle" => consumed # c

\* Output, worker and history are the consumer's; there are none without one.
BelongToConsumer ==
  /\ consumed # None => grant.op # None
  /\ out = NoOut \/ (out.by # None /\ out.by = consumed /\ out.op = grant.op)
  /\ IF worker.by = None THEN worker.state = "none" ELSE worker.by = consumed
  /\ entered = << >> \/ (consumed # None /\ entered = <<grant.op>>)

\* How far a run has come is how far its output and its worker have come.
Progress ==
  \A c \in Calls :
    /\ run[c].at = "make" => out = NoOut
    /\ run[c].at \in UnderWay \ {"make"} => out.by = c
    /\ run[c].at \in {"make", "admit", "dispatch"} => entered = << >> /\ worker.by = None
    /\ run[c].at \in UnderWay \cup {"late"} => out.status = "none" /\ "result" \notin out.files
    /\ run[c].at = "result" => "manifest" \in out.files
    /\ run[c].at \in Before \cup {"make", "admit", "dispatch", "work", "judge"} => run[c].status = "none"

\* A run is called complete only over a complete worker, and so is an output.
CompleteWorker ==
  /\ \A c \in Calls : run[c].status = "COMPLETED" => worker = [by |-> c, state |-> "complete"]
  /\ out.status = "COMPLETED" =>
       {"manifest", "result"} \subseteq out.files /\ worker = [by |-> out.by, state |-> "complete"]

\* Time: a run that consumed its grant began early enough to end within it.
Margins ==
  /\ \A c \in Calls :
       /\ run[c].began <= now
       /\ run[c].at \in {"make", "admit", "dispatch", "work", "judge"} =>
            run[c].began + Workflow <= grant.expires
  /\ out.endedAt <= grant.expires
  /\ Gated /\ grant.op # None => grant.expires <= auth[grant.op]

\* A gated run has its operation's marker before it opens anything else.
MarkerFirst ==
  Gated => \A c \in Calls :
    /\ run[c].at \in {"power", "issue", "consume"} \cup Consumer => marker[run[c].op] = c
    /\ c \in {power, consumed} => \E o \in Ops : marker[o] = c
    /\ run[c].at = "idle" => \A o \in Ops : marker[o] # c
    /\ launch[c].at \in {"wait", "sweep", "report", "reported"} =>
         \A o \in Ops : marker[o] = c => o = launch[c].op

\* A launcher and its child.
LaunchesItsChild ==
  \A c \in Calls :
    /\ launch[c].at \in {"mark", "spawn", "wait", "sweep", "report", "reported"} => launch[c].op \in Ops
    /\ launch[c].at = "mark" => ~Gated
    /\ launch[c].at \in {"mark", "spawn"} => run[c].at = "idle"
    /\ launch[c].at = "wait" /\ Active(c) => run[c].op = launch[c].op
    /\ launch[c].at \in {"sweep", "report", "reported"} => ~Active(c)
    /\ launch[c].at \in {"report", "reported"} => ~OwnWorker(c)

\* What a launcher has reported stays true.
Reported ==
  \A c \in Calls :
    /\ launch[c].status = "EXECUTION_COMPLETED" =>
         launch[c].at = "reported" /\ run[c].at = "returned" /\ out.status = "COMPLETED" /\ out.op = launch[c].op
    /\ launch[c].at = "reported" =>
         launch[c].status # "none" /\ (launch[c].closed \/ (Gated /\ \A o \in Ops : marker[o] # c))

\* A recorded answer.
LateAnswers ==
  /\ \A c \in Calls : run[c].at = "lateManifest" => noted = run[c].status
  /\ AnswerIsRecorded

IInv ==
  /\ TypeOK /\ LockIsHeld /\ ConsumedByRun /\ BelongToConsumer /\ Progress /\ CompleteWorker
  /\ Margins /\ MarkerFirst /\ LaunchesItsChild /\ Reported /\ LateAnswers

-----------------------------------------------------------------------------
(* What a step does to the records of one call. *)

\* Only c's run changes, and of it only the stage.
Moved(c, x) ==
  /\ run' \in [Calls -> Runs] /\ \A d \in Calls \ {c} : run'[d] = run[d]
  /\ run'[c].at = x /\ run'[c].op = run[c].op
  /\ run'[c].began = run[c].began /\ run'[c].status = run[c].status

\* Only c's run changes: it is over, and has lost the lock and everything it knew.
Gone(c) ==
  /\ run' \in [Calls -> Runs] /\ \A d \in Calls \ {c} : run'[d] = run[d]
  /\ run'[c].at = "ended" /\ run'[c].began = 0 /\ run'[c].status = "none"
  /\ Leaves(c)

\* Setting one call's run, or launch, to a record of the right type.
LEMMA RunSet ==
  ASSUME TypeOK, NEW c \in Calls, NEW r \in Runs, run' = [run EXCEPT ![c] = r]
  PROVE  run' \in [Calls -> Runs] /\ run'[c] = r /\ \A d \in Calls \ {c} : run'[d] = run[d]
BY DEF TypeOK

\* The same for a launch.
LEMMA LaunchSet ==
  ASSUME TypeOK, NEW c \in Calls, NEW l \in Launches, launch' = [launch EXCEPT ![c] = l]
  PROVE  launch' \in [Calls -> Launches] /\ launch'[c] = l /\ \A d \in Calls \ {c} : launch'[d] = launch[d]
BY DEF TypeOK

\* Goes moves a run and changes nothing else of it.
LEMMA GoesMoves ==
  ASSUME TypeOK, NEW c \in Calls, NEW x \in RunStages, Goes(c, x)
  PROVE  Moved(c, x)
<1>1. run[c] \in Runs
  BY DEF TypeOK
<1>2. run' = [run EXCEPT ![c] = [run[c] EXCEPT !.at = x]]
  BY DEF Goes
<1> DEFINE r == [run[c] EXCEPT !.at = x]
<1>3. r \in Runs /\ r.at = x /\ r.op = run[c].op /\ r.began = run[c].began /\ r.status = run[c].status
  BY <1>1 DEF Runs
<1>4. run' = [run EXCEPT ![c] = r]
  BY <1>2
<1> HIDE DEF r
<1>5. run' \in [Calls -> Runs] /\ run'[c] = r /\ \A d \in Calls \ {c} : run'[d] = run[d]
  BY <1>3, <1>4, RunSet
<1> QED BY <1>3, <1>5 DEF Moved

\* Ends ends it, and releases its lock.
LEMMA EndsGone ==
  ASSUME TypeOK, NEW c \in Calls, Ends(c)
  PROVE  Gone(c)
<1> DEFINE r == [NoRun EXCEPT !.at = "ended"]
<1>1. r \in Runs /\ r.at = "ended" /\ r.began = 0 /\ r.status = "none"
  BY DEF NoRun, Runs, RunStages, Ended, Statuses
<1>2. run' = [run EXCEPT ![c] = r] /\ Leaves(c)
  BY DEF Ends
<1> HIDE DEF r
<1>3. run' \in [Calls -> Runs] /\ run'[c] = r /\ \A d \in Calls \ {c} : run'[d] = run[d]
  BY <1>1, <1>2, RunSet
<1> QED BY <1>1, <1>2, <1>3 DEF Gone

\* The numbers of a state.
LEMMA Numbers ==
  ASSUME TypeOK
  PROVE  /\ now \in Nat /\ grant.expires \in Nat /\ out.endedAt \in Nat
         /\ \A c \in Calls : run[c].began \in Nat
         /\ Workflow \in Nat /\ GrantLife \in Nat /\ AuthLife \in Nat
<1>1. grant.expires \in Nat
  BY DEF TypeOK
<1>2. out.endedAt \in Nat
  BY DEF TypeOK, Outputs
<1>3. \A c \in Calls : run[c].began \in Nat
  BY DEF TypeOK, Runs
<1> QED BY <1>1, <1>2, <1>3, TimeAssumption DEF TypeOK

\* An error that escapes from the run.
LEMMA EscapesGone ==
  ASSUME TypeOK, NEW c \in Calls, Escapes(c)
  PROVE  (Moved(c, "late") /\ UNCHANGED lock) \/ Gone(c)
BY GoesMoves, EndsGone DEF Escapes, RunStages, Late

\* The same for launchers.
LaunchMoved(c, x) ==
  /\ launch' \in [Calls -> Launches] /\ \A d \in Calls \ {c} : launch'[d] = launch[d]
  /\ launch'[c].at = x /\ launch'[c].op = launch[c].op /\ launch'[c].status = launch[c].status

LaunchGone(c) ==
  /\ launch' \in [Calls -> Launches] /\ \A d \in Calls \ {c} : launch'[d] = launch[d]
  /\ launch'[c].at = "ended" /\ launch'[c].status = "none"

\* LaunchGoes moves a launcher.
LEMMA GoesLaunchMoves ==
  ASSUME TypeOK, NEW c \in Calls, NEW x \in LaunchStages, LaunchGoes(c, x)
  PROVE  LaunchMoved(c, x)
<1> DEFINE l == [launch[c] EXCEPT !.at = x]
<1>1. launch[c] \in Launches
  BY DEF TypeOK
<1>2. l \in Launches /\ l.at = x /\ l.op = launch[c].op /\ l.status = launch[c].status
  BY <1>1 DEF Launches
<1>3. launch' = [launch EXCEPT ![c] = l]
  BY DEF LaunchGoes
<1> HIDE DEF l
<1>4. launch' \in [Calls -> Launches] /\ launch'[c] = l /\ \A d \in Calls \ {c} : launch'[d] = launch[d]
  BY <1>2, <1>3, LaunchSet
<1> QED BY <1>2, <1>4 DEF LaunchMoved

\* LauncherEnds ends it.
LEMMA EndsLaunchGone ==
  ASSUME TypeOK, NEW c \in Calls, LauncherEnds(c)
  PROVE  LaunchGone(c)
<1> DEFINE l == [NoLaunch EXCEPT !.at = "ended"]
<1>1. l \in Launches /\ l.at = "ended" /\ l.status = "none"
  BY DEF NoLaunch, Launches, LaunchStages
<1>2. launch' = [launch EXCEPT ![c] = l]
  BY DEF LauncherEnds
<1> HIDE DEF l
<1>3. launch' \in [Calls -> Launches] /\ launch'[c] = l /\ \A d \in Calls \ {c} : launch'[d] = launch[d]
  BY <1>1, <1>2, LaunchSet
<1> QED BY <1>1, <1>3 DEF LaunchGone

-----------------------------------------------------------------------------
(* The steps: what each does, then every conjunct of the invariant after it. *)

\* A run begins: the clock is read, nothing else is touched.
LEMMA BeginKeeps ==
  ASSUME IInv, NEW c \in Calls, Begin(c)
  PROVE  IInv'
<1> USE CallAssumption DEF IInv, Before, UnderWay, Late, Consumer, Locked, Ended
<1>1. /\ run' \in [Calls -> Runs] /\ \A d \in Calls \ {c} : run'[d] = run[d]
      /\ run'[c].at = "lock" /\ run'[c].op = run[c].op
      /\ run'[c].began = now /\ run'[c].status = run[c].status
  <2> DEFINE r == [run[c] EXCEPT !.at = "lock", !.began = now]
  <2>1. run[c] \in Runs /\ now \in Nat
    BY DEF TypeOK
  <2>2. r \in Runs /\ r.at = "lock" /\ r.op = run[c].op /\ r.began = now /\ r.status = run[c].status
    BY <2>1 DEF Runs, RunStages
  <2>3. run' = [run EXCEPT ![c] = r]
    BY DEF Begin
  <2> HIDE DEF r
  <2>4. run' \in [Calls -> Runs] /\ run'[c] = r /\ \A d \in Calls \ {c} : run'[d] = run[d]
    BY <2>2, <2>3, RunSet
  <2> QED BY <2>2, <2>4
<1>2. /\ UNCHANGED <<now, kind, marker, auth, power, grant, consumed, out, noted, lock, worker, entered,
                     launch>>
      /\ run[c].at = "begin"
  BY DEF Begin, owner
<1>3. TypeOK'
  BY <1>1, <1>2 DEF TypeOK
<1>4. LockIsHeld'
  BY <1>1, <1>2 DEF LockIsHeld
<1>5. ConsumedByRun'
  BY <1>1, <1>2 DEF ConsumedByRun
<1>6. BelongToConsumer'
  BY <1>1, <1>2 DEF BelongToConsumer, ConsumedByRun
<1>7. Progress'
  BY <1>1, <1>2 DEF Progress, BelongToConsumer, ConsumedByRun, NoOut
<1>8. CompleteWorker'
  BY <1>1, <1>2 DEF CompleteWorker, Progress
<1>9. Margins'
  BY <1>1, <1>2, Numbers, TimeAssumption DEF Margins, ConsumedByRun, Gated
<1>10. MarkerFirst'
  BY <1>1, <1>2 DEF MarkerFirst, Gated, ConsumedByRun
<1>11. LaunchesItsChild'
  BY <1>1, <1>2 DEF LaunchesItsChild, Active, OwnWorker, Gated
<1>12. Reported'
  BY <1>1, <1>2 DEF Reported, Gated
<1>13. LateAnswers'
  BY <1>1, <1>2 DEF LateAnswers, AnswerIsRecorded, ConsumedByRun
<1> QED BY <1>3, <1>4, <1>5, <1>6, <1>7, <1>8, <1>9, <1>10, <1>11, <1>12, <1>13

\* The lock was free, so no other runner is past it.
LEMMA AcquireKeeps ==
  ASSUME IInv, NEW c \in Calls, Acquire(c)
  PROVE  IInv'
<1> USE CallAssumption DEF IInv, Before, UnderWay, Late, Consumer, Locked, Ended
<1>1. \E x \in {"attempt", "power", "consume"} : Moved(c, x) /\ (Gated => x = "attempt")
  <2>1. CASE Gated
    <3>1. Goes(c, "attempt")
      BY <2>1 DEF Acquire, Gated
    <3> QED BY <2>1, <3>1, GoesMoves DEF RunStages
  <2>2. CASE ~Gated /\ kind = "case"
    <3>1. Goes(c, "consume")
      BY <2>2 DEF Acquire, Gated
    <3> QED BY <2>2, <3>1, GoesMoves DEF RunStages
  <2>3. CASE ~Gated /\ kind # "case"
    <3>1. Goes(c, "power")
      BY <2>3 DEF Acquire, Gated
    <3> QED BY <2>3, <3>1, GoesMoves DEF RunStages
  <2> QED BY <2>1, <2>2, <2>3
<1>2. /\ UNCHANGED <<now, kind, marker, auth, power, grant, consumed, out, noted, worker, entered, launch>>
      /\ run[c].at = "lock" /\ lock = None /\ lock' = c
  BY DEF Acquire, owner
<1>3. TypeOK'
  BY <1>1, <1>2 DEF TypeOK, Moved
<1>4. LockIsHeld'
  BY <1>1, <1>2 DEF LockIsHeld, Moved
<1>5. ConsumedByRun'
  BY <1>1, <1>2 DEF ConsumedByRun, Moved
<1>6. BelongToConsumer'
  BY <1>1, <1>2 DEF BelongToConsumer, ConsumedByRun, Moved
<1>7. Progress'
  BY <1>1, <1>2 DEF Progress, BelongToConsumer, ConsumedByRun, NoOut, Moved
<1>8. CompleteWorker'
  BY <1>1, <1>2 DEF CompleteWorker, Progress, Moved
<1>9. Margins'
  BY <1>1, <1>2, Numbers, TimeAssumption DEF Margins, ConsumedByRun, Gated, Moved
<1>10. MarkerFirst'
  BY <1>1, <1>2 DEF MarkerFirst, Gated, ConsumedByRun, Moved
<1>11. LaunchesItsChild'
  BY <1>1, <1>2 DEF LaunchesItsChild, Active, OwnWorker, Gated, Moved
<1>12. Reported'
  BY <1>1, <1>2 DEF Reported, Gated, Moved
<1>13. LateAnswers'
  BY <1>1, <1>2 DEF LateAnswers, AnswerIsRecorded, ConsumedByRun, Moved
<1> QED BY <1>3, <1>4, <1>5, <1>6, <1>7, <1>8, <1>9, <1>10, <1>11, <1>12, <1>13

\* The marker of the operation is created, once; a launcher of this call waits for it.
LEMMA OpenAttemptKeeps ==
  ASSUME IInv, NEW c \in Calls, OpenAttempt(c)
  PROVE  IInv'
<1> USE CallAssumption DEF IInv, Before, UnderWay, Late, Consumer, Locked, Ended
<1>1. Moved(c, "power")
  BY GoesMoves DEF OpenAttempt, RunStages
<1>2. /\ UNCHANGED <<now, kind, auth, power, grant, consumed, out, noted, lock, worker, entered, launch>>
      /\ run[c].at = "attempt" /\ marker[run[c].op] = None
      /\ marker' = [marker EXCEPT ![run[c].op] = c]
  BY DEF OpenAttempt, owner
<1>3. run[c].op \in Ops /\ marker \in [Ops -> Calls \cup {None}]
  BY <1>2 DEF TypeOK, ConsumedByRun
<1>4. marker'[run[c].op] = c /\ \A o \in Ops \ {run[c].op} : marker'[o] = marker[o]
  BY <1>2, <1>3
<1>5. TypeOK'
  BY <1>1, <1>2, <1>3, <1>4 DEF TypeOK, Moved
<1>6. LockIsHeld'
  BY <1>1, <1>2, <1>3, <1>4 DEF LockIsHeld, Moved
<1>7. ConsumedByRun'
  BY <1>1, <1>2, <1>3, <1>4 DEF ConsumedByRun, Moved
<1>8. BelongToConsumer'
  BY <1>1, <1>2, <1>3, <1>4 DEF BelongToConsumer, ConsumedByRun, Moved
<1>9. Progress'
  BY <1>1, <1>2, <1>3, <1>4 DEF Progress, BelongToConsumer, ConsumedByRun, NoOut, Moved
<1>10. CompleteWorker'
  BY <1>1, <1>2, <1>3, <1>4 DEF CompleteWorker, Progress, Moved
<1>11. Margins'
  BY <1>1, <1>2, <1>3, <1>4, Numbers, TimeAssumption DEF Margins, ConsumedByRun, Gated, Moved
<1>12. MarkerFirst'
  BY <1>1, <1>2, <1>3, <1>4 DEF MarkerFirst, Gated, ConsumedByRun, Moved, LaunchesItsChild, Active
<1>13. LaunchesItsChild'
  BY <1>1, <1>2, <1>3, <1>4 DEF LaunchesItsChild, Active, OwnWorker, Gated, Moved
<1>14. Reported'
  BY <1>1, <1>2, <1>3, <1>4 DEF Reported, Gated, Moved, LaunchesItsChild, Active
<1>15. LateAnswers'
  BY <1>1, <1>2, <1>3, <1>4 DEF LateAnswers, AnswerIsRecorded, ConsumedByRun, Moved
<1> QED BY <1>5, <1>6, <1>7, <1>8, <1>9, <1>10, <1>11, <1>12, <1>13, <1>14, <1>15

\* A gated run that creates the preflight directory already has its marker.
LEMMA ObservePowerKeeps ==
  ASSUME IInv, NEW c \in Calls, ObservePower(c)
  PROVE  IInv'
<1> USE CallAssumption DEF IInv, Before, UnderWay, Late, Consumer, Locked, Ended
<1>1. (Moved(c, "issue") /\ UNCHANGED lock) \/ Gone(c)
  BY GoesMoves, EndsGone DEF ObservePower, RunStages
<1>2. /\ UNCHANGED <<now, kind, marker, auth, grant, consumed, out, noted, worker, entered, launch>>
      /\ run[c].at = "power" /\ power = None /\ power' = c
  BY DEF ObservePower, owner
<1>3. TypeOK'
  BY <1>1, <1>2 DEF TypeOK, Moved, Gone, Leaves
<1>4. LockIsHeld'
  BY <1>1, <1>2 DEF LockIsHeld, Moved, Gone, Leaves
<1>5. ConsumedByRun'
  BY <1>1, <1>2 DEF ConsumedByRun, Moved, Gone, Leaves
<1>6. BelongToConsumer'
  BY <1>1, <1>2 DEF BelongToConsumer, ConsumedByRun, Moved, Gone, Leaves
<1>7. Progress'
  BY <1>1, <1>2 DEF Progress, BelongToConsumer, ConsumedByRun, NoOut, Moved, Gone, Leaves
<1>8. CompleteWorker'
  BY <1>1, <1>2 DEF CompleteWorker, Progress, Moved, Gone, Leaves
<1>9. Margins'
  BY <1>1, <1>2, Numbers, TimeAssumption DEF Margins, ConsumedByRun, Gated, Moved, Gone, Leaves
<1>10. MarkerFirst'
  BY <1>1, <1>2 DEF MarkerFirst, Gated, ConsumedByRun, Moved, Gone, Leaves
<1>11. LaunchesItsChild'
  BY <1>1, <1>2 DEF LaunchesItsChild, Active, OwnWorker, Gated, Moved, Gone, Leaves
<1>12. Reported'
  BY <1>1, <1>2 DEF Reported, Gated, Moved, Gone, Leaves
<1>13. LateAnswers'
  BY <1>1, <1>2 DEF LateAnswers, AnswerIsRecorded, ConsumedByRun, Moved, Gone, Leaves
<1> QED BY <1>3, <1>4, <1>5, <1>6, <1>7, <1>8, <1>9, <1>10, <1>11, <1>12, <1>13

\* Nothing was granted, so nothing was consumed and nobody is under way.
LEMMA IssueKeeps ==
  ASSUME IInv, NEW c \in Calls, Issue(c)
  PROVE  IInv'
<1> USE CallAssumption DEF IInv, Before, UnderWay, Late, Consumer, Locked, Ended
<1>1. (Moved(c, "consume") /\ UNCHANGED lock) \/ Gone(c)
  BY GoesMoves, EndsGone DEF Issue, RunStages
<1>2. /\ UNCHANGED <<now, kind, marker, auth, power, consumed, out, noted, worker, entered, launch>>
      /\ run[c].at = "issue" /\ grant.op = None
  BY DEF Issue, owner
<1>3. run[c].op \in Ops /\ grant.op = None /\ consumed = None
  BY <1>2 DEF ConsumedByRun, BelongToConsumer
<1>4. /\ grant' \in [op : Ops \cup {None}, expires : Nat]
      /\ grant'.op = run[c].op /\ (Gated => grant'.expires <= auth[run[c].op])
  <2> DEFINE life == IF Gated /\ auth[run[c].op] < now + GrantLife THEN auth[run[c].op] ELSE now + GrantLife
  <2>1. auth[run[c].op] \in Nat
    BY <1>3 DEF TypeOK
  <2>2. life \in Nat /\ (Gated => life <= auth[run[c].op])
    BY <2>1, Numbers
  <2>3. grant' = [op |-> run[c].op, expires |-> life] \/ grant' = [op |-> run[c].op, expires |-> 0]
    BY DEF Issue
  <2> HIDE DEF life
  <2> QED BY <1>3, <2>1, <2>2, <2>3
<1>5. TypeOK'
  BY <1>1, <1>2, <1>3, <1>4 DEF TypeOK, Moved, Gone, Leaves
<1>6. LockIsHeld'
  BY <1>1, <1>2, <1>3, <1>4 DEF LockIsHeld, Moved, Gone, Leaves
<1>7. ConsumedByRun'
  BY <1>1, <1>2, <1>3, <1>4 DEF ConsumedByRun, Moved, Gone, Leaves
<1>8. BelongToConsumer'
  BY <1>1, <1>2, <1>3, <1>4 DEF BelongToConsumer, ConsumedByRun, Moved, Gone, Leaves
<1>9. Progress'
  BY <1>1, <1>2, <1>3, <1>4 DEF Progress, BelongToConsumer, ConsumedByRun, NoOut, Moved, Gone, Leaves
<1>10. CompleteWorker'
  BY <1>1, <1>2, <1>3, <1>4 DEF CompleteWorker, Progress, Moved, Gone, Leaves
<1>11. Margins'
  BY <1>1, <1>2, <1>3, <1>4, Numbers, TimeAssumption DEF Margins, ConsumedByRun, Gated, Moved, Gone,
     Leaves, BelongToConsumer, NoOut
<1>12. MarkerFirst'
  BY <1>1, <1>2, <1>3, <1>4 DEF MarkerFirst, Gated, ConsumedByRun, Moved, Gone, Leaves
<1>13. LaunchesItsChild'
  BY <1>1, <1>2, <1>3, <1>4 DEF LaunchesItsChild, Active, OwnWorker, Gated, Moved, Gone, Leaves
<1>14. Reported'
  BY <1>1, <1>2, <1>3, <1>4 DEF Reported, Gated, Moved, Gone, Leaves
<1>15. LateAnswers'
  BY <1>1, <1>2, <1>3, <1>4 DEF LateAnswers, AnswerIsRecorded, ConsumedByRun, Moved, Gone, Leaves
<1> QED BY <1>5, <1>6, <1>7, <1>8, <1>9, <1>10, <1>11, <1>12, <1>13, <1>14, <1>15

\* The one step that makes a call the consumer, with Workflow ticks of its grant left.
LEMMA ConsumeKeeps ==
  ASSUME IInv, NEW c \in Calls, Consume(c)
  PROVE  IInv'
<1> USE CallAssumption DEF IInv, Before, UnderWay, Late, Consumer, Locked, Ended
<1>1. Moved(c, "make")
  BY GoesMoves DEF Consume, RunStages
<1>2. /\ UNCHANGED <<now, kind, marker, auth, power, grant, out, noted, lock, worker, entered, launch>>
      /\ run[c].at = "consume" /\ grant.op = run[c].op /\ consumed = None /\ consumed' = c
      /\ now + Workflow <= grant.expires
  BY TimeAssumption DEF Consume, owner, TypeOK
<1>3. TypeOK'
  BY <1>1, <1>2 DEF TypeOK, Moved
<1>4. LockIsHeld'
  BY <1>1, <1>2 DEF LockIsHeld, Moved
<1>5. ConsumedByRun'
  BY <1>1, <1>2 DEF ConsumedByRun, Moved
<1>6. BelongToConsumer'
  BY <1>1, <1>2 DEF BelongToConsumer, ConsumedByRun, Moved
<1>7. Progress'
  BY <1>1, <1>2 DEF Progress, BelongToConsumer, ConsumedByRun, NoOut, Moved
<1>8. CompleteWorker'
  BY <1>1, <1>2 DEF CompleteWorker, Progress, Moved
<1>9. Margins'
  BY <1>1, <1>2, Numbers, TimeAssumption DEF Margins, ConsumedByRun, Gated, Moved
<1>10. MarkerFirst'
  BY <1>1, <1>2 DEF MarkerFirst, Gated, ConsumedByRun, Moved
<1>11. LaunchesItsChild'
  BY <1>1, <1>2 DEF LaunchesItsChild, Active, OwnWorker, Gated, Moved
<1>12. Reported'
  BY <1>1, <1>2 DEF Reported, Gated, Moved
<1>13. LateAnswers'
  BY <1>1, <1>2 DEF LateAnswers, AnswerIsRecorded, ConsumedByRun, Moved
<1> QED BY <1>3, <1>4, <1>5, <1>6, <1>7, <1>8, <1>9, <1>10, <1>11, <1>12, <1>13

\* An error before the run is under way.
LEMMA RaisesKeeps ==
  ASSUME IInv, NEW c \in Calls, Raises(c)
  PROVE  IInv'
<1> USE CallAssumption DEF IInv, Before, UnderWay, Late, Consumer, Locked, Ended
<1>1. Gone(c)
  BY EndsGone DEF Raises
<1>2. /\ UNCHANGED <<now, kind, marker, auth, power, grant, consumed, out, noted, worker, entered, launch>>
      /\ run[c].at \in Before
  BY DEF Raises, owner
<1>3. TypeOK'
  BY <1>1, <1>2 DEF TypeOK, Gone, Leaves
<1>4. LockIsHeld'
  BY <1>1, <1>2 DEF LockIsHeld, Gone, Leaves
<1>5. ConsumedByRun'
  BY <1>1, <1>2 DEF ConsumedByRun, Gone, Leaves
<1>6. BelongToConsumer'
  BY <1>1, <1>2 DEF BelongToConsumer, ConsumedByRun, Gone, Leaves
<1>7. Progress'
  BY <1>1, <1>2 DEF Progress, BelongToConsumer, ConsumedByRun, NoOut, Gone, Leaves
<1>8. CompleteWorker'
  BY <1>1, <1>2 DEF CompleteWorker, Progress, Gone, Leaves
<1>9. Margins'
  BY <1>1, <1>2, Numbers, TimeAssumption DEF Margins, ConsumedByRun, Gated, Gone, Leaves
<1>10. MarkerFirst'
  BY <1>1, <1>2 DEF MarkerFirst, Gated, ConsumedByRun, Gone, Leaves
<1>11. LaunchesItsChild'
  BY <1>1, <1>2 DEF LaunchesItsChild, Active, OwnWorker, Gated, Gone, Leaves
<1>12. Reported'
  BY <1>1, <1>2 DEF Reported, Gated, Gone, Leaves
<1>13. LateAnswers'
  BY <1>1, <1>2 DEF LateAnswers, AnswerIsRecorded, ConsumedByRun, Gone, Leaves
<1> QED BY <1>3, <1>4, <1>5, <1>6, <1>7, <1>8, <1>9, <1>10, <1>11, <1>12, <1>13

\* A killed runner loses its lock and its locals; files and worker stay.
LEMMA RunKilledKeeps ==
  ASSUME IInv, NEW c \in Calls, RunKilled(c)
  PROVE  IInv'
<1> USE CallAssumption DEF IInv, Before, UnderWay, Late, Consumer, Locked, Ended
<1>1. Gone(c)
  BY EndsGone DEF RunKilled
<1>2. /\ UNCHANGED <<now, kind, marker, auth, power, grant, consumed, out, noted, worker, entered, launch>>
      /\ Active(c)
  BY DEF RunKilled, owner
<1>3. TypeOK'
  BY <1>1, <1>2 DEF TypeOK, Gone, Leaves, Active
<1>4. LockIsHeld'
  BY <1>1, <1>2 DEF LockIsHeld, Gone, Leaves, Active
<1>5. ConsumedByRun'
  BY <1>1, <1>2 DEF ConsumedByRun, Gone, Leaves, Active
<1>6. BelongToConsumer'
  BY <1>1, <1>2 DEF BelongToConsumer, ConsumedByRun, Gone, Leaves, Active
<1>7. Progress'
  BY <1>1, <1>2 DEF Progress, BelongToConsumer, ConsumedByRun, NoOut, Gone, Leaves, Active
<1>8. CompleteWorker'
  BY <1>1, <1>2 DEF CompleteWorker, Progress, Gone, Leaves, Active
<1>9. Margins'
  BY <1>1, <1>2, Numbers, TimeAssumption DEF Margins, ConsumedByRun, Gated, Gone, Leaves, Active
<1>10. MarkerFirst'
  BY <1>1, <1>2 DEF MarkerFirst, Gated, ConsumedByRun, Gone, Leaves, Active
<1>11. LaunchesItsChild'
  BY <1>1, <1>2 DEF LaunchesItsChild, Active, OwnWorker, Gated, Gone, Leaves
<1>12. Reported'
  BY <1>1, <1>2 DEF Reported, Gated, Gone, Leaves, Active
<1>13. LateAnswers'
  BY <1>1, <1>2 DEF LateAnswers, AnswerIsRecorded, ConsumedByRun, Gone, Leaves, Active
<1> QED BY <1>3, <1>4, <1>5, <1>6, <1>7, <1>8, <1>9, <1>10, <1>11, <1>12, <1>13

\* The consumer, and nobody before it, creates the output directory.
LEMMA MakeOutKeeps ==
  ASSUME IInv, NEW c \in Calls, MakeOut(c)
  PROVE  IInv'
<1> USE CallAssumption DEF IInv, Before, UnderWay, Late, Consumer, Locked, Ended
<1>1. /\ UNCHANGED <<now, kind, marker, auth, power, grant, consumed, noted, worker, entered, launch>>
      /\ run[c].at = "make" /\ out = NoOut /\ consumed = c /\ grant.op = run[c].op /\ run[c].op \in Ops
  BY DEF MakeOut, owner, ConsumedByRun, Progress
<1>2. \/ Moved(c, "admit") /\ UNCHANGED lock /\ out'.by = c
      \/ Moved(c, "late") /\ UNCHANGED lock
      \/ Gone(c)
  <2>1. [NoOut EXCEPT !.by = c, !.op = run[c].op, !.files = {"started"}].by = c
    BY DEF NoOut
  <2> QED BY <2>1, GoesMoves, EscapesGone DEF MakeOut, RunStages
<1>3. /\ out' \in Outputs
      /\ out' = NoOut \/ (out'.by = c /\ out'.op = run[c].op)
      /\ out'.status = "none" /\ "result" \notin out'.files /\ out'.endedAt = 0
  <2> DEFINE new == [NoOut EXCEPT !.by = c, !.op = run[c].op, !.files = {"started"}]
  <2>1. /\ new \in Outputs /\ new.by = c /\ new.op = run[c].op
        /\ new.status = "none" /\ "result" \notin new.files /\ new.endedAt = 0
    BY <1>1 DEF NoOut, Outputs, Statuses, Files
  <2>2. out' = NoOut \/ out' = new
    BY <1>1 DEF MakeOut
  <2>3. NoOut \in Outputs /\ NoOut.status = "none" /\ "result" \notin NoOut.files /\ NoOut.endedAt = 0
    BY DEF NoOut, Outputs, Statuses
  <2> HIDE DEF new
  <2> QED BY <2>1, <2>2, <2>3
<1>4. TypeOK'
  BY <1>1, <1>2, <1>3 DEF TypeOK, Moved, Gone, Leaves
<1>5. LockIsHeld'
  BY <1>1, <1>2, <1>3 DEF LockIsHeld, Moved, Gone, Leaves
<1>6. ConsumedByRun'
  BY <1>1, <1>2, <1>3 DEF ConsumedByRun, Moved, Gone, Leaves
<1>7. BelongToConsumer'
  BY <1>1, <1>2, <1>3 DEF BelongToConsumer, ConsumedByRun, Moved, Gone, Leaves
<1>8. Progress'
  BY <1>1, <1>2, <1>3 DEF Progress, BelongToConsumer, ConsumedByRun, NoOut, Moved, Gone, Leaves
<1>9. CompleteWorker'
  BY <1>1, <1>2, <1>3 DEF CompleteWorker, Progress, Moved, Gone, Leaves
<1>10. Margins'
  BY <1>1, <1>2, <1>3, Numbers, TimeAssumption DEF Margins, ConsumedByRun, Gated, Moved, Gone, Leaves,
     TypeOK
<1>11. MarkerFirst'
  BY <1>1, <1>2, <1>3 DEF MarkerFirst, Gated, ConsumedByRun, Moved, Gone, Leaves
<1>12. LaunchesItsChild'
  BY <1>1, <1>2, <1>3 DEF LaunchesItsChild, Active, OwnWorker, Gated, Moved, Gone, Leaves
<1>13. Reported'
  BY <1>1, <1>2, <1>3 DEF Reported, Gated, Moved, Gone, Leaves, NoOut
<1>14. LateAnswers'
  BY <1>1, <1>2, <1>3 DEF LateAnswers, AnswerIsRecorded, ConsumedByRun, Moved, Gone, Leaves
<1> QED BY <1>4, <1>5, <1>6, <1>7, <1>8, <1>9, <1>10, <1>11, <1>12, <1>13, <1>14

\* Admission only adds the intent to the output.
LEMMA AdmitKeeps ==
  ASSUME IInv, NEW c \in Calls, Admit(c)
  PROVE  IInv'
<1> USE CallAssumption DEF IInv, Before, UnderWay, Late, Consumer, Locked, Ended
<1>1. /\ UNCHANGED <<now, kind, marker, auth, power, grant, consumed, noted, lock, worker, entered, launch>>
      /\ run[c].at = "admit" /\ now - run[c].began <= Workflow
  BY DEF Admit, owner
<1>2. Moved(c, "dispatch")
  <2> DEFINE r == [run[c] EXCEPT !.at = "dispatch", !.dispatched = TRUE]
  <2>1. run[c] \in Runs
    BY DEF TypeOK
  <2>2. /\ r \in Runs /\ r.at = "dispatch" /\ r.op = run[c].op
        /\ r.began = run[c].began /\ r.status = run[c].status
    BY <2>1 DEF Runs, RunStages
  <2>3. run' = [run EXCEPT ![c] = r]
    BY DEF Admit
  <2> HIDE DEF r
  <2>4. run' \in [Calls -> Runs] /\ run'[c] = r /\ \A d \in Calls \ {c} : run'[d] = run[d]
    BY <2>2, <2>3, RunSet
  <2> QED BY <2>2, <2>4 DEF Moved
<1>3. /\ out' \in Outputs /\ out'.by = out.by /\ out'.op = out.op /\ out'.status = out.status
      /\ out'.endedAt = out.endedAt /\ out'.files = out.files \cup {"intent"}
  <2>1. out \in Outputs /\ out' = [out EXCEPT !.files = out.files \cup {"intent"}]
    BY DEF Admit, TypeOK
  <2> QED BY <2>1 DEF Outputs, Files
<1>4. out.by = c /\ c # None
  BY <1>1 DEF Progress
<1>5. TypeOK'
  BY <1>1, <1>2, <1>3, <1>4 DEF TypeOK, Moved
<1>6. LockIsHeld'
  BY <1>1, <1>2, <1>3, <1>4 DEF LockIsHeld, Moved
<1>7. ConsumedByRun'
  BY <1>1, <1>2, <1>3, <1>4 DEF ConsumedByRun, Moved
<1>8. BelongToConsumer'
  BY <1>1, <1>2, <1>3, <1>4 DEF BelongToConsumer, ConsumedByRun, Moved, NoOut
<1>9. Progress'
  BY <1>1, <1>2, <1>3, <1>4 DEF Progress, BelongToConsumer, ConsumedByRun, NoOut, Moved
<1>10. CompleteWorker'
  BY <1>1, <1>2, <1>3, <1>4 DEF CompleteWorker, Progress, Moved
<1>11. Margins'
  BY <1>1, <1>2, <1>3, <1>4, Numbers, TimeAssumption DEF Margins, ConsumedByRun, Gated, Moved
<1>12. MarkerFirst'
  BY <1>1, <1>2, <1>3, <1>4 DEF MarkerFirst, Gated, ConsumedByRun, Moved
<1>13. LaunchesItsChild'
  BY <1>1, <1>2, <1>3, <1>4 DEF LaunchesItsChild, Active, OwnWorker, Gated, Moved
<1>14. Reported'
  BY <1>1, <1>2, <1>3, <1>4 DEF Reported, Gated, Moved
<1>15. LateAnswers'
  BY <1>1, <1>2, <1>3, <1>4 DEF LateAnswers, AnswerIsRecorded, ConsumedByRun, Moved
<1> QED BY <1>5, <1>6, <1>7, <1>8, <1>9, <1>10, <1>11, <1>12, <1>13, <1>14, <1>15

\* The one step that starts a worker: none was started before.
LEMMA DispatchKeeps ==
  ASSUME IInv, NEW c \in Calls, Dispatch(c)
  PROVE  IInv'
<1> USE CallAssumption DEF IInv, Before, UnderWay, Late, Consumer, Locked, Ended
<1>1. Moved(c, "work")
  BY GoesMoves DEF Dispatch, RunStages
<1>2. /\ UNCHANGED <<now, kind, marker, auth, power, grant, consumed, out, noted, lock, launch>>
      /\ run[c].at = "dispatch" /\ entered = << >> /\ worker.by = None
      /\ consumed = c /\ grant.op = run[c].op /\ run[c].op \in Ops
  BY DEF Dispatch, owner, Progress, ConsumedByRun
<1>3. worker' = [by |-> c, state |-> "running"] /\ worker' \in Workers
  BY DEF Dispatch, Workers
<1>4. entered' = <<grant.op>> /\ entered' \in Seq(Ops)
  BY <1>2 DEF Dispatch
<1>5. TypeOK'
  BY <1>1, <1>2, <1>3, <1>4 DEF TypeOK, Moved
<1>6. LockIsHeld'
  BY <1>1, <1>2, <1>3, <1>4 DEF LockIsHeld, Moved
<1>7. ConsumedByRun'
  BY <1>1, <1>2, <1>3, <1>4 DEF ConsumedByRun, Moved
<1>8. BelongToConsumer'
  BY <1>1, <1>2, <1>3, <1>4 DEF BelongToConsumer, ConsumedByRun, Moved
<1>9. Progress'
  BY <1>1, <1>2, <1>3, <1>4 DEF Progress, BelongToConsumer, ConsumedByRun, NoOut, Moved
<1>10. CompleteWorker'
  BY <1>1, <1>2, <1>3, <1>4 DEF CompleteWorker, Progress, Moved, TypeOK, Workers, BelongToConsumer
<1>11. Margins'
  BY <1>1, <1>2, <1>3, <1>4, Numbers, TimeAssumption DEF Margins, ConsumedByRun, Gated, Moved
<1>12. MarkerFirst'
  BY <1>1, <1>2, <1>3, <1>4 DEF MarkerFirst, Gated, ConsumedByRun, Moved
<1>13. LaunchesItsChild'
  BY <1>1, <1>2, <1>3, <1>4 DEF LaunchesItsChild, Active, OwnWorker, Gated, Moved
<1>14. Reported'
  BY <1>1, <1>2, <1>3, <1>4 DEF Reported, Gated, Moved
<1>15. LateAnswers'
  BY <1>1, <1>2, <1>3, <1>4 DEF LateAnswers, AnswerIsRecorded, ConsumedByRun, Moved
<1> QED BY <1>5, <1>6, <1>7, <1>8, <1>9, <1>10, <1>11, <1>12, <1>13, <1>14, <1>15

\* A worker that ends by itself was running, so no run is called complete over it.
LEMMA WorkerEndsKeeps ==
  ASSUME IInv, WorkerEnds
  PROVE  IInv'
<1> USE CallAssumption DEF IInv, Before, UnderWay, Late, Consumer, Locked, Ended
<1>1. UNCHANGED <<now, kind, marker, auth, power, grant, consumed, out, noted, lock, entered, run, launch>>
  BY DEF WorkerEnds, owner
<1>2. /\ worker.state = "running" /\ worker'.by = worker.by /\ worker' \in Workers
      /\ worker'.state \in {"complete", "failed"}
  BY DEF WorkerEnds, TypeOK, Workers
<1>3. TypeOK'
  BY <1>1, <1>2 DEF TypeOK
<1>4. LockIsHeld'
  BY <1>1, <1>2 DEF LockIsHeld
<1>5. ConsumedByRun'
  BY <1>1, <1>2 DEF ConsumedByRun
<1>6. BelongToConsumer'
  BY <1>1, <1>2 DEF BelongToConsumer, ConsumedByRun
<1>7. Progress'
  BY <1>1, <1>2 DEF Progress, BelongToConsumer, ConsumedByRun, NoOut
<1>8. CompleteWorker'
  BY <1>1, <1>2 DEF CompleteWorker, Progress
<1>9. Margins'
  BY <1>1, <1>2, Numbers, TimeAssumption DEF Margins, ConsumedByRun, Gated
<1>10. MarkerFirst'
  BY <1>1, <1>2 DEF MarkerFirst, Gated, ConsumedByRun
<1>11. LaunchesItsChild'
  BY <1>1, <1>2 DEF LaunchesItsChild, Active, OwnWorker, Gated
<1>12. Reported'
  BY <1>1, <1>2 DEF Reported, Gated
<1>13. LateAnswers'
  BY <1>1, <1>2 DEF LateAnswers, AnswerIsRecorded, ConsumedByRun
<1> QED BY <1>3, <1>4, <1>5, <1>6, <1>7, <1>8, <1>9, <1>10, <1>11, <1>12, <1>13

\* Time only grows.
LEMMA TickKeeps ==
  ASSUME IInv, Tick
  PROVE  IInv'
<1> USE CallAssumption DEF IInv, Before, UnderWay, Late, Consumer, Locked, Ended
<1>1. now' = now + 1 /\ UNCHANGED <<kind, marker, auth, power, grant, consumed, out, noted, lock, worker,
                                    entered, run, launch>>
  BY DEF Tick, owner
<1>2. TypeOK'
  BY <1>1, Numbers DEF TypeOK
<1>3. LockIsHeld'
  BY <1>1 DEF LockIsHeld
<1>4. ConsumedByRun'
  BY <1>1 DEF ConsumedByRun
<1>5. BelongToConsumer'
  BY <1>1 DEF BelongToConsumer, ConsumedByRun
<1>6. Progress'
  BY <1>1 DEF Progress, BelongToConsumer, ConsumedByRun, NoOut
<1>7. CompleteWorker'
  BY <1>1 DEF CompleteWorker, Progress
<1>8. Margins'
  BY <1>1, Numbers, TimeAssumption DEF Margins, ConsumedByRun, Gated
<1>9. MarkerFirst'
  BY <1>1 DEF MarkerFirst, Gated, ConsumedByRun
<1>10. LaunchesItsChild'
  BY <1>1 DEF LaunchesItsChild, Active, OwnWorker, Gated
<1>11. Reported'
  BY <1>1 DEF Reported, Gated
<1>12. LateAnswers'
  BY <1>1 DEF LateAnswers, AnswerIsRecorded, ConsumedByRun
<1> QED BY <1>2, <1>3, <1>4, <1>5, <1>6, <1>7, <1>8, <1>9, <1>10, <1>11, <1>12

\* A case plan is granted once; it is not gated.
LEMMA AuthorizeCaseKeeps ==
  ASSUME IInv, NEW o \in Ops, AuthorizeCase(o)
  PROVE  IInv'
<1> USE CallAssumption DEF IInv, Before, UnderWay, Late, Consumer, Locked, Ended
<1>1. kind = "case" /\ grant.op = None /\ UNCHANGED <<now, kind, marker, auth, power, consumed, out, noted,
                                                      lock, worker, entered, run, launch>>
  BY DEF AuthorizeCase, owner
<1>2. /\ grant' \in [op : Ops \cup {None}, expires : Nat] /\ grant'.op = o
  <2>1. now + GrantLife \in Nat
    BY Numbers
  <2> QED BY <2>1 DEF AuthorizeCase
<1>3. consumed = None /\ out = NoOut
  BY <1>1 DEF BelongToConsumer
<1>4. TypeOK'
  BY <1>1, <1>2, <1>3 DEF TypeOK
<1>5. LockIsHeld'
  BY <1>1, <1>2, <1>3 DEF LockIsHeld
<1>6. ConsumedByRun'
  BY <1>1, <1>2, <1>3 DEF ConsumedByRun
<1>7. BelongToConsumer'
  BY <1>1, <1>2, <1>3 DEF BelongToConsumer, ConsumedByRun
<1>8. Progress'
  BY <1>1, <1>2, <1>3 DEF Progress, BelongToConsumer, ConsumedByRun, NoOut
<1>9. CompleteWorker'
  BY <1>1, <1>2, <1>3 DEF CompleteWorker, Progress
<1>10. Margins'
  BY <1>1, <1>2, <1>3, Numbers, TimeAssumption DEF Margins, ConsumedByRun, Gated, NoOut
<1>11. MarkerFirst'
  BY <1>1, <1>2, <1>3 DEF MarkerFirst, Gated, ConsumedByRun
<1>12. LaunchesItsChild'
  BY <1>1, <1>2, <1>3 DEF LaunchesItsChild, Active, OwnWorker, Gated
<1>13. Reported'
  BY <1>1, <1>2, <1>3 DEF Reported, Gated
<1>14. LateAnswers'
  BY <1>1, <1>2, <1>3 DEF LateAnswers, AnswerIsRecorded, ConsumedByRun
<1> QED BY <1>4, <1>5, <1>6, <1>7, <1>8, <1>9, <1>10, <1>11, <1>12, <1>13, <1>14

\* Authorizations are written before anything is granted.
LEMMA AuthorizeKeeps ==
  ASSUME IInv, NEW o \in Ops, Authorize(o)
  PROVE  IInv'
<1> USE CallAssumption DEF IInv, Before, UnderWay, Late, Consumer, Locked, Ended
<1>1. grant.op = None /\ UNCHANGED <<now, kind, marker, power, grant, consumed, out, noted, lock, worker,
                                     entered, run, launch>>
  BY DEF Authorize, owner
<1>2. auth' \in [Ops -> Nat]
  <2>1. now + AuthLife \in Nat /\ auth \in [Ops -> Nat]
    BY Numbers DEF TypeOK
  <2> QED BY <2>1 DEF Authorize
<1>3. TypeOK'
  BY <1>1, <1>2 DEF TypeOK
<1>4. LockIsHeld'
  BY <1>1, <1>2 DEF LockIsHeld
<1>5. ConsumedByRun'
  BY <1>1, <1>2 DEF ConsumedByRun
<1>6. BelongToConsumer'
  BY <1>1, <1>2 DEF BelongToConsumer, ConsumedByRun
<1>7. Progress'
  BY <1>1, <1>2 DEF Progress, BelongToConsumer, ConsumedByRun, NoOut
<1>8. CompleteWorker'
  BY <1>1, <1>2 DEF CompleteWorker, Progress
<1>9. Margins'
  BY <1>1, <1>2, Numbers, TimeAssumption DEF Margins, ConsumedByRun, Gated
<1>10. MarkerFirst'
  BY <1>1, <1>2 DEF MarkerFirst, Gated, ConsumedByRun
<1>11. LaunchesItsChild'
  BY <1>1, <1>2 DEF LaunchesItsChild, Active, OwnWorker, Gated
<1>12. Reported'
  BY <1>1, <1>2 DEF Reported, Gated
<1>13. LateAnswers'
  BY <1>1, <1>2 DEF LateAnswers, AnswerIsRecorded, ConsumedByRun
<1> QED BY <1>3, <1>4, <1>5, <1>6, <1>7, <1>8, <1>9, <1>10, <1>11, <1>12, <1>13

\* Reaping kills no worker but a running one.
LEMMA SuperviseKeeps ==
  ASSUME IInv, NEW c \in Calls, Supervise(c)
  PROVE  IInv'
<1> USE CallAssumption DEF IInv, Before, UnderWay, Late, Consumer, Locked, Ended
<1>1. /\ UNCHANGED <<now, kind, marker, auth, power, grant, consumed, out, noted, lock, entered, launch>>
      /\ run[c].at = "work"
  BY DEF Supervise, owner
<1>2. /\ run' \in [Calls -> Runs] /\ \A d \in Calls \ {c} : run'[d] = run[d]
      /\ run'[c].at = "judge" /\ run'[c].op = run[c].op /\ run'[c].began = run[c].began
      /\ run'[c].status = run[c].status
  <2>0. PICK reaped \in BOOLEAN : run' = [run EXCEPT ![c].at = "judge", ![c].reaped = reaped]
    BY DEF Supervise
  <2> DEFINE r == [run[c] EXCEPT !.at = "judge", !.reaped = reaped]
  <2>1. run[c] \in Runs
    BY DEF TypeOK
  <2>2. r \in Runs /\ r.at = "judge" /\ r.op = run[c].op /\ r.began = run[c].began /\ r.status = run[c].status
    BY <2>1 DEF Runs, RunStages, Statuses
  <2>3. run' = [run EXCEPT ![c] = r]
    BY <2>0
  <2> HIDE DEF r
  <2>4. run' \in [Calls -> Runs] /\ run'[c] = r /\ \A d \in Calls \ {c} : run'[d] = run[d]
    BY <2>2, <2>3, RunSet
  <2> QED BY <2>2, <2>4
<1>3. /\ worker' \in Workers /\ worker'.by = worker.by
      /\ worker' = worker \/ (worker.state = "running" /\ worker'.state = "killed")
  BY DEF Supervise, TypeOK, Workers
<1>4. TypeOK'
  BY <1>1, <1>2, <1>3 DEF TypeOK
<1>5. LockIsHeld'
  BY <1>1, <1>2, <1>3 DEF LockIsHeld
<1>6. ConsumedByRun'
  BY <1>1, <1>2, <1>3 DEF ConsumedByRun
<1>7. BelongToConsumer'
  BY <1>1, <1>2, <1>3 DEF BelongToConsumer, ConsumedByRun
<1>8. Progress'
  BY <1>1, <1>2, <1>3 DEF Progress, BelongToConsumer, ConsumedByRun, NoOut
<1>9. CompleteWorker'
  BY <1>1, <1>2, <1>3 DEF CompleteWorker, Progress
<1>10. Margins'
  BY <1>1, <1>2, <1>3, Numbers, TimeAssumption DEF Margins, ConsumedByRun, Gated
<1>11. MarkerFirst'
  BY <1>1, <1>2, <1>3 DEF MarkerFirst, Gated, ConsumedByRun
<1>12. LaunchesItsChild'
  BY <1>1, <1>2, <1>3 DEF LaunchesItsChild, Active, OwnWorker, Gated
<1>13. Reported'
  BY <1>1, <1>2, <1>3 DEF Reported, Gated
<1>14. LateAnswers'
  BY <1>1, <1>2, <1>3 DEF LateAnswers, AnswerIsRecorded, ConsumedByRun
<1> QED BY <1>4, <1>5, <1>6, <1>7, <1>8, <1>9, <1>10, <1>11, <1>12, <1>13, <1>14

\* A run is called complete over a complete worker, and in time.
LEMMA JudgeKeeps ==
  ASSUME IInv, NEW c \in Calls, Judge(c)
  PROVE  IInv'
<1> USE CallAssumption DEF IInv, Before, UnderWay, Late, Consumer, Locked, Ended
<1>1. /\ UNCHANGED <<now, kind, marker, auth, power, grant, consumed, noted, lock, worker, entered, launch>>
      /\ run[c].at = "judge" /\ now - run[c].began <= Workflow /\ worker.state = "complete"
      /\ out.by = c
  BY DEF Judge, owner, Progress
<1>2. /\ run' \in [Calls -> Runs] /\ \A d \in Calls \ {c} : run'[d] = run[d]
      /\ run'[c].at = "clean" /\ run'[c].op = run[c].op /\ run'[c].began = run[c].began /\ run'[c].status = "COMPLETED"
  <2> DEFINE r == [run[c] EXCEPT !.at = "clean", !.status = "COMPLETED"]
  <2>1. run[c] \in Runs
    BY DEF TypeOK
  <2>2. r \in Runs /\ r.at = "clean" /\ r.op = run[c].op /\ r.began = run[c].began /\ r.status = "COMPLETED"
    BY <2>1 DEF Runs, RunStages, Statuses
  <2>3. run' = [run EXCEPT ![c] = r]
    BY DEF Judge
  <2> HIDE DEF r
  <2>4. run' \in [Calls -> Runs] /\ run'[c] = r /\ \A d \in Calls \ {c} : run'[d] = run[d]
    BY <2>2, <2>3, RunSet
  <2> QED BY <2>2, <2>4
<1>3. /\ out' \in Outputs /\ out'.by = out.by /\ out'.op = out.op /\ out'.status = out.status
      /\ out'.endedAt = now /\ out'.files = out.files
  <2>1. out \in Outputs /\ out' = [out EXCEPT !.endedAt = now]
    BY DEF Judge, TypeOK
  <2> QED BY <2>1, Numbers DEF Outputs
<1>4. consumed = c /\ c # None /\ worker = [by |-> c, state |-> "complete"]
  <2>1. consumed = c /\ worker.by = c /\ worker \in Workers
    BY <1>1 DEF ConsumedByRun, BelongToConsumer, TypeOK
  <2> QED BY <2>1, <1>1 DEF Workers
<1>5. TypeOK'
  BY <1>1, <1>2, <1>3, <1>4 DEF TypeOK
<1>6. LockIsHeld'
  BY <1>1, <1>2, <1>3, <1>4 DEF LockIsHeld
<1>7. ConsumedByRun'
  BY <1>1, <1>2, <1>3, <1>4 DEF ConsumedByRun
<1>8. BelongToConsumer'
  BY <1>1, <1>2, <1>3, <1>4 DEF BelongToConsumer, ConsumedByRun, NoOut
<1>9. Progress'
  BY <1>1, <1>2, <1>3, <1>4 DEF Progress, BelongToConsumer, ConsumedByRun, NoOut
<1>10. CompleteWorker'
  BY <1>1, <1>2, <1>3, <1>4 DEF CompleteWorker, Progress
<1>11. Margins'
  BY <1>1, <1>2, <1>3, <1>4, Numbers, TimeAssumption DEF Margins, ConsumedByRun, Gated
<1>12. MarkerFirst'
  BY <1>1, <1>2, <1>3, <1>4 DEF MarkerFirst, Gated, ConsumedByRun
<1>13. LaunchesItsChild'
  BY <1>1, <1>2, <1>3, <1>4 DEF LaunchesItsChild, Active, OwnWorker, Gated
<1>14. Reported'
  BY <1>1, <1>2, <1>3, <1>4 DEF Reported, Gated
<1>15. LateAnswers'
  BY <1>1, <1>2, <1>3, <1>4 DEF LateAnswers, AnswerIsRecorded, ConsumedByRun
<1> QED BY <1>5, <1>6, <1>7, <1>8, <1>9, <1>10, <1>11, <1>12, <1>13, <1>14, <1>15

\* No failure is called COMPLETED.
LEMMA FailsKeeps ==
  ASSUME IInv, NEW c \in Calls, Fails(c)
  PROVE  IInv'
<1> USE CallAssumption DEF IInv, Before, UnderWay, Late, Consumer, Locked, Ended
<1>1. /\ UNCHANGED <<now, kind, marker, auth, power, grant, consumed, out, noted, lock, worker, entered,
                     launch>>
      /\ run[c].at \in {"admit", "dispatch", "judge"}
  BY DEF Fails, owner
<1>2. /\ run' \in [Calls -> Runs] /\ \A d \in Calls \ {c} : run'[d] = run[d]
      /\ run'[c].at = "clean" /\ run'[c].op = run[c].op /\ run'[c].began = run[c].began /\ run'[c].status # "COMPLETED"
  <2>0. PICK s \in {"STOP", "HOST_STOP", "INTERRUPTED"} : run' = [run EXCEPT ![c].at = "clean", ![c].status = s]
    BY DEF Fails, Failures, ScenarioFailures, CaseFailures
  <2> DEFINE r == [run[c] EXCEPT !.at = "clean", !.status = s]
  <2>1. run[c] \in Runs
    BY DEF TypeOK
  <2>2. r \in Runs /\ r.at = "clean" /\ r.op = run[c].op /\ r.began = run[c].began /\ r.status # "COMPLETED"
    BY <2>0, <2>1 DEF Runs, RunStages, Statuses
  <2>3. run' = [run EXCEPT ![c] = r]
    BY <2>0
  <2> HIDE DEF r
  <2>4. run' \in [Calls -> Runs] /\ run'[c] = r /\ \A d \in Calls \ {c} : run'[d] = run[d]
    BY <2>2, <2>3, RunSet
  <2> QED BY <2>2, <2>4
<1>3. TypeOK'
  BY <1>1, <1>2 DEF TypeOK
<1>4. LockIsHeld'
  BY <1>1, <1>2 DEF LockIsHeld
<1>5. ConsumedByRun'
  BY <1>1, <1>2 DEF ConsumedByRun
<1>6. BelongToConsumer'
  BY <1>1, <1>2 DEF BelongToConsumer, ConsumedByRun
<1>7. Progress'
  BY <1>1, <1>2 DEF Progress, BelongToConsumer, ConsumedByRun, NoOut
<1>8. CompleteWorker'
  BY <1>1, <1>2 DEF CompleteWorker, Progress
<1>9. Margins'
  BY <1>1, <1>2, Numbers, TimeAssumption DEF Margins, ConsumedByRun, Gated
<1>10. MarkerFirst'
  BY <1>1, <1>2 DEF MarkerFirst, Gated, ConsumedByRun
<1>11. LaunchesItsChild'
  BY <1>1, <1>2 DEF LaunchesItsChild, Active, OwnWorker, Gated
<1>12. Reported'
  BY <1>1, <1>2 DEF Reported, Gated
<1>13. LateAnswers'
  BY <1>1, <1>2 DEF LateAnswers, AnswerIsRecorded, ConsumedByRun
<1> QED BY <1>3, <1>4, <1>5, <1>6, <1>7, <1>8, <1>9, <1>10, <1>11, <1>12, <1>13

\* An unconfirmed cleanup only takes COMPLETED away.
LEMMA CleanKeeps ==
  ASSUME IInv, NEW c \in Calls, Clean(c)
  PROVE  IInv'
<1> USE CallAssumption DEF IInv, Before, UnderWay, Late, Consumer, Locked, Ended
<1>1. /\ UNCHANGED <<now, kind, marker, auth, power, grant, consumed, out, noted, lock, worker, entered,
                     launch>>
      /\ run[c].at = "clean"
  BY GoesMoves DEF Clean, owner
<1>2. /\ run' \in [Calls -> Runs] /\ \A d \in Calls \ {c} : run'[d] = run[d]
      /\ run'[c].at \in {"manifest", "late"} /\ run'[c].op = run[c].op
      /\ run'[c].began = run[c].began /\ run'[c].status \in {run[c].status, "INTERRUPTED"}
  <2>1. CASE \E clean \in CleanupConfirmed(c) :
                run' = [run EXCEPT ![c].at = "manifest", ![c].clean = clean,
                                   ![c].status = IF clean THEN @ ELSE "INTERRUPTED"]
    <3>1. PICK clean \in CleanupConfirmed(c) :
                run' = [run EXCEPT ![c].at = "manifest", ![c].clean = clean,
                                   ![c].status = IF clean THEN @ ELSE "INTERRUPTED"]
      BY <2>1
    <3>2. run[c] \in Runs /\ clean \in BOOLEAN
      BY DEF TypeOK, CleanupConfirmed, Runs
    <3> DEFINE s == IF clean THEN run[c].status ELSE "INTERRUPTED"
               r == [run[c] EXCEPT !.at = "manifest", !.clean = clean, !.status = s]
    <3>3. s \in Statuses /\ s \in {run[c].status, "INTERRUPTED"}
      BY <3>2 DEF Statuses, Runs
    <3>4. run' = [run EXCEPT ![c] = r]
      BY <3>1
    <3> HIDE DEF s
    <3>5. r \in Runs /\ r.at = "manifest" /\ r.op = run[c].op /\ r.began = run[c].began /\ r.status = s
      BY <3>2, <3>3 DEF Runs, RunStages
    <3> HIDE DEF r
    <3>6. run' \in [Calls -> Runs] /\ run'[c] = r /\ \A d \in Calls \ {c} : run'[d] = run[d]
      BY <3>4, <3>5, RunSet
    <3> QED BY <3>3, <3>5, <3>6
  <2>2. CASE Goes(c, "late")
    BY <2>2, GoesMoves DEF Moved, RunStages
  <2> QED BY <2>1, <2>2 DEF Clean
<1>3. TypeOK'
  BY <1>1, <1>2 DEF TypeOK
<1>4. LockIsHeld'
  BY <1>1, <1>2 DEF LockIsHeld
<1>5. ConsumedByRun'
  BY <1>1, <1>2 DEF ConsumedByRun
<1>6. BelongToConsumer'
  BY <1>1, <1>2 DEF BelongToConsumer, ConsumedByRun
<1>7. Progress'
  BY <1>1, <1>2 DEF Progress, BelongToConsumer, ConsumedByRun, NoOut
<1>8. CompleteWorker'
  BY <1>1, <1>2 DEF CompleteWorker, Progress
<1>9. Margins'
  BY <1>1, <1>2, Numbers, TimeAssumption DEF Margins, ConsumedByRun, Gated
<1>10. MarkerFirst'
  BY <1>1, <1>2 DEF MarkerFirst, Gated, ConsumedByRun
<1>11. LaunchesItsChild'
  BY <1>1, <1>2 DEF LaunchesItsChild, Active, OwnWorker, Gated
<1>12. Reported'
  BY <1>1, <1>2 DEF Reported, Gated
<1>13. LateAnswers'
  BY <1>1, <1>2 DEF LateAnswers, AnswerIsRecorded, ConsumedByRun
<1> QED BY <1>3, <1>4, <1>5, <1>6, <1>7, <1>8, <1>9, <1>10, <1>11, <1>12, <1>13

\* The manifest is written before the result.
LEMMA SealManifestKeeps ==
  ASSUME IInv, NEW c \in Calls, SealManifest(c)
  PROVE  IInv'
<1> USE CallAssumption DEF IInv, Before, UnderWay, Late, Consumer, Locked, Ended
<1>1. /\ UNCHANGED <<now, kind, marker, auth, power, grant, consumed, noted, worker, entered, launch>>
      /\ run[c].at = "manifest" /\ out.by = c /\ c # None
  BY DEF SealManifest, owner, Progress
<1>2. \/ (Moved(c, "result") /\ UNCHANGED lock /\ "manifest" \in out'.files)
      \/ (Moved(c, "late") /\ UNCHANGED lock)
      \/ Gone(c)
  <2>1. out \in Outputs
    BY DEF TypeOK
  <2>2. "manifest" \in [out EXCEPT !.files = out.files \cup {"manifest"}].files
    BY <2>1 DEF Outputs
  <2> QED BY <2>2, GoesMoves, EscapesGone DEF SealManifest, RunStages
<1>3. /\ out' \in Outputs /\ out'.by = out.by /\ out'.op = out.op /\ out'.status = out.status
      /\ out'.endedAt = out.endedAt /\ out'.files \in {out.files, out.files \cup {"manifest"}}
  <2>1. out \in Outputs /\ (out' = out \/ out' = [out EXCEPT !.files = out.files \cup {"manifest"}])
    BY DEF SealManifest, TypeOK
  <2> QED BY <2>1 DEF Outputs, Files
<1>4. TypeOK'
  BY <1>1, <1>2, <1>3 DEF TypeOK, Moved, Gone, Leaves
<1>5. LockIsHeld'
  BY <1>1, <1>2, <1>3 DEF LockIsHeld, Moved, Gone, Leaves
<1>6. ConsumedByRun'
  BY <1>1, <1>2, <1>3 DEF ConsumedByRun, Moved, Gone, Leaves
<1>7. BelongToConsumer'
  BY <1>1, <1>2, <1>3 DEF BelongToConsumer, ConsumedByRun, Moved, Gone, Leaves, NoOut
<1>8. Progress'
  BY <1>1, <1>2, <1>3 DEF Progress, BelongToConsumer, ConsumedByRun, NoOut, Moved, Gone, Leaves
<1>9. CompleteWorker'
  BY <1>1, <1>2, <1>3 DEF CompleteWorker, Progress, Moved, Gone, Leaves
<1>10. Margins'
  BY <1>1, <1>2, <1>3, Numbers, TimeAssumption DEF Margins, ConsumedByRun, Gated, Moved, Gone, Leaves
<1>11. MarkerFirst'
  BY <1>1, <1>2, <1>3 DEF MarkerFirst, Gated, ConsumedByRun, Moved, Gone, Leaves
<1>12. LaunchesItsChild'
  BY <1>1, <1>2, <1>3 DEF LaunchesItsChild, Active, OwnWorker, Gated, Moved, Gone, Leaves
<1>13. Reported'
  BY <1>1, <1>2, <1>3 DEF Reported, Gated, Moved, Gone, Leaves
<1>14. LateAnswers'
  BY <1>1, <1>2, <1>3 DEF LateAnswers, AnswerIsRecorded, ConsumedByRun, Moved, Gone, Leaves
<1> QED BY <1>4, <1>5, <1>6, <1>7, <1>8, <1>9, <1>10, <1>11, <1>12, <1>13, <1>14

\* The result is that of the run; with it the run returns.
LEMMA SealResultKeeps ==
  ASSUME IInv, NEW c \in Calls, SealResult(c)
  PROVE  IInv'
<1> USE CallAssumption DEF IInv, Before, UnderWay, Late, Consumer, Locked, Ended
<1>1. /\ UNCHANGED <<now, kind, marker, auth, power, grant, consumed, noted, worker, entered, launch>>
      /\ run[c].at = "result" /\ out.by = c /\ c # None /\ consumed = c /\ "manifest" \in out.files
  BY DEF SealResult, owner, Progress, ConsumedByRun
<1>2. \/ /\ out' = [out EXCEPT !.files = out.files \cup {"result"}, !.status = run[c].status, !.clean = run[c].clean]
         /\ run' = [run EXCEPT ![c].at = "returned", ![c].began = 0] /\ Leaves(c)
      \/ out' = out /\ ((Moved(c, "late") /\ UNCHANGED lock) \/ Gone(c))
  BY EscapesGone DEF SealResult
<1>3. ASSUME run' = [run EXCEPT ![c].at = "returned", ![c].began = 0]
      PROVE  /\ run' \in [Calls -> Runs] /\ \A d \in Calls \ {c} : run'[d] = run[d]
      /\ run'[c].at = "returned" /\ run'[c].op = run[c].op /\ run'[c].began = 0
      /\ run'[c].status = run[c].status
  <2>0. run' = [run EXCEPT ![c].at = "returned", ![c].began = 0]
    BY <1>3
  <2> DEFINE r == [run[c] EXCEPT !.at = "returned", !.began = 0]
  <2>1. run[c] \in Runs
    BY DEF TypeOK
  <2>2. r \in Runs /\ r.at = "returned" /\ r.op = run[c].op /\ r.began = 0 /\ r.status = run[c].status
    BY <2>1 DEF Runs, RunStages, Statuses
  <2>3. run' = [run EXCEPT ![c] = r]
    BY <2>0
  <2> HIDE DEF r
  <2>4. run' \in [Calls -> Runs] /\ run'[c] = r /\ \A d \in Calls \ {c} : run'[d] = run[d]
    BY <2>2, <2>3, RunSet
  <2> QED BY <2>2, <2>4
<1>4. ASSUME out' = [out EXCEPT !.files = out.files \cup {"result"}, !.status = run[c].status, !.clean = run[c].clean]
      PROVE  /\ out' \in Outputs /\ out'.by = out.by /\ out'.op = out.op /\ out'.status = run[c].status
             /\ out'.endedAt = out.endedAt /\ out'.files = out.files \cup {"result"}
  <2>1. out \in Outputs /\ run[c] \in Runs
    BY DEF TypeOK
  <2> QED BY <2>1, <1>4 DEF Outputs, Runs, Files
<1>5. \/ /\ /\ run' \in [Calls -> Runs] /\ \A d \in Calls \ {c} : run'[d] = run[d]
               /\ run'[c].at = "returned" /\ run'[c].op = run[c].op /\ run'[c].began = 0
               /\ run'[c].status = run[c].status
         /\ Leaves(c)
         /\ out' \in Outputs /\ out'.by = out.by /\ out'.op = out.op /\ out'.status = run[c].status
         /\ out'.endedAt = out.endedAt /\ out'.files = out.files \cup {"result"}
      \/ out' = out /\ ((Moved(c, "late") /\ UNCHANGED lock) \/ Gone(c))
  BY <1>2, <1>3, <1>4
<1>6. TypeOK'
  BY <1>1, <1>2, <1>3, <1>4, <1>5 DEF TypeOK, Moved, Gone, Leaves
<1>7. LockIsHeld'
  BY <1>1, <1>2, <1>3, <1>4, <1>5 DEF LockIsHeld, Moved, Gone, Leaves
<1>8. ConsumedByRun'
  BY <1>1, <1>2, <1>3, <1>4, <1>5 DEF ConsumedByRun, Moved, Gone, Leaves
<1>9. BelongToConsumer'
  BY <1>1, <1>2, <1>3, <1>4, <1>5 DEF BelongToConsumer, ConsumedByRun, Moved, Gone, Leaves, NoOut
<1>10. Progress'
  BY <1>1, <1>2, <1>3, <1>4, <1>5 DEF Progress, BelongToConsumer, ConsumedByRun, NoOut, Moved, Gone, Leaves
<1>11. CompleteWorker'
  BY <1>1, <1>2, <1>3, <1>4, <1>5 DEF CompleteWorker, Progress, Moved, Gone, Leaves
<1>12. Margins'
  BY <1>1, <1>2, <1>3, <1>4, <1>5, Numbers, TimeAssumption DEF Margins, ConsumedByRun, Gated, Moved, Gone,
     Leaves
<1>13. MarkerFirst'
  BY <1>1, <1>2, <1>3, <1>4, <1>5 DEF MarkerFirst, Gated, ConsumedByRun, Moved, Gone, Leaves
<1>14. LaunchesItsChild'
  BY <1>1, <1>2, <1>3, <1>4, <1>5 DEF LaunchesItsChild, Active, OwnWorker, Gated, Moved, Gone, Leaves
<1>15. Reported'
  BY <1>1, <1>2, <1>3, <1>4, <1>5 DEF Reported, Gated, Moved, Gone, Leaves, Progress
<1>16. LateAnswers'
  BY <1>1, <1>2, <1>3, <1>4, <1>5 DEF LateAnswers, AnswerIsRecorded, ConsumedByRun, Moved, Gone, Leaves
<1> QED BY <1>6, <1>7, <1>8, <1>9, <1>10, <1>11, <1>12, <1>13, <1>14, <1>15, <1>16

\* The last resort answers a failure in the consent directory.
LEMMA LastResortKeeps ==
  ASSUME IInv, NEW c \in Calls, LastResort(c)
  PROVE  IInv'
<1> USE CallAssumption DEF IInv, Before, UnderWay, Late, Consumer, Locked, Ended
<1>1. /\ UNCHANGED <<now, kind, marker, auth, power, grant, consumed, lock, worker, entered, launch>>
      /\ run[c].at = "late" /\ consumed = c /\ "result" \notin out.files /\ out.status = "none"
  BY DEF LastResort, owner, ConsumedByRun, Progress
<1>2. PICK began \in BOOLEAN, status \in {"INTERRUPTED", "HOST_STOP"} :
        /\ noted' = status
        /\ out' = IF out.by = None \/ "result" \in out.files THEN out
                  ELSE [out EXCEPT !.files = @ \cup {"result"}, !.status = status, !.clean = ~began]
        /\ run' = [run EXCEPT ![c].at = "lateManifest", ![c].status = status, ![c].clean = ~began]
  BY DEF LastResort
<1>3. /\ run' \in [Calls -> Runs] /\ \A d \in Calls \ {c} : run'[d] = run[d]
      /\ run'[c].at = "lateManifest" /\ run'[c].op = run[c].op /\ run'[c].began = run[c].began
      /\ run'[c].status = status
  <2> DEFINE r == [run[c] EXCEPT !.at = "lateManifest", !.status = status, !.clean = ~began]
  <2>1. run[c] \in Runs
    BY DEF TypeOK
  <2>2. r \in Runs /\ r.at = "lateManifest" /\ r.op = run[c].op /\ r.began = run[c].began /\ r.status = status
    BY <2>1, <1>2 DEF Runs, RunStages, Statuses
  <2>3. run' = [run EXCEPT ![c] = r]
    BY <1>2
  <2> HIDE DEF r
  <2>4. run' \in [Calls -> Runs] /\ run'[c] = r /\ \A d \in Calls \ {c} : run'[d] = run[d]
    BY <2>2, <2>3, RunSet
  <2> QED BY <2>2, <2>4
<1>4. /\ out' \in Outputs /\ out'.by = out.by /\ out'.op = out.op /\ out'.status # "COMPLETED"
      /\ out'.endedAt = out.endedAt /\ (out.by = None => out' = out)
  <2>1. /\ out \in Outputs
        /\ out' \in {out, [out EXCEPT !.files = out.files \cup {"result"}, !.status = status, !.clean = ~began]}
    BY <1>2 DEF TypeOK
  <2> QED BY <1>1, <1>2, <2>1 DEF Outputs, Statuses, Files
<1>5. noted' = status /\ noted' \in Statuses
  BY <1>2 DEF Statuses
<1>6. TypeOK'
  BY <1>1, <1>2, <1>3, <1>4, <1>5 DEF TypeOK
<1>7. LockIsHeld'
  BY <1>1, <1>2, <1>3, <1>4, <1>5 DEF LockIsHeld
<1>8. ConsumedByRun'
  BY <1>1, <1>2, <1>3, <1>4, <1>5 DEF ConsumedByRun
<1>9. BelongToConsumer'
  BY <1>1, <1>4 DEF BelongToConsumer, NoOut
<1>10. Progress'
  BY <1>1, <1>2, <1>3, <1>4, <1>5 DEF Progress, BelongToConsumer, ConsumedByRun, NoOut
<1>11. CompleteWorker'
  BY <1>1, <1>2, <1>3, <1>4, <1>5 DEF CompleteWorker, Progress
<1>12. Margins'
  BY <1>1, <1>2, <1>3, <1>4, <1>5, Numbers, TimeAssumption DEF Margins, ConsumedByRun, Gated
<1>13. MarkerFirst'
  BY <1>1, <1>2, <1>3, <1>4, <1>5 DEF MarkerFirst, Gated, ConsumedByRun
<1>14. LaunchesItsChild'
  BY <1>1, <1>2, <1>3, <1>4, <1>5 DEF LaunchesItsChild, Active, OwnWorker, Gated
<1>15. Reported'
  BY <1>1, <1>2, <1>3, <1>4, <1>5 DEF Reported, Gated, ConsumedByRun
<1>16. LateAnswers'
  BY <1>1, <1>2, <1>3, <1>4, <1>5 DEF LateAnswers, AnswerIsRecorded, ConsumedByRun
<1> QED BY <1>6, <1>7, <1>8, <1>9, <1>10, <1>11, <1>12, <1>13, <1>14, <1>15, <1>16

\* The late manifest adds nothing to an answer that is recorded.
LEMMA LateManifestKeeps ==
  ASSUME IInv, NEW c \in Calls, LateManifest(c)
  PROVE  IInv'
<1> USE CallAssumption DEF IInv, Before, UnderWay, Late, Consumer, Locked, Ended
<1>1. /\ UNCHANGED <<now, kind, marker, auth, power, grant, consumed, noted, worker, entered, launch>>
      /\ run[c].at = "lateManifest" /\ consumed = c /\ noted = run[c].status /\ Leaves(c)
  BY DEF LateManifest, owner, ConsumedByRun, LateAnswers
<1>2. /\ run' \in [Calls -> Runs] /\ \A d \in Calls \ {c} : run'[d] = run[d]
      /\ run'[c].at = "returned" /\ run'[c].op = run[c].op /\ run'[c].began = 0
      /\ run'[c].status = run[c].status
  <2> DEFINE r == [run[c] EXCEPT !.at = "returned", !.began = 0]
  <2>1. run[c] \in Runs
    BY DEF TypeOK
  <2>2. r \in Runs /\ r.at = "returned" /\ r.op = run[c].op /\ r.began = 0 /\ r.status = run[c].status
    BY <2>1 DEF Runs, RunStages, Statuses
  <2>3. run' = [run EXCEPT ![c] = r]
    BY DEF LateManifest
  <2> HIDE DEF r
  <2>4. run' \in [Calls -> Runs] /\ run'[c] = r /\ \A d \in Calls \ {c} : run'[d] = run[d]
    BY <2>2, <2>3, RunSet
  <2> QED BY <2>2, <2>4
<1>3. /\ out' \in Outputs /\ out'.by = out.by /\ out'.op = out.op /\ out'.status = out.status
      /\ out'.endedAt = out.endedAt /\ out'.files \in {out.files, out.files \cup {"manifest"}}
      /\ (out.by = None => out' = out)
  <2>1. /\ out \in Outputs /\ (out.by = None => out' = out)
        /\ (out' = out \/ out' = [out EXCEPT !.files = out.files \cup {"manifest"}])
    BY DEF LateManifest, TypeOK
  <2> QED BY <2>1 DEF Outputs, Files
<1>4. TypeOK'
  BY <1>1, <1>2, <1>3 DEF TypeOK, Leaves
<1>5. LockIsHeld'
  BY <1>1, <1>2, <1>3 DEF LockIsHeld, Leaves
<1>6. ConsumedByRun'
  BY <1>1, <1>2, <1>3 DEF ConsumedByRun, Leaves
<1>7. BelongToConsumer'
  BY <1>1, <1>2, <1>3 DEF BelongToConsumer, ConsumedByRun, Leaves, NoOut
<1>8. Progress'
  BY <1>1, <1>2, <1>3 DEF Progress, BelongToConsumer, ConsumedByRun, NoOut, Leaves
<1>9. CompleteWorker'
  BY <1>1, <1>2, <1>3 DEF CompleteWorker, Progress, Leaves
<1>10. Margins'
  BY <1>1, <1>2, <1>3, Numbers, TimeAssumption DEF Margins, ConsumedByRun, Gated, Leaves
<1>11. MarkerFirst'
  BY <1>1, <1>2, <1>3 DEF MarkerFirst, Gated, ConsumedByRun, Leaves
<1>12. LaunchesItsChild'
  BY <1>1, <1>2, <1>3 DEF LaunchesItsChild, Active, OwnWorker, Gated, Leaves
<1>13. Reported'
  BY <1>1, <1>2, <1>3 DEF Reported, Gated, Leaves, ConsumedByRun
<1>14. LateAnswers'
  BY <1>1, <1>2, <1>3 DEF LateAnswers, AnswerIsRecorded, ConsumedByRun, Leaves
<1> QED BY <1>4, <1>5, <1>6, <1>7, <1>8, <1>9, <1>10, <1>11, <1>12, <1>13, <1>14

\* A run from a shell has no launcher and is not gated.
LEMMA DirectRunKeeps ==
  ASSUME IInv, NEW c \in Calls, NEW o \in Ops, DirectRun(c, o)
  PROVE  IInv'
<1> USE CallAssumption DEF IInv, Before, UnderWay, Late, Consumer, Locked, Ended
<1>1. /\ UNCHANGED <<now, kind, marker, auth, power, grant, consumed, out, noted, lock, worker, entered,
                     launch>>
      /\ run[c].at = "idle" /\ launch[c].at = "idle" /\ ~Gated
  BY DEF DirectRun, owner, Gated
<1>2. /\ run' \in [Calls -> Runs] /\ \A d \in Calls \ {c} : run'[d] = run[d]
      /\ run'[c].at = "begin" /\ run'[c].op = o /\ run'[c].began = 0 /\ run'[c].status = "none"
  <2> DEFINE r == [NoRun EXCEPT !.at = "begin", !.op = o]
  <2>1. r \in Runs /\ r.at = "begin" /\ r.op = o /\ r.began = 0 /\ r.status = "none"
    BY DEF NoRun, Runs, RunStages, Statuses
  <2>2. run' = [run EXCEPT ![c] = r]
    BY DEF DirectRun
  <2> HIDE DEF r
  <2>3. run' \in [Calls -> Runs] /\ run'[c] = r /\ \A d \in Calls \ {c} : run'[d] = run[d]
    BY <2>1, <2>2, RunSet
  <2> QED BY <2>1, <2>3
<1>3. TypeOK'
  BY <1>1, <1>2 DEF TypeOK
<1>4. LockIsHeld'
  BY <1>1, <1>2 DEF LockIsHeld
<1>5. ConsumedByRun'
  BY <1>1, <1>2 DEF ConsumedByRun
<1>6. BelongToConsumer'
  BY <1>1, <1>2 DEF BelongToConsumer, ConsumedByRun
<1>7. Progress'
  BY <1>1, <1>2 DEF Progress, BelongToConsumer, ConsumedByRun, NoOut
<1>8. CompleteWorker'
  BY <1>1, <1>2 DEF CompleteWorker, Progress
<1>9. Margins'
  BY <1>1, <1>2, Numbers, TimeAssumption DEF Margins, ConsumedByRun, Gated
<1>10. MarkerFirst'
  BY <1>1, <1>2 DEF MarkerFirst, Gated, ConsumedByRun
<1>11. LaunchesItsChild'
  BY <1>1, <1>2 DEF LaunchesItsChild, Active, OwnWorker, Gated
<1>12. Reported'
  BY <1>1, <1>2 DEF Reported, Gated
<1>13. LateAnswers'
  BY <1>1, <1>2 DEF LateAnswers, AnswerIsRecorded, ConsumedByRun
<1> QED BY <1>3, <1>4, <1>5, <1>6, <1>7, <1>8, <1>9, <1>10, <1>11, <1>12, <1>13

\* A launcher starts before its child.
LEMMA LaunchKeeps ==
  ASSUME IInv, NEW c \in Calls, NEW o \in Ops, Launch(c, o)
  PROVE  IInv'
<1> USE CallAssumption DEF IInv, Before, UnderWay, Late, Consumer, Locked, Ended
<1>1. /\ UNCHANGED <<now, kind, marker, auth, power, grant, consumed, out, noted, lock, worker, entered,
                     run>>
      /\ run[c].at = "idle" /\ launch[c].at = "idle"
  BY DEF Launch, owner
<1>2. /\ launch' \in [Calls -> Launches] /\ \A d \in Calls \ {c} : launch'[d] = launch[d]
      /\ launch'[c].at \in {"spawn", "mark"} /\ (Gated => launch'[c].at = "spawn") /\ launch'[c].op = o /\ launch'[c].status = launch[c].status
  <2>0. PICK x \in {"spawn", "mark"} :
          (Gated => x = "spawn") /\ launch' = [launch EXCEPT ![c].at = x, ![c].op = o]
    BY DEF Launch
  <2> DEFINE l == [launch[c] EXCEPT !.at = x, !.op = o]
  <2>1. launch[c] \in Launches
    BY DEF TypeOK
  <2>2. l \in Launches /\ l.at \in {"spawn", "mark"} /\ (Gated => l.at = "spawn") /\ l.op = o /\ l.status = launch[c].status
    BY <2>0, <2>1 DEF Launches, LaunchStages
  <2>3. launch' = [launch EXCEPT ![c] = l]
    BY <2>0
  <2> HIDE DEF l
  <2>4. launch' \in [Calls -> Launches] /\ launch'[c] = l /\ \A d \in Calls \ {c} : launch'[d] = launch[d]
    BY <2>2, <2>3, LaunchSet
  <2> QED BY <2>2, <2>4
<1>3. TypeOK'
  BY <1>1, <1>2 DEF TypeOK
<1>4. LockIsHeld'
  BY <1>1, <1>2 DEF LockIsHeld
<1>5. ConsumedByRun'
  BY <1>1, <1>2 DEF ConsumedByRun
<1>6. BelongToConsumer'
  BY <1>1, <1>2 DEF BelongToConsumer, ConsumedByRun
<1>7. Progress'
  BY <1>1, <1>2 DEF Progress, BelongToConsumer, ConsumedByRun, NoOut
<1>8. CompleteWorker'
  BY <1>1, <1>2 DEF CompleteWorker, Progress
<1>9. Margins'
  BY <1>1, <1>2, Numbers, TimeAssumption DEF Margins, ConsumedByRun, Gated
<1>10. MarkerFirst'
  BY <1>1, <1>2 DEF MarkerFirst, Gated, ConsumedByRun
<1>11. LaunchesItsChild'
  BY <1>1, <1>2 DEF LaunchesItsChild, Active, OwnWorker, Gated
<1>12. Reported'
  BY <1>1, <1>2 DEF Reported, Gated
<1>13. LateAnswers'
  BY <1>1, <1>2 DEF LateAnswers, AnswerIsRecorded, ConsumedByRun
<1> QED BY <1>3, <1>4, <1>5, <1>6, <1>7, <1>8, <1>9, <1>10, <1>11, <1>12, <1>13

\* Only an ungated launcher creates a marker.
LEMMA MarkKeeps ==
  ASSUME IInv, NEW c \in Calls, Mark(c)
  PROVE  IInv'
<1> USE CallAssumption DEF IInv, Before, UnderWay, Late, Consumer, Locked, Ended
<1>1. /\ UNCHANGED <<now, kind, auth, power, grant, consumed, out, noted, lock, worker, entered, run>>
      /\ launch[c].at = "mark" /\ ~Gated /\ ~Gated' /\ launch[c].op \in Ops
  BY DEF Mark, owner, LaunchesItsChild, Gated
<1>2. LaunchMoved(c, "spawn") \/ LaunchGone(c)
  BY GoesLaunchMoves, EndsLaunchGone DEF Mark, LaunchStages
<1>3. marker' \in [Ops -> Calls \cup {None}]
  BY <1>1 DEF Mark, TypeOK
<1>4. TypeOK'
  BY <1>1, <1>2, <1>3 DEF TypeOK, LaunchMoved, LaunchGone
<1>5. LockIsHeld'
  BY <1>1, <1>2, <1>3 DEF LockIsHeld, LaunchMoved, LaunchGone
<1>6. ConsumedByRun'
  BY <1>1, <1>2, <1>3 DEF ConsumedByRun, LaunchMoved, LaunchGone
<1>7. BelongToConsumer'
  BY <1>1, <1>2, <1>3 DEF BelongToConsumer, ConsumedByRun, LaunchMoved, LaunchGone
<1>8. Progress'
  BY <1>1, <1>2, <1>3 DEF Progress, BelongToConsumer, ConsumedByRun, NoOut, LaunchMoved, LaunchGone
<1>9. CompleteWorker'
  BY <1>1, <1>2, <1>3 DEF CompleteWorker, Progress, LaunchMoved, LaunchGone
<1>10. Margins'
  BY <1>1, <1>2, <1>3, Numbers, TimeAssumption DEF Margins, ConsumedByRun, Gated, LaunchMoved, LaunchGone
<1>11. MarkerFirst'
  BY <1>1, <1>2, <1>3 DEF MarkerFirst, Gated, ConsumedByRun, LaunchMoved, LaunchGone
<1>12. LaunchesItsChild'
  BY <1>1, <1>2, <1>3 DEF LaunchesItsChild, Active, OwnWorker, Gated, LaunchMoved, LaunchGone
<1>13. Reported'
  BY <1>1, <1>2, <1>3 DEF Reported, Gated, LaunchMoved, LaunchGone
<1>14. LateAnswers'
  BY <1>1, <1>2, <1>3 DEF LateAnswers, AnswerIsRecorded, ConsumedByRun, LaunchMoved, LaunchGone
<1> QED BY <1>4, <1>5, <1>6, <1>7, <1>8, <1>9, <1>10, <1>11, <1>12, <1>13, <1>14

\* The child of a launcher runs the operation of its launcher.
LEMMA SpawnKeeps ==
  ASSUME IInv, NEW c \in Calls, Spawn(c)
  PROVE  IInv'
<1> USE CallAssumption DEF IInv, Before, UnderWay, Late, Consumer, Locked, Ended
<1>1. /\ UNCHANGED <<now, kind, marker, auth, power, grant, consumed, out, noted, lock, worker, entered>>
      /\ launch[c].at = "spawn" /\ run[c].at = "idle" /\ launch[c].op \in Ops
  BY DEF Spawn, owner, LaunchesItsChild
<1>2. ASSUME launch' = [launch EXCEPT ![c].at = "report", ![c].stop = TRUE]
      PROVE  LaunchMoved(c, "report")
  <2> DEFINE l == [launch[c] EXCEPT !.at = "report", !.stop = TRUE]
  <2>1. launch[c] \in Launches
    BY DEF TypeOK
  <2>2. l \in Launches /\ l.at = "report" /\ l.op = launch[c].op /\ l.status = launch[c].status
    BY <2>1 DEF Launches, LaunchStages
  <2>3. launch' = [launch EXCEPT ![c] = l]
    BY <1>2
  <2> HIDE DEF l
  <2>4. launch' \in [Calls -> Launches] /\ launch'[c] = l /\ \A d \in Calls \ {c} : launch'[d] = launch[d]
    BY <2>2, <2>3, LaunchSet
  <2> QED BY <2>2, <2>4 DEF LaunchMoved
<1>3. ASSUME run' = [run EXCEPT ![c] = [NoRun EXCEPT !.at = "begin", !.op = launch[c].op]]
      PROVE  /\ run' \in [Calls -> Runs] /\ \A d \in Calls \ {c} : run'[d] = run[d]
             /\ run'[c].at = "begin" /\ run'[c].op = launch[c].op /\ run'[c].began = 0
             /\ run'[c].status = "none"
  <2> DEFINE r == [NoRun EXCEPT !.at = "begin", !.op = launch[c].op]
  <2>1. r \in Runs /\ r.at = "begin" /\ r.op = launch[c].op /\ r.began = 0 /\ r.status = "none"
    BY <1>1 DEF NoRun, Runs, RunStages, Statuses
  <2>2. run' = [run EXCEPT ![c] = r]
    BY <1>3
  <2> HIDE DEF r
  <2>3. run' \in [Calls -> Runs] /\ run'[c] = r /\ \A d \in Calls \ {c} : run'[d] = run[d]
    BY <2>1, <2>2, RunSet
  <2> QED BY <2>1, <2>3
<1>4. \/ /\ LaunchMoved(c, "wait")
         /\ /\ run' \in [Calls -> Runs] /\ \A d \in Calls \ {c} : run'[d] = run[d]
         /\ run'[c].at = "begin" /\ run'[c].op = launch[c].op /\ run'[c].began = 0
         /\ run'[c].status = "none"
      \/ LaunchGone(c) /\ UNCHANGED run
      \/ LaunchMoved(c, "report") /\ UNCHANGED run
  BY <1>2, <1>3, GoesLaunchMoves, EndsLaunchGone DEF Spawn, LaunchStages
<1>5. TypeOK'
  BY <1>1, <1>2, <1>3, <1>4 DEF TypeOK, LaunchMoved, LaunchGone
<1>6. LockIsHeld'
  BY <1>1, <1>2, <1>3, <1>4 DEF LockIsHeld, LaunchMoved, LaunchGone
<1>7. ConsumedByRun'
  BY <1>1, <1>2, <1>3, <1>4 DEF ConsumedByRun, LaunchMoved, LaunchGone
<1>8. BelongToConsumer'
  BY <1>1, <1>2, <1>3, <1>4 DEF BelongToConsumer, ConsumedByRun, LaunchMoved, LaunchGone
<1>9. Progress'
  BY <1>1, <1>2, <1>3, <1>4 DEF Progress, BelongToConsumer, ConsumedByRun, NoOut, LaunchMoved, LaunchGone
<1>10. CompleteWorker'
  BY <1>1, <1>2, <1>3, <1>4 DEF CompleteWorker, Progress, LaunchMoved, LaunchGone
<1>11. Margins'
  BY <1>1, <1>2, <1>3, <1>4, Numbers, TimeAssumption DEF Margins, ConsumedByRun, Gated, LaunchMoved,
     LaunchGone
<1>12. MarkerFirst'
  BY <1>1, <1>2, <1>3, <1>4 DEF MarkerFirst, Gated, ConsumedByRun, LaunchMoved, LaunchGone
<1>13. LaunchesItsChild'
  BY <1>1, <1>2, <1>3, <1>4 DEF LaunchesItsChild, Active, OwnWorker, Gated, LaunchMoved, LaunchGone,
     ConsumedByRun, BelongToConsumer
<1>14. Reported'
  BY <1>1, <1>2, <1>3, <1>4 DEF Reported, Gated, LaunchMoved, LaunchGone
<1>15. LateAnswers'
  BY <1>1, <1>2, <1>3, <1>4 DEF LateAnswers, AnswerIsRecorded, ConsumedByRun, LaunchMoved, LaunchGone
<1> QED BY <1>5, <1>6, <1>7, <1>8, <1>9, <1>10, <1>11, <1>12, <1>13, <1>14, <1>15

\* A killed launcher leaves everything as it is.
LEMMA LauncherKilledKeeps ==
  ASSUME IInv, NEW c \in Calls, LauncherKilled(c)
  PROVE  IInv'
<1> USE CallAssumption DEF IInv, Before, UnderWay, Late, Consumer, Locked, Ended
<1>1. UNCHANGED <<now, kind, marker, auth, power, grant, consumed, out, noted, lock, worker, entered, run>>
  BY DEF LauncherKilled, owner
<1>2. LaunchGone(c)
  BY EndsLaunchGone DEF LauncherKilled
<1>3. TypeOK'
  BY <1>1, <1>2 DEF TypeOK, LaunchGone
<1>4. LockIsHeld'
  BY <1>1, <1>2 DEF LockIsHeld, LaunchGone
<1>5. ConsumedByRun'
  BY <1>1, <1>2 DEF ConsumedByRun, LaunchGone
<1>6. BelongToConsumer'
  BY <1>1, <1>2 DEF BelongToConsumer, ConsumedByRun, LaunchGone
<1>7. Progress'
  BY <1>1, <1>2 DEF Progress, BelongToConsumer, ConsumedByRun, NoOut, LaunchGone
<1>8. CompleteWorker'
  BY <1>1, <1>2 DEF CompleteWorker, Progress, LaunchGone
<1>9. Margins'
  BY <1>1, <1>2, Numbers, TimeAssumption DEF Margins, ConsumedByRun, Gated, LaunchGone
<1>10. MarkerFirst'
  BY <1>1, <1>2 DEF MarkerFirst, Gated, ConsumedByRun, LaunchGone
<1>11. LaunchesItsChild'
  BY <1>1, <1>2 DEF LaunchesItsChild, Active, OwnWorker, Gated, LaunchGone
<1>12. Reported'
  BY <1>1, <1>2 DEF Reported, Gated, LaunchGone
<1>13. LateAnswers'
  BY <1>1, <1>2 DEF LateAnswers, AnswerIsRecorded, ConsumedByRun, LaunchGone
<1> QED BY <1>3, <1>4, <1>5, <1>6, <1>7, <1>8, <1>9, <1>10, <1>11, <1>12, <1>13

\* The child is over when the launcher goes on.
LEMMA CapturedKeeps ==
  ASSUME IInv, NEW c \in Calls, Captured(c)
  PROVE  IInv'
<1> USE CallAssumption DEF IInv, Before, UnderWay, Late, Consumer, Locked, Ended
<1>1. /\ UNCHANGED <<now, kind, marker, auth, power, grant, consumed, out, noted, entered>>
      /\ launch[c].at = "wait"
  BY DEF Captured, owner
<1>2. ASSUME launch' = [launch EXCEPT ![c].at = "sweep", ![c].stop = TRUE]
      PROVE  LaunchMoved(c, "sweep")
  <2> DEFINE l == [launch[c] EXCEPT !.at = "sweep", !.stop = TRUE]
  <2>1. launch[c] \in Launches
    BY DEF TypeOK
  <2>2. l \in Launches /\ l.at = "sweep" /\ l.op = launch[c].op /\ l.status = launch[c].status
    BY <2>1 DEF Launches, LaunchStages
  <2>3. launch' = [launch EXCEPT ![c] = l]
    BY <1>2
  <2> HIDE DEF l
  <2>4. launch' \in [Calls -> Launches] /\ launch'[c] = l /\ \A d \in Calls \ {c} : launch'[d] = launch[d]
    BY <2>2, <2>3, LaunchSet
  <2> QED BY <2>2, <2>4 DEF LaunchMoved
<1>3. /\ LaunchMoved(c, "sweep")
      /\ (~Active(c) /\ UNCHANGED <<run, lock>>) \/ (Active(c) /\ Gone(c))
  BY <1>2, GoesLaunchMoves, EndsGone DEF Captured, LaunchStages
<1>4. /\ worker' \in Workers /\ worker'.by = worker.by
      /\ worker' = worker \/ (worker.state = "running" /\ worker'.state = "killed")
  BY DEF Captured, GroupKilled, OwnWorker, TypeOK, Workers
<1>5. TypeOK'
  BY <1>1, <1>2, <1>3, <1>4 DEF TypeOK, LaunchMoved, Gone, Leaves
<1>6. LockIsHeld'
  BY <1>1, <1>2, <1>3, <1>4 DEF LockIsHeld, LaunchMoved, Gone, Leaves
<1>7. ConsumedByRun'
  BY <1>1, <1>2, <1>3, <1>4 DEF ConsumedByRun, LaunchMoved, Gone, Leaves, Active
<1>8. BelongToConsumer'
  BY <1>1, <1>2, <1>3, <1>4 DEF BelongToConsumer, ConsumedByRun, LaunchMoved, Gone, Leaves
<1>9. Progress'
  BY <1>1, <1>2, <1>3, <1>4 DEF Progress, BelongToConsumer, ConsumedByRun, NoOut, LaunchMoved, Gone, Leaves
<1>10. CompleteWorker'
  BY <1>1, <1>2, <1>3, <1>4 DEF CompleteWorker, Progress, LaunchMoved, Gone, Leaves
<1>11. Margins'
  BY <1>1, <1>2, <1>3, <1>4, Numbers, TimeAssumption DEF Margins, ConsumedByRun, Gated, LaunchMoved, Gone,
     Leaves
<1>12. MarkerFirst'
  BY <1>1, <1>2, <1>3, <1>4 DEF MarkerFirst, Gated, ConsumedByRun, LaunchMoved, Gone, Leaves, Active
<1>13. LaunchesItsChild'
  BY <1>1, <1>2, <1>3, <1>4 DEF LaunchesItsChild, Active, OwnWorker, Gated, LaunchMoved, Gone, Leaves
<1>14. Reported'
  BY <1>1, <1>2, <1>3, <1>4 DEF Reported, Gated, LaunchMoved, Gone, Leaves, Active
<1>15. LateAnswers'
  BY <1>1, <1>2, <1>3, <1>4 DEF LateAnswers, AnswerIsRecorded, ConsumedByRun, LaunchMoved, Gone, Leaves
<1> QED BY <1>5, <1>6, <1>7, <1>8, <1>9, <1>10, <1>11, <1>12, <1>13, <1>14, <1>15

\* After the sweep no worker of the group runs.
LEMMA SweepKeeps ==
  ASSUME IInv, NEW c \in Calls, Sweep(c)
  PROVE  IInv'
<1> USE CallAssumption DEF IInv, Before, UnderWay, Late, Consumer, Locked, Ended
<1>1. /\ UNCHANGED <<now, kind, marker, auth, power, grant, consumed, out, noted, lock, entered, run>>
      /\ launch[c].at = "sweep"
  BY DEF Sweep, owner
<1>2. LaunchMoved(c, "report")
  <2>1. PICK gone \in BOOLEAN, s \in BOOLEAN :
          launch' = [launch EXCEPT ![c] = [launch[c] EXCEPT !.at = "report", !.gone = gone, !.stop = s]]
    <3>1. PICK gone \in BOOLEAN :
            launch' = [launch EXCEPT ![c].at = "report", ![c].gone = gone, ![c].stop = @ \/ ~gone \/ OwnWorker(c)]
      BY DEF Sweep
    <3> DEFINE s == launch[c].stop \/ ~gone \/ OwnWorker(c)
    <3>2. launch' = [launch EXCEPT ![c] = [launch[c] EXCEPT !.at = "report", !.gone = gone, !.stop = s]]
      BY <3>1
    <3>3. s \in BOOLEAN
      OBVIOUS
    <3> HIDE DEF s
    <3> QED BY <3>2, <3>3
  <2> DEFINE l == [launch[c] EXCEPT !.at = "report", !.gone = gone, !.stop = s]
  <2>2. launch[c] \in Launches
    BY DEF TypeOK
  <2>3. l \in Launches /\ l.at = "report" /\ l.op = launch[c].op /\ l.status = launch[c].status
    BY <2>2 DEF Launches, LaunchStages
  <2>4. launch' = [launch EXCEPT ![c] = l]
    BY <2>1
  <2> HIDE DEF l
  <2>5. launch' \in [Calls -> Launches] /\ launch'[c] = l /\ \A d \in Calls \ {c} : launch'[d] = launch[d]
    BY <2>3, <2>4, LaunchSet
  <2> QED BY <2>3, <2>5 DEF LaunchMoved
<1>3. /\ worker' \in Workers /\ worker'.by = worker.by /\ ~OwnWorker(c)'
      /\ worker' = worker \/ (worker.state = "running" /\ worker'.state = "killed")
  BY DEF Sweep, GroupKilled, OwnWorker, TypeOK, Workers
<1>4. TypeOK'
  BY <1>1, <1>2, <1>3 DEF TypeOK, LaunchMoved
<1>5. LockIsHeld'
  BY <1>1, <1>2, <1>3 DEF LockIsHeld, LaunchMoved
<1>6. ConsumedByRun'
  BY <1>1, <1>2, <1>3 DEF ConsumedByRun, LaunchMoved
<1>7. BelongToConsumer'
  BY <1>1, <1>2, <1>3 DEF BelongToConsumer, ConsumedByRun, LaunchMoved
<1>8. Progress'
  BY <1>1, <1>2, <1>3 DEF Progress, BelongToConsumer, ConsumedByRun, NoOut, LaunchMoved
<1>9. CompleteWorker'
  BY <1>1, <1>2, <1>3 DEF CompleteWorker, Progress, LaunchMoved
<1>10. Margins'
  BY <1>1, <1>2, <1>3, Numbers, TimeAssumption DEF Margins, ConsumedByRun, Gated, LaunchMoved
<1>11. MarkerFirst'
  BY <1>1, <1>2, <1>3 DEF MarkerFirst, Gated, ConsumedByRun, LaunchMoved
<1>12. LaunchesItsChild'
  BY <1>1, <1>2, <1>3 DEF LaunchesItsChild, Active, OwnWorker, Gated, LaunchMoved
<1>13. Reported'
  BY <1>1, <1>2, <1>3 DEF Reported, Gated, LaunchMoved
<1>14. LateAnswers'
  BY <1>1, <1>2, <1>3 DEF LateAnswers, AnswerIsRecorded, ConsumedByRun, LaunchMoved
<1> QED BY <1>4, <1>5, <1>6, <1>7, <1>8, <1>9, <1>10, <1>11, <1>12, <1>13, <1>14

\* What is reported is what the child answered and sealed.
LEMMA ReportKeeps ==
  ASSUME IInv, NEW c \in Calls, Report(c)
  PROVE  IInv'
<1> USE CallAssumption DEF IInv, Before, UnderWay, Late, Consumer, Locked, Ended
<1>1. /\ UNCHANGED <<now, kind, marker, auth, power, grant, consumed, out, noted, lock, worker, entered,
                     run>>
      /\ launch[c].at = "report" /\ launch[c].op \in Ops
  BY DEF Report, owner, LaunchesItsChild
<1>2. PICK clean \in BOOLEAN, status \in {"EXECUTION_COMPLETED", "EXECUTION_STOP"}, closed \in BOOLEAN :
        /\ launch' = [launch EXCEPT ![c] = [launch[c] EXCEPT !.at = "reported", !.clean = clean,
                                              !.status = status, !.closed = closed]]
        /\ status = "EXECUTION_COMPLETED" => Linked(c) /\ run[c].status = "COMPLETED"
        /\ ~closed => Gated /\ marker[launch[c].op] = None
  <2> DEFINE clean == launch[c].gone /\ Linked(c) /\ ChildResult(c).clean
             completed == clean /\ ChildResult(c).status = "COMPLETED" /\ ~launch[c].stop
             status == IF completed THEN "EXECUTION_COMPLETED" ELSE "EXECUTION_STOP"
             closed == ~Gated \/ marker[launch[c].op] # None
  <2>1. launch' = [launch EXCEPT ![c] = [launch[c] EXCEPT !.at = "reported", !.clean = clean,
                                           !.status = status, !.closed = closed]]
    BY DEF Report
  <2>2. clean \in BOOLEAN /\ closed \in BOOLEAN /\ status \in {"EXECUTION_COMPLETED", "EXECUTION_STOP"}
    <3>1. run[c] \in Runs /\ launch[c] \in Launches
      BY DEF TypeOK
    <3> QED BY <3>1 DEF Runs, Launches, ChildResult
  <2>3. status = "EXECUTION_COMPLETED" => Linked(c) /\ run[c].status = "COMPLETED"
    BY DEF ChildResult
  <2>4. ~closed => Gated /\ marker[launch[c].op] = None
    OBVIOUS
  <2> HIDE DEF clean, completed, status, closed
  <2> QED BY <2>1, <2>2, <2>3, <2>4
<1>3. /\ launch' \in [Calls -> Launches] /\ \A d \in Calls \ {c} : launch'[d] = launch[d]
      /\ launch'[c].at = "reported" /\ launch'[c].op = launch[c].op
      /\ launch'[c].status = status /\ launch'[c].closed = closed
  <2> DEFINE l == [launch[c] EXCEPT !.at = "reported", !.clean = clean, !.status = status, !.closed = closed]
  <2>1. launch[c] \in Launches
    BY DEF TypeOK
  <2>2. l \in Launches /\ l.at = "reported" /\ l.op = launch[c].op /\ l.status = status /\ l.closed = closed
    BY <2>1 DEF Launches, LaunchStages
  <2>3. launch' = [launch EXCEPT ![c] = l]
    BY <1>2
  <2> HIDE DEF l
  <2>4. launch' \in [Calls -> Launches] /\ launch'[c] = l /\ \A d \in Calls \ {c} : launch'[d] = launch[d]
    BY <2>2, <2>3, LaunchSet
  <2> QED BY <2>2, <2>4
<1>4. status = "EXECUTION_COMPLETED" =>
        run[c].at = "returned" /\ out.status = "COMPLETED" /\ out.op = launch[c].op
  BY <1>2 DEF Linked, ChildResult
<1>5. ~closed => Gated /\ \A o \in Ops : marker[o] # c
  BY <1>1, <1>2 DEF MarkerFirst
<1>6. TypeOK'
  BY <1>1, <1>2, <1>3, <1>4, <1>5 DEF TypeOK
<1>7. LockIsHeld'
  BY <1>1, <1>2, <1>3, <1>4, <1>5 DEF LockIsHeld
<1>8. ConsumedByRun'
  BY <1>1, <1>2, <1>3, <1>4, <1>5 DEF ConsumedByRun
<1>9. BelongToConsumer'
  BY <1>1, <1>2, <1>3, <1>4, <1>5 DEF BelongToConsumer, ConsumedByRun
<1>10. Progress'
  BY <1>1, <1>2, <1>3, <1>4, <1>5 DEF Progress, BelongToConsumer, ConsumedByRun, NoOut
<1>11. CompleteWorker'
  BY <1>1, <1>2, <1>3, <1>4, <1>5 DEF CompleteWorker, Progress
<1>12. Margins'
  BY <1>1, <1>2, <1>3, <1>4, <1>5, Numbers, TimeAssumption DEF Margins, ConsumedByRun, Gated
<1>13. MarkerFirst'
  BY <1>1, <1>2, <1>3, <1>4, <1>5 DEF MarkerFirst, Gated, ConsumedByRun
<1>14. LaunchesItsChild'
  BY <1>1, <1>2, <1>3, <1>4, <1>5 DEF LaunchesItsChild, Active, OwnWorker, Gated
<1>15. Reported'
  BY <1>1, <1>2, <1>3, <1>4, <1>5 DEF Reported, Gated
<1>16. LateAnswers'
  BY <1>1, <1>2, <1>3, <1>4, <1>5 DEF LateAnswers, AnswerIsRecorded, ConsumedByRun
<1> QED BY <1>6, <1>7, <1>8, <1>9, <1>10, <1>11, <1>12, <1>13, <1>14, <1>15, <1>16

-----------------------------------------------------------------------------
(* The invariant, and what follows from it. *)

\* Initially nothing has happened.
LEMMA InitInvariant == Init => IInv
<1> SUFFICES ASSUME Init PROVE IInv
  OBVIOUS
<1> USE CallAssumption DEF Before, UnderWay, Late, Consumer, Locked, Ended
<1>1. /\ run = [c \in Calls |-> NoRun] /\ NoRun \in Runs
      /\ \A c \in Calls : run[c].at = "idle" /\ run[c].status = "none" /\ run[c].began = 0
  BY DEF Init, NoRun, Runs, RunStages, Statuses
<1>2. /\ launch = [c \in Calls |-> NoLaunch] /\ NoLaunch \in Launches
      /\ \A c \in Calls : launch[c].at = "idle" /\ launch[c].status = "none"
  BY DEF Init, NoLaunch, Launches, LaunchStages
<1>3. /\ out = NoOut /\ NoOut \in Outputs /\ NoOut.status = "none" /\ NoOut.endedAt = 0 /\ NoOut.by = None
      /\ "result" \notin NoOut.files
  BY DEF Init, NoOut, Outputs, Statuses, Files
<1>4. /\ worker \in Workers /\ worker.by = None /\ worker.state = "none"
      /\ entered = << >> /\ entered \in Seq(Ops)
  BY DEF Init, Workers
<1>5. /\ now = 0 /\ kind \in Kinds /\ power = None /\ consumed = None /\ noted = "none" /\ lock = None
      /\ grant.op = None /\ grant.expires = 0 /\ grant \in [op : Ops \cup {None}, expires : Nat]
      /\ marker = [o \in Ops |-> None] /\ auth = [o \in Ops |-> 0]
  BY DEF Init
<1>6. TypeOK
  BY <1>1, <1>2, <1>3, <1>4, <1>5 DEF TypeOK, Statuses
<1>7. LockIsHeld /\ ConsumedByRun /\ BelongToConsumer
  BY <1>1, <1>3, <1>4, <1>5 DEF LockIsHeld, ConsumedByRun, BelongToConsumer
<1>8. Progress /\ CompleteWorker
  BY <1>1, <1>3, <1>4, <1>5 DEF Progress, CompleteWorker
<1>9. Margins
  BY <1>1, <1>3, <1>5 DEF Margins
<1>10. MarkerFirst /\ LaunchesItsChild
  BY <1>1, <1>2, <1>4, <1>5 DEF MarkerFirst, LaunchesItsChild, OwnWorker
<1>11. Reported /\ LateAnswers
  BY <1>1, <1>2, <1>5 DEF Reported, LateAnswers, AnswerIsRecorded
<1> QED BY <1>6, <1>7, <1>8, <1>9, <1>10, <1>11 DEF IInv

\* A step that changes nothing keeps it.
LEMMA StutterKeeps == IInv /\ UNCHANGED vars => IInv'
<1> SUFFICES ASSUME IInv, UNCHANGED vars PROVE IInv'
  OBVIOUS
<1>1. /\ UNCHANGED <<now, kind, marker, auth, power, grant, consumed>>
      /\ UNCHANGED <<out, noted, lock, worker, entered, run, launch>>
  BY DEF vars, owner
<1> USE <1>1 DEF IInv
<1>2. TypeOK'
  BY DEF TypeOK
<1>3. LockIsHeld' /\ ConsumedByRun' /\ BelongToConsumer'
  BY DEF LockIsHeld, ConsumedByRun, BelongToConsumer
<1>4. Progress' /\ CompleteWorker'
  BY DEF Progress, CompleteWorker
<1>5. Margins'
  BY DEF Margins, Gated
<1>6. MarkerFirst' /\ LaunchesItsChild'
  BY DEF MarkerFirst, LaunchesItsChild, Gated, Active, OwnWorker
<1>7. Reported' /\ LateAnswers'
  BY DEF Reported, LateAnswers, AnswerIsRecorded, Gated
<1> QED BY <1>2, <1>3, <1>4, <1>5, <1>6, <1>7

\* Every step keeps it.
LEMMA NextKeeps == IInv /\ [Next]_vars => IInv'
<1> SUFFICES ASSUME IInv, [Next]_vars PROVE IInv'
  OBVIOUS
<1>1. CASE \E o \in Ops : Authorize(o) \/ AuthorizeCase(o)
  BY <1>1, AuthorizeKeeps, AuthorizeCaseKeeps
<1>2. CASE \E c \in Calls, o \in Ops : DirectRun(c, o) \/ Launch(c, o)
  BY <1>2, DirectRunKeeps, LaunchKeeps
<1>3. ASSUME NEW c \in Calls, RunStep(c) PROVE IInv'
  BY <1>3, BeginKeeps, AcquireKeeps, OpenAttemptKeeps, ObservePowerKeeps, IssueKeeps, ConsumeKeeps,
     RaisesKeeps, MakeOutKeeps, AdmitKeeps, DispatchKeeps, SuperviseKeeps, JudgeKeeps, FailsKeeps,
     CleanKeeps, SealManifestKeeps, SealResultKeeps, LastResortKeeps, LateManifestKeeps DEF RunStep
<1>4. ASSUME NEW c \in Calls, LaunchStep(c) PROVE IInv'
  BY <1>4, MarkKeeps, SpawnKeeps, CapturedKeeps, SweepKeeps, ReportKeeps DEF LaunchStep
<1>5. ASSUME NEW c \in Calls, RunKilled(c) \/ LauncherKilled(c) PROVE IInv'
  BY <1>5, RunKilledKeeps, LauncherKilledKeeps
<1>6. CASE WorkerEnds \/ Tick
  BY <1>6, WorkerEndsKeeps, TickKeeps
<1>7. CASE UNCHANGED vars
  BY <1>7, StutterKeeps
<1> QED BY <1>1, <1>2, <1>3, <1>4, <1>5, <1>6, <1>7 DEF Next

\* Every reachable state of the plan, its calls and its one worker satisfies it.
THEOREM Invariant == Spec => []IInv
BY InitInvariant, NextKeeps, PTL DEF Spec

\* A launcher that answers EXECUTION_COMPLETED answers for the pair its own child ran,
\* sealed and complete (workflow and execution.py, whatever else ran or was killed).
THEOREM CompletedIsRealHolds == Spec => []CompletedIsReal
<1>1. ASSUME IInv PROVE CompletedIsReal
  <2> SUFFICES ASSUME NEW c \in Calls, launch[c].status = "EXECUTION_COMPLETED"
               PROVE  /\ out.by = c /\ out.op = launch[c].op /\ out.status = "COMPLETED"
                      /\ {"manifest", "result"} \subseteq out.files
                      /\ consumed = c /\ worker = [by |-> c, state |-> "complete"]
    BY DEF CompletedIsReal
  <2>1. run[c].at = "returned" /\ out.status = "COMPLETED" /\ out.op = launch[c].op
    BY <1>1 DEF IInv, Reported
  <2>2. consumed = c
    BY <1>1, <2>1 DEF IInv, ConsumedByRun, Consumer
  <2>3. {"manifest", "result"} \subseteq out.files /\ worker = [by |-> out.by, state |-> "complete"]
    BY <1>1, <2>1 DEF IInv, CompleteWorker
  <2>4. out.by = c
    BY <1>1, <2>2, <2>3 DEF IInv, BelongToConsumer, NoOut
  <2> QED BY <2>1, <2>2, <2>3, <2>4
<1> QED BY <1>1, Invariant, PTL

\* attemptConsumed FALSE is true, and stays true (profile_overlay._launch).
THEOREM NothingConsumedHolds == Spec => []NothingConsumed
<1>1. ASSUME IInv PROVE NothingConsumed
  <2> SUFFICES ASSUME NEW c \in Calls, launch[c].at = "reported", ~launch[c].closed
               PROVE  /\ launch[c].status = "EXECUTION_STOP" /\ ~Active(c)
                      /\ c \notin {power, consumed, out.by, worker.by} \cup {marker[o] : o \in Ops}
    BY DEF NothingConsumed
  <2>1. launch[c].status # "none" /\ Gated /\ \A o \in Ops : marker[o] # c
    BY <1>1 DEF IInv, Reported
  <2>2. c \notin {power, consumed} /\ c # None
    BY <1>1, <2>1, CallAssumption DEF IInv, MarkerFirst
  <2>3. c \notin {out.by, worker.by}
    BY <1>1, <2>2 DEF IInv, BelongToConsumer, NoOut
  <2>4. launch[c].status = "EXECUTION_STOP"
    <3>1. run[c].at # "returned"
      BY <1>1, <2>2 DEF IInv, ConsumedByRun, Consumer
    <3>2. launch[c].status # "EXECUTION_COMPLETED"
      BY <1>1, <3>1 DEF IInv, Reported
    <3>3. launch[c] \in Launches
      BY <1>1 DEF IInv, TypeOK
    <3> QED BY <2>1, <3>2, <3>3 DEF Launches
  <2>5. ~Active(c)
    BY <1>1 DEF IInv, LaunchesItsChild
  <2> QED BY <2>1, <2>2, <2>3, <2>4, <2>5
<1> QED BY <1>1, Invariant, PTL

\* A completed run ended within its grant, and a gated grant within the owner's
\* authorization: the margins of api.py and authority.py are wide enough.
THEOREM WithinAuthorityHolds == Spec => []WithinAuthority
<1>1. ASSUME IInv PROVE WithinAuthority
  <2> SUFFICES ASSUME out.status = "COMPLETED"
               PROVE  out.endedAt <= grant.expires /\ (Gated => grant.expires <= auth[out.op])
    BY DEF WithinAuthority
  <2>1. out # NoOut
    BY DEF NoOut
  <2>2. out.op = grant.op /\ grant.op # None
    BY <1>1, <2>1 DEF IInv, BelongToConsumer
  <2> QED BY <1>1, <2>2 DEF IInv, Margins
<1> QED BY <1>1, Invariant, PTL

\* A group a launcher reports gone is gone (workflow.finish_group).
THEOREM GoneMeansGoneHolds == Spec => []GoneMeansGone
<1>1. IInv => GoneMeansGone
  BY DEF IInv, LaunchesItsChild, GoneMeansGone
<1> QED BY <1>1, Invariant, PTL

\* Whoever consumed the authority and returned has recorded its answer (api.run,
\* native.replay's last resort).
THEOREM AnswerIsRecordedHolds == Spec => []AnswerIsRecorded
<1>1. IInv => AnswerIsRecorded
  BY DEF IInv, LateAnswers
<1> QED BY <1>1, Invariant, PTL

\* A sealed result is never written again, and a consumed grant never given again: later
\* runs, late manifests and crashes leave the answer that was recorded.
AnswerStands ==
  /\ "result" \in out.files =>
       UNCHANGED <<out.by, out.op, out.status, out.clean, out.endedAt>> /\ out.files \subseteq out'.files
  /\ consumed # None => UNCHANGED <<consumed, grant>>

\* Over every step of every call.
THEOREM AnswerStandsHolds == Spec => [][AnswerStands]_vars
<1>1. ASSUME IInv, Next PROVE AnswerStands
  <2> USE CallAssumption DEF owner
  <2>1. ASSUME UNCHANGED <<out, consumed, grant>> PROVE AnswerStands
    BY <2>1 DEF AnswerStands
  <2>2. ASSUME UNCHANGED <<consumed, grant>>,
               "result" \in out.files =>
                 UNCHANGED <<out.by, out.op, out.status, out.clean,
                             out.endedAt>> /\ out.files \subseteq out'.files
        PROVE  AnswerStands
    BY <2>2 DEF AnswerStands
  <2>3. ASSUME NEW o \in Ops, AuthorizeCase(o) PROVE AnswerStands
    BY <1>1, <2>3 DEF AuthorizeCase, AnswerStands, IInv, BelongToConsumer
  <2>4. ASSUME NEW c \in Calls, Issue(c) PROVE AnswerStands
    BY <1>1, <2>4 DEF Issue, AnswerStands, IInv, BelongToConsumer
  <2>5. ASSUME NEW c \in Calls, Consume(c) PROVE AnswerStands
    BY <1>1, <2>5 DEF Consume, AnswerStands
  <2>6. ASSUME NEW c \in Calls,
               MakeOut(c) \/ Admit(c) \/ Judge(c) \/ SealManifest(c) \/ SealResult(c) \/ LastResort(c)
        PROVE  AnswerStands
    <3>1. run[c].at \in UnderWay \cup {"late"}
      BY <2>6 DEF MakeOut, Admit, Judge, SealManifest, SealResult, LastResort, UnderWay
    <3>2. "result" \notin out.files
      BY <1>1, <3>1 DEF IInv, Progress
    <3>3. UNCHANGED <<consumed, grant>>
      BY <2>6 DEF MakeOut, Admit, Judge, SealManifest, SealResult, LastResort
    <3> QED BY <2>2, <3>2, <3>3
  <2>7. ASSUME NEW c \in Calls, LateManifest(c) PROVE AnswerStands
    <3>1. out \in Outputs
      BY <1>1 DEF IInv, TypeOK
    <3>2. out' = out \/ out' = [out EXCEPT !.files = out.files \cup {"manifest"}]
      BY <2>7 DEF LateManifest
    <3>3. UNCHANGED <<consumed, grant>>
      BY <2>7 DEF LateManifest
    <3>4. UNCHANGED <<out.by, out.op, out.status, out.clean, out.endedAt>> /\ out.files \subseteq out'.files
      BY <3>1, <3>2 DEF Outputs
    <3> QED BY <2>2, <3>3, <3>4
  <2>8. ASSUME NEW c \in Calls,
               \/ Begin(c) \/ Acquire(c) \/ OpenAttempt(c) \/ ObservePower(c) \/ Raises(c)
               \/ Dispatch(c) \/ Supervise(c) \/ Fails(c) \/ Clean(c) \/ RunKilled(c)
        PROVE  AnswerStands
    BY <2>1, <2>8 DEF Begin, Acquire, OpenAttempt, ObservePower, Raises, Dispatch, Supervise, Fails,
       Clean, RunKilled
  <2>9. ASSUME NEW c \in Calls, LaunchStep(c) \/ LauncherKilled(c) PROVE AnswerStands
    BY <2>1, <2>9 DEF LaunchStep, Mark, Spawn, Captured, Sweep, Report, LauncherKilled
  <2>10. ASSUME NEW c \in Calls, NEW o \in Ops, DirectRun(c, o) \/ Launch(c, o) PROVE AnswerStands
    BY <2>1, <2>10 DEF DirectRun, Launch
  <2>11. ASSUME NEW o \in Ops, Authorize(o) PROVE AnswerStands
    BY <2>1, <2>11 DEF Authorize
  <2>12. CASE WorkerEnds \/ Tick
    BY <2>1, <2>12 DEF WorkerEnds, Tick
  <2>13. ASSUME NEW c \in Calls, RunStep(c) PROVE AnswerStands
    BY <2>4, <2>5, <2>6, <2>7, <2>8, <2>13 DEF RunStep
  <2> QED BY <1>1, <2>3, <2>8, <2>9, <2>10, <2>11, <2>12, <2>13 DEF Next
<1>2. IInv /\ [Next]_vars => [AnswerStands]_vars
  BY <1>1
<1> QED BY <1>2, Invariant, PTL DEF Spec

-----------------------------------------------------------------------------
(* The one-shot authority. *)

\* The three actions that carry out the abstract ones; every other action leaves the
\* grant's operation, its consumption and the history of workers alone.
LEMMA StepMaps ==
  ASSUME IInv, [Next]_vars
  PROVE  [Authority!Next]_(Authority!vars)
<1> USE CallAssumption DEF Authority!vars
<1>1. ASSUME NEW o \in Ops, AuthorizeCase(o) PROVE Authority!Choose(o) /\ o \in Ops \ {None}
  BY <1>1 DEF AuthorizeCase, Authority!Choose
<1>2. ASSUME NEW c \in Calls, Issue(c) PROVE Authority!Choose(run[c].op) /\ run[c].op \in Ops \ {None}
  BY <1>2 DEF Issue, Authority!Choose, IInv, ConsumedByRun, Before
<1>3. ASSUME NEW c \in Calls, Consume(c) PROVE Authority!Spend
  BY <1>3 DEF Consume, Authority!Spend, IInv, ConsumedByRun, Before
<1>4. ASSUME NEW c \in Calls, Dispatch(c) PROVE Authority!Enter
  <2>1. entered = << >> /\ consumed = c /\ grant.op = run[c].op
    BY <1>4 DEF Dispatch, IInv, Progress, ConsumedByRun, Consumer, UnderWay
  <2>2. entered' = <<grant.op>>
    BY <1>4, <2>1 DEF Dispatch
  <2> QED BY <1>4, <2>1, <2>2 DEF Dispatch, owner, Authority!Enter
<1>5. ASSUME UNCHANGED <<grant, consumed, entered>> PROVE UNCHANGED Authority!vars
  BY <1>5
<1>6. ASSUME NEW c \in Calls,
             \/ Begin(c) \/ Acquire(c) \/ OpenAttempt(c) \/ ObservePower(c) \/ Raises(c)
             \/ MakeOut(c) \/ Admit(c) \/ Supervise(c) \/ Judge(c) \/ Fails(c) \/ Clean(c)
             \/ SealManifest(c) \/ SealResult(c) \/ LastResort(c) \/ LateManifest(c) \/ RunKilled(c)
      PROVE  UNCHANGED <<grant, consumed, entered>>
  BY <1>6 DEF owner, Begin, Acquire, OpenAttempt, ObservePower, Raises, MakeOut, Admit, Supervise,
     Judge, Fails, Clean, SealManifest, SealResult, LastResort, LateManifest, RunKilled
<1>7. ASSUME NEW c \in Calls, LaunchStep(c) \/ LauncherKilled(c)
      PROVE  UNCHANGED <<grant, consumed, entered>>
  BY <1>7 DEF owner, LaunchStep, Mark, Spawn, Captured, Sweep, Report, LauncherKilled
<1>8. ASSUME NEW c \in Calls, NEW o \in Ops, Authorize(o) \/ DirectRun(c, o) \/ Launch(c, o)
      PROVE  UNCHANGED <<grant, consumed, entered>>
  BY <1>8 DEF owner, Authorize, DirectRun, Launch
<1>9. ASSUME NEW o \in Ops, Authorize(o) PROVE UNCHANGED <<grant, consumed, entered>>
  BY <1>9 DEF Authorize
<1>10. ASSUME WorkerEnds \/ Tick \/ UNCHANGED vars PROVE UNCHANGED <<grant, consumed, entered>>
  BY <1>10 DEF owner, WorkerEnds, Tick, vars
<1>11. CASE \E o \in Ops : Authorize(o) \/ AuthorizeCase(o)
  BY <1>1, <1>5, <1>9, <1>11 DEF Authority!Next
<1>12. CASE \E c \in Calls, o \in Ops : DirectRun(c, o) \/ Launch(c, o)
  BY <1>5, <1>8, <1>12
<1>13. ASSUME NEW c \in Calls, RunStep(c) PROVE [Authority!Next]_(Authority!vars)
  <2>1. CASE Issue(c)
    BY <1>2, <2>1 DEF Authority!Next
  <2>2. CASE Consume(c) \/ Dispatch(c)
    BY <1>3, <1>4, <2>2 DEF Authority!Next
  <2>3. CASE ~Issue(c) /\ ~Consume(c) /\ ~Dispatch(c)
    BY <1>5, <1>6, <1>13, <2>3 DEF RunStep
  <2> QED BY <2>1, <2>2, <2>3
<1>14. ASSUME NEW c \in Calls, RunKilled(c) \/ LaunchStep(c) \/ LauncherKilled(c)
       PROVE  [Authority!Next]_(Authority!vars)
  BY <1>5, <1>6, <1>7, <1>14
<1> QED BY <1>5, <1>10, <1>11, <1>12, <1>13, <1>14 DEF Next

\* One prepared plan is an instance of the one-shot authority: one operation is granted,
\* its grant is consumed once, and a worker is started at most once, for that operation.
THEOREM ExecutionIsOneShot == Spec => ImplementsOneShot
<1>1. Init => Authority!Init
  BY DEF Init, Authority!Init
<1>2. IInv /\ [Next]_vars => [Authority!Next]_(Authority!vars)
  BY StepMaps
<1> QED BY <1>1, <1>2, Invariant, PTL DEF Spec, ImplementsOneShot, Authority!Spec
=============================================================================
