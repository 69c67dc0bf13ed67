------------------------ MODULE ScenarioClosureProofs ------------------------
(***************************************************************************)
(* That what is called a completed closure is one, that a confirmed        *)
(* cleanup leaves nothing running, and that a stage is reported with its   *)
(* first failure: for any number of calls and operations.                  *)
(***************************************************************************)
EXTENDS ScenarioClosure, TLAPS

OfClosure == {"preflight", "wait", "discover", "discovery", "broker", "accept", "offline", "final",
              "verify", "cleanup", "save"}
OfDiagnostic == {"dispatch", "diagnostic", "seal"}
Made == OfClosure \cup OfDiagnostic
UnderWay == {"make"} \cup Made
RunStages == {"idle", "begin", "lock", "issue", "returned", "ended"} \cup UnderWay
LaunchStages == {"idle", "spawn", "wait", "sweep", "report", "answered", "ended"}
Firsts == {"none", "limit", "host", "observer", "other"}
Causes == {"none", "limit", "host", "observer", "generic", "unreadable", "unconfirmed", "exit",
           "native", "other", "stop", "unlinked"}

StageRecords ==
  [at : {"none", "looping", "stopping", "measured", "raised", "over", "believed"},
   worker : {"none", "running", "exit0", "exit1"},
   native : {"missing", "invalid", "complete", "stopped", "open"},
   stop : {"none", "limit", "generic"},
   host : {"missing", "present", "invalid"}, observer : {"missing", "present", "invalid"},
   sampled : BOOLEAN, record : BOOLEAN, first : Firsts]
Launches == [at : LaunchStages, op : Ops \cup {None}, gone : BOOLEAN, stop : BOOLEAN]
Runs == [at : RunStages, op : Ops \cup {None}, cause : Causes, offline : {"none", "clean", "unclean"}]
Results == [status : {"none", "STOP", "COMPLETED"}, clean : BOOLEAN, cause : Causes]
Brokers == [by : Calls \cup {None}, state : {"none", "acquiring", "ready", "finished", "exit0", "exit1"},
            files : SUBSET {"ready", "scenario"}]

TypeOK ==
  /\ kind \in {"closure", "diagnostic"}
  /\ stage \in [Stages -> StageRecords] /\ entered \in Seq(Stages)
  /\ launch \in [Calls -> Launches] /\ run \in [Calls -> Runs]
  /\ evidence \in [Ops -> [by : Calls \cup {None}, answer : Results]]
  /\ out \in [Ops -> [by : Calls \cup {None}, result : Results]]
  /\ consent \in Calls \cup {None} /\ lock \in Calls \cup {None} /\ broker \in Brokers

\* A stage's first failure and the records that tell of it, until it is judged.
FirstTold(r) ==
  /\ r.at = "none" => r = NoStage
  /\ r.at = "looping" => r.first = "none" /\ r.host = "missing" /\ r.observer = "missing"
  /\ r.at \in {"looping", "stopping", "measured"} =>
       /\ r.first = "none" <=> r.stop = "none"
       /\ r.first = "limit" <=> r.stop = "limit"
       /\ r.host # "missing" => r.first \in {"host", "limit"}
       /\ r.observer # "missing" => r.first \in {"observer", "limit"}
       /\ r.first = "host" => r.host # "missing"
       /\ r.first = "observer" => r.observer # "missing"
  /\ r.at = "measured" => r.record /\ r.worker # "running"

StagesTold == \A s \in Stages : FirstTold(stage[s])

\* Each stage's worker is started once.
EnteredOnce ==
  /\ \A i, j \in DOMAIN entered : entered[i] = entered[j] => i = j
  /\ \A i \in DOMAIN entered : stage[entered[i]].at # "none"

\* What a call does it does for an operation of its kind.
OwnKind(c) ==
  /\ run[c].at \in OfClosure => kind = "closure"
  /\ run[c].at \in OfDiagnostic => kind = "diagnostic"
  /\ Active(c) => run[c].op \in (IF kind = "closure" THEN Closures ELSE Diagnostics)
  /\ Launching(c) => /\ kind = "closure" /\ launch[c].op \in Closures
                     /\ evidence[launch[c].op].by = c
  /\ launch[c].at = "spawn" => run[c].at = "idle"
  /\ launch[c].at \in {"sweep", "report", "answered"} => ~Active(c)
  /\ launch[c].gone => launch[c].at = "report"
OfItsKind == \A c \in Calls : OwnKind(c)

\* Only the call that has the consent gets anywhere: stages and outputs are its own.
HasConsent(c) ==
  /\ run[c].at \in UnderWay \cup {"returned"} => consent = c
  /\ run[c].at \in Made => out[run[c].op].by = c
OutOfTheConsent(o) ==
  /\ out[o].by \in {None, consent}
  /\ out[o].by = None => out[o].result = NoResult
  /\ out[o].result # NoResult => consent \in Calls /\ run[consent].at = "returned"
OfTheConsent ==
  /\ \A c \in Calls : HasConsent(c)
  /\ consent = None => \A s \in Stages : stage[s] = NoStage
  /\ \A o \in Ops : OutOfTheConsent(o)

\* The order of a closure: discovery, the broker's end, the offline run.
Placed(c) ==
  /\ run[c].at \in {"make", "preflight", "wait", "discover", "dispatch"} =>
       \A s \in Stages : stage[s] = NoStage
  /\ run[c].at \in {"broker", "accept", "offline", "final", "verify"} => Believed("discovery")
  /\ run[c].at \in {"accept", "offline"} => broker.state = "exit0" /\ "scenario" \in broker.files
  /\ run[c].at = "verify" => Believed("final") /\ run[c].cause = "none"
  /\ run[c].at \in {"cleanup", "save"} /\ run[c].cause = "none" =>
       Believed("discovery") /\ Believed("final")
FinalLast ==
  stage["final"].at # "none" =>
    broker.state = "exit0" /\ "scenario" \in broker.files /\ Believed("discovery")
InOrder == (\A c \in Calls : Placed(c)) /\ FinalLast

\* What a result says.
ResultsTrue ==
  /\ \A o \in Closures :
       /\ out[o].result.status = "COMPLETED" => Believed("discovery") /\ Believed("final")
       /\ out[o].result.clean =>
            /\ ~BrokerAlive /\ stage["discovery"].worker # "running"
            /\ stage["discovery"] # NoStage => Bridges(stage["discovery"]) = "CONFIRMED"
  /\ \A o \in Diagnostics : out[o].result.clean => stage["diagnostic"].worker # "running"

\* What a launcher has swept stays gone, and its answer is of its own child's result.
AnsweredBy(o) ==
  /\ evidence[o].by = None => evidence[o].answer = NoResult
  /\ evidence[o].answer # NoResult => launch[evidence[o].by].at = "answered"
  /\ evidence[o].answer.clean => ~GroupRunning(evidence[o].by)
  /\ evidence[o].answer.status = "COMPLETED" =>
       /\ evidence[o].answer.clean
       /\ out[o].by = evidence[o].by /\ out[o].result.status = "COMPLETED"
AnswersTrue ==
  /\ \A c \in Calls : launch[c].gone => ~GroupRunning(c)
  /\ \A o \in Ops : AnsweredBy(o)

IInv ==
  TypeOK /\ StagesTold /\ EnteredOnce /\ OfItsKind /\ OfTheConsent /\ InOrder /\ ResultsTrue /\ AnswersTrue

-----------------------------------------------------------------------------
(* What a step does to the stages, the broker, the records of one call. *)

\* No stage begins: what is closed stays closed, what is believed stays as it is.
StageKept ==
  /\ stage' \in [Stages -> StageRecords]
  /\ \A s \in Stages :
       /\ FirstTold(stage'[s])
       /\ stage[s] = NoStage => stage'[s] = NoStage
       /\ stage[s].at # "none" => stage'[s].at # "none"
       /\ stage[s].at = "believed" /\ stage[s].worker = "exit0" => stage'[s] = stage[s]
       /\ stage[s].worker # "running" =>
            stage'[s].worker # "running" /\ stage'[s].native = stage[s].native

\* No broker begins.
BrokerKept ==
  /\ broker' \in Brokers /\ broker'.by = broker.by
  /\ ~BrokerAlive => broker'.state \notin {"acquiring", "ready", "finished"}
  /\ broker.state = "exit0" => broker' = broker

\* Only c's child moves.
Moved(c, x, cause) ==
  /\ run' \in [Calls -> Runs] /\ \A d \in Calls \ {c} : run'[d] = run[d]
  /\ run'[c].at = x /\ run'[c].op = run[c].op /\ run'[c].cause = cause

\* c's child forgets everything but where it is.
Gone(c, x) ==
  /\ run' \in [Calls -> Runs] /\ \A d \in Calls \ {c} : run'[d] = run[d]
  /\ run'[c].at = x

\* Only c's launcher moves.
LaunchMoved(c, x) ==
  /\ launch' \in [Calls -> Launches] /\ \A d \in Calls \ {c} : launch'[d] = launch[d]
  /\ launch'[c].at = x /\ launch'[c].op = launch[c].op

\* The assumption on the constants, as the proofs use it.
LEMMA Names ==
  /\ {"discovery", "final", "diagnostic"} = Stages
  /\ None \notin Calls /\ None \notin Ops /\ Ops = Closures \cup Diagnostics
  /\ \A o \in Closures : o \notin Diagnostics
BY ClosureAssumption DEF Ops

\* Stages that do not change are kept.
LEMMA StageStays ==
  ASSUME TypeOK, StagesTold, UNCHANGED stage
  PROVE  StageKept
BY DEF TypeOK, StagesTold, StageKept

\* So is a broker that does not change.
LEMMA BrokerStays ==
  ASSUME TypeOK, UNCHANGED broker
  PROVE  BrokerKept
BY DEF TypeOK, BrokerKept, BrokerAlive

\* Setting one call's run to one of the right type.
LEMMA RunSet ==
  ASSUME TypeOK, NEW c \in Calls, NEW r \in Runs, run' = [run EXCEPT ![c] = r]
  PROVE  run' \in [Calls -> Runs] /\ run'[c] = r /\ \A d \in Calls \ {c} : run'[d] = run[d]
BY DEF TypeOK

\* Setting one call's launcher.
LEMMA LaunchSet ==
  ASSUME TypeOK, NEW c \in Calls, NEW l \in Launches, launch' = [launch EXCEPT ![c] = l]
  PROVE  launch' \in [Calls -> Launches] /\ launch'[c] = l /\ \A d \in Calls \ {c} : launch'[d] = launch[d]
BY DEF TypeOK

\* Setting one stage: it is enough to look at that one.
LEMMA StageSet ==
  ASSUME TypeOK, StagesTold, NEW s \in Stages, NEW r \in StageRecords, stage' = [stage EXCEPT ![s] = r],
         FirstTold(r), stage[s].at # "none", r.at # "none",
         ~(stage[s].at = "believed" /\ stage[s].worker = "exit0"),
         stage[s].worker # "running" => r.worker # "running" /\ r.native = stage[s].native
  PROVE  StageKept /\ stage'[s] = r
<1>1. stage' \in [Stages -> StageRecords] /\ stage'[s] = r /\ \A t \in Stages \ {s} : stage'[t] = stage[t]
  BY DEF TypeOK
<1>2. stage[s] # NoStage
  BY DEF NoStage
<1> QED BY <1>1, <1>2 DEF StagesTold, StageKept

\* Fails moves a child, with a cause.
LEMMA FailsMoves ==
  ASSUME TypeOK, NEW c \in Calls, NEW x \in RunStages, NEW cause \in Causes, Fails(c, x, cause)
  PROVE  Moved(c, x, cause)
<1> DEFINE r == [run[c] EXCEPT !.at = x, !.cause = cause]
<1>1. run[c] \in Runs
  BY DEF TypeOK
<1>2. r \in Runs /\ r.at = x /\ r.op = run[c].op /\ r.cause = cause
  BY <1>1 DEF Runs
<1>3. run' = [run EXCEPT ![c] = r]
  BY DEF Fails
<1> HIDE DEF r
<1>4. run' \in [Calls -> Runs] /\ run'[c] = r /\ \A d \in Calls \ {c} : run'[d] = run[d]
  BY <1>2, <1>3, RunSet
<1> QED BY <1>2, <1>4 DEF Moved

\* Goes moves it, without.
LEMMA GoesMoves ==
  ASSUME TypeOK, NEW c \in Calls, NEW x \in RunStages, Goes(c, x)
  PROVE  Moved(c, x, run[c].cause)
<1> DEFINE r == [run[c] EXCEPT !.at = x]
<1>1. run[c] \in Runs
  BY DEF TypeOK
<1>2. r \in Runs /\ r.at = x /\ r.op = run[c].op /\ r.cause = run[c].cause
  BY <1>1 DEF Runs
<1>3. run' = [run EXCEPT ![c] = r]
  BY DEF Goes
<1> HIDE DEF r
<1>4. run' \in [Calls -> Runs] /\ run'[c] = r /\ \A d \in Calls \ {c} : run'[d] = run[d]
  BY <1>2, <1>3, RunSet
<1> QED BY <1>2, <1>4 DEF Moved

\* A child that ends forgets everything, and gives the lock back.
LEMMA Forgets ==
  ASSUME TypeOK, NEW c \in Calls, NEW x \in RunStages, run' = [run EXCEPT ![c] = [NoRun EXCEPT !.at = x]]
  PROVE  Gone(c, x)
<1> DEFINE r == [NoRun EXCEPT !.at = x]
<1>1. r \in Runs /\ r.at = x
  BY DEF NoRun, Runs, Causes
<1>2. run' = [run EXCEPT ![c] = r]
  OBVIOUS
<1> HIDE DEF r
<1>3. run' \in [Calls -> Runs] /\ run'[c] = r /\ \A d \in Calls \ {c} : run'[d] = run[d]
  BY <1>1, <1>2, RunSet
<1> QED BY <1>1, <1>3 DEF Gone

\* The lock is a call's or nobody's.
LEMMA LeavesLock ==
  ASSUME TypeOK, NEW c \in Calls, Leaves(c)
  PROVE  lock' \in Calls \cup {None}
BY DEF TypeOK, Leaves

\* A child that ends at once.
LEMMA EndsForgets ==
  ASSUME TypeOK, NEW c \in Calls, Ends(c)
  PROVE  Gone(c, "ended") /\ lock' \in Calls \cup {None}
BY Forgets, LeavesLock DEF Ends, RunStages

-----------------------------------------------------------------------------
(* Stages. *)

\* A stage that starts is a new one, whose worker is entered for the first time.
LEMMA Starts ==
  ASSUME TypeOK, StagesTold, EnteredOnce, NEW s \in Stages, Start(s)
  PROVE  /\ stage[s] = NoStage /\ stage' \in [Stages -> StageRecords]
         /\ \A t \in Stages \ {s} : stage'[t] = stage[t]
         /\ \A t \in Stages : FirstTold(stage'[t])
         /\ stage'[s].at \in {"looping", "stopping"}
         /\ entered' \in Seq(Stages) /\ EnteredOnce'
<1>1. stage[s] = NoStage /\ stage[s] \in StageRecords
  BY DEF Start, TypeOK
<1>2. PICK r \in StageRecords :
        /\ stage' = [stage EXCEPT ![s] = r] /\ FirstTold(r) /\ r.at \in {"looping", "stopping"}
  <2>1. CASE stage' = [stage EXCEPT ![s].at = "looping", ![s].worker = "running"]
    <3> DEFINE r == [NoStage EXCEPT !.at = "looping", !.worker = "running"]
    <3>1. r \in StageRecords /\ FirstTold(r) /\ r.at = "looping"
      BY DEF NoStage, StageRecords, Firsts, FirstTold
    <3>2. stage' = [stage EXCEPT ![s] = r]
      BY <1>1, <2>1
    <3> HIDE DEF r
    <3> QED BY <3>1, <3>2
  <2>2. CASE stage' = [stage EXCEPT ![s].at = "stopping", ![s].stop = "generic", ![s].first = "other"]
    <3> DEFINE r == [NoStage EXCEPT !.at = "stopping", !.stop = "generic", !.first = "other"]
    <3>1. r \in StageRecords /\ FirstTold(r) /\ r.at = "stopping"
      BY DEF NoStage, StageRecords, Firsts, FirstTold
    <3>2. stage' = [stage EXCEPT ![s] = r]
      BY <1>1, <2>2
    <3> HIDE DEF r
    <3> QED BY <3>1, <3>2
  <2>3. CASE stage' = [stage EXCEPT ![s].at = "stopping", ![s].stop = "generic", ![s].first = "other",
                                    ![s].worker = "running"]
    <3> DEFINE r == [NoStage EXCEPT !.at = "stopping", !.stop = "generic", !.first = "other",
                                    !.worker = "running"]
    <3>1. r \in StageRecords /\ FirstTold(r) /\ r.at = "stopping"
      BY DEF NoStage, StageRecords, Firsts, FirstTold
    <3>2. stage' = [stage EXCEPT ![s] = r]
      BY <1>1, <2>3
    <3> HIDE DEF r
    <3> QED BY <3>1, <3>2
  <2> QED BY <2>1, <2>2, <2>3 DEF Start
<1>3. /\ stage' \in [Stages -> StageRecords] /\ stage'[s] = r
      /\ \A t \in Stages \ {s} : stage'[t] = stage[t]
  BY <1>2 DEF TypeOK
<1>4. entered' = entered \/ entered' = Append(entered, s)
  BY DEF Start
<1>5. entered \in Seq(Stages)
  BY DEF TypeOK
<1>6. stage[s].at = "none"
  BY <1>1 DEF NoStage
<1>7. entered' \in Seq(Stages)
  BY <1>4, <1>5
<1>8. \A i \in DOMAIN entered : entered[i] \in Stages /\ entered[i] # s
  BY <1>5, <1>6 DEF EnteredOnce
<1>9. EnteredOnce'
  <2>1. CASE entered' = entered
    BY <1>2, <1>3, <1>8, <2>1 DEF EnteredOnce
  <2>2. CASE entered' = Append(entered, s)
    <3>1. /\ DOMAIN entered' = DOMAIN entered \cup {Len(entered) + 1}
          /\ Len(entered) + 1 \notin DOMAIN entered
          /\ entered'[Len(entered) + 1] = s
          /\ \A i \in DOMAIN entered : entered'[i] = entered[i]
      BY <1>5, <2>2
    <3>2. \A i, j \in DOMAIN entered' : entered'[i] = entered'[j] => i = j
      BY <1>8, <3>1 DEF EnteredOnce
    <3>3. \A i \in DOMAIN entered' : stage'[entered'[i]].at # "none"
      BY <1>2, <1>3, <1>8, <3>1 DEF EnteredOnce
    <3> QED BY <3>2, <3>3 DEF EnteredOnce
  <2> QED BY <1>4, <2>1, <2>2
<1>10. \A t \in Stages : FirstTold(stage'[t])
  BY <1>2, <1>3 DEF StagesTold
<1> QED BY <1>1, <1>2, <1>3, <1>7, <1>9, <1>10

\* A good sample.
LEMMA SampleKeepsStages ==
  ASSUME TypeOK, StagesTold, NEW s \in Stages, Sample(s)
  PROVE  StageKept /\ entered' = entered
<1> DEFINE r == [stage[s] EXCEPT !.sampled = TRUE]
<1>1. stage[s] \in StageRecords /\ FirstTold(stage[s]) /\ stage[s].at = "looping"
  BY DEF TypeOK, StagesTold, Sample
<1>2. /\ r \in StageRecords /\ FirstTold(r) /\ r.at = "looping"
      /\ r.worker = stage[s].worker /\ r.native = stage[s].native
  BY <1>1 DEF StageRecords, FirstTold
<1>3. stage' = [stage EXCEPT ![s] = r] /\ entered' = entered
  BY DEF Sample
<1> HIDE DEF r
<1> QED BY <1>1, <1>2, <1>3, StageSet

\* Every pass that leaves the loop records its first failure.
LEMMA LoopEndsKeepsStages ==
  ASSUME TypeOK, StagesTold, NEW s \in Stages, LoopEnds(s)
  PROVE  StageKept /\ entered' = entered
<1> DEFINE r == stage[s]
           Half(e) == /\ e \in StageRecords
                      /\ e.worker = r.worker /\ e.native = r.native /\ e.record = r.record
                      /\ e.first = "none" <=> e.stop = "none"
                      /\ e.first = "limit" <=> e.stop = "limit"
                      /\ e.host # "missing" => e.first \in {"host", "limit"}
                      /\ e.observer # "missing" => e.first \in {"observer", "limit"}
                      /\ e.first = "host" => e.host # "missing"
                      /\ e.first = "observer" => e.observer # "missing"
<1>1. /\ r \in StageRecords /\ r.at = "looping" /\ r.first = "none" /\ r.host = "missing"
      /\ r.observer = "missing" /\ r.stop = "none"
  BY DEF TypeOK, StagesTold, LoopEnds, FirstTold
<1>2. LimitHit(r) \in StageRecords /\ Half(LimitHit(r)) /\ LimitHit(r).host = "missing" /\ LimitHit(r).observer = "missing"
      /\ LimitHit(r).first = "limit" /\ Half(r)
  BY <1>1 DEF LimitHit, FirstOf, StageRecords, Firsts
<1>3. ASSUME NEW q \in StageRecords, Half(q), q.host = "missing", q.observer = "missing",
             q.first \in {"none", "limit"}, NEW e \in SampleFails(q)
      PROVE  Half(e)
  <2>1. \/ e = [q EXCEPT !.stop = Stopped(q, "generic"), !.first = FirstOf(q, "other")]
        \/ \E x \in {"present", "invalid"} :
             e = [q EXCEPT !.stop = Stopped(q, "generic"), !.first = FirstOf(q, "host"), !.host = x]
        \/ \E x \in {"present", "invalid"} :
             e = [q EXCEPT !.stop = Stopped(q, "generic"), !.first = FirstOf(q, "observer"), !.observer = x]
    BY <1>3 DEF SampleFails
  <2>2. (q.first = "none" /\ q.stop = "none") \/ (q.first = "limit" /\ q.stop = "limit")
    BY <1>3
  <2> QED BY <1>3, <2>1, <2>2 DEF Stopped, FirstOf, StageRecords, Firsts
<1>4. PICK e : Half(e) /\ stage' = [stage EXCEPT ![s] = [e EXCEPT !.at = "stopping"]]
  <2>1. \A e \in SampleFails(r) \cup SampleFails(LimitHit(r)) : Half(e)
    BY <1>1, <1>2, <1>3
  <2> HIDE DEF Half
  <2>2. PICK e \in {LimitHit(r), r} \cup SampleFails(LimitHit(r)) \cup SampleFails(r) :
          stage' = [stage EXCEPT ![s] = [e EXCEPT !.at = "stopping"]]
    BY DEF LoopEnds
  <2> QED BY <1>2, <2>1, <2>2
<1> DEFINE n == [e EXCEPT !.at = "stopping"]
<1>5. /\ n \in StageRecords /\ FirstTold(n) /\ n.at = "stopping"
      /\ n.worker = r.worker /\ n.native = r.native
  BY <1>4 DEF StageRecords, FirstTold
<1>6. stage' = [stage EXCEPT ![s] = n] /\ entered' = entered
  BY <1>4 DEF LoopEnds
<1> HIDE DEF n
<1> QED BY <1>1, <1>5, <1>6, StageSet

\* Reaping ends the worker or raises; a late CPU limit gives way to an earlier stop.
LEMMA ReapKeepsStages ==
  ASSUME TypeOK, StagesTold, NEW s \in Stages, Reap(s)
  PROVE  StageKept /\ entered' = entered
<1> DEFINE r == stage[s]
           reaped == IF r.worker = "running" THEN [r EXCEPT !.worker = "exit1"] ELSE r
           late == [reaped EXCEPT !.stop = Stopped(r, "limit"), !.first = FirstOf(r, "limit")]
<1>1. r \in StageRecords /\ FirstTold(r) /\ r.at = "stopping"
  BY DEF TypeOK, StagesTold, Reap
<1>2. /\ reaped \in StageRecords /\ reaped.worker # "running" /\ reaped.native = r.native
      /\ reaped.stop = r.stop /\ reaped.first = r.first /\ reaped.host = r.host
      /\ reaped.observer = r.observer
      /\ r.worker # "running" => reaped.worker = r.worker
  BY <1>1 DEF StageRecords
<1>3. /\ late \in StageRecords /\ late.worker # "running" /\ late.native = r.native
      /\ late.host = r.host /\ late.observer = r.observer
      /\ late.stop = (IF r.stop = "none" THEN "limit" ELSE r.stop)
      /\ late.first = (IF r.first = "none" THEN "limit" ELSE r.first)
  <2> DEFINE x == Stopped(r, "limit")
             f == FirstOf(r, "limit")
  <2>1. /\ x = (IF r.stop = "none" THEN "limit" ELSE r.stop) /\ x \in {"none", "limit", "generic"}
        /\ f = (IF r.first = "none" THEN "limit" ELSE r.first) /\ f \in Firsts
    BY <1>1 DEF StageRecords, Stopped, FirstOf, Firsts
  <2> HIDE DEF reaped, x, f
  <2>2. late = [reaped EXCEPT !.stop = x, !.first = f]
    BY DEF x, f
  <2> HIDE DEF late
  <2>3. late \in StageRecords /\ late.stop = x /\ late.first = f /\ late.worker = reaped.worker
    BY <1>2, <2>1, <2>2 DEF StageRecords
  <2>4. late.native = reaped.native /\ late.host = reaped.host /\ late.observer = reaped.observer
    BY <1>2, <2>2 DEF StageRecords
  <2> QED BY <1>2, <2>1, <2>3, <2>4
<1>4. entered' = entered /\ \/ \E x \in {r, reaped} : stage' = [stage EXCEPT ![s] = [x EXCEPT !.at = "raised"]]
                            \/ \E x \in {reaped, late} :
                                 stage' = [stage EXCEPT ![s] = [x EXCEPT !.at = "measured", !.record = TRUE]]
  BY DEF Reap
<1> HIDE DEF reaped, late
<1>5. ASSUME NEW x \in {r, reaped}, stage' = [stage EXCEPT ![s] = [x EXCEPT !.at = "raised"]]
      PROVE  StageKept
  <2> DEFINE n == [x EXCEPT !.at = "raised"]
  <2>1. x \in StageRecords /\ x.native = r.native /\ (r.worker # "running" => x.worker # "running")
    BY <1>1, <1>2
  <2>2. n \in StageRecords /\ n.at = "raised" /\ n.native = x.native /\ n.worker = x.worker /\ FirstTold(n)
    BY <2>1 DEF StageRecords, FirstTold
  <2>3. stage' = [stage EXCEPT ![s] = n]
    BY <1>5
  <2> HIDE DEF n
  <2> QED BY <1>1, <2>1, <2>2, <2>3, StageSet
<1>6. ASSUME NEW x \in {reaped, late},
             stage' = [stage EXCEPT ![s] = [x EXCEPT !.at = "measured", !.record = TRUE]]
      PROVE  StageKept
  <2> DEFINE n == [x EXCEPT !.at = "measured", !.record = TRUE]
  <2>1. /\ x \in StageRecords /\ x.native = r.native /\ x.worker # "running"
        /\ x.host = r.host /\ x.observer = r.observer
        /\ \/ x.stop = r.stop /\ x.first = r.first
           \/ x.stop = (IF r.stop = "none" THEN "limit" ELSE r.stop) /\ x.first = (IF r.first = "none" THEN "limit" ELSE r.first)
    BY <1>2, <1>3, <1>6
  <2>2. /\ n \in StageRecords /\ n.at = "measured" /\ n.native = x.native /\ n.worker = x.worker
        /\ n.host = x.host /\ n.observer = x.observer /\ n.stop = x.stop /\ n.first = x.first /\ n.record
    BY <2>1 DEF StageRecords
  <2>3. stage' = [stage EXCEPT ![s] = n]
    BY <1>6
  <2> HIDE DEF n
  <2>4. FirstTold(n)
    BY <1>1, <2>1, <2>2 DEF FirstTold
  <2> QED BY <1>1, <2>1, <2>2, <2>3, <2>4, StageSet
<1> QED BY <1>4, <1>5, <1>6

\* A worker that runs records its completion, and exits.
LEMMA WorkerKeepsStages ==
  ASSUME TypeOK, StagesTold, NEW s \in Stages, WorkerStep(s)
  PROVE  StageKept /\ entered' = entered
<1>1. stage[s] \in StageRecords /\ FirstTold(stage[s]) /\ stage[s].worker = "running" /\ entered' = entered
  BY DEF TypeOK, StagesTold, WorkerStep, WorkerRecords, WorkerExits
<1>2. stage[s].at # "none" /\ stage[s].at # "measured"
  BY <1>1 DEF FirstTold, NoStage
<1>3. PICK r \in StageRecords : stage' = [stage EXCEPT ![s] = r] /\ FirstTold(r) /\ r.at = stage[s].at
  <2>1. CASE WorkerRecords(s)
    <3>1. PICK n \in {"complete", "stopped", "open", "invalid"} : stage' = [stage EXCEPT ![s].native = n]
      BY <2>1 DEF WorkerRecords
    <3> DEFINE r == [stage[s] EXCEPT !.native = n]
    <3>2. r \in StageRecords /\ FirstTold(r) /\ r.at = stage[s].at
      BY <1>1, <1>2 DEF StageRecords, FirstTold
    <3>3. stage' = [stage EXCEPT ![s] = r]
      BY <3>1
    <3> HIDE DEF r
    <3> QED BY <3>2, <3>3
  <2>2. CASE WorkerExits(s)
    <3>1. PICK e \in {"exit0", "exit1"} : stage' = [stage EXCEPT ![s].worker = e]
      BY <2>2 DEF WorkerExits
    <3> DEFINE r == [stage[s] EXCEPT !.worker = e]
    <3>2. r \in StageRecords /\ FirstTold(r) /\ r.at = stage[s].at
      BY <1>1, <1>2 DEF StageRecords, FirstTold
    <3>3. stage' = [stage EXCEPT ![s] = r]
      BY <3>1
    <3> HIDE DEF r
    <3> QED BY <3>2, <3>3
  <2> QED BY <2>1, <2>2 DEF WorkerStep
<1> QED BY <1>1, <1>2, <1>3, StageSet

\* What is left of a stage: its worker and what that recorded.
LEMMA ClosedStage ==
  ASSUME NEW r \in StageRecords
  PROVE  /\ Closed(r) \in StageRecords /\ Closed(r).at = "over"
         /\ Closed(r).worker = r.worker /\ Closed(r).native = r.native
<1>1. r.worker \in {"none", "running", "exit0", "exit1"} /\ r.record \in BOOLEAN
      /\ r.native \in {"missing", "invalid", "complete", "stopped", "open"}
  BY DEF StageRecords
<1>2. NoStage \in StageRecords
  BY DEF NoStage, StageRecords, Firsts
<1> QED BY <1>1, <1>2 DEF Closed, StageRecords

\* A stage's record in the files is judged by what it told first: only a stage that never
\* failed, ended well and recorded a complete pair is believed.
LEMMA Judging ==
  ASSUME TypeOK, StagesTold, NEW s \in Stages, stage[s].at \in {"measured", "raised"},
         CloseStage(s, Judged(s))
  PROVE  /\ StageKept /\ Judged(s) \in Causes
         /\ Judged(s) = "none" =>
              /\ stage'[s].at = "believed" /\ stage'[s].first = "none"
              /\ stage'[s].worker = "exit0" /\ stage'[s].native = "complete"
<1> DEFINE o == Closed(stage[s])
           b == [Closed(stage[s]) EXCEPT !.at = "believed", !.first = stage[s].first]
<1>1. stage[s] \in StageRecords /\ FirstTold(stage[s])
  BY DEF TypeOK, StagesTold
<1>2. stage[s].first \in Firsts
  BY <1>1 DEF StageRecords
<1>3. /\ o \in StageRecords /\ o.at = "over"
      /\ o.worker = stage[s].worker /\ o.native = stage[s].native
  BY <1>1, ClosedStage
<1>4. b = [o EXCEPT !.at = "believed", !.first = stage[s].first]
  OBVIOUS
<1>5. stage' = [stage EXCEPT ![s] = IF Judged(s) = "none" THEN b ELSE o]
  BY DEF CloseStage
<1> HIDE DEF o, b
<1>6. b \in StageRecords /\ b.at = "believed" /\ b.first = stage[s].first
      /\ b.worker = o.worker /\ b.native = o.native
  <2> DEFINE f == stage[s].first
  <2>1. f \in Firsts /\ b = [o EXCEPT !.at = "believed", !.first = f]
    BY <1>2, <1>4
  <2> HIDE DEF f
  <2>2. b \in StageRecords /\ b.at = "believed" /\ b.first = f /\ b.worker = o.worker /\ b.native = o.native
    BY <1>3, <2>1 DEF StageRecords
  <2> QED BY <2>2 DEF f
<1>7. FirstTold(o) /\ FirstTold(b)
  BY <1>3, <1>6 DEF FirstTold
<1>8. Judged(s) \in Causes
  BY DEF Primary, Unstopped, Judged, Causes
<1>9. CASE Judged(s) = "none"
  <2>1. stage[s].first = "none" /\ stage[s].worker = "exit0" /\ stage[s].native = "complete"
    BY <1>1, <1>9 DEF Judged, Primary, Unstopped, FirstTold, StageRecords, Terminated
  <2>2. stage' = [stage EXCEPT ![s] = b]
    BY <1>5, <1>9
  <2>3. StageKept /\ stage'[s] = b
    BY <1>3, <1>6, <1>7, <2>2, StageSet
  <2> QED BY <1>3, <1>6, <1>8, <2>1, <2>3
<1>10. CASE Judged(s) # "none"
  <2>1. stage' = [stage EXCEPT ![s] = o]
    BY <1>5, <1>10
  <2>2. StageKept
    BY <1>3, <1>7, <2>1, StageSet
  <2> QED BY <1>8, <1>10, <2>2
<1> QED BY <1>9, <1>10

\* An abandoned stage keeps what closed it.
LEMMA AbandonedStage ==
  ASSUME NEW s \in Stages, stage[s] \in StageRecords, FirstTold(stage[s])
  PROVE  /\ Abandoned(s) \in StageRecords /\ FirstTold(Abandoned(s))
         /\ stage[s] = NoStage => Abandoned(s) = NoStage
         /\ stage[s].at # "none" => Abandoned(s).at # "none"
         /\ stage[s].at = "believed" => Abandoned(s) = stage[s]
         /\ Abandoned(s).worker = stage[s].worker /\ Abandoned(s).native = stage[s].native
         /\ Abandoned(s).at \notin {"looping", "stopping", "measured"}
<1>1. CASE stage[s].at \in {"looping", "stopping", "measured", "raised"}
  <2> DEFINE o == Closed(stage[s])
  <2>1. /\ o \in StageRecords /\ o.at = "over"
        /\ o.worker = stage[s].worker /\ o.native = stage[s].native
    BY ClosedStage DEF Firsts
  <2>2. Abandoned(s) = o
    BY <1>1 DEF Abandoned
  <2>3. stage[s] # NoStage
    BY <1>1 DEF NoStage
  <2> HIDE DEF o
  <2>4. FirstTold(o)
    BY <2>1 DEF FirstTold
  <2> QED BY <1>1, <2>1, <2>2, <2>3, <2>4
<1>2. CASE stage[s].at \notin {"looping", "stopping", "measured", "raised"}
  <2>1. Abandoned(s) = stage[s]
    BY <1>2 DEF Abandoned
  <2> QED BY <1>2, <2>1
<1> QED BY <1>1, <1>2

\* So does one whose group is killed.
LEMMA KilledStage ==
  ASSUME NEW r \in StageRecords, FirstTold(r), r.at \notin {"looping", "stopping", "measured"}
  PROVE  /\ GroupKilled(r) \in StageRecords /\ FirstTold(GroupKilled(r))
         /\ r.worker # "running" => GroupKilled(r) = r
         /\ GroupKilled(r).at = r.at /\ GroupKilled(r).worker # "running"
<1> DEFINE g == [r EXCEPT !.worker = "exit1"]
<1>1. CASE r.worker = "running"
  <2>1. g \in StageRecords /\ g.at = r.at /\ g.worker = "exit1"
    BY DEF StageRecords
  <2>2. GroupKilled(r) = g
    BY <1>1 DEF GroupKilled
  <2>3. r.at # "none"
    BY <1>1 DEF FirstTold, NoStage
  <2> HIDE DEF g
  <2> QED BY <1>1, <2>1, <2>2, <2>3 DEF FirstTold
<1>2. CASE r.worker # "running"
  <2>1. GroupKilled(r) = r
    BY <1>2 DEF GroupKilled, StageRecords
  <2> QED BY <1>2, <2>1
<1> QED BY <1>1, <1>2

\* A dead child's stages are abandoned.
LEMMA AbandonKeepsStages ==
  ASSUME TypeOK, StagesTold, NEW c \in Calls, Abandon(c)
  PROVE  StageKept
<1>1. \A s \in Stages : stage[s] \in StageRecords /\ FirstTold(stage[s])
  BY DEF TypeOK, StagesTold
<1>2. \A s \in Stages : stage'[s] = stage[s] \/ stage'[s] = Abandoned(s)
  BY DEF Abandon
<1>3. stage' = [s \in Stages |-> stage'[s]]
  BY DEF Abandon
<1>4. \A s \in Stages : stage'[s] \in StageRecords
  BY <1>1, <1>2, AbandonedStage
<1>5. stage' \in [Stages -> StageRecords]
  BY <1>3, <1>4
<1> QED BY <1>1, <1>2, <1>5, AbandonedStage DEF StageKept

\* A killed group leaves none of its processes running.
LEMMA KillsGroup ==
  ASSUME TypeOK, StagesTold, NEW c \in Calls, KillGroup(c)
  PROVE  /\ StageKept /\ BrokerKept /\ kind' = kind /\ entered' = entered
         /\ \A s \in OwnStages(c) : stage'[s].worker # "running"
         /\ ~(broker'.by = c /\ broker'.state \in {"acquiring", "ready", "finished"})
<1>1. \A s \in Stages : stage[s] \in StageRecords /\ FirstTold(stage[s])
  BY DEF TypeOK, StagesTold
<1>2. \A s \in Stages :
        stage'[s] = IF s \in OwnStages(c) THEN GroupKilled(Abandoned(s)) ELSE stage[s]
  BY DEF KillGroup
<1>3. stage' = [s \in Stages |-> stage'[s]]
  BY DEF KillGroup
<1>4. ASSUME NEW s \in Stages
      PROVE  LET g == GroupKilled(Abandoned(s))
             IN /\ g \in StageRecords /\ FirstTold(g) /\ g.worker # "running"
                /\ stage[s] = NoStage => g = NoStage
                /\ stage[s].at # "none" => g.at # "none"
                /\ stage[s].at = "believed" /\ stage[s].worker = "exit0" => g = stage[s]
                /\ stage[s].worker # "running" => g.native = stage[s].native
  <2> DEFINE a == Abandoned(s)
  <2>1. /\ a \in StageRecords /\ FirstTold(a) /\ a.at \notin {"looping", "stopping", "measured"}
        /\ stage[s] = NoStage => a = NoStage
        /\ stage[s].at # "none" => a.at # "none"
        /\ stage[s].at = "believed" => a = stage[s]
        /\ a.worker = stage[s].worker /\ a.native = stage[s].native
    BY <1>1, AbandonedStage
  <2> HIDE DEF a
  <2> DEFINE g == GroupKilled(a)
  <2>2. /\ g \in StageRecords /\ FirstTold(g) /\ g.at = a.at /\ g.worker # "running"
        /\ a.worker # "running" => g = a
    BY <2>1, KilledStage
  <2>3. NoStage.worker = "none"
    BY DEF NoStage
  <2> HIDE DEF g
  <2>4. /\ stage[s] = NoStage => g = NoStage
        /\ stage[s].at # "none" => g.at # "none"
        /\ stage[s].at = "believed" /\ stage[s].worker = "exit0" => g = stage[s]
        /\ stage[s].worker # "running" => g.native = stage[s].native
    BY <2>1, <2>2, <2>3
  <2> QED BY <2>2, <2>4 DEF g, a
<1>5. \A s \in Stages : stage'[s] \in StageRecords
  BY <1>1, <1>2, <1>4
<1>6. stage' \in [Stages -> StageRecords]
  BY <1>3, <1>5
<1>7. StageKept
  BY <1>1, <1>2, <1>4, <1>6 DEF StageKept
<1>8. \A s \in OwnStages(c) : stage'[s].worker # "running"
  BY <1>2, <1>4 DEF OwnStages
<1>9. broker \in Brokers
  BY DEF TypeOK
<1>10. /\ BrokerKept
       /\ ~(broker'.by = c /\ broker'.state \in {"acquiring", "ready", "finished"})
  BY <1>9 DEF KillGroup, BrokerKept, BrokerAlive, Brokers
<1> QED BY <1>7, <1>8, <1>10 DEF KillGroup

-----------------------------------------------------------------------------
(* What follows when nothing begins. *)

\* What is believed stays believed.
LEMMA BelievedStays ==
  ASSUME StageKept, NEW s \in Stages, Believed(s)
  PROVE  Believed(s)'
BY DEF StageKept, Believed

\* The workers that were entered are the same.
LEMMA EntriesStay ==
  ASSUME TypeOK, EnteredOnce, StageKept, entered' = entered
  PROVE  EnteredOnce' /\ entered' \in Seq(Stages)
<1>1. entered \in Seq(Stages)
  BY DEF TypeOK
<1>2. \A i \in DOMAIN entered : entered[i] \in Stages
  BY <1>1
<1> QED BY <1>1, <1>2 DEF EnteredOnce, StageKept

\* A group in which nothing runs stays so.
LEMMA GroupStays ==
  ASSUME StageKept, BrokerKept, UNCHANGED consent, NEW c \in Calls, Active(c)' => Active(c), ~GroupRunning(c)
  PROVE  ~GroupRunning(c)'
<1>1. ~Active(c)'
  BY DEF GroupRunning
<1>2. ~(broker.by = c /\ BrokerAlive)'
  BY DEF GroupRunning, BrokerKept, BrokerAlive
<1>3. \A s \in OwnStages(c) : s \in Stages /\ stage[s].worker # "running"
  BY DEF GroupRunning, OwnStages
<1>4. \A s \in OwnStages(c)' : s \in OwnStages(c)
  BY DEF OwnStages
<1>5. \A s \in OwnStages(c)' : stage'[s].worker # "running"
  BY <1>3, <1>4 DEF StageKept
<1> QED BY <1>1, <1>2, <1>5 DEF GroupRunning

\* The order of what was done stays.
LEMMA OrderStays ==
  ASSUME TypeOK, StagesTold, InOrder, StageKept, BrokerKept
  PROVE  FinalLast' /\ \A c \in Calls : run'[c] = run[c] => Placed(c)'
<1>1. "discovery" \in Stages /\ "final" \in Stages
  BY Names
<1>2. broker.state = "exit0" /\ "scenario" \in broker.files
        => broker'.state = "exit0" /\ "scenario" \in broker'.files
  BY DEF BrokerKept
<1>3. Believed("discovery") => Believed("discovery")'
  BY <1>1, BelievedStays
<1>4. Believed("final") => Believed("final")'
  BY <1>1, BelievedStays
<1>5. FinalLast'
  <2>1. stage["final"].at = "none" => stage'["final"].at = "none"
    BY <1>1 DEF StagesTold, FirstTold, StageKept, NoStage
  <2> QED BY <1>2, <1>3, <2>1 DEF InOrder, FinalLast
<1>6. (\A s \in Stages : stage[s] = NoStage) => \A s \in Stages : stage'[s] = NoStage
  BY DEF StageKept
<1>7. ASSUME NEW c \in Calls, run'[c] = run[c]
      PROVE  Placed(c)'
  BY <1>2, <1>3, <1>4, <1>6, <1>7 DEF InOrder, Placed
<1> QED BY <1>5, <1>7

\* What results say stays true.
LEMMA ResultsStay ==
  ASSUME ResultsTrue, StageKept, BrokerKept, UNCHANGED out
  PROVE  ResultsTrue'
<1>1. /\ "discovery" \in Stages /\ "final" \in Stages /\ "diagnostic" \in Stages
  BY Names
<1>2. Believed("discovery") => Believed("discovery")'
  BY <1>1, BelievedStays
<1>3. Believed("final") => Believed("final")'
  BY <1>1, BelievedStays
<1>4. ~BrokerAlive => ~BrokerAlive'
  BY DEF BrokerKept, BrokerAlive
<1>5. stage["diagnostic"].worker # "running" => stage'["diagnostic"].worker # "running"
  BY <1>1 DEF StageKept
<1>6. stage["discovery"].worker # "running" =>
        /\ stage'["discovery"].worker # "running"
        /\ stage'["discovery"] # NoStage => stage["discovery"] # NoStage
        /\ Bridges(stage'["discovery"]) = Bridges(stage["discovery"])
  BY <1>1 DEF StageKept, Bridges
<1>7. ASSUME NEW o \in Closures
      PROVE  /\ out'[o].result.status = "COMPLETED" => Believed("discovery")' /\ Believed("final")'
             /\ out'[o].result.clean =>
                  /\ ~BrokerAlive' /\ stage'["discovery"].worker # "running"
                  /\ stage'["discovery"] # NoStage => Bridges(stage'["discovery"]) = "CONFIRMED"
  BY <1>2, <1>3, <1>4, <1>6 DEF ResultsTrue
<1>8. \A o \in Diagnostics : out'[o].result.clean => stage'["diagnostic"].worker # "running"
  BY <1>5 DEF ResultsTrue
<1> QED BY <1>7, <1>8 DEF ResultsTrue

\* Who answers is a call, and answered it is.
LEMMA Answerer ==
  ASSUME TypeOK, AnswersTrue, NEW o \in Ops, evidence[o].answer # NoResult
  PROVE  evidence[o].by \in Calls /\ launch[evidence[o].by].at = "answered"
BY DEF TypeOK, AnswersTrue, AnsweredBy

\* A clean or a completed answer is one.
LEMMA Said ==
  /\ ~NoResult.clean /\ NoResult.status = "none"
BY DEF NoResult

\* A step in which calls end, or launchers move, keeps the invariant.
LEMMA Quietly ==
  ASSUME IInv, StageKept, BrokerKept, entered' = entered, UNCHANGED <<kind, evidence, out, consent>>,
         run' \in [Calls -> Runs], launch' \in [Calls -> Launches], lock' \in Calls \cup {None},
         \A c \in Calls :
           /\ run'[c] = run[c] \/ (Active(c) /\ run'[c].at = "ended")
           /\ launch'[c] = launch[c] \/ Launching(c)
           /\ OwnKind(c)'
           /\ launch'[c].gone => ~GroupRunning(c)'
  PROVE  IInv'
<1>1. /\ TypeOK /\ StagesTold /\ EnteredOnce /\ OfItsKind /\ OfTheConsent /\ InOrder /\ ResultsTrue
      /\ AnswersTrue
  BY DEF IInv
<1>2. TypeOK'
  <2>1. stage' \in [Stages -> StageRecords] /\ broker' \in Brokers
    BY DEF StageKept, BrokerKept
  <2>2. entered' \in Seq(Stages)
    BY <1>1, EntriesStay
  <2> QED BY <1>1, <2>1, <2>2 DEF TypeOK
<1>3. StagesTold'
  BY DEF StagesTold, StageKept
<1>4. EnteredOnce'
  BY <1>1, EntriesStay
<1>5. OfItsKind'
  BY DEF OfItsKind
<1>6. OfTheConsent'
  <2>1. ASSUME NEW c \in Calls
        PROVE  HasConsent(c)'
    <3>1. CASE run'[c] = run[c]
      BY <1>1, <3>1 DEF OfTheConsent, HasConsent
    <3>2. CASE run'[c].at = "ended"
      BY <3>2 DEF HasConsent, UnderWay, Made, OfClosure, OfDiagnostic
    <3> QED BY <3>1, <3>2
  <2>2. consent' = None => \A s \in Stages : stage'[s] = NoStage
    BY <1>1 DEF OfTheConsent, StageKept
  <2>3. ASSUME NEW o \in Ops
        PROVE  OutOfTheConsent(o)'
    <3>1. OutOfTheConsent(o)
      BY <1>1 DEF OfTheConsent
    <3>2. \A c \in Calls : run[c].at = "returned" => run'[c].at = "returned"
      BY DEF Active
    <3> QED BY <3>1, <3>2 DEF OutOfTheConsent
  <2> QED BY <2>1, <2>2, <2>3 DEF OfTheConsent
<1>7. InOrder'
  <2>1. FinalLast' /\ \A c \in Calls : run'[c] = run[c] => Placed(c)'
    BY <1>1, OrderStays
  <2>2. ASSUME NEW c \in Calls, run'[c].at = "ended"
        PROVE  Placed(c)'
    BY <2>2 DEF Placed
  <2> QED BY <2>1, <2>2 DEF InOrder
<1>8. ResultsTrue'
  BY <1>1, ResultsStay
<1>9. AnswersTrue'
  <2>1. ASSUME NEW o \in Ops
        PROVE  AnsweredBy(o)'
    <3>1. AnsweredBy(o)
      BY <1>1 DEF AnswersTrue
    <3>2. CASE evidence[o].answer = NoResult
      BY <3>1, <3>2, Said DEF AnsweredBy
    <3>3. CASE evidence[o].answer # NoResult
      <4>1. PICK c \in Calls : c = evidence[o].by /\ launch[c].at = "answered"
        BY <1>1, <3>3, Answerer
      <4>2. launch'[c].at = "answered"
        BY <4>1 DEF Launching
      <4>3. Active(c)' => Active(c)
        BY DEF Active
      <4>4. ~GroupRunning(c) => ~GroupRunning(c)'
        BY <4>3, GroupStays
      <4>5. evidence'[o] = evidence[o] /\ out' = out
        OBVIOUS
      <4> QED BY <3>1, <4>1, <4>2, <4>4, <4>5 DEF AnsweredBy
    <3> QED BY <3>2, <3>3
  <2> QED BY <2>1 DEF AnswersTrue
<1> QED BY <1>2, <1>3, <1>4, <1>5, <1>6, <1>7, <1>8, <1>9 DEF IInv

\* A call that is under way has the consent; no other is, and nothing has a result.
LEMMA TheConsent ==
  ASSUME TypeOK, OfTheConsent, NEW c \in Calls, run[c].at \in UnderWay
  PROVE  /\ consent = c /\ Active(c)
         /\ \A d \in Calls \ {c} : run[d].at \notin UnderWay \cup {"returned"}
         /\ \A o \in Ops : out[o].result = NoResult
<1>1. HasConsent(c)
  BY DEF OfTheConsent
<1>2. consent = c
  BY <1>1 DEF HasConsent
<1>3. \A d \in Calls \ {c} : run[d].at \notin UnderWay \cup {"returned"}
  BY <1>2 DEF OfTheConsent, HasConsent
<1>4. run[c].at \notin {"idle", "returned", "ended"}
  BY DEF UnderWay, Made, OfClosure, OfDiagnostic
<1>5. \A o \in Ops : out[o].result = NoResult
  BY <1>2, <1>4 DEF OfTheConsent, OutOfTheConsent
<1> QED BY <1>2, <1>3, <1>4, <1>5 DEF Active

\* An active call has no answer, and its launcher has not swept.
LEMMA ActiveUnswept ==
  ASSUME TypeOK, OfItsKind, NEW c \in Calls, Active(c)
  PROVE  launch[c].at \notin {"spawn", "sweep", "report", "answered"} /\ ~launch[c].gone
<1>1. OwnKind(c)
  BY DEF OfItsKind
<1> QED BY <1>1 DEF OwnKind, Active

\* The answers that were given stay true while an active call moves.
LEMMA AnswersStay ==
  ASSUME TypeOK, OfItsKind, AnswersTrue, NEW c \in Calls, Active(c), UNCHANGED <<launch, evidence>>,
         \A o \in Ops : out[o].result.status = "COMPLETED" => out'[o] = out[o],
         \A d \in Calls \ {c} : ~GroupRunning(d) => ~GroupRunning(d)'
  PROVE  AnswersTrue'
<1>1. launch[c].at \notin {"sweep", "report", "answered"} /\ ~launch[c].gone
  BY ActiveUnswept
<1>2. ASSUME NEW d \in Calls, launch'[d].gone
      PROVE  ~GroupRunning(d)'
  BY <1>1, <1>2 DEF AnswersTrue
<1>3. ASSUME NEW o \in Ops
      PROVE  AnsweredBy(o)'
  <2>1. AnsweredBy(o)
    BY DEF AnswersTrue
  <2>2. CASE evidence[o].answer = NoResult
    BY <2>1, <2>2, Said DEF AnsweredBy
  <2>3. CASE evidence[o].answer # NoResult
    <3>1. PICK d \in Calls : d = evidence[o].by /\ launch[d].at = "answered"
      BY <2>3, Answerer
    <3>2. ~GroupRunning(d) => ~GroupRunning(d)'
      BY <1>1, <3>1
    <3>3. evidence'[o] = evidence[o] /\ launch'[d].at = "answered"
      BY <3>1
    <3> QED BY <2>1, <3>1, <3>2, <3>3 DEF AnsweredBy
  <2> QED BY <2>2, <2>3
<1> QED BY <1>2, <1>3 DEF AnswersTrue

\* A call under way moves: it is enough to say where it stands, and that the stages and
\* the broker it may have started tell what they should.
LEMMA MadeMoves ==
  ASSUME IInv, NEW c \in Calls, run[c].at \in Made, NEW x \in Made, NEW cause, Moved(c, x, cause),
         UNCHANGED <<kind, launch, files, lock>>,
         stage' \in [Stages -> StageRecords], \A s \in Stages : FirstTold(stage'[s]),
         entered' \in Seq(Stages), EnteredOnce',
         broker' \in Brokers,
         \A d \in Calls \ {c} : broker'.by = d /\ BrokerAlive' => broker.by = d /\ BrokerAlive,
         x \in OfClosure <=> run[c].at \in OfClosure,
         Placed(c)', FinalLast'
  PROVE  IInv'
<1>1. /\ TypeOK /\ StagesTold /\ EnteredOnce /\ OfItsKind /\ OfTheConsent /\ InOrder /\ ResultsTrue
      /\ AnswersTrue
  BY DEF IInv
<1>2. /\ evidence' = evidence /\ out' = out /\ consent' = consent
  BY DEF files
<1>3. /\ consent = c /\ Active(c)
      /\ \A d \in Calls \ {c} : run[d].at \notin UnderWay \cup {"returned"}
      /\ \A o \in Ops : out[o].result = NoResult
  BY <1>1, TheConsent DEF UnderWay
<1>4. /\ run' \in [Calls -> Runs] /\ run'[c].at = x /\ run'[c].op = run[c].op
      /\ \A d \in Calls \ {c} : run'[d] = run[d]
  BY DEF Moved
<1>5. c # None
  BY Names
<1>6. x \notin {"idle", "returned", "ended"}
  BY DEF Made, OfClosure, OfDiagnostic
<1>7. Active(c)'
  BY <1>4, <1>6 DEF Active
<1>8. TypeOK'
  BY <1>1, <1>2, <1>4 DEF TypeOK
<1>9. StagesTold'
  BY DEF StagesTold
<1>10. OfItsKind'
  <2>1. OwnKind(c)'
    <3>1. OwnKind(c)
      BY <1>1 DEF OfItsKind
    <3>2. x \in OfDiagnostic <=> run[c].at \in OfDiagnostic
      BY DEF Made, OfClosure, OfDiagnostic
    <3>3. launch[c].at \notin {"spawn", "sweep", "report", "answered"}
      BY <1>1, <1>3, ActiveUnswept
    <3> QED BY <1>2, <1>3, <1>4, <3>1, <3>2, <3>3 DEF OwnKind, Launching
  <2>2. ASSUME NEW d \in Calls \ {c}
        PROVE  OwnKind(d)'
    BY <1>1, <1>2, <1>4 DEF OfItsKind, OwnKind, Launching, Active
  <2> QED BY <2>1, <2>2 DEF OfItsKind
<1>11. OfTheConsent'
  <2>1. HasConsent(c)'
    BY <1>1, <1>2, <1>3, <1>4 DEF OfTheConsent, HasConsent
  <2>2. \A d \in Calls \ {c} : HasConsent(d)'
    BY <1>1, <1>2, <1>4 DEF OfTheConsent, HasConsent
  <2>3. \A o \in Ops : OutOfTheConsent(o)'
    BY <1>1, <1>2, <1>3 DEF OfTheConsent, OutOfTheConsent
  <2>4. consent' # None
    BY <1>2, <1>3, <1>5
  <2> QED BY <2>1, <2>2, <2>3, <2>4 DEF OfTheConsent
<1>12. InOrder'
  <2>1. ASSUME NEW d \in Calls \ {c}
        PROVE  Placed(d)'
    <3>1. run'[d].at \notin UnderWay
      BY <1>3, <1>4
    <3> QED BY <3>1 DEF Placed, UnderWay, Made, OfClosure, OfDiagnostic
  <2> QED BY <2>1 DEF InOrder
<1>13. ResultsTrue'
  <2>1. \A o \in Ops : out'[o].result = NoResult
    BY <1>2, <1>3
  <2>2. \A o \in Ops : ~out'[o].result.clean /\ out'[o].result.status = "none"
    BY <2>1, Said
  <2> QED BY <2>2, Names DEF ResultsTrue
<1>14. AnswersTrue'
  <2>1. ASSUME NEW d \in Calls \ {c}, ~GroupRunning(d)
        PROVE  ~GroupRunning(d)'
    <3>1. ~Active(d)'
      BY <1>4, <2>1 DEF GroupRunning, Active
    <3>2. ~(broker.by = d /\ BrokerAlive)'
      BY <2>1 DEF GroupRunning
    <3>3. OwnStages(d)' = {}
      BY <1>2, <1>3 DEF OwnStages
    <3> QED BY <3>1, <3>2, <3>3 DEF GroupRunning
  <2> QED BY <1>1, <1>2, <1>3, <2>1, AnswersStay
<1> QED BY <1>8, <1>9, <1>10, <1>11, <1>12, <1>13, <1>14 DEF IInv

\* The same, for a call that starts nothing.
LEMMA MadeMovesOn ==
  ASSUME IInv, NEW c \in Calls, run[c].at \in Made, NEW x \in Made, NEW cause, Moved(c, x, cause),
         UNCHANGED <<kind, launch, files, lock>>, entered' = entered, StageKept, BrokerKept,
         x \in OfClosure <=> run[c].at \in OfClosure, Placed(c)'
  PROVE  IInv'
<1>1. TypeOK /\ StagesTold /\ EnteredOnce /\ InOrder
  BY DEF IInv
<1>2. stage' \in [Stages -> StageRecords] /\ \A s \in Stages : FirstTold(stage'[s])
  BY DEF StageKept
<1>3. broker' \in Brokers /\ \A d \in Calls \ {c} : broker'.by = d /\ BrokerAlive' => broker.by = d /\ BrokerAlive
  BY DEF BrokerKept, BrokerAlive
<1>4. entered' \in Seq(Stages) /\ EnteredOnce'
  BY <1>1, EntriesStay
<1>5. FinalLast'
  BY <1>1, OrderStays
<1> QED BY <1>2, <1>3, <1>4, <1>5, MadeMoves

-----------------------------------------------------------------------------
(* The steps of the child. *)

\* Nothing is closed by waiting.
LEMMA ReadyKeeps ==
  ASSUME IInv, NEW c \in Calls, Ready(c)
  PROVE  IInv'
<1>1. TypeOK /\ StagesTold /\ OfItsKind /\ InOrder
  BY DEF IInv
<1>2. StageKept /\ BrokerKept /\ entered' = entered
  BY <1>1, StageStays, BrokerStays DEF Ready, stages
<1>3. "discover" \in RunStages /\ run[c].cause \in Causes
  BY <1>1 DEF RunStages, UnderWay, Made, OfClosure, OfDiagnostic, Causes, TypeOK, Runs
<1>4. Moved(c, "discover", run[c].cause)
  BY <1>1, <1>3, GoesMoves DEF Ready
<1>5. /\ run[c].at \in Made /\ "discover" \in Made
      /\ "discover" \in OfClosure <=> run[c].at \in OfClosure
  BY <1>1 DEF Ready, Made, OfClosure, OfDiagnostic, OfItsKind, OwnKind
<1>6. Placed(c)'
  BY <1>4, <1>1 DEF Ready, stages, InOrder, Placed, Moved, Believed
<1> QED BY <1>2, <1>4, <1>5, <1>6, MadeMovesOn DEF Ready, stages


\* The broker has ended with a capture.
LEMMA AwaitBrokerKeeps ==
  ASSUME IInv, NEW c \in Calls, AwaitBroker(c)
  PROVE  IInv'
<1>1. TypeOK /\ StagesTold /\ OfItsKind /\ InOrder
  BY DEF IInv
<1>2. StageKept /\ BrokerKept /\ entered' = entered
  BY <1>1, StageStays, BrokerStays DEF AwaitBroker, stages
<1>3. "accept" \in RunStages /\ run[c].cause \in Causes
  BY <1>1 DEF RunStages, UnderWay, Made, OfClosure, OfDiagnostic, Causes, TypeOK, Runs
<1>4. Moved(c, "accept", run[c].cause)
  BY <1>1, <1>3, GoesMoves DEF AwaitBroker, Goes
<1>5. /\ run[c].at \in Made /\ "accept" \in Made
      /\ "accept" \in OfClosure <=> run[c].at \in OfClosure
  BY <1>1 DEF AwaitBroker, Made, OfClosure, OfDiagnostic, OfItsKind, OwnKind
<1>6. Placed(c)'
  BY <1>4, <1>1 DEF AwaitBroker, stages, InOrder, Placed, Moved, Believed
<1> QED BY <1>2, <1>4, <1>5, <1>6, MadeMovesOn DEF AwaitBroker, stages


\* The capture stays what it was.
LEMMA AcceptKeeps ==
  ASSUME IInv, NEW c \in Calls, Accept(c)
  PROVE  IInv'
<1>1. TypeOK /\ StagesTold /\ OfItsKind /\ InOrder
  BY DEF IInv
<1>2. StageKept /\ BrokerKept /\ entered' = entered
  BY <1>1, StageStays, BrokerStays DEF Accept, stages
<1>3. "offline" \in RunStages /\ run[c].cause \in Causes
  BY <1>1 DEF RunStages, UnderWay, Made, OfClosure, OfDiagnostic, Causes, TypeOK, Runs
<1>4. Moved(c, "offline", run[c].cause)
  BY <1>1, <1>3, GoesMoves DEF Accept
<1>5. /\ run[c].at \in Made /\ "offline" \in Made
      /\ "offline" \in OfClosure <=> run[c].at \in OfClosure
  BY <1>1 DEF Accept, Made, OfClosure, OfDiagnostic, OfItsKind, OwnKind
<1>6. Placed(c)'
  BY <1>4, <1>1 DEF Accept, stages, InOrder, Placed, Moved, Believed
<1> QED BY <1>2, <1>4, <1>5, <1>6, MadeMovesOn DEF Accept, stages


\* A run that verified has no cause, and both its stages are believed.
LEMMA VerifyKeeps ==
  ASSUME IInv, NEW c \in Calls, Verify(c)
  PROVE  IInv'
<1>1. TypeOK /\ StagesTold /\ OfItsKind /\ InOrder
  BY DEF IInv
<1>2. StageKept /\ BrokerKept /\ entered' = entered
  BY <1>1, StageStays, BrokerStays DEF Verify, stages
<1>3. "cleanup" \in RunStages /\ run[c].cause \in Causes
  BY <1>1 DEF RunStages, UnderWay, Made, OfClosure, OfDiagnostic, Causes, TypeOK, Runs
<1>4. Moved(c, "cleanup", run[c].cause)
  BY <1>1, <1>3, GoesMoves DEF Verify
<1>5. /\ run[c].at \in Made /\ "cleanup" \in Made
      /\ "cleanup" \in OfClosure <=> run[c].at \in OfClosure
  BY <1>1 DEF Verify, Made, OfClosure, OfDiagnostic, OfItsKind, OwnKind
<1>6. Placed(c)'
  BY <1>4, <1>1 DEF Verify, stages, InOrder, Placed, Moved, Believed
<1> QED BY <1>2, <1>4, <1>5, <1>6, MadeMovesOn DEF Verify, stages


\* Nor does a broker that is not seen to end change what is believed.
LEMMA BrokerUnreapedKeeps ==
  ASSUME IInv, NEW c \in Calls, BrokerUnreaped(c)
  PROVE  IInv'
<1>1. TypeOK /\ StagesTold /\ OfItsKind /\ InOrder
  BY DEF IInv
<1>2. StageKept /\ BrokerKept /\ entered' = entered
  BY <1>1, StageStays, BrokerStays DEF BrokerUnreaped, stages
<1>3. "save" \in RunStages /\ run[c].cause \in Causes
  BY <1>1 DEF RunStages, UnderWay, Made, OfClosure, OfDiagnostic, Causes, TypeOK, Runs
<1>4. Moved(c, "save", run[c].cause)
  BY <1>1, <1>3, GoesMoves DEF BrokerUnreaped
<1>5. /\ run[c].at \in Made /\ "save" \in Made
      /\ "save" \in OfClosure <=> run[c].at \in OfClosure
  BY <1>1 DEF BrokerUnreaped, Made, OfClosure, OfDiagnostic, OfItsKind, OwnKind
<1>6. Placed(c)'
  BY <1>4, <1>1 DEF BrokerUnreaped, stages, InOrder, Placed, Moved, Believed
<1> QED BY <1>2, <1>4, <1>5, <1>6, MadeMovesOn DEF BrokerUnreaped, stages

\* An error in the try block is a cause, and nothing is believed for it.
LEMMA StopsKeeps ==
  ASSUME IInv, NEW c \in Calls, Stops(c)
  PROVE  IInv'
<1> DEFINE x == IF kind = "closure" THEN "cleanup" ELSE "seal"
<1>1. TypeOK /\ StagesTold /\ OfItsKind
  BY DEF IInv
<1>2. StageKept /\ BrokerKept /\ entered' = entered
  BY <1>1, StageStays, BrokerStays DEF Stops, stages
<1>3. x \in RunStages /\ "other" \in Causes
  BY DEF RunStages, UnderWay, Made, OfClosure, OfDiagnostic, Causes
<1>4. Fails(c, x, "other")
  BY DEF Stops
<1>5. run[c].at \in Made /\ x \in Made /\ (x \in OfClosure <=> run[c].at \in OfClosure)
  BY <1>1 DEF Stops, Made, OfClosure, OfDiagnostic, OfItsKind, OwnKind
<1>6. x \in {"cleanup", "seal"}
  OBVIOUS
<1> HIDE DEF x
<1>7. Moved(c, x, "other")
  BY <1>1, <1>3, <1>4, FailsMoves
<1>8. Placed(c)'
  BY <1>6, <1>7 DEF Moved, Placed
<1> QED BY <1>2, <1>5, <1>7, <1>8, MadeMovesOn DEF Stops, stages

\* api._execute failed before its worker: a cause.
LEMMA UndispatchedKeeps ==
  ASSUME IInv, NEW c \in Calls, Undispatched(c)
  PROVE  IInv'
<1>1. TypeOK /\ StagesTold
  BY DEF IInv
<1>2. StageKept /\ BrokerKept /\ entered' = entered
  BY <1>1, StageStays, BrokerStays DEF Undispatched, stages
<1>3. PICK o \in {"clean", "unclean"} :
        run' = [run EXCEPT ![c].at = "cleanup", ![c].offline = o, ![c].cause = "other"]
  BY DEF Undispatched
<1>4. Moved(c, "cleanup", "other")
  <2> DEFINE r == [run[c] EXCEPT !.at = "cleanup", !.offline = o, !.cause = "other"]
  <2>1. run[c] \in Runs
    BY <1>1 DEF TypeOK
  <2>2. r \in Runs /\ r.at = "cleanup" /\ r.op = run[c].op /\ r.cause = "other"
    BY <2>1 DEF Runs, RunStages, UnderWay, Made, OfClosure, Causes
  <2>3. run' = [run EXCEPT ![c] = r]
    BY <1>3
  <2> HIDE DEF r
  <2>4. run' \in [Calls -> Runs] /\ run'[c] = r /\ \A d \in Calls \ {c} : run'[d] = run[d]
    BY <1>1, <2>2, <2>3, RunSet
  <2> QED BY <2>2, <2>4 DEF Moved
<1>5. run[c].at \in OfClosure /\ "cleanup" \in OfClosure
  BY DEF Undispatched, OfClosure
<1>6. Placed(c)'
  BY <1>4 DEF Moved, Placed
<1> QED BY <1>2, <1>4, <1>5, <1>6, MadeMovesOn DEF Undispatched, stages, Made

\* The broker is killed at the end: an acquisition that ended stays ended.
LEMMA CleanupKeeps ==
  ASSUME IInv, NEW c \in Calls, Cleanup(c)
  PROVE  IInv'
<1>1. TypeOK /\ StagesTold /\ InOrder
  BY DEF IInv
<1>2. StageKept /\ entered' = entered
  BY <1>1, StageStays DEF Cleanup, stages
<1>3. BrokerKept
  BY <1>1 DEF Cleanup, BrokerKept, BrokerAlive, TypeOK, Brokers
<1>4. "save" \in RunStages /\ run[c].cause \in Causes
  BY <1>1 DEF RunStages, UnderWay, Made, OfClosure, TypeOK, Runs
<1>5. Moved(c, "save", run[c].cause)
  BY <1>1, <1>4, GoesMoves DEF Cleanup
<1>6. run[c].at \in OfClosure /\ "save" \in OfClosure
  BY DEF Cleanup, OfClosure
<1>7. Placed(c)'
  BY <1>1, <1>5 DEF Cleanup, stages, InOrder, Placed, Moved, Believed
<1> QED BY <1>2, <1>3, <1>5, <1>6, <1>7, MadeMovesOn DEF Cleanup, stages, Made

\* A failure to stage leaves a closed stage, without a worker.
LEMMA StagingFailsKeeps ==
  ASSUME IInv, NEW c \in Calls, StagingFails(c)
  PROVE  IInv'
<1> DEFINE n == Closed(NoStage)
<1>1. /\ TypeOK /\ StagesTold /\ EnteredOnce /\ InOrder
  BY DEF IInv
<1>2. "discovery" \in Stages /\ "final" \in Stages
  BY Names
<1>3. \A s \in Stages : stage[s] = NoStage
  BY <1>1 DEF InOrder, Placed, StagingFails
<1>4. NoStage \in StageRecords /\ NoStage.at = "none"
  BY DEF NoStage, StageRecords, Firsts
<1>5. n \in StageRecords /\ n.at = "over"
  BY <1>4, ClosedStage
<1>6. stage' = [stage EXCEPT !["discovery"] = n]
  BY <1>2, <1>3 DEF StagingFails
<1> HIDE DEF n
<1>7. FirstTold(n)
  BY <1>5 DEF FirstTold
<1>8. /\ stage' \in [Stages -> StageRecords] /\ stage'["discovery"] = n
      /\ \A s \in Stages \ {"discovery"} : stage'[s] = NoStage
  BY <1>1, <1>2, <1>3, <1>5, <1>6 DEF TypeOK
<1>9. \A s \in Stages : FirstTold(stage'[s])
  BY <1>1, <1>3, <1>7, <1>8 DEF StagesTold
<1>10. entered' \in Seq(Stages) /\ EnteredOnce'
  <2>1. entered \in Seq(Stages) /\ entered' = entered
    BY <1>1 DEF TypeOK, StagingFails
  <2>2. \A i \in DOMAIN entered : entered[i] \in Stages
    BY <2>1
  <2>3. \A s \in Stages : stage[s].at # "none" => stage'[s].at # "none"
    BY <1>3, <1>4
  <2> QED BY <1>1, <2>1, <2>2, <2>3 DEF EnteredOnce
<1>11. Moved(c, "cleanup", "other")
  BY <1>1, FailsMoves DEF StagingFails, RunStages, UnderWay, Made, OfClosure, Causes
<1>12. Placed(c)'
  BY <1>11 DEF Moved, Placed
<1>13. FinalLast'
  BY <1>2, <1>4, <1>8 DEF FinalLast
<1>14. run[c].at \in OfClosure /\ "cleanup" \in OfClosure
  BY DEF StagingFails, OfClosure
<1>15. broker \in Brokers /\ broker' = broker
  BY <1>1 DEF TypeOK, StagingFails
<1>16. \A d \in Calls \ {c} : broker'.by = d /\ BrokerAlive' => broker.by = d /\ BrokerAlive
  BY <1>15 DEF BrokerAlive
<1> QED BY <1>8, <1>9, <1>10, <1>11, <1>12, <1>13, <1>14, <1>15, <1>16, MadeMoves DEF StagingFails, Made

\* A broker starts before any stage does.
LEMMA PreflightKeeps ==
  ASSUME IInv, NEW c \in Calls, Preflight(c)
  PROVE  IInv'
<1> DEFINE b == [NoBroker EXCEPT !.by = c, !.state = "acquiring"]
<1>1. TypeOK /\ StagesTold /\ EnteredOnce /\ InOrder
  BY DEF IInv
<1>2. \A s \in Stages : stage[s] = NoStage
  BY <1>1 DEF InOrder, Placed, Preflight
<1>3. StageKept /\ entered' = entered /\ stage' = stage
  BY <1>1, StageStays DEF Preflight, stages
<1>4. stage' \in [Stages -> StageRecords] /\ \A s \in Stages : FirstTold(stage'[s])
  BY <1>3 DEF StageKept
<1>5. entered' \in Seq(Stages) /\ EnteredOnce'
  BY <1>1, <1>3, EntriesStay
<1>6. b \in Brokers /\ b.by = c
  BY DEF NoBroker, Brokers
<1>7. broker' = b
  BY DEF Preflight
<1> HIDE DEF b
<1>8. broker' \in Brokers /\ \A d \in Calls \ {c} : broker'.by # d
  BY <1>6, <1>7
<1>9. "wait" \in RunStages /\ run[c].cause \in Causes
  BY <1>1 DEF RunStages, UnderWay, Made, OfClosure, TypeOK, Runs
<1>10. Moved(c, "wait", run[c].cause)
  BY <1>1, <1>9, GoesMoves DEF Preflight
<1>11. Placed(c)'
  BY <1>2, <1>3, <1>10 DEF Moved, Placed
<1>12. FinalLast'
  BY <1>2, <1>3, Names DEF FinalLast, NoStage
<1>13. run[c].at \in OfClosure /\ "wait" \in OfClosure
  BY DEF Preflight, OfClosure
<1> QED BY <1>4, <1>5, <1>8, <1>10, <1>11, <1>12, <1>13, MadeMoves DEF Preflight, Made, stages

\* A stage starts for a call under way: what is behind it stays.
LEMMA StageStarts ==
  ASSUME IInv, NEW c \in Calls, run[c].at \in Made, NEW s \in Stages, run[c].at # s, s \in Made, Start(s),
         Goes(c, s), UNCHANGED <<kind, launch, files, lock, broker>>,
         s \in OfClosure <=> run[c].at \in OfClosure,
         s = "final" => broker.state = "exit0" /\ "scenario" \in broker.files /\ Believed("discovery"),
         s # "final" => stage["final"] = NoStage
  PROVE  IInv'
<1>1. TypeOK /\ StagesTold /\ EnteredOnce
  BY DEF IInv
<1>2. "discovery" \in Stages /\ "final" \in Stages /\ s \in {"discovery", "final", "diagnostic"}
  BY Names
<1>3. /\ stage' \in [Stages -> StageRecords]
      /\ \A t \in Stages \ {s} : stage'[t] = stage[t]
      /\ \A t \in Stages : FirstTold(stage'[t])
      /\ entered' \in Seq(Stages) /\ EnteredOnce'
  BY <1>1, Starts
<1>4. s \in RunStages /\ run[c].cause \in Causes
  BY <1>1 DEF RunStages, UnderWay, TypeOK, Runs
<1>5. Moved(c, s, run[c].cause)
  BY <1>1, <1>4, GoesMoves
<1>6. s = "final" => Believed("discovery")'
  BY <1>2, <1>3 DEF Believed
<1>7. Placed(c)'
  BY <1>2, <1>5, <1>6 DEF Moved, Placed
<1>8. FinalLast'
  BY <1>2, <1>3, <1>6 DEF FinalLast, NoStage
<1>9. broker' \in Brokers /\ \A d \in Calls \ {c} : broker'.by = d /\ BrokerAlive' => broker.by = d /\ BrokerAlive
  BY <1>1 DEF TypeOK, BrokerAlive
<1> QED BY <1>3, <1>5, <1>7, <1>8, <1>9, MadeMoves

\* The discovery worker is the first.
LEMMA DiscoverKeeps ==
  ASSUME IInv, NEW c \in Calls, Discover(c)
  PROVE  IInv'
<1>1. "discovery" \in Stages /\ "final" \in Stages
  BY Names
<1>2. stage["final"] = NoStage
  BY <1>1 DEF IInv, InOrder, Placed, Discover
<1>3. run[c].at = "discover" /\ "discover" \in OfClosure /\ "discovery" \in OfClosure
  BY DEF Discover, OfClosure
<1> QED BY <1>1, <1>2, <1>3, StageStarts DEF Discover, Made

\* The offline worker comes after the capture and a believed discovery.
LEMMA RunOfflineKeeps ==
  ASSUME IInv, NEW c \in Calls, RunOffline(c)
  PROVE  IInv'
<1>1. "final" \in Stages
  BY Names
<1>2. run[c].at = "offline" /\ "offline" \in OfClosure /\ "final" \in OfClosure
  BY DEF RunOffline, OfClosure
<1>3. broker.state = "exit0" /\ "scenario" \in broker.files /\ Believed("discovery")
  BY <1>2 DEF IInv, InOrder, Placed
<1> QED BY <1>1, <1>2, <1>3, StageStarts DEF RunOffline, Made

\* A diagnostic has no other stage.
LEMMA DispatchKeeps ==
  ASSUME IInv, NEW c \in Calls, Dispatch(c)
  PROVE  IInv'
<1>1. "diagnostic" \in Stages /\ "final" \in Stages
  BY Names
<1>2. stage["final"] = NoStage
  BY <1>1 DEF IInv, InOrder, Placed, Dispatch
<1>3. /\ run[c].at = "dispatch" /\ "dispatch" \in OfDiagnostic /\ "diagnostic" \in OfDiagnostic
      /\ "dispatch" \notin OfClosure /\ "diagnostic" \notin OfClosure
  BY DEF Dispatch, OfDiagnostic, OfClosure
<1> QED BY <1>1, <1>2, <1>3, StageStarts DEF Dispatch, Made

\* A step of a worker, of a supervisor or of the broker, beside the calls.
LEMMA Beside ==
  ASSUME IInv, StageKept, BrokerKept, entered' = entered, UNCHANGED <<kind, launch, run, files, lock>>
  PROVE  IInv'
<1>1. TypeOK /\ OfItsKind /\ AnswersTrue
  BY DEF IInv
<1>2. evidence' = evidence /\ out' = out /\ consent' = consent
  BY DEF files
<1>3. run' \in [Calls -> Runs] /\ launch' \in [Calls -> Launches] /\ lock' \in Calls \cup {None}
  BY <1>1 DEF TypeOK
<1>4. ASSUME NEW c \in Calls
      PROVE  /\ OwnKind(c)'
             /\ launch'[c].gone => ~GroupRunning(c)'
  <2>1. OwnKind(c)'
    BY <1>1, <1>2 DEF OfItsKind, OwnKind, Active, Launching
  <2>2. Active(c)' => Active(c)
    BY DEF Active
  <2>3. ~GroupRunning(c) => ~GroupRunning(c)'
    BY <1>2, <2>2, GroupStays
  <2> QED BY <1>1, <2>1, <2>3 DEF AnswersTrue
<1> QED BY <1>2, <1>3, <1>4, Quietly

\* Samples and the supervisor's steps.
LEMMA SupervisionKeeps ==
  ASSUME IInv, NEW c \in Calls, Samples(c) \/ Supervises(c)
  PROVE  IInv'
<1>1. TypeOK /\ StagesTold
  BY DEF IInv
<1>2. run[c].at \in Stages
  BY DEF Samples, Supervises
<1>3. StageKept /\ entered' = entered
  <2> DEFINE s == run[c].at
  <2>1. s \in Stages /\ (Sample(s) \/ LoopEnds(s) \/ Reap(s))
    BY <1>2 DEF Samples, Supervises, StageStep
  <2> HIDE DEF s
  <2> QED BY <1>1, <2>1, SampleKeepsStages, LoopEndsKeepsStages, ReapKeepsStages
<1>4. BrokerKept
  BY <1>1, BrokerStays DEF Samples, Supervises
<1> QED BY <1>3, <1>4, Beside DEF Samples, Supervises

\* The workers.
LEMMA WorkersKeep ==
  ASSUME IInv, NEW s \in Stages, Worker(s)
  PROVE  IInv'
<1>1. TypeOK /\ StagesTold
  BY DEF IInv
<1>2. StageKept /\ entered' = entered
  BY <1>1, WorkerKeepsStages DEF Worker
<1>3. BrokerKept
  BY <1>1, BrokerStays DEF Worker
<1> QED BY <1>2, <1>3, Beside DEF Worker

\* The broker.
LEMMA BrokersKeep ==
  ASSUME IInv, BrokerReady \/ BrokerFinished \/ BrokerCaptures \/ BrokerFails
  PROVE  IInv'
<1>1. TypeOK /\ StagesTold
  BY DEF IInv
<1>2. UNCHANGED <<kind, stage, entered, launch, run, files, lock>>
  BY DEF BrokerReady, BrokerFinished, BrokerCaptures, BrokerFails, stages
<1>3. broker.by \in Calls \cup {None} /\ broker \in Brokers
  BY <1>1 DEF TypeOK, Brokers
<1>4. BrokerKept
  <2>1. CASE BrokerReady
    BY <1>3, <2>1 DEF BrokerReady, BrokerKept, BrokerAlive, Brokers
  <2>2. CASE BrokerFinished
    BY <1>3, <2>2 DEF BrokerFinished, BrokerKept, BrokerAlive, Brokers
  <2>3. CASE BrokerCaptures
    BY <1>3, <2>3 DEF BrokerCaptures, BrokerKept, BrokerAlive, Brokers
  <2>4. CASE BrokerFails
    BY <1>3, <2>4 DEF BrokerFails, BrokerKept, BrokerAlive, Brokers
  <2> QED BY <2>1, <2>2, <2>3, <2>4
<1>5. StageKept
  BY <1>1, <1>2, StageStays
<1> QED BY <1>2, <1>4, <1>5, Beside

\* A judged stage goes on only when it is believed.
LEMMA JudgeKeeps ==
  ASSUME IInv, NEW c \in Calls, Judge(c)
  PROVE  IInv'
<1>1. TypeOK /\ StagesTold /\ InOrder
  BY DEF IInv
<1>2. PICK s \in {"discovery", "diagnostic"} :
        /\ run[c].at = s /\ stage[s].at \in {"measured", "raised"}
        /\ run' = [run EXCEPT ![c].cause = Judged(s),
                              ![c].at = IF s = "diagnostic" THEN "seal"
                                        ELSE IF Judged(s) = "none" THEN "broker" ELSE "cleanup"]
        /\ CloseStage(s, Judged(s))
  BY DEF Judge
<1>3. "discovery" \in Stages /\ s \in Stages
  BY Names
<1>4. /\ StageKept /\ Judged(s) \in Causes
      /\ Judged(s) = "none" =>
           /\ stage'[s].at = "believed" /\ stage'[s].first = "none"
           /\ stage'[s].worker = "exit0" /\ stage'[s].native = "complete"
  BY <1>1, <1>2, <1>3, Judging
<1> DEFINE cause == Judged(s)
           x == IF s = "diagnostic" THEN "seal" ELSE IF cause = "none" THEN "broker" ELSE "cleanup"
<1>5. x \in {"seal", "broker", "cleanup"} /\ x \in RunStages
  BY DEF RunStages, UnderWay, Made, OfClosure, OfDiagnostic
<1>6. /\ x = "seal" <=> s = "diagnostic"
      /\ x = "broker" => s = "discovery" /\ cause = "none"
      /\ x = "cleanup" => cause # "none"
  <2>1. s \in {"discovery", "diagnostic"}
    BY <1>2
  <2> HIDE DEF cause
  <2> QED BY <2>1
<1>7. run' = [run EXCEPT ![c].at = x, ![c].cause = cause]
  <2>1. run[c] \in Runs
    BY <1>1 DEF TypeOK
  <2> QED BY <1>1, <1>2, <2>1 DEF TypeOK, Runs
<1> HIDE DEF x, cause
<1>8. Moved(c, x, cause)
  BY <1>1, <1>4, <1>5, <1>7, FailsMoves DEF Fails, cause
<1>9. Placed(c)'
  BY <1>4, <1>5, <1>6, <1>8 DEF Moved, Placed, Believed, cause
<1>10. run[c].at \in Made /\ x \in Made /\ (x \in OfClosure <=> run[c].at \in OfClosure)
  BY <1>2, <1>5, <1>6 DEF Made, OfClosure, OfDiagnostic
<1>11. BrokerKept
  BY <1>1, BrokerStays DEF Judge
<1> QED BY <1>4, <1>8, <1>9, <1>10, <1>11, MadeMovesOn DEF Judge

\* So is the offline stage: api._execute verifies only what is believed, and clean.
LEMMA ExecutedKeeps ==
  ASSUME IInv, NEW c \in Calls, Executed(c)
  PROVE  IInv'
<1> DEFINE cause == Judged("final")
<1>1. TypeOK /\ StagesTold /\ InOrder
  BY DEF IInv
<1>2. "discovery" \in Stages /\ "final" \in Stages
  BY Names
<1>3. /\ StageKept /\ cause \in Causes
      /\ cause = "none" =>
           /\ stage'["final"].at = "believed" /\ stage'["final"].first = "none"
           /\ stage'["final"].worker = "exit0" /\ stage'["final"].native = "complete"
  BY <1>1, <1>2, Judging DEF Executed
<1>4. Believed("discovery")'
  <2>1. Believed("discovery")
    BY <1>1 DEF InOrder, Placed, Executed
  <2> QED BY <1>2, <1>3, <2>1, BelievedStays
<1>5. run[c].at = "final" /\ run[c].at \in Made /\ run[c].at \in OfClosure
  BY DEF Executed, Made, OfClosure
<1>6. BrokerKept
  BY <1>1, BrokerStays DEF Executed
<1>7. ASSUME NEW x \in {"verify", "cleanup"}, NEW k \in Causes, Moved(c, x, k),
             x = "verify" \/ k = "none" => k = "none" /\ cause = "none"
      PROVE  IInv'
  <2>1. x \in Made /\ x \in OfClosure
    BY DEF Made, OfClosure
  <2>2. Placed(c)'
    BY <1>3, <1>4, <1>7 DEF Moved, Placed, Believed
  <2> QED BY <1>3, <1>5, <1>6, <1>7, <2>1, <2>2, MadeMovesOn DEF Executed
<1>8. CASE Fails(c, "cleanup", "other")
  <2>1. "cleanup" \in RunStages /\ "other" \in Causes
    BY DEF RunStages, UnderWay, Made, OfClosure, Causes
  <2>2. Moved(c, "cleanup", "other")
    BY <1>1, <1>8, <2>1, FailsMoves
  <2> QED BY <1>7, <2>1, <2>2
<1>9. ASSUME NEW clean,
             run' = [run EXCEPT ![c].offline = IF clean THEN "clean" ELSE "unclean",
                                ![c].cause = IF cause = "none" /\ ~clean THEN "other" ELSE cause,
                                ![c].at = IF cause = "none" /\ clean THEN "verify" ELSE "cleanup"]
      PROVE  IInv'
  <2> DEFINE x == IF cause = "none" /\ clean THEN "verify" ELSE "cleanup"
             k == IF cause = "none" /\ ~clean THEN "other" ELSE cause
             o == IF clean THEN "clean" ELSE "unclean"
             r == [run[c] EXCEPT !.offline = o, !.cause = k, !.at = x]
  <2>1. x \in {"verify", "cleanup"} /\ k \in Causes /\ o \in {"none", "clean", "unclean"}
    BY <1>3 DEF Causes
  <2>2. x = "verify" \/ k = "none" => k = "none" /\ cause = "none"
    OBVIOUS
  <2>3. run' = [run EXCEPT ![c] = r]
    BY <1>9
  <2> HIDE DEF x, k, o
  <2>4. run[c] \in Runs
    BY <1>1 DEF TypeOK
  <2>5. x \in RunStages
    BY <2>1 DEF RunStages, UnderWay, Made, OfClosure
  <2>6. r \in Runs /\ r.at = x /\ r.op = run[c].op /\ r.cause = k
    BY <2>1, <2>4, <2>5 DEF Runs
  <2> HIDE DEF r
  <2>7. run' \in [Calls -> Runs] /\ run'[c] = r /\ \A d \in Calls \ {c} : run'[d] = run[d]
    BY <1>1, <2>3, <2>6, RunSet
  <2>8. Moved(c, x, k)
    BY <2>6, <2>7 DEF Moved
  <2> HIDE DEF cause
  <2> QED BY <1>7, <2>1, <2>2, <2>8
<1> QED BY <1>8, <1>9 DEF Executed

\* A call that has no consent yet moves, or begins.
Beginning(c) ==
  /\ run[c].at \in {"idle", "begin", "lock"} /\ run'[c].at \in {"begin", "lock", "issue"}
  /\ run' \in [Calls -> Runs] /\ \A d \in Calls \ {c} : run'[d] = run[d]
  /\ run'[c].op \in (IF kind = "closure" THEN Closures ELSE Diagnostics)
  /\ launch' \in [Calls -> Launches] /\ \A d \in Calls \ {c} : launch'[d] = launch[d]
  /\ launch[c].at \notin {"sweep", "report", "answered"}
  /\ \/ launch'[c] = launch[c] /\ launch[c].at # "spawn"
     \/ /\ launch[c].at = "spawn" /\ launch'[c].at = "wait"
        /\ launch'[c].op = launch[c].op /\ launch'[c].gone = launch[c].gone
  /\ lock' \in Calls \cup {None} /\ UNCHANGED <<kind, stage, entered, evidence, out, consent, broker>>

\* It has nothing, and nothing is answered for it.
LEMMA EarlyMoves ==
  ASSUME IInv, NEW c \in Calls, Beginning(c)
  PROVE  IInv'
<1>1. /\ TypeOK /\ StagesTold /\ EnteredOnce /\ OfItsKind /\ OfTheConsent /\ InOrder /\ ResultsTrue
      /\ AnswersTrue
  BY DEF IInv
<1>2. /\ stage' = stage /\ entered' = entered /\ kind' = kind /\ broker' = broker
      /\ evidence' = evidence /\ out' = out /\ consent' = consent
  BY DEF Beginning
<1>3. StageKept /\ BrokerKept
  BY <1>1, <1>2, StageStays, BrokerStays
<1>4. TypeOK'
  BY <1>1, <1>2 DEF TypeOK, Beginning
<1>5. StagesTold' /\ EnteredOnce'
  BY <1>1, <1>2 DEF StagesTold, EnteredOnce
<1>6. OfItsKind'
  <2>1. OwnKind(c)'
    <3>1. OwnKind(c)
      BY <1>1 DEF OfItsKind
    <3> QED BY <1>2, <3>1 DEF Beginning, OwnKind, Launching, OfClosure, OfDiagnostic
  <2>2. ASSUME NEW d \in Calls \ {c}
        PROVE  OwnKind(d)'
    BY <1>1, <1>2 DEF Beginning, OfItsKind, OwnKind, Launching, Active
  <2> QED BY <2>1, <2>2 DEF OfItsKind
<1>7. OfTheConsent'
  <2>1. HasConsent(c)'
    BY DEF Beginning, HasConsent, UnderWay, Made, OfClosure, OfDiagnostic
  <2>2. \A d \in Calls \ {c} : HasConsent(d)'
    BY <1>1, <1>2 DEF Beginning, OfTheConsent, HasConsent
  <2>3. \A o \in Ops : OutOfTheConsent(o)'
    BY <1>1, <1>2 DEF Beginning, OfTheConsent, OutOfTheConsent
  <2> QED BY <1>1, <1>2, <2>1, <2>2, <2>3 DEF OfTheConsent
<1>8. InOrder'
  <2>1. FinalLast' /\ \A d \in Calls \ {c} : Placed(d)'
    BY <1>1, <1>3, OrderStays DEF Beginning
  <2>2. Placed(c)'
    BY DEF Beginning, Placed
  <2> QED BY <2>1, <2>2 DEF InOrder
<1>9. ResultsTrue'
  BY <1>1, <1>2, <1>3, ResultsStay
<1>10. AnswersTrue'
  <2>1. ASSUME NEW d \in Calls \ {c}, ~GroupRunning(d)
        PROVE  ~GroupRunning(d)'
    BY <1>2, <1>3, <2>1, GroupStays DEF Beginning, Active
  <2>2. ASSUME NEW o \in Ops
        PROVE  AnsweredBy(o)'
    <3>1. AnsweredBy(o)
      BY <1>1 DEF AnswersTrue
    <3>2. CASE evidence[o].answer = NoResult
      BY <1>2, <3>1, <3>2, Said DEF AnsweredBy
    <3>3. CASE evidence[o].answer # NoResult
      <4>1. PICK d \in Calls : d = evidence[o].by /\ launch[d].at = "answered"
        BY <1>1, <3>3, Answerer
      <4>2. d # c /\ launch'[d] = launch[d]
        BY <4>1 DEF Beginning
      <4>3. ~GroupRunning(d) => ~GroupRunning(d)'
        BY <2>1, <4>2
      <4> QED BY <1>2, <3>1, <4>1, <4>2, <4>3 DEF AnsweredBy
    <3> QED BY <3>2, <3>3
  <2>3. ASSUME NEW d \in Calls, launch'[d].gone
        PROVE  ~GroupRunning(d)'
    <3>1. ~launch[c].gone
      BY <1>1 DEF Beginning, OfItsKind, OwnKind
    <3>2. ~launch'[c].gone
      BY <3>1 DEF Beginning
    <3>3. d # c /\ launch'[d] = launch[d]
      BY <2>3, <3>2 DEF Beginning
    <3> QED BY <1>1, <2>1, <2>3, <3>3 DEF AnswersTrue
  <2> QED BY <2>2, <2>3 DEF AnswersTrue
<1> QED BY <1>4, <1>5, <1>6, <1>7, <1>8, <1>9, <1>10 DEF IInv

\* A call goes for the lock, and takes it.
LEMMA LocksKeep ==
  ASSUME IInv, NEW c \in Calls, Begin(c) \/ Acquire(c)
  PROVE  IInv'
<1>1. TypeOK /\ OfItsKind
  BY DEF IInv
<1>2. run[c].at \in {"begin", "lock"} /\ Active(c)
  BY DEF Begin, Acquire, Active
<1>3. PICK x \in {"lock", "issue"} : Goes(c, x)
  BY DEF Begin, Acquire
<1>4. Moved(c, x, run[c].cause)
  <2>1. x \in RunStages /\ run[c].cause \in Causes
    BY <1>1 DEF RunStages, TypeOK, Runs
  <2> QED BY <1>1, <1>3, <2>1, GoesMoves
<1>5. launch[c].at \notin {"spawn", "sweep", "report", "answered"}
  BY <1>1, <1>2, ActiveUnswept
<1>6. run[c].op \in (IF kind = "closure" THEN Closures ELSE Diagnostics)
  BY <1>1, <1>2 DEF OfItsKind, OwnKind
<1>7. lock' \in Calls \cup {None} /\ launch' \in [Calls -> Launches]
  BY <1>1 DEF TypeOK, Begin, Acquire
<1>8. launch' = launch /\ UNCHANGED <<kind, stage, entered, evidence, out, consent, broker>>
  BY DEF Begin, Acquire, stages, files
<1>9. Beginning(c)
  BY <1>2, <1>3, <1>4, <1>5, <1>6, <1>7, <1>8 DEF Beginning, Moved
<1> QED BY <1>9, EarlyMoves

\* A new child.
LEMMA NewRun ==
  ASSUME TypeOK, NEW o \in Ops
  PROVE  LET r == [NoRun EXCEPT !.at = "begin", !.op = o] IN r \in Runs /\ r.at = "begin" /\ r.op = o
BY DEF NoRun, Runs, RunStages, Causes

\* A call made inside a group.
LEMMA DirectKeeps ==
  ASSUME IInv, NEW c \in Calls, NEW o \in Ops, Direct(c, o)
  PROVE  IInv'
<1> DEFINE r == [NoRun EXCEPT !.at = "begin", !.op = o]
<1>1. TypeOK
  BY DEF IInv
<1>2. r \in Runs /\ r.at = "begin" /\ r.op = o
  BY <1>1, NewRun
<1>3. run' = [run EXCEPT ![c] = r]
  BY DEF Direct
<1> HIDE DEF r
<1>4. run' \in [Calls -> Runs] /\ run'[c] = r /\ \A d \in Calls \ {c} : run'[d] = run[d]
  BY <1>1, <1>2, <1>3, RunSet
<1>5. /\ launch' = launch /\ launch' \in [Calls -> Launches] /\ lock' \in Calls \cup {None}
      /\ run[c].at = "idle" /\ launch[c].at = "idle"
      /\ o \in (IF kind = "closure" THEN Closures ELSE Diagnostics)
      /\ UNCHANGED <<kind, stage, entered, evidence, out, consent, broker>>
  BY <1>1 DEF TypeOK, Direct, stages, files
<1>6. Beginning(c)
  BY <1>2, <1>4, <1>5 DEF Beginning
<1> QED BY <1>6, EarlyMoves

\* A call that ends, of itself or killed, leaves its files and no one to judge its stages.
LEMMA EndingsKeep ==
  ASSUME IInv, NEW c \in Calls, Active(c), Ends(c), UNCHANGED <<kind, entered, launch, files, broker>>,
         StageKept
  PROVE  IInv'
<1>1. TypeOK /\ StagesTold /\ OfItsKind /\ AnswersTrue
  BY DEF IInv
<1>2. evidence' = evidence /\ out' = out /\ consent' = consent
  BY DEF files
<1>3. Gone(c, "ended") /\ lock' \in Calls \cup {None}
  BY <1>1, EndsForgets
<1>4. /\ run' \in [Calls -> Runs] /\ run'[c].at = "ended"
      /\ \A d \in Calls \ {c} : run'[d] = run[d]
  BY <1>3 DEF Gone
<1>5. BrokerKept
  BY <1>1, BrokerStays
<1>6. launch[c].at \notin {"spawn", "sweep", "report", "answered"} /\ ~launch[c].gone
  BY <1>1, ActiveUnswept
<1>7. ASSUME NEW d \in Calls
      PROVE  /\ run'[d] = run[d] \/ (Active(d) /\ run'[d].at = "ended")
             /\ OwnKind(d)'
             /\ launch'[d].gone => ~GroupRunning(d)'
  <2>1. CASE d = c
    <3>1. OwnKind(c)'
      BY <1>1, <1>2, <1>4, <1>6 DEF OfItsKind, OwnKind, Active, Launching, OfClosure, OfDiagnostic
    <3> QED BY <1>4, <1>6, <2>1, <3>1
  <2>2. CASE d # c
    <3>1. OwnKind(d)' /\ (Active(d)' => Active(d))
      BY <1>1, <1>2, <1>4, <2>2 DEF OfItsKind, OwnKind, Active, Launching
    <3>2. ~GroupRunning(d) => ~GroupRunning(d)'
      BY <1>2, <1>5, <3>1, GroupStays
    <3> QED BY <1>1, <1>4, <2>2, <3>1, <3>2 DEF AnswersTrue
  <2> QED BY <2>1, <2>2
<1>8. launch' \in [Calls -> Launches]
  BY <1>1 DEF TypeOK
<1> QED BY <1>2, <1>3, <1>4, <1>5, <1>7, <1>8, Quietly

\* An error before the output or at its sealing, and SIGKILL.
LEMMA EndsKeep ==
  ASSUME IInv, NEW c \in Calls, Raises(c) \/ SaveFails(c) \/ RunKilled(c)
  PROVE  IInv'
<1>1. TypeOK /\ StagesTold
  BY DEF IInv
<1>2. Active(c) /\ Ends(c) /\ UNCHANGED <<kind, entered, launch, files, broker>>
  BY DEF Raises, SaveFails, RunKilled, Active, stages
<1>3. StageKept
  BY <1>1, StageStays, AbandonKeepsStages DEF Raises, SaveFails, RunKilled, stages
<1> QED BY <1>2, <1>3, EndingsKeep

\* The call that takes the consent has nothing yet, and nobody else has anything.
LEMMA ConsentKeeps ==
  ASSUME IInv, NEW c \in Calls, Consent(c)
  PROVE  IInv'
<1>1. /\ TypeOK /\ StagesTold /\ EnteredOnce /\ OfItsKind /\ OfTheConsent /\ InOrder /\ ResultsTrue
      /\ AnswersTrue
  BY DEF IInv
<1>2. /\ run[c].at = "issue" /\ consent = None /\ consent' = c /\ c # None
      /\ stage' = stage /\ entered' = entered /\ kind' = kind /\ launch' = launch
      /\ evidence' = evidence /\ out' = out /\ broker' = broker
  BY Names DEF Consent, stages
<1>3. Active(c)
  BY <1>2 DEF Active
<1>4. PICK x \in {"make", "ended"} :
        /\ run' \in [Calls -> Runs] /\ run'[c].at = x
        /\ \A d \in Calls \ {c} : run'[d] = run[d]
        /\ x = "make" => run'[c].op = run[c].op
        /\ lock' \in Calls \cup {None}
  <2>1. CASE Goes(c, "make") /\ UNCHANGED lock
    <3>1. "make" \in RunStages /\ run[c].cause \in Causes
      BY <1>1 DEF RunStages, UnderWay, TypeOK, Runs
    <3>2. Moved(c, "make", run[c].cause)
      BY <1>1, <2>1, <3>1, GoesMoves
    <3> QED BY <1>1, <2>1, <3>2 DEF Moved, TypeOK
  <2>2. CASE Ends(c)
    BY <1>1, <2>2, EndsForgets DEF Gone
  <2> QED BY <2>1, <2>2 DEF Consent
<1>5. \A s \in Stages : stage[s] = NoStage
  BY <1>1, <1>2 DEF OfTheConsent
<1>6. \A o \in Ops : out[o].by = None /\ out[o].result = NoResult
  BY <1>1, <1>2 DEF OfTheConsent, OutOfTheConsent
<1>7. TypeOK'
  BY <1>1, <1>2, <1>4 DEF TypeOK
<1>8. StagesTold' /\ EnteredOnce'
  BY <1>1, <1>2 DEF StagesTold, EnteredOnce
<1>9. OfItsKind'
  <2>1. OwnKind(c)'
    <3>1. OwnKind(c)
      BY <1>1 DEF OfItsKind
    <3>2. launch[c].at \notin {"spawn", "sweep", "report", "answered"}
      BY <1>1, <1>3, ActiveUnswept
    <3> QED BY <1>2, <1>3, <1>4, <3>1, <3>2 DEF OwnKind, Launching, Active, OfClosure, OfDiagnostic
  <2>2. ASSUME NEW d \in Calls \ {c}
        PROVE  OwnKind(d)'
    BY <1>1, <1>2, <1>4 DEF OfItsKind, OwnKind, Launching, Active
  <2> QED BY <2>1, <2>2 DEF OfItsKind
<1>10. OfTheConsent'
  <2>1. HasConsent(c)'
    BY <1>2, <1>4 DEF HasConsent, Made, OfClosure, OfDiagnostic
  <2>2. ASSUME NEW d \in Calls \ {c}
        PROVE  HasConsent(d)'
    <3>1. HasConsent(d) /\ d # None
      BY <1>1, Names DEF OfTheConsent
    <3>2. run'[d].at \notin UnderWay \cup {"returned"}
      BY <1>2, <1>4, <3>1 DEF HasConsent
    <3> QED BY <3>2 DEF HasConsent, UnderWay
  <2>3. \A o \in Ops : OutOfTheConsent(o)'
    BY <1>2, <1>6 DEF OutOfTheConsent
  <2> QED BY <1>2, <2>1, <2>2, <2>3 DEF OfTheConsent
<1>11. StageKept /\ BrokerKept
  BY <1>1, <1>2, StageStays, BrokerStays
<1>12. InOrder'
  <2>1. FinalLast' /\ \A d \in Calls \ {c} : Placed(d)'
    BY <1>1, <1>4, <1>11, OrderStays
  <2>2. Placed(c)'
    BY <1>2, <1>4, <1>5 DEF Placed
  <2> QED BY <2>1, <2>2 DEF InOrder
<1>13. ResultsTrue'
  BY <1>1, <1>2, <1>11, ResultsStay
<1>14. AnswersTrue'
  <2>1. ASSUME NEW d \in Calls \ {c}, ~GroupRunning(d)
        PROVE  ~GroupRunning(d)'
    BY <1>2, <1>4, <2>1 DEF GroupRunning, Active, OwnStages, BrokerAlive
  <2>2. UNCHANGED <<launch, evidence>> /\ \A o \in Ops : out'[o] = out[o]
    BY <1>2
  <2> QED BY <1>1, <1>3, <2>1, <2>2, AnswersStay
<1> QED BY <1>7, <1>8, <1>9, <1>10, <1>12, <1>13, <1>14 DEF IInv

\* The output is of the call that has the consent.
LEMMA MakeOutKeeps ==
  ASSUME IInv, NEW c \in Calls, MakeOut(c)
  PROVE  IInv'
<1> DEFINE op == run[c].op
<1>1. /\ TypeOK /\ StagesTold /\ EnteredOnce /\ OfItsKind /\ OfTheConsent /\ InOrder /\ ResultsTrue
      /\ AnswersTrue
  BY DEF IInv
<1>2. /\ run[c].at = "make" /\ out' = [out EXCEPT ![op].by = c]
      /\ stage' = stage /\ entered' = entered /\ kind' = kind /\ launch' = launch
      /\ evidence' = evidence /\ consent' = consent /\ broker' = broker
  BY DEF MakeOut, stages
<1>3. /\ consent = c /\ Active(c) /\ c # None
      /\ \A d \in Calls \ {c} : run[d].at \notin UnderWay \cup {"returned"}
      /\ \A o \in Ops : out[o].result = NoResult
  BY <1>1, <1>2, TheConsent, Names DEF UnderWay
<1>4. PICK x \in {"preflight", "dispatch", "ended"} :
        /\ run' \in [Calls -> Runs] /\ run'[c].at = x
        /\ \A d \in Calls \ {c} : run'[d] = run[d]
        /\ x # "ended" => run'[c].op = op
        /\ x = "preflight" => kind = "closure"
        /\ x = "dispatch" => kind = "diagnostic"
        /\ lock' \in Calls \cup {None}
  <2>1. ASSUME NEW x \in {"preflight", "dispatch"}, x = (IF kind = "closure" THEN "preflight" ELSE "dispatch"),
               Goes(c, x), UNCHANGED lock
        PROVE  /\ run' \in [Calls -> Runs] /\ run'[c].at = x
               /\ \A d \in Calls \ {c} : run'[d] = run[d]
               /\ run'[c].op = op
               /\ x = "preflight" => kind = "closure"
               /\ x = "dispatch" => kind = "diagnostic"
               /\ lock' \in Calls \cup {None}
    <3>1. x \in RunStages /\ run[c].cause \in Causes
      BY <1>1 DEF RunStages, UnderWay, Made, OfClosure, OfDiagnostic, TypeOK, Runs
    <3>2. Moved(c, x, run[c].cause)
      BY <1>1, <2>1, <3>1, GoesMoves
    <3> QED BY <1>1, <2>1, <3>2 DEF Moved, TypeOK
  <2>2. CASE Ends(c)
    BY <1>1, <2>2, EndsForgets DEF Gone
  <2> QED BY <2>1, <2>2 DEF MakeOut
<1>5. op \in (IF kind = "closure" THEN Closures ELSE Diagnostics) /\ op \in Ops
  BY <1>1, <1>3, Names DEF OfItsKind, OwnKind
<1>6. \A s \in Stages : stage[s] = NoStage
  BY <1>1, <1>2 DEF InOrder, Placed
<1> HIDE DEF op
<1>7. /\ out' \in [Ops -> [by : Calls \cup {None}, result : Results]]
      /\ out'[op].by = c /\ \A o \in Ops : out'[o].result = out[o].result
      /\ \A o \in Ops \ {op} : out'[o] = out[o]
  BY <1>1, <1>2, <1>5 DEF TypeOK
<1>8. TypeOK'
  BY <1>1, <1>2, <1>4, <1>7 DEF TypeOK
<1>9. StagesTold' /\ EnteredOnce'
  BY <1>1, <1>2 DEF StagesTold, EnteredOnce
<1>10. OfItsKind'
  <2>1. OwnKind(c)'
    <3>1. OwnKind(c)
      BY <1>1 DEF OfItsKind
    <3>2. launch[c].at \notin {"spawn", "sweep", "report", "answered"}
      BY <1>1, <1>3, ActiveUnswept
    <3> QED BY <1>2, <1>3, <1>4, <1>5, <3>1, <3>2 DEF OwnKind, Launching, Active, OfClosure, OfDiagnostic
  <2>2. ASSUME NEW d \in Calls \ {c}
        PROVE  OwnKind(d)'
    BY <1>1, <1>2, <1>4 DEF OfItsKind, OwnKind, Launching, Active
  <2> QED BY <2>1, <2>2 DEF OfItsKind
<1>11. OfTheConsent'
  <2>1. HasConsent(c)'
    BY <1>2, <1>3, <1>4, <1>7 DEF HasConsent, UnderWay, Made, OfClosure, OfDiagnostic
  <2>2. ASSUME NEW d \in Calls \ {c}
        PROVE  HasConsent(d)'
    BY <1>3, <1>4 DEF HasConsent, UnderWay
  <2>3. \A o \in Ops : OutOfTheConsent(o)'
    BY <1>1, <1>2, <1>3, <1>7 DEF OfTheConsent, OutOfTheConsent
  <2> QED BY <1>2, <1>3, <2>1, <2>2, <2>3 DEF OfTheConsent
<1>12. StageKept /\ BrokerKept
  BY <1>1, <1>2, StageStays, BrokerStays
<1>13. InOrder'
  <2>1. FinalLast' /\ \A d \in Calls \ {c} : Placed(d)'
    BY <1>1, <1>4, <1>12, OrderStays
  <2>2. Placed(c)'
    BY <1>2, <1>4, <1>6 DEF Placed
  <2> QED BY <2>1, <2>2 DEF InOrder
<1>14. ResultsTrue'
  <2>1. \A o \in Ops : ~out'[o].result.clean /\ out'[o].result.status = "none"
    BY <1>3, <1>7, Said
  <2> QED BY <2>1, Names DEF ResultsTrue
<1>15. AnswersTrue'
  <2>1. ASSUME NEW d \in Calls \ {c}, ~GroupRunning(d)
        PROVE  ~GroupRunning(d)'
    BY <1>2, <1>4, <2>1 DEF GroupRunning, Active, OwnStages, BrokerAlive
  <2>2. UNCHANGED <<launch, evidence>> /\ \A o \in Ops : out[o].result.status # "COMPLETED"
    BY <1>2, <1>3, Said
  <2> QED BY <1>1, <1>3, <2>1, <2>2, AnswersStay
<1> QED BY <1>8, <1>9, <1>10, <1>11, <1>13, <1>14, <1>15 DEF IInv

\* What a result says is so when it is written.
LEMMA SaveKeeps ==
  ASSUME IInv, NEW c \in Calls, Save(c)
  PROVE  IInv'
<1> DEFINE op == run[c].op
<1>1. /\ TypeOK /\ StagesTold /\ EnteredOnce /\ OfItsKind /\ OfTheConsent /\ InOrder /\ ResultsTrue
      /\ AnswersTrue
  BY DEF IInv
<1>2. /\ run[c].at \in {"save", "seal"} /\ run[c].at \in Made
      /\ stage' = stage /\ entered' = entered /\ kind' = kind /\ launch' = launch
      /\ evidence' = evidence /\ consent' = consent /\ broker' = broker
      /\ run' = [run EXCEPT ![c] = [NoRun EXCEPT !.at = "returned"]]
      /\ Leaves(c)
  BY DEF Save, stages, Made, OfClosure, OfDiagnostic
<1>3. /\ consent = c /\ Active(c) /\ c # None
      /\ \A d \in Calls \ {c} : run[d].at \notin UnderWay \cup {"returned"}
      /\ \A o \in Ops : out[o].result = NoResult
  BY <1>1, <1>2, TheConsent, Names DEF UnderWay
<1>4. out[op].by = c
  BY <1>1, <1>2 DEF OfTheConsent, HasConsent
<1>5. /\ run[c].at = "save" => op \in Closures
      /\ run[c].at = "seal" => op \in Diagnostics
      /\ op \in Ops
  BY <1>1, <1>2, <1>3, Names DEF OfItsKind, OwnKind, OfClosure, OfDiagnostic
<1>6. /\ stage["discovery"] \in StageRecords /\ stage["diagnostic"] \in StageRecords
      /\ NoStage.worker = "none"
  BY <1>1, Names DEF TypeOK, NoStage
<1>7. run[c].cause \in Causes
  BY <1>1 DEF TypeOK, Runs
<1>8. PICK r \in Results :
        /\ out' = [out EXCEPT ![op].result = r]
        /\ run[c].at = "save" /\ r.status = "COMPLETED" => Believed("discovery") /\ Believed("final")
        /\ run[c].at = "save" /\ r.clean =>
             /\ ~BrokerAlive /\ stage["discovery"].worker # "running"
             /\ stage["discovery"] # NoStage => Bridges(stage["discovery"]) = "CONFIRMED"
        /\ run[c].at = "seal" /\ r.clean => stage["diagnostic"].worker # "running"
  <2>1. CASE run[c].at = "save"
    <3> DEFINE r == ClosureResult(c)
    <3>1. out' = [out EXCEPT ![op].result = r]
      BY <2>1 DEF Save
    <3>2. r \in Results
      BY <1>7 DEF ClosureResult, Results, BrokerAlive, DiscoveryClean, ConfirmedClosed, Terminated
    <3>3. r.status = "COMPLETED" => Believed("discovery") /\ Believed("final")
      BY <1>1, <2>1 DEF ClosureResult, InOrder, Placed
    <3>4. r.clean => ~BrokerAlive /\ DiscoveryClean
      BY DEF ClosureResult
    <3>5. DiscoveryClean =>
            /\ stage["discovery"].worker # "running"
            /\ stage["discovery"] # NoStage => Bridges(stage["discovery"]) = "CONFIRMED"
      BY <1>6 DEF DiscoveryClean, ConfirmedClosed, Terminated
    <3> HIDE DEF r
    <3> QED BY <2>1, <3>1, <3>2, <3>3, <3>4, <3>5
  <2>2. CASE run[c].at = "seal"
    <3>1. PICK clean \in {FALSE, stage["diagnostic"] = NoStage \/ ConfirmedClosed(stage["diagnostic"])} :
            out' = [out EXCEPT ![op].result = DiagnosticResult(c, clean)]
      BY <2>2 DEF Save
    <3> DEFINE r == DiagnosticResult(c, clean)
    <3>2. clean \in BOOLEAN /\ (clean => stage["diagnostic"].worker # "running")
      BY <1>6, <3>1 DEF ConfirmedClosed, Terminated
    <3>3. r \in Results /\ r.clean = clean
      BY <1>7, <3>2 DEF DiagnosticResult, Results
    <3> HIDE DEF r
    <3> QED BY <2>2, <3>1, <3>2, <3>3 DEF r
  <2> QED BY <1>2, <2>1, <2>2
<1>9. /\ run' \in [Calls -> Runs] /\ run'[c].at = "returned"
      /\ \A d \in Calls \ {c} : run'[d] = run[d]
      /\ lock' \in Calls \cup {None}
  BY <1>1, <1>2, Forgets, LeavesLock DEF Gone, RunStages
<1> HIDE DEF op
<1>10. /\ out' \in [Ops -> [by : Calls \cup {None}, result : Results]]
       /\ out'[op].by = c /\ out'[op].result = r
       /\ \A o \in Ops \ {op} : out'[o] = out[o]
  <2>1. out[op] \in [by : Calls \cup {None}, result : Results]
    BY <1>1, <1>5 DEF TypeOK
  <2>2. [out[op] EXCEPT !.result = r] \in [by : Calls \cup {None}, result : Results]
    BY <2>1
  <2> QED BY <1>1, <1>4, <1>5, <1>8, <2>1, <2>2 DEF TypeOK
<1>11. TypeOK'
  BY <1>1, <1>2, <1>9, <1>10 DEF TypeOK
<1>12. StagesTold' /\ EnteredOnce'
  BY <1>1, <1>2 DEF StagesTold, EnteredOnce
<1>13. OfItsKind'
  <2>1. OwnKind(c)'
    <3>1. OwnKind(c)
      BY <1>1 DEF OfItsKind
    <3>2. launch[c].at \notin {"spawn", "sweep", "report", "answered"}
      BY <1>1, <1>3, ActiveUnswept
    <3> QED BY <1>2, <1>9, <3>1, <3>2 DEF OwnKind, Launching, Active, OfClosure, OfDiagnostic
  <2>2. ASSUME NEW d \in Calls \ {c}
        PROVE  OwnKind(d)'
    BY <1>1, <1>2, <1>9 DEF OfItsKind, OwnKind, Launching, Active
  <2> QED BY <2>1, <2>2 DEF OfItsKind
<1>14. OfTheConsent'
  <2>1. HasConsent(c)'
    BY <1>2, <1>3, <1>9 DEF HasConsent, Made, OfClosure, OfDiagnostic
  <2>2. ASSUME NEW d \in Calls \ {c}
        PROVE  HasConsent(d)'
    BY <1>3, <1>9 DEF HasConsent, UnderWay
  <2>3. \A o \in Ops : OutOfTheConsent(o)'
    BY <1>1, <1>2, <1>3, <1>9, <1>10 DEF OfTheConsent, OutOfTheConsent
  <2> QED BY <1>2, <1>3, <2>1, <2>2, <2>3 DEF OfTheConsent
<1>15. StageKept /\ BrokerKept
  BY <1>1, <1>2, StageStays, BrokerStays
<1>16. InOrder'
  <2>1. FinalLast' /\ \A d \in Calls \ {c} : Placed(d)'
    BY <1>1, <1>9, <1>15, OrderStays
  <2>2. Placed(c)'
    BY <1>9 DEF Placed
  <2> QED BY <2>1, <2>2 DEF InOrder
<1>17. ResultsTrue'
  <2>1. \A o \in Ops \ {op} : ~out'[o].result.clean /\ out'[o].result.status = "none"
    BY <1>3, <1>10, Said
  <2>2. /\ BrokerAlive' = BrokerAlive
        /\ Believed("discovery")' = Believed("discovery") /\ Believed("final")' = Believed("final")
    BY <1>2 DEF BrokerAlive, Believed
  <2>3. ASSUME NEW o \in Closures
        PROVE  /\ out'[o].result.status = "COMPLETED" => Believed("discovery")' /\ Believed("final")'
               /\ out'[o].result.clean =>
                    /\ ~BrokerAlive' /\ stage'["discovery"].worker # "running"
                    /\ stage'["discovery"] # NoStage => Bridges(stage'["discovery"]) = "CONFIRMED"
    <3>1. o \in Ops /\ (o = op => run[c].at = "save")
      BY <1>2, <1>5, Names
    <3> QED BY <1>2, <1>8, <1>10, <2>1, <2>2, <3>1
  <2>4. ASSUME NEW o \in Diagnostics
        PROVE  out'[o].result.clean => stage'["diagnostic"].worker # "running"
    <3>1. o \in Ops /\ (o = op => run[c].at = "seal")
      BY <1>2, <1>5, Names
    <3> QED BY <1>2, <1>8, <1>10, <2>1, <3>1
  <2> QED BY <2>3, <2>4 DEF ResultsTrue
<1>18. AnswersTrue'
  <2>1. ASSUME NEW d \in Calls \ {c}, ~GroupRunning(d)
        PROVE  ~GroupRunning(d)'
    BY <1>2, <1>9, <2>1 DEF GroupRunning, Active, OwnStages, BrokerAlive
  <2>2. UNCHANGED <<launch, evidence>> /\ \A o \in Ops : out[o].result.status # "COMPLETED"
    BY <1>2, <1>3, Said
  <2> QED BY <1>1, <1>3, <2>1, <2>2, AnswersStay
<1> QED BY <1>11, <1>12, <1>13, <1>14, <1>16, <1>17, <1>18 DEF IInv

-----------------------------------------------------------------------------
(* The launcher. *)

\* A launcher moves beside everything else, its child ended, or dies.
LEMMA LauncherMoves ==
  ASSUME IInv, NEW c \in Calls, NEW l \in Launches, Launching(c), launch' = [launch EXCEPT ![c] = l],
         StageKept, BrokerKept, entered' = entered, UNCHANGED <<kind, run, files, lock>>,
         l.at \in {"sweep", "report"} => l.op = launch[c].op /\ ~Active(c),
         l.at \notin {"spawn", "wait", "answered"},
         l.gone => l.at = "report" /\ ~GroupRunning(c)'
  PROVE  IInv'
<1>1. TypeOK /\ OfItsKind /\ AnswersTrue
  BY DEF IInv
<1>2. evidence' = evidence /\ out' = out /\ consent' = consent
  BY DEF files
<1>3. /\ launch' \in [Calls -> Launches] /\ launch'[c] = l
      /\ \A d \in Calls \ {c} : launch'[d] = launch[d]
  BY <1>1, LaunchSet
<1>4. ASSUME NEW d \in Calls
      PROVE  /\ launch'[d] = launch[d] \/ Launching(d)
             /\ OwnKind(d)'
             /\ launch'[d].gone => ~GroupRunning(d)'
  <2>1. CASE d = c
    <3>1. OwnKind(c)
      BY <1>1 DEF OfItsKind
    <3>2. OwnKind(c)'
      BY <1>2, <1>3, <3>1 DEF OwnKind, Active, Launching
    <3> QED BY <1>3, <2>1, <3>2
  <2>2. CASE d # c
    <3>1. OwnKind(d)' /\ (Active(d)' => Active(d))
      BY <1>1, <1>2, <1>3, <2>2 DEF OfItsKind, OwnKind, Active, Launching
    <3>2. ~GroupRunning(d) => ~GroupRunning(d)'
      BY <1>2, <3>1, GroupStays
    <3> QED BY <1>1, <1>3, <2>2, <3>1, <3>2 DEF AnswersTrue
  <2> QED BY <2>1, <2>2
<1>5. run' \in [Calls -> Runs] /\ lock' \in Calls \cup {None} /\ \A d \in Calls : run'[d] = run[d]
  BY <1>1 DEF TypeOK
<1> QED BY <1>2, <1>3, <1>4, <1>5, Quietly

\* A new launcher, and one that is done.
LEMMA NewLaunch ==
  ASSUME NEW x \in LaunchStages, NEW o \in Ops \cup {None}
  PROVE  LET l == [NoLaunch EXCEPT !.at = x, !.op = o]
         IN l \in Launches /\ l.at = x /\ l.op = o /\ ~l.gone
BY DEF NoLaunch, Launches

\* A launcher reserves the evidence of its operation.
LEMMA LaunchKeeps ==
  ASSUME IInv, NEW c \in Calls, NEW o \in Ops, Launch(c, o)
  PROVE  IInv'
<1> DEFINE l == [NoLaunch EXCEPT !.at = "spawn", !.op = o]
<1>1. /\ TypeOK /\ StagesTold /\ EnteredOnce /\ OfItsKind /\ OfTheConsent /\ InOrder /\ ResultsTrue
      /\ AnswersTrue
  BY DEF IInv
<1>2. /\ kind = "closure" /\ launch[c].at = "idle" /\ run[c].at = "idle" /\ o \in Closures
      /\ evidence[o].by = None /\ evidence' = [evidence EXCEPT ![o].by = c]
      /\ stage' = stage /\ entered' = entered /\ kind' = kind /\ run' = run /\ out' = out
      /\ consent' = consent /\ lock' = lock /\ broker' = broker
      /\ launch' = [launch EXCEPT ![c] = l]
  BY DEF Launch, stages
<1>3. l \in Launches /\ l.at = "spawn" /\ l.op = o /\ ~l.gone
  <2>1. "spawn" \in LaunchStages
    BY DEF LaunchStages
  <2> QED BY <2>1, NewLaunch
<1> HIDE DEF l
<1>4. /\ launch' \in [Calls -> Launches] /\ launch'[c] = l
      /\ \A d \in Calls \ {c} : launch'[d] = launch[d]
  BY <1>1, <1>2, <1>3, LaunchSet
<1>5. /\ evidence' \in [Ops -> [by : Calls \cup {None}, answer : Results]]
      /\ evidence'[o].by = c /\ evidence'[o].answer = evidence[o].answer
      /\ \A p \in Ops \ {o} : evidence'[p] = evidence[p]
  BY <1>1, <1>2 DEF TypeOK
<1>6. c # None
  BY Names
<1>7. TypeOK'
  BY <1>1, <1>2, <1>4, <1>5 DEF TypeOK
<1>8. StagesTold' /\ EnteredOnce' /\ ResultsTrue'
  BY <1>1, <1>2 DEF StagesTold, EnteredOnce, ResultsTrue, Believed, BrokerAlive
<1>9. OfTheConsent'
  BY <1>1, <1>2 DEF OfTheConsent, HasConsent, OutOfTheConsent
<1>10. InOrder'
  <2>1. StageKept /\ BrokerKept
    BY <1>1, <1>2, StageStays, BrokerStays
  <2>2. FinalLast' /\ \A d \in Calls : Placed(d)'
    BY <1>1, <1>2, <2>1, OrderStays
  <2> QED BY <2>2 DEF InOrder
<1>11. OfItsKind'
  <2>1. OwnKind(c)'
    BY <1>2, <1>3, <1>4, <1>5 DEF OwnKind, Active, Launching, OfClosure, OfDiagnostic
  <2>2. ASSUME NEW d \in Calls \ {c}
        PROVE  OwnKind(d)'
    <3>1. OwnKind(d) /\ d # None
      BY <1>1, Names DEF OfItsKind
    <3>2. Launching(d) => launch[d].op \in Ops /\ launch[d].op # o
      BY <1>2, <3>1, Names DEF OwnKind
    <3> QED BY <1>2, <1>4, <1>5, <3>1, <3>2 DEF OwnKind, Active, Launching
  <2> QED BY <2>1, <2>2 DEF OfItsKind
<1>12. AnswersTrue'
  <2>1. \A d \in Calls : GroupRunning(d)' = GroupRunning(d)
    BY <1>2 DEF GroupRunning, Active, OwnStages, BrokerAlive
  <2>2. ASSUME NEW p \in Ops
        PROVE  AnsweredBy(p)'
    <3>1. AnsweredBy(p)
      BY <1>1 DEF AnswersTrue
    <3>2. CASE evidence[p].answer = NoResult
      <4>1. evidence'[p].answer = NoResult
        BY <1>5, <3>2
      <4> QED BY <4>1, Said DEF AnsweredBy
    <3>3. CASE evidence[p].answer # NoResult
      <4>1. PICK d \in Calls : d = evidence[p].by /\ launch[d].at = "answered"
        BY <1>1, <3>3, Answerer
      <4>2. p # o /\ d # c
        BY <1>2, <3>1, <3>3, <4>1 DEF AnsweredBy
      <4>3. evidence'[p] = evidence[p] /\ launch'[d] = launch[d] /\ out' = out
        BY <1>2, <1>4, <1>5, <4>2
      <4> QED BY <2>1, <3>1, <4>1, <4>3 DEF AnsweredBy
    <3> QED BY <3>2, <3>3
  <2>3. ASSUME NEW d \in Calls, launch'[d].gone
        PROVE  ~GroupRunning(d)'
    BY <1>1, <1>3, <1>4, <2>1, <2>3 DEF AnswersTrue
  <2> QED BY <2>2, <2>3 DEF AnswersTrue
<1> QED BY <1>7, <1>8, <1>9, <1>10, <1>11, <1>12 DEF IInv

\* The child begins, or cannot be started.
LEMMA SpawnKeeps ==
  ASSUME IInv, NEW c \in Calls, Spawn(c)
  PROVE  IInv'
<1>1. TypeOK /\ StagesTold /\ OfItsKind
  BY DEF IInv
<1>2. /\ launch[c].at = "spawn" /\ Launching(c) /\ lock' = lock
      /\ UNCHANGED <<kind, stage, entered, evidence, out, consent, broker>>
  BY DEF Spawn, Launching, stages, files
<1>3. /\ run[c].at = "idle" /\ kind = "closure" /\ launch[c].op \in Closures /\ launch[c].op \in Ops
  BY <1>1, <1>2, Names DEF OfItsKind, OwnKind
<1>4. launch[c] \in Launches /\ lock' \in Calls \cup {None}
  BY <1>1, <1>2 DEF TypeOK
<1>5. CASE /\ run' = [run EXCEPT ![c] = [NoRun EXCEPT !.at = "begin", !.op = launch[c].op]]
           /\ launch' = [launch EXCEPT ![c].at = "wait"]
  <2> DEFINE o == launch[c].op
             r == [NoRun EXCEPT !.at = "begin", !.op = o]
             l == [launch[c] EXCEPT !.at = "wait"]
  <2>1. l \in Launches /\ l.at = "wait" /\ l.op = o /\ l.gone = launch[c].gone
    BY <1>4 DEF Launches, LaunchStages
  <2>2. launch' = [launch EXCEPT ![c] = l] /\ run' = [run EXCEPT ![c] = r]
    BY <1>5
  <2> HIDE DEF o, l
  <2>3. r \in Runs /\ r.at = "begin" /\ r.op = o
    BY <1>1, <1>3, NewRun DEF o
  <2> HIDE DEF r
  <2>4. run' \in [Calls -> Runs] /\ run'[c] = r /\ \A d \in Calls \ {c} : run'[d] = run[d]
    BY <1>1, <2>2, <2>3, RunSet
  <2>5. /\ launch' \in [Calls -> Launches] /\ launch'[c] = l
        /\ \A d \in Calls \ {c} : launch'[d] = launch[d]
    BY <1>1, <2>1, <2>2, LaunchSet
  <2>6. Beginning(c)
    BY <1>2, <1>3, <1>4, <2>1, <2>3, <2>4, <2>5 DEF Beginning, o
  <2> QED BY <2>6, EarlyMoves
<1>6. CASE launch' = [launch EXCEPT ![c].at = "report", ![c].stop = TRUE] /\ UNCHANGED run
  <2> DEFINE l == [launch[c] EXCEPT !.at = "report", !.stop = TRUE]
  <2>1. l \in Launches /\ l.at = "report" /\ l.op = launch[c].op /\ l.gone = launch[c].gone
    BY <1>4 DEF Launches, LaunchStages
  <2>2. launch' = [launch EXCEPT ![c] = l]
    BY <1>6
  <2> HIDE DEF l
  <2>3. StageKept /\ BrokerKept /\ UNCHANGED <<kind, run, files, lock>>
    BY <1>1, <1>2, <1>6, StageStays, BrokerStays DEF files
  <2>4. ~Active(c)
    BY <1>3 DEF Active
  <2>5. ~launch[c].gone
    BY <1>1, <1>2 DEF OfItsKind, OwnKind
  <2> QED BY <1>2, <2>1, <2>2, <2>3, <2>4, <2>5, LauncherMoves
<1> QED BY <1>5, <1>6 DEF Spawn

\* A limit of the child kills its group, and with it the child.
LEMMA CapturedKeeps ==
  ASSUME IInv, NEW c \in Calls, Captured(c)
  PROVE  IInv'
<1>1. TypeOK /\ StagesTold /\ OfItsKind /\ AnswersTrue
  BY DEF IInv
<1>2. launch[c].at = "wait" /\ Launching(c) /\ UNCHANGED <<evidence, out, consent>>
  BY DEF Captured, Launching, files
<1>3. launch[c] \in Launches /\ ~launch[c].gone
  BY <1>1, <1>2 DEF TypeOK, OfItsKind, OwnKind
<1>4. CASE /\ ~Active(c)
           /\ launch' = [launch EXCEPT ![c].at = "sweep"]
           /\ UNCHANGED <<stages, broker, run, lock>>
  <2> DEFINE l == [launch[c] EXCEPT !.at = "sweep"]
  <2>1. l \in Launches /\ l.at = "sweep" /\ l.op = launch[c].op /\ ~l.gone
    BY <1>3 DEF Launches, LaunchStages
  <2>2. launch' = [launch EXCEPT ![c] = l]
    BY <1>4
  <2> HIDE DEF l
  <2>3. StageKept /\ BrokerKept /\ entered' = entered /\ UNCHANGED <<kind, run, files, lock>>
    BY <1>1, <1>2, <1>4, StageStays, BrokerStays DEF files, stages
  <2> QED BY <1>2, <1>4, <2>1, <2>2, <2>3, LauncherMoves
<1>5. CASE /\ Active(c)
           /\ launch' = [launch EXCEPT ![c].at = "sweep", ![c].stop = TRUE]
           /\ Ends(c) /\ KillGroup(c)
  <2> DEFINE l == [launch[c] EXCEPT !.at = "sweep", !.stop = TRUE]
  <2>1. l \in Launches /\ l.at = "sweep" /\ l.op = launch[c].op /\ ~l.gone
    BY <1>3 DEF Launches, LaunchStages
  <2>2. launch' = [launch EXCEPT ![c] = l]
    BY <1>5
  <2> HIDE DEF l
  <2>3. /\ launch' \in [Calls -> Launches] /\ launch'[c] = l
        /\ \A d \in Calls \ {c} : launch'[d] = launch[d]
    BY <1>1, <2>1, <2>2, LaunchSet
  <2>4. StageKept /\ BrokerKept /\ kind' = kind /\ entered' = entered
    BY <1>1, <1>5, KillsGroup
  <2>5. /\ run' \in [Calls -> Runs] /\ run'[c].at = "ended"
        /\ \A d \in Calls \ {c} : run'[d] = run[d]
        /\ lock' \in Calls \cup {None}
    BY <1>1, <1>5, EndsForgets DEF Gone
  <2>6. ASSUME NEW d \in Calls
        PROVE  /\ run'[d] = run[d] \/ (Active(d) /\ run'[d].at = "ended")
               /\ launch'[d] = launch[d] \/ Launching(d)
               /\ OwnKind(d)'
               /\ launch'[d].gone => ~GroupRunning(d)'
    <3>1. CASE d = c
      <4>1. OwnKind(c)
        BY <1>1 DEF OfItsKind
      <4>2. OwnKind(c)'
        BY <1>2, <2>1, <2>3, <2>4, <2>5, <4>1 DEF OwnKind, Active, Launching, OfClosure, OfDiagnostic
      <4> QED BY <1>2, <1>5, <2>1, <2>3, <2>5, <3>1, <4>2
    <3>2. CASE d # c
      <4>1. OwnKind(d)' /\ (Active(d)' => Active(d))
        BY <1>1, <1>2, <2>3, <2>4, <2>5, <3>2 DEF OfItsKind, OwnKind, Active, Launching
      <4>2. ~GroupRunning(d) => ~GroupRunning(d)'
        BY <1>2, <2>4, <4>1, GroupStays
      <4> QED BY <1>1, <2>3, <2>5, <3>2, <4>1, <4>2 DEF AnswersTrue
    <3> QED BY <3>1, <3>2
  <2> QED BY <1>2, <2>3, <2>4, <2>5, <2>6, Quietly
<1> QED BY <1>4, <1>5 DEF Captured

\* After a sweep that saw the group gone, nothing of it runs.
LEMMA SweepKeeps ==
  ASSUME IInv, NEW c \in Calls, Sweep(c)
  PROVE  IInv'
<1>1. TypeOK /\ StagesTold /\ OfItsKind
  BY DEF IInv
<1>2. launch[c].at = "sweep" /\ Launching(c) /\ UNCHANGED <<run, files, lock>>
  BY DEF Sweep, Launching
<1>3. launch[c] \in Launches /\ ~launch[c].gone /\ ~Active(c)
  BY <1>1, <1>2 DEF TypeOK, OfItsKind, OwnKind
<1>4. CASE /\ KillGroup(c)
           /\ launch' = [launch EXCEPT ![c].at = "report", ![c].gone = TRUE, ![c].stop = @ \/ GroupRunning(c)]
  <2> DEFINE x == launch[c].stop \/ GroupRunning(c)
             l == [launch[c] EXCEPT !.at = "report", !.gone = TRUE, !.stop = x]
  <2>1. x \in BOOLEAN /\ launch' = [launch EXCEPT ![c] = l]
    BY <1>4
  <2> HIDE DEF x
  <2>2. l \in Launches /\ l.at = "report" /\ l.op = launch[c].op
    BY <1>3, <2>1 DEF Launches, LaunchStages
  <2> HIDE DEF l
  <2>3. /\ StageKept /\ BrokerKept /\ kind' = kind /\ entered' = entered
        /\ \A s \in OwnStages(c) : stage'[s].worker # "running"
        /\ ~(broker'.by = c /\ broker'.state \in {"acquiring", "ready", "finished"})
    BY <1>1, <1>4, KillsGroup
  <2>4. ~GroupRunning(c)'
    <3>1. OwnStages(c)' = OwnStages(c) /\ ~Active(c)'
      BY <1>2, <1>3 DEF OwnStages, files, Active
    <3> QED BY <2>3, <3>1 DEF GroupRunning, BrokerAlive
  <2> QED BY <1>2, <1>3, <2>1, <2>2, <2>3, <2>4, LauncherMoves
<1>5. CASE /\ launch' = [launch EXCEPT ![c].at = "report", ![c].stop = TRUE]
           /\ UNCHANGED <<stages, broker>>
  <2> DEFINE l == [launch[c] EXCEPT !.at = "report", !.stop = TRUE]
  <2>1. l \in Launches /\ l.at = "report" /\ l.op = launch[c].op /\ ~l.gone
    BY <1>3 DEF Launches, LaunchStages
  <2>2. launch' = [launch EXCEPT ![c] = l]
    BY <1>5
  <2> HIDE DEF l
  <2>3. StageKept /\ BrokerKept /\ entered' = entered /\ kind' = kind
    BY <1>1, <1>5, StageStays, BrokerStays DEF stages
  <2> QED BY <1>2, <1>3, <2>1, <2>2, <2>3, LauncherMoves
<1> QED BY <1>4, <1>5 DEF Sweep

\* A killed launcher forgets.
LEMMA LauncherKilledKeeps ==
  ASSUME IInv, NEW c \in Calls, LauncherKilled(c)
  PROVE  IInv'
<1> DEFINE l == [NoLaunch EXCEPT !.at = "ended"]
<1>1. TypeOK /\ StagesTold
  BY DEF IInv
<1>2. l \in Launches /\ l.at = "ended" /\ ~l.gone
  BY DEF NoLaunch, Launches, LaunchStages
<1>3. launch' = [launch EXCEPT ![c] = l] /\ Launching(c)
  BY DEF LauncherKilled
<1> HIDE DEF l
<1>4. StageKept /\ BrokerKept /\ entered' = entered /\ UNCHANGED <<kind, run, files, lock>>
  BY <1>1, StageStays, BrokerStays DEF LauncherKilled, stages
<1> QED BY <1>2, <1>3, <1>4, LauncherMoves

\* The answer says what the child's stored result says, and no more.
LEMMA ReportKeeps ==
  ASSUME IInv, NEW c \in Calls, Report(c)
  PROVE  IInv'
<1>1. /\ TypeOK /\ StagesTold /\ EnteredOnce /\ OfItsKind /\ OfTheConsent /\ InOrder /\ ResultsTrue
      /\ AnswersTrue
  BY DEF IInv
<1>2. PICK o \in Closures : o = launch[c].op /\ evidence[o].by = c /\ kind = "closure" /\ ~Active(c)
  BY <1>1 DEF OfItsKind, OwnKind, Report, Launching
<1> DEFINE l == [NoLaunch EXCEPT !.at = "answered", !.op = o]
<1>3. /\ launch[c].at = "report" /\ Launching(c)
      /\ stage' = stage /\ entered' = entered /\ kind' = kind /\ run' = run /\ out' = out
      /\ consent' = consent /\ lock' = lock /\ broker' = broker
      /\ launch' = [launch EXCEPT ![c] = l]
  BY <1>2 DEF Report, Launching, stages
<1>4. c # None /\ launch[c] \in Launches /\ o \in Ops
  BY <1>1, <1>2, Names DEF TypeOK
<1>5. PICK a \in Results :
        /\ evidence' = [evidence EXCEPT ![o].answer = a]
        /\ a.clean => launch[c].gone
        /\ a.status = "COMPLETED" => a.clean /\ out[o].by = c /\ out[o].result.status = "COMPLETED"
        /\ a.status # "none"
  <2> DEFINE child == out[o].result
             clean == launch[c].gone /\ Linked(c) /\ child.clean
             completed == clean /\ ~launch[c].stop /\ child.status = "COMPLETED"
             status == IF completed THEN "COMPLETED" ELSE "STOP"
             cause == IF launch[c].stop THEN "stop" ELSE IF Linked(c) THEN child.cause ELSE "unlinked"
             a == [status |-> status, clean |-> clean, cause |-> cause]
  <2>1. evidence' = [evidence EXCEPT ![o].answer = a]
    BY <1>2 DEF Report
  <2>2. child \in Results
    BY <1>1, <1>4 DEF TypeOK
  <2>3. /\ clean \in BOOLEAN /\ (clean => launch[c].gone)
        /\ status \in {"STOP", "COMPLETED"}
        /\ status = "COMPLETED" => clean /\ out[o].by = c /\ child.status = "COMPLETED"
    BY <1>2 DEF Linked
  <2>4. cause \in Causes
    BY <2>2 DEF Results, Causes
  <2> HIDE DEF clean, status, cause
  <2>5. a \in Results
    BY <2>3, <2>4 DEF Results
  <2> QED BY <2>1, <2>3, <2>5
<1>6. l \in Launches /\ l.at = "answered" /\ ~l.gone
  BY <1>4 DEF NoLaunch, Launches, LaunchStages
<1> HIDE DEF l
<1>7. /\ launch' \in [Calls -> Launches] /\ launch'[c] = l
      /\ \A d \in Calls \ {c} : launch'[d] = launch[d]
  BY <1>1, <1>2, <1>3, <1>6, LaunchSet
<1>8. /\ evidence' \in [Ops -> [by : Calls \cup {None}, answer : Results]]
      /\ evidence'[o].by = c /\ evidence'[o].answer = a
      /\ \A p \in Ops \ {o} : evidence'[p] = evidence[p]
      /\ \A p \in Ops : evidence'[p].by = evidence[p].by
  <2>1. evidence[o] \in [by : Calls \cup {None}, answer : Results]
    BY <1>1, <1>4 DEF TypeOK
  <2>2. [evidence[o] EXCEPT !.answer = a] \in [by : Calls \cup {None}, answer : Results]
    BY <2>1
  <2> QED BY <1>1, <1>2, <1>3, <1>4, <1>5, <2>1, <2>2 DEF TypeOK
<1>9. TypeOK'
  BY <1>1, <1>2, <1>3, <1>7, <1>8 DEF TypeOK
<1>10. StagesTold' /\ EnteredOnce' /\ ResultsTrue'
  BY <1>1, <1>2, <1>3 DEF StagesTold, EnteredOnce, ResultsTrue, Believed, BrokerAlive
<1>11. OfTheConsent'
  BY <1>1, <1>2, <1>3 DEF OfTheConsent, HasConsent, OutOfTheConsent
<1>12. InOrder'
  <2>1. StageKept /\ BrokerKept
    BY <1>1, <1>2, <1>3, StageStays, BrokerStays
  <2>2. FinalLast' /\ \A d \in Calls : Placed(d)'
    BY <1>1, <1>2, <1>3, <2>1, OrderStays
  <2> QED BY <2>2 DEF InOrder
<1>13. OfItsKind'
  <2>1. OwnKind(c)'
    <3>1. OwnKind(c)
      BY <1>1 DEF OfItsKind
    <3> QED BY <1>2, <1>3, <1>6, <1>7, <3>1 DEF OwnKind, Active, Launching
  <2>2. ASSUME NEW d \in Calls \ {c}
        PROVE  OwnKind(d)'
    <3>1. OwnKind(d)
      BY <1>1 DEF OfItsKind
    <3>2. Launching(d) => launch[d].op \in Ops
      BY <3>1, Names DEF OwnKind
    <3> QED BY <1>2, <1>3, <1>7, <1>8, <3>1, <3>2 DEF OwnKind, Active, Launching
  <2> QED BY <2>1, <2>2 DEF OfItsKind
<1>14. AnswersTrue'
  <2>1. \A d \in Calls : GroupRunning(d)' = GroupRunning(d)
    BY <1>2, <1>3 DEF GroupRunning, Active, OwnStages, BrokerAlive
  <2>2. a # NoResult
    BY <1>5, Said
  <2>3. AnsweredBy(o)'
    <3>1. a.clean => ~GroupRunning(c)'
      BY <1>1, <1>5, <2>1 DEF AnswersTrue
    <3>2. evidence'[o].by = c /\ evidence'[o].answer = a /\ launch'[c].at = "answered" /\ out' = out
      BY <1>2, <1>3, <1>6, <1>7, <1>8
    <3> QED BY <1>4, <1>5, <3>1, <3>2 DEF AnsweredBy
  <2>4. ASSUME NEW p \in Ops \ {o}
        PROVE  AnsweredBy(p)'
    <3>1. AnsweredBy(p)
      BY <1>1 DEF AnswersTrue
    <3>2. CASE evidence[p].answer = NoResult
      <4>1. evidence'[p].answer = NoResult
        BY <1>8, <3>2
      <4> QED BY <4>1, Said DEF AnsweredBy
    <3>3. CASE evidence[p].answer # NoResult
      <4>1. PICK d \in Calls : d = evidence[p].by /\ launch[d].at = "answered"
        BY <1>1, <3>3, Answerer
      <4>2. evidence'[p] = evidence[p] /\ launch'[d] = launch[d] /\ out' = out
        BY <1>2, <1>3, <1>7, <1>8, <4>1
      <4> QED BY <2>1, <3>1, <4>1, <4>2 DEF AnsweredBy
    <3> QED BY <3>2, <3>3
  <2>5. ASSUME NEW d \in Calls, launch'[d].gone
        PROVE  ~GroupRunning(d)'
    BY <1>1, <1>6, <1>7, <2>1, <2>5 DEF AnswersTrue
  <2>6. \A p \in Ops : AnsweredBy(p)'
    BY <2>3, <2>4
  <2> QED BY <2>5, <2>6 DEF AnswersTrue
<1> QED BY <1>9, <1>10, <1>11, <1>12, <1>13, <1>14 DEF IInv

-----------------------------------------------------------------------------
(* The theorems. *)

\* The initial state satisfies the invariant.
LEMMA InitHolds == Init => IInv
<1> SUFFICES ASSUME Init PROVE IInv
  OBVIOUS
<1>1. /\ NoStage \in StageRecords /\ NoStage.at = "none" /\ FirstTold(NoStage)
  BY DEF NoStage, StageRecords, Firsts, FirstTold
<1>2. NoLaunch \in Launches /\ NoLaunch.at = "idle" /\ ~NoLaunch.gone
  BY DEF NoLaunch, Launches, LaunchStages
<1>3. NoRun \in Runs /\ NoRun.at = "idle"
  BY DEF NoRun, Runs, RunStages, Causes
<1>4. NoResult \in Results
  BY DEF NoResult, Results, Causes
<1>5. NoBroker \in Brokers
  BY DEF NoBroker, Brokers
<1>6. /\ stage = [s \in Stages |-> NoStage] /\ entered = << >>
      /\ launch = [c \in Calls |-> NoLaunch] /\ run = [c \in Calls |-> NoRun]
      /\ evidence = [o \in Ops |-> [by |-> None, answer |-> NoResult]]
      /\ out = [o \in Ops |-> [by |-> None, result |-> NoResult]]
      /\ kind \in {"closure", "diagnostic"} /\ consent = None /\ lock = None /\ broker = NoBroker
  BY DEF Init
<1>7. TypeOK
  <2>1. entered \in Seq(Stages)
    BY <1>6
  <2> QED BY <1>1, <1>2, <1>3, <1>4, <1>5, <1>6, <2>1 DEF TypeOK
<1>8. StagesTold /\ EnteredOnce
  BY <1>1, <1>6 DEF StagesTold, EnteredOnce
<1>9. OfItsKind
  BY <1>2, <1>3, <1>6 DEF OfItsKind, OwnKind, Active, Launching, OfClosure, OfDiagnostic
<1>10. OfTheConsent
  BY <1>3, <1>6 DEF OfTheConsent, HasConsent, OutOfTheConsent, UnderWay, Made, OfClosure, OfDiagnostic
<1>11. InOrder
  BY <1>1, <1>3, <1>6, Names DEF InOrder, Placed, FinalLast
<1>12. ResultsTrue
  BY <1>6, Names, Said DEF ResultsTrue
<1>13. AnswersTrue
  BY <1>2, <1>6, Said DEF AnswersTrue, AnsweredBy
<1> QED BY <1>7, <1>8, <1>9, <1>10, <1>11, <1>12, <1>13 DEF IInv

\* Every step keeps it.
LEMMA NextKeeps ==
  ASSUME IInv, [Next]_vars
  PROVE  IInv'
<1>1. CASE UNCHANGED vars
  <2>1. /\ kind' = kind /\ stage' = stage /\ entered' = entered /\ launch' = launch /\ run' = run
        /\ evidence' = evidence /\ out' = out /\ consent' = consent /\ lock' = lock /\ broker' = broker
    BY <1>1 DEF vars
  <2>2. StageKept /\ BrokerKept
    BY <2>1, StageStays, BrokerStays DEF IInv
  <2> QED BY <2>1, <2>2, Beside DEF files
<1>2. ASSUME NEW c \in Calls, NEW o \in Ops, Launch(c, o) \/ Direct(c, o)
      PROVE  IInv'
  BY <1>2, LaunchKeeps, DirectKeeps
<1>3. ASSUME NEW c \in Calls, RunStep(c)
      PROVE  IInv'
  <2>1. CASE Begin(c) \/ Acquire(c) \/ Consent(c) \/ MakeOut(c) \/ Raises(c) \/ Stops(c)
    BY <2>1, LocksKeep, ConsentKeeps, MakeOutKeeps, EndsKeep, StopsKeeps
  <2>2. CASE Preflight(c) \/ Ready(c) \/ Discover(c) \/ StagingFails(c) \/ Dispatch(c)
    BY <2>2, PreflightKeeps, ReadyKeeps, DiscoverKeeps, StagingFailsKeeps, DispatchKeeps
  <2>3. CASE Samples(c) \/ Supervises(c) \/ Judge(c) \/ Executed(c)
    BY <2>3, SupervisionKeeps, JudgeKeeps, ExecutedKeeps
  <2>4. CASE AwaitBroker(c) \/ Accept(c) \/ Undispatched(c) \/ RunOffline(c) \/ Verify(c)
    BY <2>4, AwaitBrokerKeeps, AcceptKeeps, UndispatchedKeeps, RunOfflineKeeps, VerifyKeeps
  <2>5. CASE Cleanup(c) \/ BrokerUnreaped(c) \/ Save(c) \/ SaveFails(c)
    BY <2>5, CleanupKeeps, BrokerUnreapedKeeps, SaveKeeps, EndsKeep
  <2> QED BY <1>3, <2>1, <2>2, <2>3, <2>4, <2>5 DEF RunStep
<1>4. ASSUME NEW c \in Calls,
             RunKilled(c) \/ Spawn(c) \/ Captured(c) \/ Sweep(c) \/ Report(c) \/ LauncherKilled(c)
      PROVE  IInv'
  BY <1>4, EndsKeep, SpawnKeeps, CapturedKeeps, SweepKeeps, ReportKeeps, LauncherKilledKeeps
<1>5. CASE BrokerReady \/ BrokerFinished \/ BrokerCaptures \/ BrokerFails
  BY <1>5, BrokersKeep
<1>6. ASSUME NEW s \in Stages, Worker(s)
      PROVE  IInv'
  BY <1>6, WorkersKeep
<1> QED BY <1>1, <1>2, <1>3, <1>4, <1>5, <1>6 DEF Next

\* The inductive invariant of closures and diagnostics holds.
THEOREM Invariant == Spec => []IInv
<1>1. Init => IInv
  BY InitHolds
<1>2. IInv /\ [Next]_vars => IInv'
  BY NextKeeps
<1> QED BY <1>1, <1>2, PTL DEF Spec

\* A completed closure entered each worker once, the offline one after the broker had ended
\* with a capture and discovery was believed, and an answer of COMPLETED is its own child's
\* stored result with nothing of its group left running.
THEOREM ClosureIsRealHolds == Spec => []ClosureIsReal
<1>1. IInv => ClosureIsReal
  <2> SUFFICES ASSUME IInv PROVE ClosureIsReal
    OBVIOUS
  <2>1. EnteredOnce /\ InOrder /\ ResultsTrue /\ AnswersTrue
    BY DEF IInv
  <2>2. OfflineAfterAcquisition
    BY <2>1 DEF OfflineAfterAcquisition, EnteredOnce, InOrder, FinalLast
  <2>3. ResultComplete
    BY <2>1 DEF ResultComplete, ResultsTrue
  <2>4. ASSUME NEW o \in Closures, evidence[o].answer.status = "COMPLETED"
        PROVE  /\ out[o].by = evidence[o].by /\ out[o].result.status = "COMPLETED"
               /\ Believed("discovery") /\ Believed("final")
               /\ ~GroupRunning(evidence[o].by)
    <3>1. AnsweredBy(o)
      BY <2>1, Names DEF AnswersTrue
    <3> QED BY <2>1, <2>4, <3>1 DEF AnsweredBy, ResultsTrue
  <2>5. AnsweredFromOwnRun
    BY <2>4 DEF AnsweredFromOwnRun
  <2> QED BY <2>2, <2>3, <2>5 DEF ClosureIsReal
<1> QED BY <1>1, Invariant, PTL

\* A confirmed cleanup leaves nothing running: of the group for an answer, of the broker and
\* the discovery worker with its bridges for a closure's result, of its worker for a diagnostic's.
THEOREM CleanupIsTrueHolds == Spec => []CleanupIsTrue
<1>1. IInv => CleanupIsTrue
  BY DEF IInv, ResultsTrue, AnswersTrue, AnsweredBy, CleanupIsTrue
<1> QED BY <1>1, Invariant, PTL

\* A record that tells its first failure is judged by it.
LEMMA Reporting ==
  ASSUME NEW r \in StageRecords, FirstTold(r), r.at = "measured"
  PROVE  ReportsFirst(r)
<1>1. /\ r.record /\ r.stop \in {"none", "limit", "generic"} /\ r.first \in Firsts
      /\ r.host \in {"missing", "present", "invalid"} /\ r.observer \in {"missing", "present", "invalid"}
  BY DEF StageRecords, FirstTold
<1>2. CASE r.first = "limit"
  BY <1>1, <1>2 DEF FirstTold, ReportsFirst, Primary
<1>3. CASE r.first = "host"
  BY <1>1, <1>3 DEF FirstTold, ReportsFirst, Primary
<1>4. CASE r.first = "observer"
  BY <1>1, <1>4 DEF FirstTold, ReportsFirst, Primary
<1>5. CASE r.first = "other"
  BY <1>1, <1>5 DEF FirstTold, ReportsFirst, Primary
<1>6. CASE r.first = "none"
  <2>1. r.stop = "none" /\ r.host = "missing" /\ r.observer = "missing"
    BY <1>1, <1>6 DEF FirstTold
  <2>2. Primary(r) = Unstopped(r) /\ Unstopped(r) \in {"none", "unconfirmed", "exit", "native"}
    BY <2>1 DEF Primary, Unstopped
  <2> QED BY <1>6, <2>2 DEF ReportsFirst
<1> QED BY <1>1, <1>2, <1>3, <1>4, <1>5, <1>6 DEF Firsts

\* A supervised stage is reported with its first recorded failure, whatever failed after it.
THEOREM FirstFailureKeptHolds == Spec => []FirstFailureKept
<1>1. IInv => FirstFailureKept
  <2> SUFFICES ASSUME IInv, NEW c \in Calls, NEW s \in Stages, stage[s].at = "measured"
               PROVE  ReportsFirst(stage[s])
    BY DEF FirstFailureKept
  <2>1. stage[s] \in StageRecords /\ FirstTold(stage[s])
    BY DEF IInv, TypeOK, StagesTold
  <2> QED BY <2>1, Reporting
<1> QED BY <1>1, Invariant, PTL
=============================================================================
