-------------------------- MODULE OwnerReplayProofs --------------------------
(***************************************************************************)
(* That every answer the engine's launchers give, and every one the SDK    *)
(* passes on, is true of the worker, that a sealed output is quiet, and    *)
(* that the output is a one-shot authority: for any number of calls,       *)
(* owners and operations, and every kind of launcher.                      *)
(***************************************************************************)
EXTENDS OwnerReplay, TLAPS

Claimed == {"open", "admit", "dispatch", "watch", "reap", "judge", "verify", "answer"}
CallStages == {"idle", "lock", "bind", "store", "claim", "seal", "done", "ended"} \cup Claimed
Terminals == {"none", "PASS", "STOP", "HOST_STOP", "INTERRUPTED", "MISMATCH", "VERIFICATION_FAILED"}

Measures == [known : BOOLEAN, stop : BOOLEAN, reaped : BOOLEAN, sampled : BOOLEAN]
AllAnswers == [terminal : Terminals, counts : SUBSET AnyCount]
CallRecords == [at : CallStages, op : Ops \cup {None}, only : BOOLEAN, dispatched : BOOLEAN,
                stop : BOOLEAN, sampled : BOOLEAN, measured : Measures, verified : BOOLEAN,
                answer : AllAnswers]
Outputs == [by : Calls \cup {None}, op : Ops \cup {None}, started : BOOLEAN,
            sensor : {"none", "accepted", "refused", "unreaped"}, intent : BOOLEAN,
            hostStop : BOOLEAN, measured : Measures, final : AllAnswers, late : BOOLEAN,
            sealed : BOOLEAN]
Workers == [by : Calls \cup {None}, state : {"none", "running", "ended"}, worlds : AnyCount,
            record : {"none", "go", "stop", "torn"}, exit : {"none", "zero", "one", "signal"}]

TypeOK ==
  /\ kind \in Kinds /\ bound \in Ops \cup {None} /\ proposed \in BOOLEAN
  /\ lock \in Calls \cup {None}
  /\ out \in Outputs /\ worker \in Workers /\ entered \in Seq(Ops)
  /\ call \in [Calls -> CallRecords]

\* An output has one operation from the start, or gets it with the kit's binding.
Binding ==
  /\ Sealed => bound \in Ops
  /\ \A c \in Calls :
       /\ call[c].at \in {"bind", "store"} => kind = "kit"
       /\ call[c].at \in {"lock", "bind", "store", "claim"} => call[c].op \in Ops

\* Output and worker belong to the call that claimed the output, and only to it.
BelongToClaim ==
  /\ out.by = None => out = NoOutput /\ entered = << >>
  /\ worker.by = None => worker = NoWorker
  /\ worker.by # None => worker.by = out.by /\ worker.state # "none"
  /\ \A c \in Calls :
       /\ call[c].at \in Claimed \cup {"seal", "done"} => out.by = c
       /\ call[c].at \in Claimed =>
            /\ call[c].op = out.op /\ call[c].op \in Ops /\ call[c].measured = out.measured
            /\ out.final = NoAnswer /\ ~out.sealed

\* How far the call has come is how far its output and its worker have.
Progress ==
  \A c \in Calls :
    /\ call[c].at \in {"lock", "bind", "store", "claim"} => call[c].measured = Unmeasured
    /\ call[c].at \in {"lock", "bind", "store", "claim", "open", "admit"} => ~call[c].dispatched
    /\ call[c].at \in Claimed => (out.started <=> call[c].at # "open")
    /\ call[c].at \in {"open", "admit", "dispatch"} =>
         worker = NoWorker /\ entered = << >> /\ ~out.hostStop
    /\ call[c].at \in {"open", "admit", "dispatch", "watch", "reap"} => out.measured = Unmeasured
    /\ call[c].at \in {"dispatch", "watch", "reap", "judge", "verify"} =>
         call[c].dispatched /\ out.sensor = "accepted"
    /\ call[c].at \in Claimed /\ call[c].dispatched /\ WithIntent => out.intent
    /\ call[c].at \in Claimed /\ ~call[c].dispatched => worker = NoWorker
    /\ call[c].at = "watch" => worker.by = c /\ ~out.hostStop
    /\ call[c].at = "reap" /\ out.hostStop => call[c].stop
    /\ call[c].at \in {"seal", "done"} => out.final.terminal # "none"

\* What the records of the worker and of its supervision say of the worker.
RecordsAreTrue ==
  /\ worker.record = "go" => worker.worlds = Worlds
  /\ worker.exit # "none" => worker.state = "ended"
  /\ out.measured.reaped => worker.by = out.by /\ worker.state = "ended"
  /\ out.hostStop /\ out.measured.known => out.measured.stop

\* An answer is true: its counts are those of the worker, and a pass is one.
TrueAnswer(a) ==
  /\ worker.worlds \in a.counts
  /\ a.counts # AnyCount => worker.state # "running" \/ worker.record # "none"
  /\ a.terminal = "PASS" =>
       /\ out.sensor = "accepted" /\ ~out.hostStop
       /\ out.measured.known /\ ~out.measured.stop
       /\ kind # "prospective" => Reliable(out.measured)
       /\ worker.by = out.by /\ worker.state = "ended" /\ worker.record = "go"
       /\ worker.worlds = Worlds /\ a.counts = {Worlds}
       /\ kind \notin {"prospective", "pair"} => worker.exit = "zero"

Quiet == worker.state # "running" /\ (kind = "case" => out.sensor # "unreaped")

AnswersKnown ==
  /\ TrueAnswer(out.final)
  /\ out.sealed => Quiet
  /\ \A c \in Calls :
       /\ call[c].at = "verify" =>
            /\ kind \in {"plan", "case"} /\ Reliable(out.measured)
            /\ worker.record = "go" /\ worker.exit = "zero"
       /\ call[c].at = "answer" => TrueAnswer(call[c].answer) /\ call[c].answer.terminal # "none"
       /\ call[c].at = "seal" => Quiet
       /\ kind = "case" /\ call[c].at = "done" /\ out.final.terminal = "PASS" => out.sealed

LInv == TypeOK /\ Binding /\ BelongToClaim /\ Progress /\ RecordsAreTrue /\ AnswersKnown

-----------------------------------------------------------------------------
(* The owners. *)

Latched == {"intent", "spawn", "wait", "cleanup", "report"}
OwnerStages == {"idle", "grant", "authority", "latch", "record", "done"} \cup Latched
OwnerRecords == [at : OwnerStages, consented : BOOLEAN, child : Calls \cup {None}, heard : AllAnswers]

OwnerTypeOK ==
  /\ consent \in [made : BOOLEAN, granted : BOOLEAN, consumed : BOOLEAN, authority : BOOLEAN,
                  result : AllAnswers]
  /\ latch \in [made : BOOLEAN, intent : BOOLEAN, result : AllAnswers]
  /\ owner \in [Owners -> OwnerRecords]
  /\ children \in SUBSET Calls

\* The latch lets one owner in, whose child is the only one.
OneLatched ==
  /\ \A w, v \in Owners :
       owner[w].at \in Latched \cup {"record"} /\ owner[v].at \in Latched \cup {"record"} => w = v
  /\ ~latch.made => latch = NoLatch /\ children = {}
  /\ \A w \in Owners :
       /\ owner[w].at \notin {"idle", "done"} => kind = "case"
       /\ owner[w].at \in Latched \cup {"record"} => latch.made
       /\ owner[w].at \in Latched => latch.result = NoAnswer
       /\ owner[w].at \in {"spawn", "wait", "cleanup", "report"} => latch.intent
       /\ owner[w].at \in {"intent", "spawn"} => children = {}
       /\ owner[w].at \in {"wait", "cleanup"} => owner[w].child \in children
  /\ \A c, d \in children : c = d
  /\ children # {} => latch.intent

\* A consent is consumed, and its authority written, before anything is recorded in it.
ConsentFirst ==
  /\ \A w \in Owners :
       /\ owner[w].at = "authority" => consent.consumed
       /\ owner[w].consented => consent.consumed /\ consent.authority
       /\ owner[w].at = "record" => owner[w].consented /\ owner[w].heard = latch.result
       /\ owner[w].at \in Latched => consent.result \in {NoAnswer, Interrupted}
  /\ ~latch.made => consent.result \in {NoAnswer, Interrupted}
  /\ consent.result \in {NoAnswer, Interrupted, latch.result}
  /\ consent.result # NoAnswer => consent.consumed /\ consent.authority

\* What an owner hears, reports and records: nothing that is known, or the launcher's
\* own answer, and then the owner's child gave it; a pass was sealed.
Known(a) ==
  \/ a.counts = AnyCount /\ a.terminal # "PASS"
  \/ /\ a = out.final /\ a.terminal # "none" /\ out.by \in children
     /\ a.terminal = "PASS" => out.sealed

OuterKnown ==
  /\ Known(latch.result) /\ Known(consent.result)
  /\ \A w \in Owners : Known(owner[w].heard)

OwnInv == OwnerTypeOK /\ OneLatched /\ ConsentFirst /\ OuterKnown
IInv == LInv /\ OwnInv

-----------------------------------------------------------------------------
(* What a step does to the records of one call. *)

\* Only c's record changes, and of it only the stage.
Moved(c, x) ==
  /\ call' \in [Calls -> CallRecords] /\ \A d \in Calls \ {c} : call'[d] = call[d]
  /\ call'[c].at = x /\ call'[c].op = call[c].op /\ call'[c].dispatched = call[c].dispatched
  /\ call'[c].stop = call[c].stop /\ call'[c].measured = call[c].measured

\* The call has its answer.
Answered(c, a) ==
  /\ call' \in [Calls -> CallRecords] /\ \A d \in Calls \ {c} : call'[d] = call[d]
  /\ call'[c].at = "answer" /\ call'[c].answer = a
  /\ call'[c].op = call[c].op /\ call'[c].dispatched = call[c].dispatched
  /\ call'[c].measured = call[c].measured

\* The call forgets everything but where it is.
Forgot(c, x) ==
  /\ call' \in [Calls -> CallRecords] /\ \A d \in Calls \ {c} : call'[d] = call[d]
  /\ call'[c].at = x

\* Setting one call's record to one of the right type.
LEMMA CallSet ==
  ASSUME TypeOK, NEW c \in Calls, NEW r \in CallRecords, call' = [call EXCEPT ![c] = r]
  PROVE  call' \in [Calls -> CallRecords] /\ call'[c] = r /\ \A d \in Calls \ {c} : call'[d] = call[d]
BY DEF TypeOK

\* Goes moves a call.
LEMMA GoesMoves ==
  ASSUME TypeOK, NEW c \in Calls, NEW x \in CallStages, Goes(c, x)
  PROVE  Moved(c, x)
<1> DEFINE r == [call[c] EXCEPT !.at = x]
<1>1. call[c] \in CallRecords
  BY DEF TypeOK
<1>2. /\ r \in CallRecords /\ r.at = x /\ r.op = call[c].op /\ r.dispatched = call[c].dispatched
      /\ r.stop = call[c].stop /\ r.measured = call[c].measured
  BY <1>1 DEF CallRecords
<1>3. call' = [call EXCEPT ![c] = r]
  BY DEF Goes
<1> HIDE DEF r
<1>4. call' \in [Calls -> CallRecords] /\ call'[c] = r /\ \A d \in Calls \ {c} : call'[d] = call[d]
  BY <1>2, <1>3, CallSet
<1> QED BY <1>2, <1>4 DEF Moved

\* Answers gives it its answer.
LEMMA AnswersAnswered ==
  ASSUME TypeOK, NEW c \in Calls, NEW a \in AllAnswers, Answers(c, a)
  PROVE  Answered(c, a)
<1> DEFINE r == [call[c] EXCEPT !.at = "answer", !.answer = a]
<1>1. call[c] \in CallRecords
  BY DEF TypeOK
<1>2. /\ r \in CallRecords /\ r.at = "answer" /\ r.answer = a /\ r.op = call[c].op
      /\ r.dispatched = call[c].dispatched /\ r.measured = call[c].measured
  BY <1>1 DEF CallRecords, CallStages, Claimed
<1>3. call' = [call EXCEPT ![c] = r]
  BY DEF Answers
<1> HIDE DEF r
<1>4. call' \in [Calls -> CallRecords] /\ call'[c] = r /\ \A d \in Calls \ {c} : call'[d] = call[d]
  BY <1>2, <1>3, CallSet
<1> QED BY <1>2, <1>4 DEF Answered

\* A call that starts from nothing, or ends.
LEMMA NoCallTyped == NoCall \in CallRecords /\ NoAnswer \in AllAnswers /\ Unmeasured \in Measures
<1>1. NoAnswer \in AllAnswers
  BY DEF NoAnswer, AllAnswers, Terminals
<1>2. Unmeasured \in Measures
  BY DEF Unmeasured, Measures
<1> QED BY <1>1, <1>2 DEF NoCall, CallRecords, CallStages

\* Setting its record to an empty one at a stage.
LEMMA Forgets ==
  ASSUME TypeOK, NEW c \in Calls, NEW x \in CallStages,
         call' = [call EXCEPT ![c] = [NoCall EXCEPT !.at = x]]
  PROVE  Forgot(c, x)
<1> DEFINE r == [NoCall EXCEPT !.at = x]
<1>1. NoCall \in CallRecords
  BY NoCallTyped
<1>2. r \in CallRecords /\ r.at = x
  BY <1>1 DEF CallRecords
<1> HIDE DEF r
<1>3. call' = [call EXCEPT ![c] = r]
  BY DEF r
<1>4. call' \in [Calls -> CallRecords] /\ call'[c] = r /\ \A d \in Calls \ {c} : call'[d] = call[d]
  BY <1>2, <1>3, CallSet
<1> QED BY <1>2, <1>4 DEF Forgot

\* Ending a call, the lock with it.
LEMMA EndsForgets ==
  ASSUME TypeOK, NEW c \in Calls, Ends(c)
  PROVE  Forgot(c, "ended") /\ lock' \in Calls \cup {None}
BY Forgets DEF Ends, Unlocks, CallStages, TypeOK

-----------------------------------------------------------------------------
(* Answers. *)

\* Before a worker has run, an answer that calls nothing a pass is true of it.
PlainAnswers == {Interrupted, Answer("HOST_STOP", {0}), Answer("INTERRUPTED", {0})}

\* That is what makes them plain.
LEMMA Plain ==
  ASSUME NEW a \in PlainAnswers
  PROVE  a \in AllAnswers /\ a.terminal \notin {"none", "PASS"} /\ 0 \in a.counts
BY DEF PlainAnswers, Interrupted, Answer, AllAnswers, Terminals, AnyCount

\* The answers of refusals and preparation errors are such.
LEMMA RefusalPlain ==
  Refusal \in PlainAnswers /\ \A intent \in BOOLEAN : PreparationError(intent) \in PlainAnswers
BY DEF PlainAnswers, Refusal, PreparationError, Interrupted, Answer

\* What says nothing of the worker is true of it.
LEMMA UnknownTrue ==
  ASSUME LInv, NEW a \in {Interrupted, Answer("VERIFICATION_FAILED", AnyCount)}
  PROVE  a \in AllAnswers /\ a.terminal # "none" /\ TrueAnswer(a)
<1>1. worker.worlds \in AnyCount
  BY DEF LInv, TypeOK, Workers
<1> QED BY <1>1 DEF Interrupted, Answer, AllAnswers, Terminals, TrueAnswer

\* A completion that was read has the worker's own counts.
LEMMA RecordedTrue ==
  ASSUME LInv, Readable, NEW t \in Terminals \ {"none", "PASS"}
  PROVE  Recorded(t) \in AllAnswers /\ Recorded(t).terminal # "none" /\ TrueAnswer(Recorded(t))
<1>1. worker.worlds \in AnyCount
  BY DEF LInv, TypeOK, Workers
<1> QED BY <1>1 DEF Readable, Recorded, Answer, AllAnswers, TrueAnswer

\* A pass is called by a supervisor that saw its worker end, by itself where the exit
\* code is asked for, over a complete record.
LEMMA PassTrue ==
  ASSUME LInv, NEW c \in Calls, call[c].at \in {"judge", "verify"}, worker.record = "go",
         call[c].measured.known, ~call[c].measured.stop,
         kind = "prospective" \/ Reliable(call[c].measured),
         kind = "pair" \/ worker.exit = "zero"
  PROVE  /\ Recorded("PASS") \in AllAnswers /\ Recorded("PASS").terminal # "none"
         /\ TrueAnswer(Recorded("PASS")) /\ worker.worlds = Worlds
<1>1. call[c].measured = out.measured /\ out.sensor = "accepted"
  BY DEF LInv, BelongToClaim, Progress, Claimed
<1>2. worker.worlds = Worlds /\ worker.worlds \in AnyCount
  BY DEF LInv, TypeOK, Workers, RecordsAreTrue
<1>3. ~out.hostStop
  BY <1>1 DEF LInv, RecordsAreTrue
<1>4. worker.by = out.by
  BY DEF LInv, BelongToClaim, NoWorker
<1>5. worker.state = "ended"
  BY <1>1 DEF LInv, RecordsAreTrue, Reliable
<1>6. /\ Recorded("PASS") \in AllAnswers /\ Recorded("PASS").terminal = "PASS"
      /\ Recorded("PASS").counts = {worker.worlds}
  BY <1>2 DEF Recorded, Answer, AllAnswers, Terminals
<1> QED BY <1>1, <1>2, <1>3, <1>4, <1>5, <1>6 DEF TrueAnswer

\* Whatever a launcher of any kind answers of a failure, and of a success that needs no
\* verifier, is true.
LEMMA FailedTrue ==
  ASSUME LInv, NEW c \in Calls, call[c].at \in {"judge", "verify"}, NEW failed \in BOOLEAN,
         NEW a \in FailedAnswers(c, failed)
  PROVE  a \in AllAnswers /\ a.terminal # "none" /\ TrueAnswer(a)
<1> DEFINE Right(b) == b \in AllAnswers /\ b.terminal # "none" /\ TrueAnswer(b)
           m == call[c].measured
<1>1. Right(Interrupted) /\ Right(Answer("VERIFICATION_FAILED", AnyCount))
  BY UnknownTrue
<1>2. Readable => \A t \in {"STOP", "MISMATCH", "INTERRUPTED", "VERIFICATION_FAILED"} : Right(Recorded(t))
  BY RecordedTrue DEF Terminals
<1>3. /\ worker.record = "go" /\ m.known /\ ~m.stop
      /\ kind = "prospective" \/ Reliable(m)
      /\ kind = "pair" \/ worker.exit = "zero"
      => Right(Recorded("PASS"))
  BY PassTrue
<1>4. Readable <=> worker.record \in {"go", "stop"}
  BY DEF Readable
<1>5. Reliable(m) => m.known /\ ~m.stop
  BY DEF Reliable
<1> HIDE DEF Right, m
<1>6. CASE kind = "prospective"
  <2>1. a \in ProspectiveAnswers(m)
    BY <1>6 DEF FailedAnswers, m
  <2>2. \/ a = Interrupted
        \/ m.known /\ ~m.stop /\ worker.record = "go" /\ worker.exit = "zero" /\ a = Recorded("PASS")
        \/ worker.record = "stop" /\ a = Recorded("STOP")
    BY <2>1 DEF ProspectiveAnswers
  <2>3. Right(a)
    BY <1>1, <1>2, <1>3, <1>4, <1>6, <2>2
  <2> QED BY <2>3 DEF Right
<1>7. CASE kind = "pair"
  <2>1. a \in PairAnswers(m)
    BY <1>7 DEF FailedAnswers, m
  <2>2. \/ a = Interrupted
        \/ Reliable(m) /\ worker.record = "go" /\ a = Recorded("PASS")
        \/ Readable /\ a = Recorded("STOP")
    BY <2>1 DEF PairAnswers
  <2>3. Right(a)
    BY <1>1, <1>2, <1>3, <1>5, <1>7, <2>2
  <2> QED BY <2>3 DEF Right
<1>8. CASE kind \in {"portable", "kit"}
  <2>1. a \in PortableAnswers(m)
    BY <1>8 DEF FailedAnswers, KitAnswers, m
  <2>2. \/ a = Interrupted
        \/ /\ Reliable(m) /\ worker.record = "go" /\ worker.exit = "zero"
           /\ a \in {Recorded("PASS"), Recorded("MISMATCH"), Recorded("INTERRUPTED")}
        \/ worker.record = "stop" /\ a = Recorded("STOP")
    BY <2>1 DEF PortableAnswers
  <2>3. Right(a)
    BY <1>1, <1>2, <1>3, <1>4, <1>5, <2>2
  <2> QED BY <2>3 DEF Right
<1>9. CASE kind = "plan"
  <2>1. a \in PlanAnswers(m)
    BY <1>9 DEF FailedAnswers, m
  <2>2. a = Interrupted \/ (Readable /\ a \in {Recorded("STOP"), Recorded("INTERRUPTED")})
    BY <2>1 DEF PlanAnswers
  <2>3. Right(a)
    BY <1>1, <1>2, <2>2
  <2> QED BY <2>3 DEF Right
<1>10. CASE kind = "case"
  <2>1. a \in CaseAnswers(m, FALSE, failed)
    BY <1>10 DEF FailedAnswers, m
  <2>2. \/ a = Interrupted \/ a = Answer("VERIFICATION_FAILED", AnyCount)
        \/ Readable /\ \E t \in {"STOP", "INTERRUPTED", "VERIFICATION_FAILED"} : a = Recorded(t)
    BY <2>1 DEF CaseAnswers, Interrupted
  <2>3. Right(a)
    BY <1>1, <1>2, <2>2
  <2> QED BY <2>3 DEF Right
<1> QED BY <1>6, <1>7, <1>8, <1>9, <1>10 DEF LInv, TypeOK, Kinds

\* So is the first judgement.
LEMMA JudgedTrue ==
  ASSUME LInv, NEW c \in Calls, call[c].at = "judge", NEW a \in FailedAnswers(c, FALSE)
  PROVE  a \in AllAnswers /\ a.terminal # "none" /\ TrueAnswer(a)
BY FailedTrue

\* And whatever is answered once the verifier has ended.
LEMMA VerifiedTrue ==
  ASSUME LInv, NEW c \in Calls, call[c].at = "verify", NEW a,
         \/ a \in FailedAnswers(c, kind = "case")
         \/ kind = "plan" /\ a = Answer("PASS", {2})
         \/ kind = "case" /\ a \in CaseAnswers(call[c].measured, TRUE, FALSE)
  PROVE  a \in AllAnswers /\ a.terminal # "none" /\ TrueAnswer(a)
<1>1. CASE a \in FailedAnswers(c, kind = "case")
  BY <1>1, FailedTrue
<1>2. /\ kind \in {"plan", "case"} /\ Reliable(call[c].measured)
      /\ worker.record = "go" /\ worker.exit = "zero"
  BY DEF LInv, AnswersKnown, BelongToClaim, Claimed
<1>3. /\ Recorded("PASS") \in AllAnswers /\ Recorded("PASS").terminal # "none"
      /\ TrueAnswer(Recorded("PASS")) /\ worker.worlds = 2
  BY <1>2, PassTrue DEF Reliable, Worlds
<1>4. CASE kind = "plan" /\ a = Answer("PASS", {2})
  BY <1>3, <1>4 DEF Recorded
<1>5. CASE kind = "case" /\ a \in CaseAnswers(call[c].measured, TRUE, FALSE)
  <2>1. a = Interrupted \/ a = Recorded("PASS")
    BY <1>2, <1>5 DEF CaseAnswers, Interrupted
  <2> QED BY <1>3, <2>1, UnknownTrue
<1> QED BY <1>1, <1>4, <1>5

-----------------------------------------------------------------------------
(* The steps of the launchers. *)

\* A call begins: its output is not claimed yet.
LEMMA BeginsKeeps ==
  ASSUME LInv, NEW c \in Calls, NEW o \in Ops, Begins(c, o)
  PROVE  LInv'
<1> USE LauncherAssumption DEF LInv, Claimed
<1>1. /\ UNCHANGED <<kind, bound, proposed, lock, out, worker, entered>>
      /\ call[c].at = "idle"
  BY DEF Begins
<1>2. /\ call' \in [Calls -> CallRecords] /\ \A d \in Calls \ {c} : call'[d] = call[d]
      /\ call'[c].at \in {"lock", "claim"} /\ call'[c].op = o /\ ~call'[c].dispatched
      /\ call'[c].measured = Unmeasured
  <2> DEFINE r == [NoCall EXCEPT !.at = IF Locked THEN "lock" ELSE "claim", !.op = o]
  <2>1. NoCall \in CallRecords
    BY NoCallTyped
  <2>2. r \in CallRecords /\ r.at \in {"lock", "claim"} /\ r.op = o /\ ~r.dispatched /\ r.measured = Unmeasured
    BY <2>1 DEF CallRecords, CallStages, NoCall
  <2>3. call' = [call EXCEPT ![c] = r]
    BY DEF Begins
  <2> HIDE DEF r
  <2>4. call' \in [Calls -> CallRecords] /\ call'[c] = r /\ \A d \in Calls \ {c} : call'[d] = call[d]
    BY <2>2, <2>3, CallSet
  <2> QED BY <2>2, <2>4
<1>3. TypeOK'
  BY <1>1, <1>2 DEF TypeOK
<1>4. Binding'
  BY <1>1, <1>2 DEF Binding, Sealed
<1>5. BelongToClaim'
  BY <1>1, <1>2 DEF BelongToClaim
<1>6. Progress'
  BY <1>1, <1>2 DEF Progress, BelongToClaim, WithIntent
<1>7. RecordsAreTrue'
  BY <1>1, <1>2 DEF RecordsAreTrue, Worlds
<1>8. AnswersKnown'
  BY <1>1, <1>2 DEF AnswersKnown, TrueAnswer, Quiet, BelongToClaim, Worlds, Reliable
<1> QED BY <1>3, <1>4, <1>5, <1>6, <1>7, <1>8

\* A preparation of the kit begins, without the lock.
LEMMA PreparesKeeps ==
  ASSUME LInv, NEW c \in Calls, NEW o \in Ops, Prepares(c, o)
  PROVE  LInv'
<1> USE LauncherAssumption DEF LInv, Claimed
<1>1. /\ UNCHANGED <<kind, bound, proposed, lock, out, worker, entered>>
      /\ call[c].at = "idle" /\ kind = "kit"
  BY DEF Prepares
<1>2. /\ call' \in [Calls -> CallRecords] /\ \A d \in Calls \ {c} : call'[d] = call[d]
      /\ call'[c].at = "bind" /\ call'[c].op = o /\ ~call'[c].dispatched /\ call'[c].measured = Unmeasured
  <2> DEFINE r == [NoCall EXCEPT !.at = "bind", !.op = o, !.only = TRUE]
  <2>1. NoCall \in CallRecords
    BY NoCallTyped
  <2>2. r \in CallRecords /\ r.at = "bind" /\ r.op = o /\ ~r.dispatched /\ r.measured = Unmeasured
    BY <2>1 DEF CallRecords, CallStages, NoCall
  <2>3. call' = [call EXCEPT ![c] = r]
    BY DEF Prepares
  <2> HIDE DEF r
  <2>4. call' \in [Calls -> CallRecords] /\ call'[c] = r /\ \A d \in Calls \ {c} : call'[d] = call[d]
    BY <2>2, <2>3, CallSet
  <2> QED BY <2>2, <2>4
<1>3. TypeOK'
  BY <1>1, <1>2 DEF TypeOK
<1>4. Binding'
  BY <1>1, <1>2 DEF Binding, Sealed
<1>5. BelongToClaim'
  BY <1>1, <1>2 DEF BelongToClaim
<1>6. Progress'
  BY <1>1, <1>2 DEF Progress, BelongToClaim, WithIntent
<1>7. RecordsAreTrue'
  BY <1>1, <1>2 DEF RecordsAreTrue, Worlds
<1>8. AnswersKnown'
  BY <1>1, <1>2 DEF AnswersKnown, TrueAnswer, Quiet, BelongToClaim, Worlds, Reliable
<1> QED BY <1>3, <1>4, <1>5, <1>6, <1>7, <1>8

\* The lock guards the binding only: the output is claimed once without it.
LEMMA LocksKeeps ==
  ASSUME LInv, NEW c \in Calls, Locks(c)
  PROVE  LInv'
<1> USE LauncherAssumption DEF LInv, Claimed
<1>1. /\ UNCHANGED <<kind, bound, proposed, out, worker, entered>>
      /\ call[c].at = "lock" /\ lock' = c
  BY DEF Locks
<1>2. (Moved(c, "bind") /\ kind = "kit") \/ Moved(c, "claim")
  BY GoesMoves DEF Locks, CallStages
<1>3. TypeOK'
  BY <1>1, <1>2 DEF TypeOK, Moved
<1>4. Binding'
  BY <1>1, <1>2 DEF Binding, Sealed, Moved
<1>5. BelongToClaim'
  BY <1>1, <1>2 DEF BelongToClaim, Moved
<1>6. Progress'
  BY <1>1, <1>2 DEF Progress, BelongToClaim, WithIntent, Moved
<1>7. RecordsAreTrue'
  BY <1>1, <1>2 DEF RecordsAreTrue, Worlds, Moved
<1>8. AnswersKnown'
  BY <1>1, <1>2 DEF AnswersKnown, TrueAnswer, Quiet, BelongToClaim, Worlds, Reliable, Moved
<1> QED BY <1>3, <1>4, <1>5, <1>6, <1>7, <1>8

\* The kit's binding is there, or its proposal is made.
LEMMA BindsKeeps ==
  ASSUME LInv, NEW c \in Calls, Binds(c)
  PROVE  LInv'
<1> USE LauncherAssumption DEF LInv, Claimed
<1>1. /\ UNCHANGED <<kind, bound, lock, out, worker, entered>>
      /\ call[c].at = "bind" /\ proposed' \in BOOLEAN
  BY DEF Binds, TypeOK
<1>2. Moved(c, "claim") \/ Moved(c, "store")
  BY GoesMoves DEF Binds, CallStages
<1>3. TypeOK'
  BY <1>1, <1>2 DEF TypeOK, Moved
<1>4. Binding'
  BY <1>1, <1>2 DEF Binding, Sealed, Moved
<1>5. BelongToClaim'
  BY <1>1, <1>2 DEF BelongToClaim, Moved
<1>6. Progress'
  BY <1>1, <1>2 DEF Progress, BelongToClaim, WithIntent, Moved
<1>7. RecordsAreTrue'
  BY <1>1, <1>2 DEF RecordsAreTrue, Worlds, Moved
<1>8. AnswersKnown'
  BY <1>1, <1>2 DEF AnswersKnown, TrueAnswer, Quiet, BelongToClaim, Worlds, Reliable, Moved
<1> QED BY <1>3, <1>4, <1>5, <1>6, <1>7, <1>8

\* The binding is an operation, so the kit too has one when it claims.
LEMMA StoresBindingKeeps ==
  ASSUME LInv, NEW c \in Calls, StoresBinding(c)
  PROVE  LInv'
<1> USE LauncherAssumption DEF LInv, Claimed
<1>1. /\ UNCHANGED <<kind, proposed, out, worker, entered>>
      /\ call[c].at = "store" /\ bound' = call[c].op
  BY DEF StoresBinding
<1>2. lock' \in Calls \cup {None} /\ (Moved(c, "claim") \/ Forgot(c, "ended"))
  BY GoesMoves, EndsForgets DEF StoresBinding, CallStages, TypeOK
<1>3. TypeOK'
  BY <1>1, <1>2 DEF TypeOK, Moved, Forgot, Binding
<1>4. Binding'
  BY <1>1, <1>2 DEF Binding, Sealed, Moved, Forgot
<1>5. BelongToClaim'
  BY <1>1, <1>2 DEF BelongToClaim, Moved, Forgot
<1>6. Progress'
  BY <1>1, <1>2 DEF Progress, BelongToClaim, WithIntent, Moved, Forgot
<1>7. RecordsAreTrue'
  BY <1>1, <1>2 DEF RecordsAreTrue, Worlds, Moved, Forgot
<1>8. AnswersKnown'
  BY <1>1, <1>2 DEF AnswersKnown, TrueAnswer, Quiet, BelongToClaim, Worlds, Reliable, Moved, Forgot
<1> QED BY <1>3, <1>4, <1>5, <1>6, <1>7, <1>8

\* A refusal before the claim leaves nothing.
LEMMA RefusesKeeps ==
  ASSUME LInv, NEW c \in Calls, Refuses(c)
  PROVE  LInv'
<1> USE LauncherAssumption DEF LInv, Claimed
<1>1. /\ UNCHANGED <<kind, bound, proposed, out, worker, entered>>
      /\ call[c].at \in {"lock", "bind", "store", "claim"}
  BY DEF Refuses
<1>2. Forgot(c, "ended") /\ lock' \in Calls \cup {None}
  BY EndsForgets DEF Refuses
<1>3. TypeOK'
  BY <1>1, <1>2 DEF TypeOK, Forgot
<1>4. Binding'
  BY <1>1, <1>2 DEF Binding, Sealed, Forgot
<1>5. BelongToClaim'
  BY <1>1, <1>2 DEF BelongToClaim, Forgot
<1>6. Progress'
  BY <1>1, <1>2 DEF Progress, BelongToClaim, WithIntent, Forgot
<1>7. RecordsAreTrue'
  BY <1>1, <1>2 DEF RecordsAreTrue, Worlds, Forgot
<1>8. AnswersKnown'
  BY <1>1, <1>2 DEF AnswersKnown, TrueAnswer, Quiet, BelongToClaim, Worlds, Reliable, Forgot
<1> QED BY <1>3, <1>4, <1>5, <1>6, <1>7, <1>8

\* A killed launcher forgets everything; output and worker stay as they are.
LEMMA KilledKeeps ==
  ASSUME LInv, NEW c \in Calls, Killed(c)
  PROVE  LInv'
<1> USE LauncherAssumption DEF LInv, Claimed
<1>1. UNCHANGED <<kind, bound, proposed, out, worker, entered>>
  BY DEF Killed
<1>2. Forgot(c, "ended") /\ lock' \in Calls \cup {None}
  BY EndsForgets DEF Killed
<1>3. TypeOK'
  BY <1>1, <1>2 DEF TypeOK, Forgot
<1>4. Binding'
  BY <1>1, <1>2 DEF Binding, Sealed, Forgot
<1>5. BelongToClaim'
  BY <1>1, <1>2 DEF BelongToClaim, Forgot
<1>6. Progress'
  BY <1>1, <1>2 DEF Progress, BelongToClaim, WithIntent, Forgot
<1>7. RecordsAreTrue'
  BY <1>1, <1>2 DEF RecordsAreTrue, Worlds, Forgot
<1>8. AnswersKnown'
  BY <1>1, <1>2 DEF AnswersKnown, TrueAnswer, Quiet, BelongToClaim, Worlds, Reliable, Forgot
<1> QED BY <1>3, <1>4, <1>5, <1>6, <1>7, <1>8

\* So it is with a child of an owner that ends before it began.
LEMMA EndsAtOnceKeeps ==
  ASSUME LInv, NEW c \in Calls, Ends(c), UNCHANGED <<kind, bound, proposed, out, worker, entered>>
  PROVE  LInv'
<1> USE LauncherAssumption DEF LInv, Claimed
<1>1. UNCHANGED <<kind, bound, proposed, out, worker, entered>>
  OBVIOUS
<1>2. Forgot(c, "ended") /\ lock' \in Calls \cup {None}
  BY EndsForgets
<1>3. TypeOK'
  BY <1>1, <1>2 DEF TypeOK, Forgot
<1>4. Binding'
  BY <1>1, <1>2 DEF Binding, Sealed, Forgot
<1>5. BelongToClaim'
  BY <1>1, <1>2 DEF BelongToClaim, Forgot
<1>6. Progress'
  BY <1>1, <1>2 DEF Progress, BelongToClaim, WithIntent, Forgot
<1>7. RecordsAreTrue'
  BY <1>1, <1>2 DEF RecordsAreTrue, Worlds, Forgot
<1>8. AnswersKnown'
  BY <1>1, <1>2 DEF AnswersKnown, TrueAnswer, Quiet, BelongToClaim, Worlds, Reliable, Forgot
<1> QED BY <1>3, <1>4, <1>5, <1>6, <1>7, <1>8

\* Nothing was claimed, so no worker was started and no call is past the claim.
LEMMA ClaimsKeeps ==
  ASSUME LInv, NEW c \in Calls, Claims(c)
  PROVE  LInv'
<1> USE LauncherAssumption DEF LInv, Claimed
<1>1. /\ UNCHANGED <<kind, bound, proposed, lock, worker, entered>>
      /\ call[c].at = "claim" /\ out = NoOutput /\ call[c].op \in Ops /\ worker = NoWorker
  BY DEF Claims, BelongToClaim, Binding, NoOutput
<1>2. Moved(c, "open")
  BY GoesMoves DEF Claims, CallStages
<1>3. /\ out' \in Outputs /\ out'.by = c /\ out'.op = call[c].op /\ ~out'.started
      /\ out'.measured = Unmeasured /\ out'.final = NoAnswer /\ ~out'.sealed /\ ~out'.hostStop
  <2> DEFINE o == [NoOutput EXCEPT !.by = c, !.op = call[c].op]
  <2>1. /\ o \in Outputs /\ o.by = c /\ o.op = call[c].op /\ ~o.started
        /\ o.measured = Unmeasured /\ o.final = NoAnswer /\ ~o.sealed /\ ~o.hostStop
    BY <1>1, NoCallTyped DEF NoOutput, Outputs
  <2>2. out' = o
    BY DEF Claims
  <2> QED BY <2>1, <2>2
<1>4. \A d \in Calls : call[d].at \notin Claimed \cup {"seal", "done"}
  BY <1>1 DEF BelongToClaim, NoOutput
<1>5. entered = << >> /\ 0 \in AnyCount
  BY <1>1 DEF BelongToClaim, NoOutput, AnyCount
<1>6. TypeOK'
  BY <1>1, <1>2, <1>3, <1>4, <1>5 DEF TypeOK, Moved
<1>7. Binding'
  BY <1>1, <1>2, <1>3, <1>4, <1>5 DEF Binding, Sealed, Moved
<1>8. BelongToClaim'
  BY <1>1, <1>2, <1>3, <1>4, <1>5 DEF BelongToClaim, Moved, NoWorker, Progress
<1>9. Progress'
  BY <1>1, <1>2, <1>3, <1>4, <1>5 DEF Progress, BelongToClaim, WithIntent, Moved
<1>10. RecordsAreTrue'
  BY <1>1, <1>2, <1>3, <1>4, <1>5 DEF RecordsAreTrue, Worlds, Moved, NoWorker, Unmeasured
<1>11. AnswersKnown'
  BY <1>1, <1>2, <1>3, <1>4, <1>5 DEF AnswersKnown, TrueAnswer, Quiet, BelongToClaim, Worlds, Reliable,
     Moved, NoAnswer, NoWorker
<1> QED BY <1>6, <1>7, <1>8, <1>9, <1>10, <1>11

\* The authority is recorded as used, or the call ends.
LEMMA OpensKeeps ==
  ASSUME LInv, NEW c \in Calls, Opens(c)
  PROVE  LInv'
<1> USE LauncherAssumption DEF LInv, Claimed
<1>1. /\ UNCHANGED <<kind, bound, proposed, worker, entered>>
      /\ call[c].at = "open" /\ out.by = c
  BY DEF Opens, BelongToClaim
<1>2. \/ Moved(c, "admit") /\ UNCHANGED lock /\ out' = [out EXCEPT !.started = TRUE]
      \/ Forgot(c, "ended") /\ lock' \in Calls \cup {None} /\ out' = out
  BY GoesMoves, EndsForgets DEF Opens, CallStages
<1>3. /\ out' \in Outputs /\ (call'[c].at = "admit" => out'.started)
      /\ out'.by = out.by /\ out'.op = out.op /\ out'.sensor = out.sensor /\ out'.intent = out.intent
      /\ out'.hostStop = out.hostStop /\ out'.measured = out.measured /\ out'.final = out.final
      /\ out'.late = out.late /\ out'.sealed = out.sealed
  <2>1. out \in Outputs
    BY DEF TypeOK
  <2> QED BY <1>2, <2>1 DEF Outputs, Moved, Forgot
<1>4. TypeOK'
  BY <1>1, <1>2, <1>3 DEF TypeOK, Moved, Forgot
<1>5. Binding'
  BY <1>1, <1>2, <1>3 DEF Binding, Sealed, Moved, Forgot
<1>6. BelongToClaim'
  BY <1>1, <1>2, <1>3 DEF BelongToClaim, Moved, Forgot
<1>7. Progress'
  BY <1>1, <1>2, <1>3 DEF Progress, BelongToClaim, WithIntent, Moved, Forgot
<1>8. RecordsAreTrue'
  BY <1>1, <1>2, <1>3 DEF RecordsAreTrue, Worlds, Moved, Forgot
<1>9. AnswersKnown'
  BY <1>1, <1>2, <1>3 DEF AnswersKnown, TrueAnswer, Quiet, BelongToClaim, Worlds, Reliable, Moved, Forgot
<1> QED BY <1>4, <1>5, <1>6, <1>7, <1>8, <1>9

\* No worker runs yet: a refusal is true of it.
LEMMA AdmitsKeeps ==
  ASSUME LInv, NEW c \in Calls, Admits(c)
  PROVE  LInv'
<1> USE LauncherAssumption DEF LInv, Claimed
<1>1. /\ UNCHANGED <<kind, bound, proposed, lock, worker, entered>>
      /\ call[c].at = "admit" /\ out.by = c /\ worker = NoWorker
  BY DEF Admits, BelongToClaim, Progress
<1>2. \/ call' = call
      \/ \E a \in PlainAnswers : Answered(c, a)
  BY AnswersAnswered, RefusalPlain, Plain DEF Admits
<1>3. /\ out' \in Outputs
      /\ out'.by = out.by /\ out'.op = out.op /\ out'.started = out.started /\ out'.intent = out.intent
      /\ out'.hostStop = out.hostStop /\ out'.measured = out.measured /\ out'.final = out.final
      /\ out'.late = out.late /\ out'.sealed = out.sealed
  <2>1. out \in Outputs /\ \E s \in {"accepted", "refused", "unreaped"} : out' = [out EXCEPT !.sensor = s]
    BY DEF TypeOK, Admits
  <2> QED BY <2>1 DEF Outputs
<1>4. TypeOK'
  BY <1>1, <1>2, <1>3 DEF TypeOK, Answered
<1>5. Binding'
  BY <1>1, <1>2, <1>3 DEF Binding, Sealed, Answered
<1>6. BelongToClaim'
  BY <1>1, <1>2, <1>3 DEF BelongToClaim, Answered
<1>7. Progress'
  BY <1>1, <1>2, <1>3 DEF Progress, BelongToClaim, WithIntent, Answered
<1>8. RecordsAreTrue'
  BY <1>1, <1>2, <1>3 DEF RecordsAreTrue, Worlds, Answered
<1>9. AnswersKnown'
  BY <1>1, <1>2, <1>3, Plain DEF AnswersKnown, TrueAnswer, Quiet, BelongToClaim, Worlds, Reliable,
     Answered, NoWorker, NoAnswer
<1> QED BY <1>4, <1>5, <1>6, <1>7, <1>8, <1>9

\* An error of the admission likewise.
LEMMA AdmissionErrsKeeps ==
  ASSUME LInv, NEW c \in Calls, AdmissionErrs(c)
  PROVE  LInv'
<1> USE LauncherAssumption DEF LInv, Claimed
<1>1. /\ UNCHANGED <<kind, bound, proposed, lock, out, worker, entered>>
      /\ call[c].at = "admit" /\ out.by = c /\ worker = NoWorker
  BY DEF AdmissionErrs, BelongToClaim, Progress
<1>2. \E a \in PlainAnswers : Answered(c, a)
  BY AnswersAnswered, RefusalPlain, Plain DEF AdmissionErrs
<1>3. TypeOK'
  BY <1>1, <1>2 DEF TypeOK, Answered
<1>4. Binding'
  BY <1>1, <1>2 DEF Binding, Sealed, Answered
<1>5. BelongToClaim'
  BY <1>1, <1>2 DEF BelongToClaim, Answered
<1>6. Progress'
  BY <1>1, <1>2 DEF Progress, BelongToClaim, WithIntent, Answered
<1>7. RecordsAreTrue'
  BY <1>1, <1>2 DEF RecordsAreTrue, Worlds, Answered
<1>8. AnswersKnown'
  BY <1>1, <1>2, Plain DEF AnswersKnown, TrueAnswer, Quiet, BelongToClaim, Worlds, Reliable, Answered,
     NoWorker, NoAnswer
<1> QED BY <1>3, <1>4, <1>5, <1>6, <1>7, <1>8

\* With the intent the call counts as dispatched.
LEMMA IntendsKeeps ==
  ASSUME LInv, NEW c \in Calls, Intends(c)
  PROVE  LInv'
<1> USE LauncherAssumption DEF LInv, Claimed
<1>1. /\ UNCHANGED <<kind, bound, proposed, lock, worker, entered>>
      /\ call[c].at = "admit" /\ out.by = c /\ worker = NoWorker /\ out.sensor = "accepted"
  BY DEF Intends, BelongToClaim, Progress
<1>2. ASSUME call' = [call EXCEPT ![c].at = "dispatch", ![c].dispatched = TRUE]
      PROVE  /\ call' \in [Calls -> CallRecords] /\ \A d \in Calls \ {c} : call'[d] = call[d]
             /\ call'[c].at = "dispatch" /\ call'[c].op = call[c].op /\ call'[c].dispatched
             /\ call'[c].measured = call[c].measured
  <2> DEFINE r == [call[c] EXCEPT !.at = "dispatch", !.dispatched = TRUE]
  <2>1. call[c] \in CallRecords
    BY DEF TypeOK
  <2>2. r \in CallRecords /\ r.at = "dispatch" /\ r.op = call[c].op /\ r.dispatched /\ r.measured = call[c].measured
    BY <2>1 DEF CallRecords, CallStages
  <2>3. call' = [call EXCEPT ![c] = r]
    BY <1>2
  <2> HIDE DEF r
  <2>4. call' \in [Calls -> CallRecords] /\ call'[c] = r /\ \A d \in Calls \ {c} : call'[d] = call[d]
    BY <2>2, <2>3, CallSet
  <2> QED BY <2>2, <2>4
<1>3. \E intent \in BOOLEAN :
        /\ out' = [out EXCEPT !.intent = intent]
        /\ \/ /\ intent = WithIntent
              /\ /\ call' \in [Calls -> CallRecords] /\ \A d \in Calls \ {c} : call'[d] = call[d]
              /\ call'[c].at = "dispatch" /\ call'[c].op = call[c].op /\ call'[c].dispatched
              /\ call'[c].measured = call[c].measured
           \/ \E a \in PlainAnswers : Answered(c, a)
  <2>1. WithIntent \in BOOLEAN
    BY DEF WithIntent
  <2>2. CASE out' = [out EXCEPT !.intent = WithIntent] /\ call' = [call EXCEPT ![c].at = "dispatch", ![c].dispatched = TRUE]
    BY <1>2, <2>1, <2>2
  <2>3. CASE \E intent \in {FALSE, WithIntent} :
               out' = [out EXCEPT !.intent = intent] /\ Answers(c, PreparationError(intent))
    BY <2>1, <2>3, AnswersAnswered, RefusalPlain, Plain
  <2> QED BY <2>2, <2>3 DEF Intends
<1>4. /\ out' \in Outputs
      /\ out'.by = out.by /\ out'.op = out.op /\ out'.started = out.started /\ out'.sensor = out.sensor
      /\ out'.hostStop = out.hostStop /\ out'.measured = out.measured /\ out'.final = out.final
      /\ out'.late = out.late /\ out'.sealed = out.sealed
      /\ call'[c].at = "dispatch" => out'.intent = WithIntent
  <2>1. out \in Outputs
    BY DEF TypeOK
  <2> QED BY <1>3, <2>1 DEF Outputs, Answered
<1>5. TypeOK'
  BY <1>1, <1>2, <1>3, <1>4 DEF TypeOK, Answered
<1>6. Binding'
  BY <1>1, <1>2, <1>3, <1>4 DEF Binding, Sealed, Answered
<1>7. BelongToClaim'
  BY <1>1, <1>2, <1>3, <1>4 DEF BelongToClaim, Answered
<1>8. Progress'
  BY <1>1, <1>2, <1>3, <1>4 DEF Progress, BelongToClaim, WithIntent, Answered
<1>9. RecordsAreTrue'
  BY <1>1, <1>2, <1>3, <1>4 DEF RecordsAreTrue, Worlds, Answered
<1>10. AnswersKnown'
  BY <1>1, <1>2, <1>3, <1>4, Plain DEF AnswersKnown, TrueAnswer, Quiet, BelongToClaim, Worlds, Reliable,
     Answered, NoWorker, NoAnswer
<1> QED BY <1>5, <1>6, <1>7, <1>8, <1>9, <1>10

\* The one step that starts a worker: none was started before.
LEMMA DispatchesKeeps ==
  ASSUME LInv, NEW c \in Calls, Dispatches(c)
  PROVE  LInv'
<1> USE LauncherAssumption DEF LInv, Claimed
<1>1. /\ UNCHANGED <<kind, bound, proposed, lock, out>>
      /\ call[c].at = "dispatch" /\ out.by = c /\ c # None /\ worker = NoWorker /\ entered = << >>
      /\ call[c].op \in Ops /\ 0 \in AnyCount
  BY DEF Dispatches, BelongToClaim, Progress, AnyCount
<1>2. /\ call' \in [Calls -> CallRecords] /\ \A d \in Calls \ {c} : call'[d] = call[d]
      /\ call'[c].at \in {"watch", "reap", "judge"} /\ call'[c].op = call[c].op /\ call'[c].dispatched
      /\ call'[c].measured = call[c].measured
  <2>1. PICK x \in {"watch", "reap", "judge"}, stop \in BOOLEAN :
          call' = [call EXCEPT ![c] = [call[c] EXCEPT !.at = x, !.stop = stop]]
    <3>1. call[c] \in CallRecords /\ call[c] = [call[c] EXCEPT !.stop = call[c].stop]
      BY DEF TypeOK, CallRecords
    <3>2. CASE \E stop \in BOOLEAN :
                 call' = [call EXCEPT ![c].at = IF stop THEN "reap" ELSE "watch", ![c].stop = stop]
      BY <3>2
    <3>3. CASE call' = [call EXCEPT ![c].at = "reap", ![c].stop = TRUE]
      BY <3>3
    <3>4. CASE Goes(c, "judge")
      <4>1. call' = [call EXCEPT ![c] = [call[c] EXCEPT !.at = "judge"]]
        BY <3>4 DEF Goes
      <4>2. [call[c] EXCEPT !.at = "judge"] = [call[c] EXCEPT !.at = "judge", !.stop = call[c].stop]
        BY <3>1 DEF CallRecords
      <4>3. call[c].stop \in BOOLEAN
        BY <3>1 DEF CallRecords
      <4> QED BY <4>1, <4>2, <4>3
    <3> QED BY <3>2, <3>3, <3>4 DEF Dispatches
  <2> DEFINE r == [call[c] EXCEPT !.at = x, !.stop = stop]
  <2>2. /\ r \in CallRecords /\ r.at = x /\ r.op = call[c].op /\ r.dispatched = call[c].dispatched
        /\ r.measured = call[c].measured
    <3>1. call[c] \in CallRecords
      BY DEF TypeOK
    <3> QED BY <3>1 DEF CallRecords, CallStages
  <2>3. call' = [call EXCEPT ![c] = r]
    BY <2>1
  <2> HIDE DEF r
  <2>4. call' \in [Calls -> CallRecords] /\ call'[c] = r /\ \A d \in Calls \ {c} : call'[d] = call[d]
    BY <2>2, <2>3, CallSet
  <2> QED BY <1>1, <2>2, <2>4 DEF Progress
<1>3. /\ worker' \in Workers /\ entered' \in Seq(Ops)
      /\ worker' = NoWorker \/ (worker'.by = c /\ worker'.state = "running")
      /\ worker'.record = "none" /\ worker'.exit = "none" /\ worker'.worlds = 0
      /\ call'[c].at = "watch" => worker'.by = c
  <2> DEFINE new == [NoWorker EXCEPT !.by = c, !.state = "running"]
  <2>1. /\ new \in Workers /\ new.by = c /\ new.state = "running"
        /\ new.record = "none" /\ new.exit = "none" /\ new.worlds = 0
    BY <1>1 DEF NoWorker, Workers
  <2>2. /\ NoWorker \in Workers /\ NoWorker.record = "none" /\ NoWorker.exit = "none" /\ NoWorker.worlds = 0
    BY <1>1 DEF NoWorker, Workers
  <2>3. worker' = new \/ (worker' = NoWorker /\ call'[c].at # "watch")
    <3>1. call[c] \in CallRecords /\ call \in [Calls -> CallRecords]
      BY DEF TypeOK
    <3>2. ASSUME call' = [call EXCEPT ![c].at = "reap", ![c].stop = TRUE] PROVE call'[c].at # "watch"
      BY <3>1, <3>2 DEF CallRecords
    <3>3. ASSUME Goes(c, "judge") PROVE call'[c].at # "watch"
      BY <3>1, <3>3 DEF CallRecords, Goes
    <3> QED BY <1>1, <3>2, <3>3 DEF Dispatches
  <2>4. entered' = entered \/ entered' = Append(entered, call[c].op)
    BY DEF Dispatches
  <2>5. entered' \in Seq(Ops)
    <3>1. entered \in Seq(Ops) /\ call[c].op \in Ops
      BY <1>1 DEF TypeOK
    <3> QED BY <2>4, <3>1
  <2> HIDE DEF new
  <2> QED BY <2>1, <2>2, <2>3, <2>5
<1>4. TypeOK'
  BY <1>1, <1>2, <1>3 DEF TypeOK
<1>5. Binding'
  BY <1>1, <1>2, <1>3 DEF Binding, Sealed
<1>6. BelongToClaim'
  BY <1>1, <1>2, <1>3 DEF BelongToClaim, NoWorker
<1>7. Progress'
  BY <1>1, <1>2, <1>3 DEF Progress, BelongToClaim, WithIntent
<1>8. RecordsAreTrue'
  BY <1>1, <1>2, <1>3 DEF RecordsAreTrue, Worlds, Unmeasured, Progress
<1>9. AnswersKnown'
  BY <1>1, <1>2, <1>3 DEF AnswersKnown, TrueAnswer, Quiet, BelongToClaim, Worlds, Reliable, NoAnswer
<1> QED BY <1>4, <1>5, <1>6, <1>7, <1>8, <1>9

\* A sample that stops the run makes the call stop it.
LEMMA SamplesKeeps ==
  ASSUME LInv, NEW c \in Calls, Samples(c)
  PROVE  LInv'
<1> USE LauncherAssumption DEF LInv, Claimed
<1>1. /\ UNCHANGED <<kind, bound, proposed, lock, worker, entered>>
      /\ call[c].at = "watch" /\ out.by = c /\ worker.state = "running"
  BY DEF Samples, BelongToClaim
<1>2. ASSUME call' = [call EXCEPT ![c].sampled = TRUE]
      PROVE  /\ call' \in [Calls -> CallRecords] /\ \A d \in Calls \ {c} : call'[d] = call[d]
             /\ call'[c].at = call[c].at /\ call'[c].stop = call[c].stop
             /\ call'[c].op = call[c].op /\ call'[c].dispatched = call[c].dispatched
             /\ call'[c].measured = call[c].measured
  <2> DEFINE r == [call[c] EXCEPT !.sampled = TRUE]
  <2>1. call[c] \in CallRecords
    BY DEF TypeOK
  <2>2. r \in CallRecords /\ r.at = call[c].at /\ r.stop = call[c].stop
      /\ r.op = call[c].op /\ r.dispatched = call[c].dispatched /\ r.measured = call[c].measured
    BY <2>1 DEF CallRecords, CallStages, Claimed
  <2>3. call' = [call EXCEPT ![c] = r]
    BY <1>2
  <2> HIDE DEF r
  <2>4. call' \in [Calls -> CallRecords] /\ call'[c] = r /\ \A d \in Calls \ {c} : call'[d] = call[d]
    BY <2>2, <2>3, CallSet
  <2> QED BY <2>2, <2>4
<1>3. ASSUME call' = [call EXCEPT ![c].at = "reap", ![c].stop = TRUE]
      PROVE  /\ call' \in [Calls -> CallRecords] /\ \A d \in Calls \ {c} : call'[d] = call[d]
             /\ call'[c].at = "reap" /\ call'[c].stop
             /\ call'[c].op = call[c].op /\ call'[c].dispatched = call[c].dispatched
             /\ call'[c].measured = call[c].measured
  <2> DEFINE r == [call[c] EXCEPT !.at = "reap", !.stop = TRUE]
  <2>1. call[c] \in CallRecords
    BY DEF TypeOK
  <2>2. r \in CallRecords /\ r.at = "reap" /\ r.stop
      /\ r.op = call[c].op /\ r.dispatched = call[c].dispatched /\ r.measured = call[c].measured
    BY <2>1 DEF CallRecords, CallStages, Claimed
  <2>3. call' = [call EXCEPT ![c] = r]
    BY <1>3
  <2> HIDE DEF r
  <2>4. call' \in [Calls -> CallRecords] /\ call'[c] = r /\ \A d \in Calls \ {c} : call'[d] = call[d]
    BY <2>2, <2>3, CallSet
  <2> QED BY <2>2, <2>4
<1>4. /\ call' \in [Calls -> CallRecords] /\ \A d \in Calls \ {c} : call'[d] = call[d]
      /\ call'[c].op = call[c].op /\ call'[c].dispatched = call[c].dispatched
      /\ call'[c].measured = call[c].measured
      /\ \/ call'[c].at = "watch" /\ UNCHANGED out
         \/ call'[c].at = "reap" /\ call'[c].stop /\ out' = [out EXCEPT !.hostStop = TRUE]
  BY <1>1, <1>2, <1>3 DEF Samples
<1>5. /\ out' \in Outputs /\ (call'[c].at = "watch" => out'.hostStop = out.hostStop)
      /\ out'.by = out.by /\ out'.op = out.op /\ out'.started = out.started /\ out'.sensor = out.sensor
      /\ out'.intent = out.intent /\ out'.measured = out.measured /\ out'.final = out.final
      /\ out'.late = out.late /\ out'.sealed = out.sealed
  <2>1. out \in Outputs
    BY DEF TypeOK
  <2> QED BY <1>4, <2>1 DEF Outputs
<1>6. TypeOK'
  BY <1>1, <1>2, <1>3, <1>4, <1>5 DEF TypeOK
<1>7. Binding'
  BY <1>1, <1>2, <1>3, <1>4, <1>5 DEF Binding, Sealed
<1>8. BelongToClaim'
  BY <1>1, <1>2, <1>3, <1>4, <1>5 DEF BelongToClaim
<1>9. Progress'
  BY <1>1, <1>2, <1>3, <1>4, <1>5 DEF Progress, BelongToClaim, WithIntent
<1>10. RecordsAreTrue'
  BY <1>1, <1>2, <1>3, <1>4, <1>5 DEF RecordsAreTrue, Worlds, Progress, BelongToClaim, Unmeasured
<1>11. AnswersKnown'
  BY <1>1, <1>2, <1>3, <1>4, <1>5 DEF AnswersKnown, TrueAnswer, Quiet, BelongToClaim, Worlds, Reliable,
     NoAnswer, TypeOK, Workers
<1> QED BY <1>6, <1>7, <1>8, <1>9, <1>10, <1>11

\* A call that stops watching keeps what it knows.
LEMMA StopsKeeps ==
  ASSUME LInv, NEW c \in Calls, Stops(c)
  PROVE  LInv'
<1> USE LauncherAssumption DEF LInv, Claimed
<1>1. /\ UNCHANGED <<kind, bound, proposed, lock, out, worker, entered>>
      /\ call[c].at = "watch" /\ ~out.hostStop
  BY DEF Stops, Progress
<1>2. ASSUME call' = [call EXCEPT ![c].at = "reap"]
      PROVE  /\ call' \in [Calls -> CallRecords] /\ \A d \in Calls \ {c} : call'[d] = call[d]
             /\ call'[c].at = "reap"
             /\ call'[c].op = call[c].op /\ call'[c].dispatched = call[c].dispatched
             /\ call'[c].measured = call[c].measured
  <2> DEFINE r == [call[c] EXCEPT !.at = "reap"]
  <2>1. call[c] \in CallRecords
    BY DEF TypeOK
  <2>2. r \in CallRecords /\ r.at = "reap"
      /\ r.op = call[c].op /\ r.dispatched = call[c].dispatched /\ r.measured = call[c].measured
    BY <2>1 DEF CallRecords, CallStages, Claimed
  <2>3. call' = [call EXCEPT ![c] = r]
    BY <1>2
  <2> HIDE DEF r
  <2>4. call' \in [Calls -> CallRecords] /\ call'[c] = r /\ \A d \in Calls \ {c} : call'[d] = call[d]
    BY <2>2, <2>3, CallSet
  <2> QED BY <2>2, <2>4
<1>3. ASSUME call' = [call EXCEPT ![c].at = "reap", ![c].stop = TRUE]
      PROVE  /\ call' \in [Calls -> CallRecords] /\ \A d \in Calls \ {c} : call'[d] = call[d]
             /\ call'[c].at = "reap"
             /\ call'[c].op = call[c].op /\ call'[c].dispatched = call[c].dispatched
             /\ call'[c].measured = call[c].measured
  <2> DEFINE r == [call[c] EXCEPT !.at = "reap", !.stop = TRUE]
  <2>1. call[c] \in CallRecords
    BY DEF TypeOK
  <2>2. r \in CallRecords /\ r.at = "reap"
      /\ r.op = call[c].op /\ r.dispatched = call[c].dispatched /\ r.measured = call[c].measured
    BY <2>1 DEF CallRecords, CallStages, Claimed
  <2>3. call' = [call EXCEPT ![c] = r]
    BY <1>3
  <2> HIDE DEF r
  <2>4. call' \in [Calls -> CallRecords] /\ call'[c] = r /\ \A d \in Calls \ {c} : call'[d] = call[d]
    BY <2>2, <2>3, CallSet
  <2> QED BY <2>2, <2>4
<1>4. /\ call' \in [Calls -> CallRecords] /\ \A d \in Calls \ {c} : call'[d] = call[d]
      /\ call'[c].at = "reap"
      /\ call'[c].op = call[c].op /\ call'[c].dispatched = call[c].dispatched
      /\ call'[c].measured = call[c].measured
  BY <1>1, <1>2, <1>3 DEF Stops, Goes
<1>5. TypeOK'
  BY <1>1, <1>2, <1>3, <1>4 DEF TypeOK
<1>6. Binding'
  BY <1>1, <1>2, <1>3, <1>4 DEF Binding, Sealed
<1>7. BelongToClaim'
  BY <1>1, <1>2, <1>3, <1>4 DEF BelongToClaim
<1>8. Progress'
  BY <1>1, <1>2, <1>3, <1>4 DEF Progress, BelongToClaim, WithIntent
<1>9. RecordsAreTrue'
  BY <1>1, <1>2, <1>3, <1>4 DEF RecordsAreTrue, Worlds
<1>10. AnswersKnown'
  BY <1>1, <1>2, <1>3, <1>4 DEF AnswersKnown, TrueAnswer, Quiet, BelongToClaim, Worlds, Reliable
<1> QED BY <1>5, <1>6, <1>7, <1>8, <1>9, <1>10

\* What is measured as reaped has ended; a host stop is measured as one.
LEMMA ReapsKeeps ==
  ASSUME LInv, NEW c \in Calls, Reaps(c)
  PROVE  LInv'
<1> USE LauncherAssumption DEF LInv, Claimed
<1>1. /\ UNCHANGED <<kind, bound, proposed, lock, entered>>
      /\ call[c].at = "reap" /\ out.by = c /\ c # None /\ worker.by \in {None, c}
      /\ out.hostStop => call[c].stop
      /\ worker.by # None => worker.state \in {"running", "ended"}
  BY DEF Reaps, BelongToClaim, Progress, TypeOK, Workers
<1>2. PICK m \in Measures :
        /\ call' = [call EXCEPT ![c].at = "judge", ![c].measured = m]
        /\ out' = [out EXCEPT !.measured = m]
        /\ m.known => (call[c].stop => m.stop)
        /\ \/ worker' = worker /\ (m.reaped => Started(c) /\ ~Running(c))
           \/ /\ Running(c)
              /\ worker' = [worker EXCEPT !.state = "ended", !.exit = "signal"]
  <2>1. PICK reaped \in {FALSE, Started(c)}, late \in {FALSE, kind # "prospective"}, stored \in BOOLEAN :
         LET m == Measure(c, call[c].stop \/ late \/ (kind = "prospective" /\ Started(c) /\ ~reaped), reaped)
             raises == ~stored \/ (Started(c) /\ ~reaped /\ kind # "prospective")
         IN /\ reaped \/ ~Started(c) \/ Running(c)
            /\ worker' = IF reaped /\ Running(c) THEN [worker EXCEPT !.state = "ended", !.exit = "signal"]
                         ELSE worker
            /\ call' = [call EXCEPT ![c].at = "judge", ![c].measured = IF raises THEN Unmeasured ELSE m]
            /\ out' = [out EXCEPT !.measured = IF raises THEN Unmeasured ELSE m]
    BY DEF Reaps
  <2> DEFINE stop == call[c].stop \/ late \/ (kind = "prospective" /\ Started(c) /\ ~reaped)
             raises == ~stored \/ (Started(c) /\ ~reaped /\ kind # "prospective")
             m == IF raises THEN Unmeasured ELSE Measure(c, stop, reaped)
  <2>2. call[c] \in CallRecords
    BY DEF TypeOK
  <2>3. call[c].stop \in BOOLEAN /\ call[c].sampled \in BOOLEAN
    BY <2>2 DEF CallRecords
  <2>4. stop \in BOOLEAN /\ reaped \in BOOLEAN /\ (reaped => Started(c)) /\ (call[c].stop => stop)
    BY <2>3 DEF Started
  <2> HIDE DEF stop
  <2>5. Measure(c, stop, reaped) \in Measures
    BY <2>3, <2>4 DEF Measure, Measures
  <2>6. m \in Measures /\ (m.known => (call[c].stop => m.stop)) /\ (m.reaped => reaped)
    BY <2>4, <2>5, NoCallTyped DEF Measure, Unmeasured
  <2>7. call' = [call EXCEPT ![c].at = "judge", ![c].measured = m] /\ out' = [out EXCEPT !.measured = m]
    BY <2>1 DEF stop
  <2>8. \/ worker' = worker /\ (reaped => Started(c) /\ ~Running(c))
        \/ Running(c) /\ worker' = [worker EXCEPT !.state = "ended", !.exit = "signal"]
    BY <2>1, <2>4
  <2> HIDE DEF m
  <2> QED BY <2>6, <2>7, <2>8
<1>3. /\ call' \in [Calls -> CallRecords] /\ \A d \in Calls \ {c} : call'[d] = call[d]
      /\ call'[c].at = "judge" /\ call'[c].op = call[c].op /\ call'[c].dispatched = call[c].dispatched
      /\ call'[c].measured = m
  <2> DEFINE r == [call[c] EXCEPT !.at = "judge", !.measured = m]
  <2>1. call[c] \in CallRecords
    BY DEF TypeOK
  <2>2. r \in CallRecords /\ r.at = "judge" /\ r.op = call[c].op /\ r.dispatched = call[c].dispatched /\ r.measured = m
    BY <2>1 DEF CallRecords, CallStages, Claimed
  <2>3. call' = [call EXCEPT ![c] = r]
    BY <1>2
  <2> HIDE DEF r
  <2>4. call' \in [Calls -> CallRecords] /\ call'[c] = r /\ \A d \in Calls \ {c} : call'[d] = call[d]
    BY <2>2, <2>3, CallSet
  <2> QED BY <2>2, <2>4
<1>4. /\ out' \in Outputs /\ out'.measured = m
      /\ out'.by = out.by /\ out'.op = out.op /\ out'.started = out.started /\ out'.sensor = out.sensor
      /\ out'.intent = out.intent /\ out'.hostStop = out.hostStop /\ out'.final = out.final
      /\ out'.late = out.late /\ out'.sealed = out.sealed
  <2>1. out \in Outputs
    BY DEF TypeOK
  <2> QED BY <1>2, <2>1 DEF Outputs
<1>5. /\ worker' \in Workers /\ worker'.by = worker.by
      /\ worker'.record = worker.record /\ worker'.worlds = worker.worlds
      /\ worker' = worker \/ worker'.state = "ended"
      /\ m.reaped => worker'.by = c /\ worker'.state = "ended"
      /\ worker.by = None => worker' = worker
  <2>1. worker \in Workers
    BY DEF TypeOK
  <2> QED BY <1>1, <1>2, <2>1 DEF Workers, Running, Started
<1>6. TypeOK'
  BY <1>1, <1>2, <1>3, <1>4, <1>5 DEF TypeOK
<1>7. Binding'
  BY <1>1, <1>2, <1>3, <1>4, <1>5 DEF Binding, Sealed
<1>8. BelongToClaim'
  BY <1>1, <1>2, <1>3, <1>4, <1>5 DEF BelongToClaim, NoWorker
<1>9. Progress'
  BY <1>1, <1>2, <1>3, <1>4, <1>5 DEF Progress, BelongToClaim, WithIntent, NoWorker
<1>10. RecordsAreTrue'
  BY <1>1, <1>2, <1>3, <1>4, <1>5 DEF RecordsAreTrue, Worlds, Progress
<1>11. AnswersKnown'
  BY <1>1, <1>2, <1>3, <1>4, <1>5 DEF AnswersKnown, TrueAnswer, Quiet, BelongToClaim, Worlds, Reliable,
     NoAnswer, Workers
<1> QED BY <1>6, <1>7, <1>8, <1>9, <1>10, <1>11

\* Only a worker without a record enters a world, and no count but the open one is out.
LEMMA WorkerEntersKeeps ==
  ASSUME LInv, WorkerEnters
  PROVE  LInv'
<1> USE LauncherAssumption DEF LInv, Claimed
<1>1. /\ UNCHANGED <<kind, bound, proposed, lock, out, entered, call>>
      /\ worker.state = "running" /\ worker.record = "none" /\ worker # NoWorker /\ worker.by # None
      /\ worker' = [worker EXCEPT !.worlds = @ + 1] /\ worker.worlds < Worlds
  BY DEF WorkerEnters, NoWorker, BelongToClaim
<1>2. /\ worker' \in Workers /\ worker'.by = worker.by /\ worker'.state = "running"
      /\ worker'.record = "none" /\ worker'.exit = worker.exit
  <2>1. worker \in Workers
    BY DEF TypeOK
  <2>2. worker.worlds + 1 \in AnyCount
    BY <1>1, <2>1 DEF Workers, AnyCount, Worlds
  <2> QED BY <1>1, <2>1, <2>2 DEF Workers
<1>3. worker'.worlds \in AnyCount
  BY <1>2 DEF Workers
<1>4. TypeOK'
  BY <1>1, <1>2, <1>3 DEF TypeOK
<1>5. Binding'
  BY <1>1, <1>2, <1>3 DEF Binding, Sealed
<1>6. BelongToClaim'
  BY <1>1, <1>2, <1>3 DEF BelongToClaim
<1>7. Progress'
  BY <1>1, <1>2, <1>3 DEF Progress, BelongToClaim, WithIntent
<1>8. RecordsAreTrue'
  BY <1>1, <1>2, <1>3 DEF RecordsAreTrue, Worlds
<1>9. AnswersKnown'
  BY <1>1, <1>2, <1>3 DEF AnswersKnown, TrueAnswer, Quiet, BelongToClaim, Worlds, Reliable
<1> QED BY <1>4, <1>5, <1>6, <1>7, <1>8, <1>9

\* A worker records its pair as complete once both worlds are counted.
LEMMA WorkerRecordsKeeps ==
  ASSUME LInv, WorkerRecords
  PROVE  LInv'
<1> USE LauncherAssumption DEF LInv, Claimed
<1>1. /\ UNCHANGED <<kind, bound, proposed, lock, out, entered, call>>
      /\ worker.state = "running" /\ worker.record = "none" /\ worker # NoWorker /\ worker.by # None
  BY DEF WorkerRecords, NoWorker, BelongToClaim
<1>2. /\ worker' \in Workers /\ worker'.by = worker.by /\ worker'.state = "running"
      /\ worker'.worlds = worker.worlds /\ worker'.exit = worker.exit
      /\ worker'.record = "go" => worker.worlds = Worlds
  <2>1. worker \in Workers
    BY DEF TypeOK
  <2>2. PICK r \in {"stop", "torn"} \cup (IF worker.worlds = Worlds THEN {"go"} ELSE {}) :
          worker' = [worker EXCEPT !.record = r]
    BY DEF WorkerRecords
  <2>3. r \in {"stop", "torn", "go"} /\ (r = "go" => worker.worlds = Worlds)
    BY <2>2
  <2> QED BY <1>1, <2>1, <2>2, <2>3 DEF Workers
<1>3. TypeOK'
  BY <1>1, <1>2 DEF TypeOK
<1>4. Binding'
  BY <1>1, <1>2 DEF Binding, Sealed
<1>5. BelongToClaim'
  BY <1>1, <1>2 DEF BelongToClaim
<1>6. Progress'
  BY <1>1, <1>2 DEF Progress, BelongToClaim, WithIntent
<1>7. RecordsAreTrue'
  BY <1>1, <1>2 DEF RecordsAreTrue, Worlds
<1>8. AnswersKnown'
  BY <1>1, <1>2 DEF AnswersKnown, TrueAnswer, Quiet, BelongToClaim, Worlds, Reliable
<1> QED BY <1>3, <1>4, <1>5, <1>6, <1>7, <1>8

\* A worker that exits was running, so nothing was said of its exit.
LEMMA WorkerExitsKeeps ==
  ASSUME LInv, WorkerExits
  PROVE  LInv'
<1> USE LauncherAssumption DEF LInv, Claimed
<1>1. /\ UNCHANGED <<kind, bound, proposed, lock, out, entered, call>>
      /\ worker.state = "running" /\ worker.exit = "none" /\ worker # NoWorker /\ worker.by # None
  BY DEF WorkerExits, NoWorker, BelongToClaim, RecordsAreTrue
<1>2. /\ worker' \in Workers /\ worker'.by = worker.by /\ worker'.state = "ended"
      /\ worker'.worlds = worker.worlds /\ worker'.record = worker.record
  <2>1. worker \in Workers
    BY DEF TypeOK
  <2>2. PICK e \in {"one", "signal", "zero"} : worker' = [worker EXCEPT !.state = "ended", !.exit = e]
    BY DEF WorkerExits
  <2> QED BY <1>1, <2>1, <2>2 DEF Workers
<1>3. TypeOK'
  BY <1>1, <1>2 DEF TypeOK
<1>4. Binding'
  BY <1>1, <1>2 DEF Binding, Sealed
<1>5. BelongToClaim'
  BY <1>1, <1>2 DEF BelongToClaim
<1>6. Progress'
  BY <1>1, <1>2 DEF Progress, BelongToClaim, WithIntent
<1>7. RecordsAreTrue'
  BY <1>1, <1>2 DEF RecordsAreTrue, Worlds
<1>8. AnswersKnown'
  BY <1>1, <1>2 DEF AnswersKnown, TrueAnswer, Quiet, BelongToClaim, Worlds, Reliable
<1> QED BY <1>3, <1>4, <1>5, <1>6, <1>7, <1>8

\* The first judgement answers truly.
LEMMA JudgesKeeps ==
  ASSUME LInv, NEW c \in Calls, Judges(c)
  PROVE  LInv'
<1> USE LauncherAssumption DEF LInv, Claimed
<1>1. /\ UNCHANGED <<kind, bound, proposed, lock, out, worker, entered>>
      /\ call[c].at = "judge"
  BY DEF Judges
<1>2. PICK a \in AllAnswers : Answered(c, a) /\ a.terminal # "none" /\ TrueAnswer(a)
  BY JudgedTrue, AnswersAnswered DEF Judges
<1>3. TypeOK'
  BY <1>1, <1>2 DEF TypeOK, Answered
<1>4. Binding'
  BY <1>1, <1>2 DEF Binding, Sealed, Answered
<1>5. BelongToClaim'
  BY <1>1, <1>2 DEF BelongToClaim, Answered
<1>6. Progress'
  BY <1>1, <1>2 DEF Progress, BelongToClaim, WithIntent, Answered
<1>7. RecordsAreTrue'
  BY <1>1, <1>2 DEF RecordsAreTrue, Worlds, Answered
<1>8. AnswersKnown'
  BY <1>1, <1>2 DEF AnswersKnown, TrueAnswer, Quiet, BelongToClaim, Worlds, Reliable, Answered
<1> QED BY <1>3, <1>4, <1>5, <1>6, <1>7, <1>8

\* The verifier is handed a complete pair of a clean process.
LEMMA HandsOverKeeps ==
  ASSUME LInv, NEW c \in Calls, HandsOver(c)
  PROVE  LInv'
<1> USE LauncherAssumption DEF LInv, Claimed
<1>1. /\ UNCHANGED <<kind, bound, proposed, lock, out, worker, entered>>
      /\ call[c].at = "judge" /\ kind \in {"plan", "case"} /\ Reliable(out.measured)
      /\ worker.record = "go" /\ worker.exit = "zero"
  BY DEF HandsOver, BelongToClaim
<1>2. Moved(c, "verify")
  BY GoesMoves DEF HandsOver, CallStages
<1>3. TypeOK'
  BY <1>1, <1>2 DEF TypeOK, Moved
<1>4. Binding'
  BY <1>1, <1>2 DEF Binding, Sealed, Moved
<1>5. BelongToClaim'
  BY <1>1, <1>2 DEF BelongToClaim, Moved
<1>6. Progress'
  BY <1>1, <1>2 DEF Progress, BelongToClaim, WithIntent, Moved
<1>7. RecordsAreTrue'
  BY <1>1, <1>2 DEF RecordsAreTrue, Worlds, Moved
<1>8. AnswersKnown'
  BY <1>1, <1>2 DEF AnswersKnown, TrueAnswer, Quiet, BelongToClaim, Worlds, Reliable, Moved
<1> QED BY <1>3, <1>4, <1>5, <1>6, <1>7, <1>8

\* So does the second.
LEMMA VerifiesKeeps ==
  ASSUME LInv, NEW c \in Calls, Verifies(c)
  PROVE  LInv'
<1> USE LauncherAssumption DEF LInv, Claimed
<1>1. /\ UNCHANGED <<kind, bound, proposed, lock, out, worker, entered>>
      /\ call[c].at = "verify"
  BY DEF Verifies
<1>2. PICK a \in AllAnswers : Answered(c, a) /\ a.terminal # "none" /\ TrueAnswer(a)
  BY VerifiedTrue, AnswersAnswered DEF Verifies
<1>3. TypeOK'
  BY <1>1, <1>2 DEF TypeOK, Answered
<1>4. Binding'
  BY <1>1, <1>2 DEF Binding, Sealed, Answered
<1>5. BelongToClaim'
  BY <1>1, <1>2 DEF BelongToClaim, Answered
<1>6. Progress'
  BY <1>1, <1>2 DEF Progress, BelongToClaim, WithIntent, Answered
<1>7. RecordsAreTrue'
  BY <1>1, <1>2 DEF RecordsAreTrue, Worlds, Answered
<1>8. AnswersKnown'
  BY <1>1, <1>2 DEF AnswersKnown, TrueAnswer, Quiet, BelongToClaim, Worlds, Reliable, Answered
<1> QED BY <1>3, <1>4, <1>5, <1>6, <1>7, <1>8

\* The answer is recorded, or demoted; sealing is open only to a quiet output.
LEMMA FinishesKeeps ==
  ASSUME LInv, NEW c \in Calls, Finishes(c)
  PROVE  LInv'
<1> USE LauncherAssumption DEF LInv, Claimed
<1>1. /\ UNCHANGED <<kind, bound, proposed, worker, entered>>
      /\ call[c].at = "answer" /\ out.by = c /\ ~out.sealed
  BY DEF Finishes, BelongToClaim
<1>2. call[c].answer \in AllAnswers /\ call[c].answer.terminal # "none" /\ TrueAnswer(call[c].answer)
  <2>1. call[c] \in CallRecords
    BY DEF TypeOK
  <2> QED BY <1>1, <2>1 DEF CallRecords, AnswersKnown
<1>3. ASSUME NEW clean \in CleanupConfirmed(c), MaySeal(c, clean)
      PROVE  Quiet /\ (kind = "case" => clean)
  <2>1. call[c].measured = out.measured /\ (~call[c].dispatched => worker.state # "running")
    BY <1>1 DEF BelongToClaim, Progress, NoWorker
  <2>2. out.measured.reaped => worker.state # "running"
    BY DEF RecordsAreTrue
  <2>3. CASE kind = "plan"
    BY <1>3, <2>1, <2>2, <2>3 DEF MaySeal, Quiet
  <2>4. CASE kind = "kit"
    BY <1>1, <1>3, <2>1, <2>2, <2>4 DEF MaySeal, Quiet, Progress, WithIntent
  <2>5. CASE kind = "case"
    <3>1. clean
      BY <1>3, <2>5 DEF MaySeal
    <3>2. out.sensor # "unreaped" /\ (call[c].dispatched => call[c].measured.reaped)
      BY <1>3, <3>1 DEF CleanupConfirmed
    <3> QED BY <2>1, <2>2, <3>1, <3>2 DEF Quiet
  <2>6. CASE kind \notin {"plan", "kit", "case"}
    BY <1>3, <2>6 DEF MaySeal
  <2> QED BY <2>3, <2>4, <2>5, <2>6
<1>4. \/ Forgot(c, "ended") /\ lock' \in Calls \cup {None} /\ out' = out
      \/ \E f \in AllAnswers, late \in BOOLEAN :
           /\ out' = [out EXCEPT !.late = late, !.final = f]
           /\ f.terminal # "none" /\ TrueAnswer(f) /\ lock' \in Calls \cup {None}
           /\ \/ Forgot(c, "seal") /\ Quiet
              \/ Forgot(c, "done") /\ (kind = "case" => f.terminal # "PASS")
  <2>1. CASE Ends(c) /\ UNCHANGED out
    BY <2>1, EndsForgets
  <2>2. ASSUME NEW clean \in CleanupConfirmed(c), NEW late \in {FALSE, kind = "kit"},
               out' = [out EXCEPT !.late = late,
                         !.final = IF kind = "case" /\ ~clean THEN [call[c].answer EXCEPT !.terminal = "INTERRUPTED"]
                                   ELSE call[c].answer],
               IF MaySeal(c, clean)
               THEN call' = [call EXCEPT ![c] = [NoCall EXCEPT !.at = "seal"]] /\ UNCHANGED lock
               ELSE call' = [call EXCEPT ![c] = [NoCall EXCEPT !.at = "done"]] /\ Unlocks(c)
        PROVE  \E f \in AllAnswers, l \in BOOLEAN :
                 /\ out' = [out EXCEPT !.late = l, !.final = f]
                 /\ f.terminal # "none" /\ TrueAnswer(f) /\ lock' \in Calls \cup {None}
                 /\ \/ Forgot(c, "seal") /\ Quiet
                    \/ Forgot(c, "done") /\ (kind = "case" => f.terminal # "PASS")
    <3> DEFINE f == IF kind = "case" /\ ~clean THEN [call[c].answer EXCEPT !.terminal = "INTERRUPTED"]
                    ELSE call[c].answer
    <3>1. /\ f \in AllAnswers /\ f.terminal # "none" /\ TrueAnswer(f)
          /\ kind = "case" /\ ~clean => f.terminal # "PASS"
      <4>1. [call[c].answer EXCEPT !.terminal = "INTERRUPTED"] \in AllAnswers
        BY <1>2 DEF AllAnswers, Terminals
      <4>2. /\ [call[c].answer EXCEPT !.terminal = "INTERRUPTED"].terminal = "INTERRUPTED"
            /\ [call[c].answer EXCEPT !.terminal = "INTERRUPTED"].counts = call[c].answer.counts
        BY <1>2 DEF AllAnswers
      <4> QED BY <1>2, <4>1, <4>2 DEF TrueAnswer
    <3>2. out' = [out EXCEPT !.late = late, !.final = f] /\ late \in BOOLEAN
      BY <2>2
    <3>3. lock' \in Calls \cup {None}
      BY <2>2 DEF TypeOK, Unlocks
    <3> HIDE DEF f
    <3>4. CASE MaySeal(c, clean)
      <4>1. Forgot(c, "seal")
        BY <2>2, <3>4, Forgets DEF CallStages
      <4> QED BY <1>3, <3>1, <3>2, <3>3, <3>4, <4>1
    <3>5. CASE ~MaySeal(c, clean)
      <4>1. Forgot(c, "done")
        BY <2>2, <3>5, Forgets DEF CallStages
      <4>2. kind = "case" => ~clean
        BY <3>5 DEF MaySeal
      <4> QED BY <3>1, <3>2, <3>3, <4>1, <4>2
    <3> QED BY <3>4, <3>5
  <2> QED BY <2>1, <2>2 DEF Finishes
<1>5. /\ out' \in Outputs /\ ~out'.sealed
      /\ out'.by = out.by /\ out'.op = out.op /\ out'.started = out.started
      /\ out'.sensor = out.sensor /\ out'.intent = out.intent /\ out'.hostStop = out.hostStop
      /\ out'.measured = out.measured
  <2>1. out \in Outputs
    BY DEF TypeOK
  <2> QED BY <1>1, <1>4, <2>1 DEF Outputs
<1>6. \/ Forgot(c, "ended") /\ out'.final = out.final
      \/ /\ out'.final.terminal # "none" /\ TrueAnswer(out'.final)
         /\ \/ Forgot(c, "seal") /\ Quiet
            \/ Forgot(c, "done") /\ (kind = "case" => out'.final.terminal # "PASS")
  <2>1. out \in Outputs
    BY DEF TypeOK
  <2> QED BY <1>4, <2>1 DEF Outputs
<1>7. \A d \in Calls \ {c} : call[d].at \notin Claimed \cup {"seal", "done"}
  BY <1>1 DEF BelongToClaim
<1>8. TypeOK'
  BY <1>1, <1>2, <1>3, <1>4, <1>5, <1>6, <1>7 DEF TypeOK, Forgot
<1>9. Binding'
  BY <1>1, <1>2, <1>3, <1>4, <1>5, <1>6, <1>7 DEF Binding, Sealed, Forgot
<1>10. BelongToClaim'
  BY <1>1, <1>2, <1>3, <1>4, <1>5, <1>6, <1>7 DEF BelongToClaim, Forgot
<1>11. Progress'
  BY <1>1, <1>6, <1>7 DEF Progress, Forgot
<1>12. RecordsAreTrue'
  BY <1>1, <1>2, <1>3, <1>4, <1>5, <1>6, <1>7 DEF RecordsAreTrue, Worlds, Forgot
<1>13. AnswersKnown'
  BY <1>1, <1>7, <1>5, <1>6 DEF AnswersKnown, TrueAnswer, Quiet, BelongToClaim, Worlds, Reliable, Forgot
<1> QED BY <1>8, <1>9, <1>10, <1>11, <1>12, <1>13

\* The seal closes a quiet output.
LEMMA SealsKeeps ==
  ASSUME LInv, NEW c \in Calls, Seals(c)
  PROVE  LInv'
<1> USE LauncherAssumption DEF LInv, Claimed
<1>1. /\ UNCHANGED <<kind, bound, proposed, worker, entered>>
      /\ call[c].at = "seal" /\ out.by = c /\ Quiet /\ out.final.terminal # "none"
  BY DEF Seals, BelongToClaim, AnswersKnown, Progress
<1>2. lock' \in Calls \cup {None}
  BY DEF Seals, Unlocks, TypeOK
<1>3. Moved(c, "done")
  BY GoesMoves DEF Seals, Goes, CallStages
<1>4. /\ out' \in Outputs /\ out'.sealed
      /\ out'.by = out.by /\ out'.op = out.op /\ out'.started = out.started /\ out'.sensor = out.sensor
      /\ out'.intent = out.intent /\ out'.hostStop = out.hostStop /\ out'.measured = out.measured
      /\ out'.final = out.final /\ out'.late = out.late
  <2>1. out \in Outputs
    BY DEF TypeOK
  <2> QED BY <2>1 DEF Seals, Outputs
<1>5. TypeOK'
  BY <1>1, <1>2, <1>3, <1>4 DEF TypeOK, Moved
<1>6. Binding'
  BY <1>1, <1>2, <1>3, <1>4 DEF Binding, Sealed, Moved
<1>7. BelongToClaim'
  BY <1>1, <1>2, <1>3, <1>4 DEF BelongToClaim, Moved
<1>8. Progress'
  BY <1>1, <1>2, <1>3, <1>4 DEF Progress, BelongToClaim, WithIntent, Moved
<1>9. RecordsAreTrue'
  BY <1>1, <1>2, <1>3, <1>4 DEF RecordsAreTrue, Worlds, Moved
<1>10. AnswersKnown'
  BY <1>1, <1>2, <1>3, <1>4 DEF AnswersKnown, TrueAnswer, Quiet, BelongToClaim, Worlds, Reliable, Moved
<1> QED BY <1>5, <1>6, <1>7, <1>8, <1>9, <1>10

\* A step that leaves the launchers alone keeps their invariant.
LEMMA LauncherStutter ==
  ASSUME LInv, UNCHANGED vars
  PROVE  LInv'
<1>1. UNCHANGED <<kind, bound, proposed, lock, out, worker, entered, call>>
  BY DEF vars
<1> USE <1>1 DEF LInv
<1>2. TypeOK' /\ Binding'
  BY DEF TypeOK, Binding, Sealed
<1>3. BelongToClaim' /\ Progress'
  BY DEF BelongToClaim, Progress, WithIntent
<1>4. RecordsAreTrue'
  BY DEF RecordsAreTrue, Worlds
<1>5. AnswersKnown'
  BY DEF AnswersKnown, TrueAnswer, Quiet, Worlds, Reliable
<1> QED BY <1>2, <1>3, <1>4, <1>5

\* Every step of a launcher or a worker keeps it.
LEMMA NextKeeps ==
  ASSUME LInv, Next
  PROVE  LInv'
<1>1. CASE \E c \in Calls, o \in Ops : Begins(c, o) \/ Prepares(c, o)
  BY <1>1, BeginsKeeps, PreparesKeeps
<1>2. ASSUME NEW c \in Calls, Step(c) PROVE LInv'
  BY <1>2, LocksKeeps, BindsKeeps, StoresBindingKeeps, RefusesKeeps, ClaimsKeeps, OpensKeeps,
     AdmitsKeeps, IntendsKeeps, AdmissionErrsKeeps, DispatchesKeeps, SamplesKeeps, StopsKeeps,
     ReapsKeeps, JudgesKeeps, HandsOverKeeps, VerifiesKeeps, FinishesKeeps, SealsKeeps DEF Step
<1>3. ASSUME NEW c \in Calls, Killed(c) PROVE LInv'
  BY <1>3, KilledKeeps
<1>4. CASE WorkerStep
  BY <1>4, WorkerEntersKeeps, WorkerRecordsKeeps, WorkerExitsKeeps DEF WorkerStep
<1> QED BY <1>1, <1>2, <1>3, <1>4 DEF Next

\* An output stays with the call and the operation that claimed it, an answer is given
\* once, and a sealed output, its worker with it, never changes again.
OutputStands ==
  /\ out.by # None => UNCHANGED <<out.by, out.op>>
  /\ out.final.terminal # "none" => UNCHANGED out.final
  /\ out.sealed => UNCHANGED <<out, worker, entered>>

\* So it is with every step of a launcher or a worker.
LEMMA NextStands ==
  ASSUME LInv, Next
  PROVE  OutputStands /\ kind' = kind
<1> USE LauncherAssumption DEF LInv
<1>1. ASSUME UNCHANGED <<kind, out, worker, entered>> PROVE OutputStands /\ kind' = kind
  BY <1>1 DEF OutputStands
<1>2. ASSUME NEW c \in Calls, call[c].at \in Claimed, UNCHANGED <<kind, out.by, out.op>>
      PROVE  OutputStands /\ kind' = kind
  BY <1>2 DEF OutputStands, BelongToClaim, NoAnswer
<1>3. out \in Outputs
  BY DEF TypeOK
<1>4. ASSUME NEW c \in Calls, NEW o \in Ops, Begins(c, o) \/ Prepares(c, o)
      PROVE  OutputStands /\ kind' = kind
  BY <1>1, <1>4 DEF Begins, Prepares
<1>5. ASSUME NEW c \in Calls,
             \/ Locks(c) \/ Binds(c) \/ StoresBinding(c) \/ Refuses(c) \/ AdmissionErrs(c) \/ Stops(c)
             \/ Judges(c) \/ HandsOver(c) \/ Verifies(c) \/ Killed(c)
      PROVE  OutputStands /\ kind' = kind
  BY <1>1, <1>5 DEF Locks, Binds, StoresBinding, Refuses, AdmissionErrs, Stops, Judges, HandsOver,
     Verifies, Killed
<1>6. ASSUME NEW c \in Calls, Opens(c) \/ Admits(c) \/ Intends(c) \/ Dispatches(c) \/ Samples(c)
      PROVE  OutputStands /\ kind' = kind
  <2>1. call[c].at \in Claimed
    BY <1>6 DEF Opens, Admits, Intends, Dispatches, Samples, Claimed
  <2>2. UNCHANGED <<kind, out.by, out.op>>
    BY <1>3, <1>6 DEF Opens, Admits, Intends, Dispatches, Samples, Outputs
  <2> QED BY <1>2, <2>1, <2>2
<1>7. ASSUME NEW c \in Calls, Reaps(c) \/ Finishes(c)
      PROVE  OutputStands /\ kind' = kind
  <2>1. call[c].at \in Claimed /\ kind' = kind
    BY <1>7 DEF Reaps, Finishes, Claimed
  <2>2. ASSUME Reaps(c) PROVE UNCHANGED <<out.by, out.op>>
    <3>1. \E m : out' = [out EXCEPT !.measured = m]
      BY <2>2 DEF Reaps
    <3> QED BY <1>3, <3>1 DEF Outputs
  <2>3. ASSUME Finishes(c) PROVE UNCHANGED <<out.by, out.op>>
    BY <1>3, <2>3 DEF Finishes, Outputs
  <2>4. UNCHANGED <<out.by, out.op>>
    BY <1>7, <2>2, <2>3
  <2> QED BY <1>2, <2>1, <2>4
<1>8. ASSUME NEW c \in Calls, Claims(c) PROVE OutputStands /\ kind' = kind
  BY <1>8 DEF Claims, OutputStands, BelongToClaim, NoOutput, NoAnswer
<1>9. ASSUME NEW c \in Calls, Seals(c) PROVE OutputStands /\ kind' = kind
  <2>1. UNCHANGED <<kind, worker, entered>> /\ out' = [out EXCEPT !.sealed = TRUE]
    BY <1>9 DEF Seals
  <2>2. UNCHANGED <<out.by, out.op, out.final>>
    BY <1>3, <2>1 DEF Outputs
  <2>3. out.sealed => out' = out
    BY <1>3, <2>1 DEF Outputs
  <2> QED BY <2>1, <2>2, <2>3 DEF OutputStands
<1>10. CASE WorkerStep
  BY <1>10 DEF WorkerStep, WorkerEnters, WorkerRecords, WorkerExits, OutputStands, AnswersKnown, Quiet
<1>11. ASSUME NEW c \in Calls, Step(c) PROVE OutputStands /\ kind' = kind
  BY <1>5, <1>6, <1>7, <1>8, <1>9, <1>11 DEF Step
<1> QED BY <1>4, <1>5, <1>10, <1>11 DEF Next

-----------------------------------------------------------------------------
(* The steps of the owners. *)

\* Only w's record changes.
Only(w) == owner' \in [Owners -> OwnerRecords] /\ \A v \in Owners \ {w} : owner'[v] = owner[v]

\* w goes on, and keeps what it has.
OnlyAt(w, x) ==
  /\ Only(w) /\ owner'[w].at = x /\ owner'[w].consented = owner[w].consented
  /\ owner'[w].child = owner[w].child /\ owner'[w].heard = owner[w].heard

\* Setting one owner's record to one of the right type.
LEMMA OwnerSet ==
  ASSUME OwnerTypeOK, NEW w \in Owners, NEW r \in OwnerRecords, owner' = [owner EXCEPT ![w] = r]
  PROVE  Only(w) /\ owner'[w] = r
BY DEF OwnerTypeOK, Only

\* GoesOn moves an owner.
LEMMA GoesOnMoves ==
  ASSUME OwnerTypeOK, NEW w \in Owners, NEW x \in OwnerStages, GoesOn(w, x)
  PROVE  OnlyAt(w, x)
<1> DEFINE r == [owner[w] EXCEPT !.at = x]
<1>1. owner[w] \in OwnerRecords
  BY DEF OwnerTypeOK
<1>2. /\ r \in OwnerRecords /\ r.at = x /\ r.consented = owner[w].consented
      /\ r.child = owner[w].child /\ r.heard = owner[w].heard
  BY <1>1 DEF OwnerRecords
<1>3. owner' = [owner EXCEPT ![w] = r]
  BY DEF GoesOn
<1> HIDE DEF r
<1>4. Only(w) /\ owner'[w] = r
  BY <1>2, <1>3, OwnerSet
<1> QED BY <1>2, <1>4 DEF OnlyAt

\* An owner that has not begun, or has left, has heard nothing.
LEMMA NoOwnerTyped ==
  /\ NoOwner \in OwnerRecords /\ [NoOwner EXCEPT !.at = "done"] \in OwnerRecords
  /\ \A r \in {NoOwner, [NoOwner EXCEPT !.at = "done"]} :
       /\ r.at \in {"idle", "done"} /\ ~r.consented /\ r.heard = NoAnswer
<1> DEFINE r == [NoOwner EXCEPT !.at = "done"]
<1>1. NoOwner \in OwnerRecords /\ NoOwner.at = "idle" /\ ~NoOwner.consented /\ NoOwner.heard = NoAnswer
  BY NoCallTyped DEF NoOwner, OwnerRecords, OwnerStages
<1>2. r \in OwnerRecords /\ r.at = "done" /\ ~r.consented /\ r.heard = NoAnswer
  BY <1>1 DEF OwnerRecords, OwnerStages
<1> QED BY <1>1, <1>2

\* Leaves forgets all an owner had.
LEMMA LeavesOnly ==
  ASSUME OwnerTypeOK, NEW w \in Owners,
         Leaves(w) \/ owner' = [owner EXCEPT ![w] = NoOwner]
  PROVE  /\ Only(w) /\ owner'[w].at \in {"idle", "done"} /\ ~owner'[w].consented
         /\ owner'[w].heard = NoAnswer
<1>1. PICK r \in {NoOwner, [NoOwner EXCEPT !.at = "done"]} : owner' = [owner EXCEPT ![w] = r]
  BY DEF Leaves
<1>2. Only(w) /\ owner'[w] = r
  BY <1>1, NoOwnerTyped, OwnerSet
<1> QED BY <1>2, NoOwnerTyped

\* An owner hears an answer.
LEMMA HearsTyped ==
  ASSUME OwnerTypeOK, NEW w \in Owners, NEW x \in OwnerStages, NEW a \in AllAnswers,
         owner' = [owner EXCEPT ![w].at = x, ![w].heard = a]
  PROVE  Only(w) /\ owner'[w].at = x /\ owner'[w].heard = a /\ owner'[w].consented = owner[w].consented
<1> DEFINE r == [owner[w] EXCEPT !.at = x, !.heard = a]
<1>1. owner[w] \in OwnerRecords
  BY DEF OwnerTypeOK
<1>2. r \in OwnerRecords /\ r.at = x /\ r.heard = a /\ r.consented = owner[w].consented
  BY <1>1 DEF OwnerRecords
<1>3. owner' = [owner EXCEPT ![w] = r]
  OBVIOUS
<1> HIDE DEF r
<1>4. Only(w) /\ owner'[w] = r
  BY <1>2, <1>3, OwnerSet
<1> QED BY <1>2, <1>4

\* Nothing known is an answer, and not a pass.
LEMMA InterruptedTyped ==
  Interrupted \in AllAnswers /\ Interrupted.counts = AnyCount /\ Interrupted.terminal \notin {"none", "PASS"}
BY DEF Interrupted, Answer, AllAnswers, Terminals

\* Issuing a consent touches nothing of the workflow.
LEMMA IssuesKeeps ==
  ASSUME IInv, NEW w \in Owners, Issues(w)
  PROVE  OwnInv'
<1> USE DEF IInv, OwnInv
<1>1. UNCHANGED <<kind, out, latch, children>> /\ kind = "case"
  BY DEF Issues, Resolved, vars
<1>2. OnlyAt(w, "grant")
  BY GoesOnMoves DEF Issues, OwnerStages
<1>3. /\ consent' \in [made : BOOLEAN, granted : BOOLEAN, consumed : BOOLEAN, authority : BOOLEAN,
                    result : AllAnswers]
      /\ consent'.consumed = consent.consumed /\ consent'.authority = consent.authority
      /\ consent'.result = consent.result
  BY DEF Issues, OwnerTypeOK
<1>4. OwnerTypeOK'
  BY <1>1, <1>2, <1>3 DEF OwnerTypeOK, Only, OnlyAt
<1>5. OneLatched'
  BY <1>1, <1>2, <1>3 DEF OneLatched, Only, OnlyAt, Latched
<1>6. ConsentFirst'
  BY <1>1, <1>2, <1>3 DEF ConsentFirst, OneLatched, Only, OnlyAt, Latched
<1>7. OuterKnown'
  BY <1>1, <1>2, <1>3 DEF OuterKnown, Known, Only, OnlyAt
<1> QED BY <1>4, <1>5, <1>6, <1>7

\* Nor does granting it.
LEMMA GrantsKeeps ==
  ASSUME IInv, NEW w \in Owners, Grants(w)
  PROVE  OwnInv'
<1> USE DEF IInv, OwnInv
<1>1. UNCHANGED <<kind, out, latch, children>>
  BY DEF Grants, vars
<1>2. /\ Only(w) /\ owner'[w].at \in {"idle", "done"} /\ ~owner'[w].consented
      /\ owner'[w].heard = NoAnswer
  BY LeavesOnly DEF Grants
<1>3. /\ consent' \in [made : BOOLEAN, granted : BOOLEAN, consumed : BOOLEAN, authority : BOOLEAN,
                    result : AllAnswers]
      /\ consent'.consumed = consent.consumed /\ consent'.authority = consent.authority
      /\ consent'.result = consent.result
  BY DEF Grants, OwnerTypeOK
<1>4. OwnerTypeOK'
  BY <1>1, <1>2, <1>3 DEF OwnerTypeOK, Only, OnlyAt
<1>5. OneLatched'
  BY <1>1, <1>2, <1>3 DEF OneLatched, Only, OnlyAt, Latched
<1>6. ConsentFirst'
  BY <1>1, <1>2, <1>3 DEF ConsentFirst, OneLatched, Only, OnlyAt, Latched
<1>7. OuterKnown'
  BY <1>1, <1>2, <1>3 DEF OuterKnown, Known, Only, OnlyAt, NoAnswer
<1> QED BY <1>4, <1>5, <1>6, <1>7

\* The consumption comes before the authority is written.
LEMMA ConsumesKeeps ==
  ASSUME IInv, NEW w \in Owners, Consumes(w)
  PROVE  OwnInv'
<1> USE DEF IInv, OwnInv
<1>1. UNCHANGED <<kind, out, latch, children>> /\ kind = "case"
  BY DEF Consumes, Resolved, vars
<1>2. OnlyAt(w, "authority")
  BY GoesOnMoves DEF Consumes, OwnerStages
<1>3. /\ consent' \in [made : BOOLEAN, granted : BOOLEAN, consumed : BOOLEAN, authority : BOOLEAN,
                    result : AllAnswers]
      /\ consent'.consumed /\ consent'.authority = consent.authority /\ consent'.result = consent.result
  BY DEF Consumes, OwnerTypeOK
<1>4. OwnerTypeOK'
  BY <1>1, <1>2, <1>3 DEF OwnerTypeOK, Only, OnlyAt
<1>5. OneLatched'
  BY <1>1, <1>2, <1>3 DEF OneLatched, Only, OnlyAt, Latched
<1>6. ConsentFirst'
  BY <1>1, <1>2, <1>3 DEF ConsentFirst, OneLatched, Only, OnlyAt, Latched
<1>7. OuterKnown'
  BY <1>1, <1>2, <1>3 DEF OuterKnown, Known, Only, OnlyAt
<1> QED BY <1>4, <1>5, <1>6, <1>7

\* Only then is the owner consented.
LEMMA WritesAuthorityKeeps ==
  ASSUME IInv, NEW w \in Owners, WritesAuthority(w)
  PROVE  OwnInv'
<1> USE DEF IInv, OwnInv
<1>1. UNCHANGED <<kind, out, latch, children>> /\ kind = "case" /\ consent.consumed
  BY DEF WritesAuthority, vars, OneLatched, ConsentFirst
<1>2. /\ Only(w) /\ owner'[w].at = "latch" /\ owner'[w].heard = owner[w].heard
  <2> DEFINE r == [owner[w] EXCEPT !.at = "latch", !.consented = TRUE]
  <2>1. owner[w] \in OwnerRecords
    BY DEF OwnerTypeOK
  <2>2. r \in OwnerRecords /\ r.at = "latch" /\ r.heard = owner[w].heard
    BY <2>1 DEF OwnerRecords, OwnerStages
  <2>3. owner' = [owner EXCEPT ![w] = r]
    BY DEF WritesAuthority
  <2> HIDE DEF r
  <2>4. Only(w) /\ owner'[w] = r
    BY <2>2, <2>3, OwnerSet
  <2> QED BY <2>2, <2>4
<1>3. /\ consent' \in [made : BOOLEAN, granted : BOOLEAN, consumed : BOOLEAN, authority : BOOLEAN,
                    result : AllAnswers]
      /\ consent'.consumed = consent.consumed /\ consent'.authority /\ consent'.result = consent.result
  BY DEF WritesAuthority, OwnerTypeOK
<1>4. OwnerTypeOK'
  BY <1>1, <1>2, <1>3 DEF OwnerTypeOK, Only, OnlyAt
<1>5. OneLatched'
  BY <1>1, <1>2, <1>3 DEF OneLatched, Only, OnlyAt, Latched
<1>6. ConsentFirst'
  BY <1>1, <1>2, <1>3 DEF ConsentFirst, OneLatched, Only, OnlyAt, Latched
<1>7. OuterKnown'
  BY <1>1, <1>2, <1>3 DEF OuterKnown, Known, Only, OnlyAt
<1> QED BY <1>4, <1>5, <1>6, <1>7

\* The latch was not made, so nobody is past it.
LEMMA LatchesKeeps ==
  ASSUME IInv, NEW w \in Owners, Latches(w)
  PROVE  OwnInv'
<1> USE DEF IInv, OwnInv
<1>1. UNCHANGED <<kind, out, consent, children>> /\ kind = "case"
  BY DEF Latches, Authorized, Resolved, vars, OneLatched
<1>2. /\ latch = NoLatch /\ children = {} /\ ~latch.made
      /\ \A v \in Owners : owner[v].at \notin Latched \cup {"record"}
  BY DEF Latches, OneLatched
<1>3. OnlyAt(w, "intent")
  BY GoesOnMoves DEF Latches, OwnerStages, Latched
<1>4. /\ latch' \in [made : BOOLEAN, intent : BOOLEAN, result : AllAnswers]
      /\ latch'.made /\ latch'.result = NoAnswer /\ latch.result = NoAnswer
  BY <1>2, NoCallTyped DEF Latches, NoLatch
<1>5. OwnerTypeOK'
  BY <1>1, <1>2, <1>3, <1>4 DEF OwnerTypeOK, Only, OnlyAt
<1>6. OneLatched'
  BY <1>1, <1>2, <1>3, <1>4 DEF OneLatched, Only, OnlyAt, Latched
<1>7. ConsentFirst'
  BY <1>1, <1>2, <1>3, <1>4 DEF ConsentFirst, OneLatched, Only, OnlyAt, Latched
<1>8. OuterKnown'
  BY <1>1, <1>2, <1>3, <1>4 DEF OuterKnown, Known, Only, OnlyAt
<1> QED BY <1>5, <1>6, <1>7, <1>8

\* The intent is recorded before a child is started.
LEMMA RecordsDispatchKeeps ==
  ASSUME IInv, NEW w \in Owners, RecordsDispatch(w)
  PROVE  OwnInv'
<1> USE DEF IInv, OwnInv
<1>1. UNCHANGED <<kind, out, consent, children>> /\ owner[w].at = "intent" /\ children = {} /\ latch.made
  BY DEF RecordsDispatch, vars, OneLatched, Latched
<1>2. OnlyAt(w, "spawn")
  BY GoesOnMoves DEF RecordsDispatch, OwnerStages, Latched
<1>3. /\ latch' \in [made : BOOLEAN, intent : BOOLEAN, result : AllAnswers]
      /\ latch'.made /\ latch'.intent /\ latch'.result = latch.result
  BY <1>1 DEF RecordsDispatch, OwnerTypeOK
<1>4. OwnerTypeOK'
  BY <1>1, <1>2, <1>3 DEF OwnerTypeOK, Only, OnlyAt
<1>5. OneLatched'
  BY <1>1, <1>2, <1>3 DEF OneLatched, Only, OnlyAt, Latched
<1>6. ConsentFirst'
  BY <1>1, <1>2, <1>3 DEF ConsentFirst, OneLatched, Only, OnlyAt, Latched
<1>7. OuterKnown'
  BY <1>1, <1>2, <1>3 DEF OuterKnown, Known, Only, OnlyAt
<1> QED BY <1>4, <1>5, <1>6, <1>7

\* No child was started before.
LEMMA SpawnsKeeps ==
  ASSUME IInv, NEW w \in Owners, Spawns(w)
  PROVE  OwnInv'
<1> USE DEF IInv, OwnInv
<1>1. PICK c \in Calls :
        /\ Begins(c, bound) \/ UNCHANGED <<kind, out>>
        /\ owner' = [owner EXCEPT ![w].at = "wait", ![w].child = c] /\ children' = children \cup {c}
  BY DEF Spawns
<1>2. UNCHANGED <<kind, out, consent,
                  latch>> /\ owner[w].at = "spawn" /\ children = {} /\ latch.made /\ latch.intent
  BY <1>1 DEF Spawns, Begins, OneLatched, Latched
<1>3. /\ Only(w) /\ owner'[w].at = "wait" /\ owner'[w].child = c
      /\ owner'[w].consented = owner[w].consented /\ owner'[w].heard = owner[w].heard
  <2> DEFINE r == [owner[w] EXCEPT !.at = "wait", !.child = c]
  <2>1. owner[w] \in OwnerRecords
    BY DEF OwnerTypeOK
  <2>2. /\ r \in OwnerRecords /\ r.at = "wait" /\ r.child = c
        /\ r.consented = owner[w].consented /\ r.heard = owner[w].heard
    BY <2>1 DEF OwnerRecords, OwnerStages, Latched
  <2>3. owner' = [owner EXCEPT ![w] = r]
    BY <1>1
  <2> HIDE DEF r
  <2>4. Only(w) /\ owner'[w] = r
    BY <2>2, <2>3, OwnerSet
  <2> QED BY <2>2, <2>4
<1>4. children' = {c}
  BY <1>1, <1>2
<1>5. OwnerTypeOK'
  BY <1>1, <1>2, <1>3, <1>4 DEF OwnerTypeOK, Only, OnlyAt
<1>6. OneLatched'
  BY <1>1, <1>2, <1>3, <1>4 DEF OneLatched, Only, OnlyAt, Latched
<1>7. ConsentFirst'
  BY <1>1, <1>2, <1>3, <1>4 DEF ConsentFirst, OneLatched, Only, OnlyAt, Latched
<1>8. OuterKnown'
  BY <1>1, <1>2, <1>3, <1>4 DEF OuterKnown, Known, Only, OnlyAt
<1> QED BY <1>5, <1>6, <1>7, <1>8

\* Without a child nothing is known.
LEMMA SpawnFailsKeeps ==
  ASSUME IInv, NEW w \in Owners, SpawnFails(w)
  PROVE  OwnInv'
<1> USE DEF IInv, OwnInv
<1>1. UNCHANGED <<kind, out, consent, latch, children>> /\ owner[w].at = "spawn"
  BY DEF SpawnFails, vars
<1>2. /\ Only(w) /\ owner'[w].at = "report" /\ owner'[w].heard = Interrupted
      /\ owner'[w].consented = owner[w].consented
  BY HearsTyped, InterruptedTyped DEF SpawnFails, OwnerStages, Latched
<1>3. OwnerTypeOK'
  BY <1>1, <1>2 DEF OwnerTypeOK, Only, OnlyAt
<1>4. OneLatched'
  BY <1>1, <1>2 DEF OneLatched, Only, OnlyAt, Latched
<1>5. ConsentFirst'
  BY <1>1, <1>2 DEF ConsentFirst, OneLatched, Only, OnlyAt, Latched
<1>6. OuterKnown'
  BY <1>1, <1>2 DEF OuterKnown, Known, Only, OnlyAt, Interrupted, Answer
<1> QED BY <1>3, <1>4, <1>5, <1>6

\* What a launcher that ended has printed is its answer, or nothing known.
LEMMA HearsKeeps ==
  ASSUME IInv, NEW w \in Owners, Hears(w)
  PROVE  OwnInv'
<1> USE DEF IInv, OwnInv
<1>1. UNCHANGED <<kind, out, consent, latch, children>> /\ owner[w].at = "wait" /\ kind = "case"
      /\ owner[w].child \in children /\ owner[w].child \in Calls
  BY DEF Hears, vars, OneLatched, Latched, OwnerTypeOK
<1>2. PICK a \in Printed(owner[w].child) : owner' = [owner EXCEPT ![w].at = "report", ![w].heard = a]
  BY DEF Hears
<1>3. a \in AllAnswers /\ Known(a)
  <2>1. CASE a \in {Interrupted, Answer("HOST_STOP", AnyCount)}
    BY <2>1 DEF Interrupted, Answer, AllAnswers, Terminals, Known
  <2>2. CASE call[owner[w].child].at = "done" /\ a = out.final
    <3>1. out.by = owner[w].child /\ out.final.terminal # "none" /\ (out.final.terminal = "PASS" => out.sealed)
      BY <1>1, <2>2 DEF LInv, BelongToClaim, Progress, AnswersKnown
    <3>2. out.final \in AllAnswers
      BY DEF LInv, TypeOK, Outputs
    <3> QED BY <1>1, <2>2, <3>1, <3>2 DEF Known
  <2> QED BY <1>2, <2>1, <2>2 DEF Printed
<1>4. /\ Only(w) /\ owner'[w].at = "report" /\ owner'[w].heard = a
      /\ owner'[w].consented = owner[w].consented
  BY <1>2, <1>3, HearsTyped DEF OwnerStages, Latched
<1>5. OwnerTypeOK'
  BY <1>1, <1>2, <1>3, <1>4 DEF OwnerTypeOK, Only, OnlyAt
<1>6. OneLatched'
  BY <1>1, <1>2, <1>3, <1>4 DEF OneLatched, Only, OnlyAt, Latched
<1>7. ConsentFirst'
  BY <1>1, <1>2, <1>3, <1>4 DEF ConsentFirst, OneLatched, Only, OnlyAt, Latched
<1>8. OuterKnown'
  BY <1>1, <1>2, <1>3, <1>4 DEF OuterKnown, Known, Only, OnlyAt
<1> QED BY <1>5, <1>6, <1>7, <1>8

\* An interrupted wait goes to the cleanup.
LEMMA InterruptsKeeps ==
  ASSUME IInv, NEW w \in Owners, Interrupts(w)
  PROVE  OwnInv'
<1> USE DEF IInv, OwnInv
<1>1. UNCHANGED <<kind, out, consent, latch, children>> /\ owner[w].at = "wait"
  BY DEF Interrupts, vars
<1>2. OnlyAt(w, "cleanup")
  BY GoesOnMoves DEF Interrupts, OwnerStages, Latched
<1>3. OwnerTypeOK'
  BY <1>1, <1>2 DEF OwnerTypeOK, Only, OnlyAt
<1>4. OneLatched'
  BY <1>1, <1>2 DEF OneLatched, Only, OnlyAt, Latched
<1>5. ConsentFirst'
  BY <1>1, <1>2 DEF ConsentFirst, OneLatched, Only, OnlyAt, Latched
<1>6. OuterKnown'
  BY <1>1, <1>2 DEF OuterKnown, Known, Only, OnlyAt
<1> QED BY <1>3, <1>4, <1>5, <1>6

\* After the cleanup nothing is known.
LEMMA StopsChildKeeps ==
  ASSUME IInv, NEW w \in Owners, StopsChild(w)
  PROVE  OwnInv'
<1> USE DEF IInv, OwnInv
<1>1. UNCHANGED <<kind, out, consent, latch, children>> /\ owner[w].at = "cleanup"
  BY DEF StopsChild, vars, Killed
<1>2. /\ Only(w) /\ owner'[w].at = "report" /\ owner'[w].heard = Interrupted
      /\ owner'[w].consented = owner[w].consented
  BY HearsTyped, InterruptedTyped DEF StopsChild, OwnerStages, Latched
<1>3. OwnerTypeOK'
  BY <1>1, <1>2 DEF OwnerTypeOK, Only, OnlyAt
<1>4. OneLatched'
  BY <1>1, <1>2 DEF OneLatched, Only, OnlyAt, Latched
<1>5. ConsentFirst'
  BY <1>1, <1>2 DEF ConsentFirst, OneLatched, Only, OnlyAt, Latched
<1>6. OuterKnown'
  BY <1>1, <1>2 DEF OuterKnown, Known, Only, OnlyAt, Interrupted, Answer
<1> QED BY <1>3, <1>4, <1>5, <1>6

\* The workflow records what was heard, once.
LEMMA ReportsKeeps ==
  ASSUME IInv, NEW w \in Owners, Reports(w)
  PROVE  OwnInv'
<1> USE DEF IInv, OwnInv
<1>1. UNCHANGED <<kind, out, consent, children>> /\ owner[w].at = "report" /\ latch.made
  BY DEF Reports, vars, OneLatched, Latched
<1>2. /\ latch' \in [made : BOOLEAN, intent : BOOLEAN, result : AllAnswers]
      /\ latch'.made /\ latch'.intent = latch.intent /\ latch'.result = owner[w].heard
  <2>1. owner[w] \in OwnerRecords
    BY DEF OwnerTypeOK
  <2> QED BY <1>1, <2>1 DEF Reports, OwnerTypeOK, OwnerRecords
<1>3. \/ OnlyAt(w, "record") /\ owner[w].consented
      \/ /\ Only(w) /\ owner'[w].at \in {"idle", "done"} /\ ~owner'[w].consented
         /\ owner'[w].heard = NoAnswer
  BY GoesOnMoves, LeavesOnly DEF Reports, OwnerStages
<1>4. \A v \in Owners \ {w} : owner[v].at \notin Latched \cup {"record"}
  BY <1>1 DEF OneLatched, Latched
<1>5. OwnerTypeOK'
  BY <1>1, <1>2, <1>3, <1>4 DEF OwnerTypeOK, Only, OnlyAt
<1>6. OneLatched'
  BY <1>1, <1>2, <1>3, <1>4 DEF OneLatched, Only, OnlyAt, Latched
<1>7. ConsentFirst'
  BY <1>1, <1>2, <1>3, <1>4 DEF ConsentFirst, OneLatched, Only, OnlyAt, Latched
<1>8. OuterKnown'
  BY <1>1, <1>2, <1>3, <1>4 DEF OuterKnown, Known, Only, OnlyAt, NoAnswer
<1> QED BY <1>5, <1>6, <1>7, <1>8

\* The consent records the same.
LEMMA RecordsKeeps ==
  ASSUME IInv, NEW w \in Owners, Records(w)
  PROVE  OwnInv'
<1> USE DEF IInv, OwnInv
<1>1. UNCHANGED <<kind, out, latch, children>> /\ owner[w].at = "record" /\ latch.made /\ owner[w].consented
      /\ owner[w].heard = latch.result
  BY DEF Records, vars, OneLatched, ConsentFirst
<1>2. /\ consent' \in [made : BOOLEAN, granted : BOOLEAN, consumed : BOOLEAN, authority : BOOLEAN,
                    result : AllAnswers]
      /\ consent'.consumed = consent.consumed /\ consent'.authority = consent.authority
      /\ consent'.result = latch.result
  BY <1>1 DEF Records, OwnerTypeOK
<1>3. /\ Only(w) /\ owner'[w].at \in {"idle", "done"} /\ ~owner'[w].consented
      /\ owner'[w].heard = NoAnswer
  BY LeavesOnly DEF Records
<1>4. \A v \in Owners \ {w} : owner[v].at \notin Latched \cup {"record"}
  BY <1>1 DEF OneLatched
<1>5. OwnerTypeOK'
  BY <1>1, <1>2, <1>3, <1>4 DEF OwnerTypeOK, Only, OnlyAt
<1>6. OneLatched'
  BY <1>1, <1>2, <1>3, <1>4 DEF OneLatched, Only, OnlyAt, Latched
<1>7. ConsentFirst'
  BY <1>1, <1>2, <1>3, <1>4 DEF ConsentFirst, OneLatched, Only, OnlyAt, Latched
<1>8. OuterKnown'
  BY <1>1, <1>2, <1>3, <1>4 DEF OuterKnown, Known, Only, OnlyAt, NoAnswer
<1> QED BY <1>5, <1>6, <1>7, <1>8

\* An error that escapes is recorded as nothing known.
LEMMA RaisesKeeps ==
  ASSUME IInv, NEW w \in Owners, Raises(w)
  PROVE  OwnInv'
<1> USE DEF IInv, OwnInv
<1>1. UNCHANGED <<kind, out, latch, children>> /\ owner[w].consented
  BY DEF Raises, vars
<1>2. /\ consent' \in [made : BOOLEAN, granted : BOOLEAN, consumed : BOOLEAN, authority : BOOLEAN,
                    result : AllAnswers]
      /\ consent'.consumed = consent.consumed /\ consent'.authority = consent.authority
      /\ consent'.result = Interrupted
  BY InterruptedTyped DEF Raises, OwnerTypeOK
<1>3. /\ Only(w) /\ owner'[w].at \in {"idle", "done"} /\ ~owner'[w].consented
      /\ owner'[w].heard = NoAnswer
  BY LeavesOnly DEF Raises
<1>4. OwnerTypeOK'
  BY <1>1, <1>2, <1>3 DEF OwnerTypeOK, Only, OnlyAt
<1>5. OneLatched'
  BY <1>1, <1>2, <1>3 DEF OneLatched, Only, OnlyAt, Latched
<1>6. ConsentFirst'
  BY <1>1, <1>2, <1>3 DEF ConsentFirst, OneLatched, Only, OnlyAt, Latched
<1>7. OuterKnown'
  BY <1>1, <1>2, <1>3 DEF OuterKnown, Known, Only, OnlyAt, NoAnswer, Interrupted, Answer
<1> QED BY <1>4, <1>5, <1>6, <1>7

\* A dead owner leaves what it recorded.
LEMMA OwnerDiesKeeps ==
  ASSUME IInv, NEW w \in Owners, OwnerDies(w)
  PROVE  OwnInv'
<1> USE DEF IInv, OwnInv
<1>1. UNCHANGED <<kind, out, consent, latch, children>>
  BY DEF OwnerDies, vars
<1>2. /\ Only(w) /\ owner'[w].at \in {"idle", "done"} /\ ~owner'[w].consented
      /\ owner'[w].heard = NoAnswer
  BY LeavesOnly DEF OwnerDies
<1>3. OwnerTypeOK'
  BY <1>1, <1>2 DEF OwnerTypeOK, Only, OnlyAt
<1>4. OneLatched'
  BY <1>1, <1>2 DEF OneLatched, Only, OnlyAt, Latched
<1>5. ConsentFirst'
  BY <1>1, <1>2 DEF ConsentFirst, OneLatched, Only, OnlyAt, Latched
<1>6. OuterKnown'
  BY <1>1, <1>2 DEF OuterKnown, Known, Only, OnlyAt, NoAnswer
<1> QED BY <1>3, <1>4, <1>5, <1>6

\* All an owner does to the launchers is to start, end or kill one.
LEMMA OwnerMoves ==
  ASSUME IInv, NEW w \in Owners, OwnerStep(w)
  PROVE  /\ UNCHANGED <<kind, bound, proposed, out, worker, entered>>
         /\ \/ UNCHANGED vars
            \/ \E c \in Calls : (bound \in Ops /\ Begins(c, bound)) \/ Ends(c)
<1>1. CASE \/ Issues(w) \/ Grants(w) \/ Consumes(w) \/ WritesAuthority(w) \/ Latches(w)
           \/ RecordsDispatch(w) \/ SpawnFails(w) \/ Hears(w) \/ Interrupts(w) \/ Reports(w)
           \/ Records(w) \/ Raises(w) \/ OwnerDies(w)
  BY <1>1 DEF Issues, Grants, Consumes, WritesAuthority, Latches, RecordsDispatch, SpawnFails, Hears,
     Interrupts, Reports, Records, Raises, OwnerDies, vars
<1>2. CASE Spawns(w)
  <2>1. bound \in Ops
    BY <1>2 DEF Spawns, IInv, OwnInv, OneLatched, LInv, Binding, Sealed
  <2> QED BY <1>2, <2>1 DEF Spawns, Begins
<1>3. CASE StopsChild(w)
  <2>1. owner[w].child \in Calls
    BY <1>3 DEF StopsChild, IInv, OwnInv, OneLatched, OwnerTypeOK
  <2> QED BY <1>3, <2>1 DEF StopsChild, Killed, vars
<1> QED BY <1>1, <1>2, <1>3 DEF OwnerStep

\* So it keeps the whole invariant.
LEMMA OwnerKeeps ==
  ASSUME IInv, NEW w \in Owners, OwnerStep(w)
  PROVE  IInv'
<1>1. LInv'
  <2>1. LInv
    BY DEF IInv
  <2> QED BY <2>1, OwnerMoves, LauncherStutter, BeginsKeeps, EndsAtOnceKeeps
<1>2. OwnInv'
  BY IssuesKeeps, GrantsKeeps, ConsumesKeeps, WritesAuthorityKeeps, LatchesKeeps, RecordsDispatchKeeps,
     SpawnsKeeps, SpawnFailsKeeps, HearsKeeps, InterruptsKeeps, StopsChildKeeps, ReportsKeeps,
     RecordsKeeps, RaisesKeeps, OwnerDiesKeeps DEF OwnerStep
<1> QED BY <1>1, <1>2 DEF IInv

\* A launcher or a worker moves under the owners: an answer they know stands.
LEMMA LauncherKeeps ==
  ASSUME IInv, LauncherStep
  PROVE  IInv'
<1>1. LInv' /\ OutputStands /\ kind' = kind
  BY NextKeeps, NextStands DEF IInv, LauncherStep
<1>2. UNCHANGED <<consent, latch, owner, children>>
  BY DEF LauncherStep, ownerVars
<1> USE DEF IInv, OwnInv
<1>3. OwnerTypeOK' /\ OneLatched' /\ ConsentFirst'
  BY <1>1, <1>2 DEF OwnerTypeOK, OneLatched, ConsentFirst
<1>4. OuterKnown'
  <2>1. out.by \in children => out.by # None
    BY LauncherAssumption DEF OwnerTypeOK
  <2>2. out.final.terminal # "none" /\ out.by \in children =>
          out'.final = out.final /\ out'.by = out.by /\ (out.sealed => out'.sealed)
    BY <1>1, <2>1 DEF OutputStands
  <2> QED BY <1>2, <2>2 DEF OuterKnown, Known
<1> QED BY <1>1, <1>3, <1>4

-----------------------------------------------------------------------------
(* The invariant, and what follows from it. *)

\* Initially nothing has happened.
LEMMA InitInvariant ==
  OInit => IInv
<1> SUFFICES ASSUME OInit PROVE IInv
  OBVIOUS
<1>1. /\ kind \in Kinds /\ bound \in Ops \cup {None} /\ (Sealed => bound \in Ops)
      /\ proposed = FALSE /\ lock = None /\ out = NoOutput /\ worker = NoWorker /\ entered = << >>
      /\ call = [c \in Calls |-> NoCall]
  BY DEF OInit, Init
<1>2. 0 \in AnyCount
  BY DEF AnyCount
<1>3. /\ NoOutput \in Outputs /\ NoOutput.by = None /\ NoOutput.measured = Unmeasured
      /\ NoOutput.final = NoAnswer /\ ~NoOutput.sealed /\ ~NoOutput.hostStop
  BY NoCallTyped DEF NoOutput, Outputs
<1>4. /\ NoWorker \in Workers /\ NoWorker.by = None /\ NoWorker.worlds = 0
      /\ NoWorker.record = "none" /\ NoWorker.exit = "none"
  BY <1>2 DEF NoWorker, Workers
<1>5. \A c \in Calls : call[c] = NoCall /\ call[c].at = "idle"
  BY <1>1 DEF NoCall
<1>6. TypeOK
  <2>1. entered \in Seq(Ops) /\ call \in [Calls -> CallRecords]
    BY <1>1, NoCallTyped
  <2> QED BY <1>1, <1>3, <1>4, <2>1 DEF TypeOK
<1>7. Binding /\ BelongToClaim /\ Progress
  BY <1>1, <1>3, <1>4, <1>5 DEF Binding, BelongToClaim, Progress, Claimed
<1>8. RecordsAreTrue
  BY <1>1, <1>3, <1>4 DEF RecordsAreTrue, Unmeasured
<1>9. AnswersKnown
  BY <1>1, <1>2, <1>3, <1>4, <1>5 DEF AnswersKnown, TrueAnswer, NoAnswer
<1>10. /\ consent = NoConsent /\ latch = NoLatch /\ children = {}
       /\ owner = [w \in Owners |-> NoOwner]
  BY DEF OInit
<1>11. \A w \in Owners : owner[w] \in OwnerRecords /\ owner[w].at = "idle" /\ ~owner[w].consented
                         /\ owner[w].heard = NoAnswer
  BY <1>10, NoOwnerTyped DEF NoOwner
<1>12. OwnerTypeOK
  BY <1>10, <1>11, NoOwnerTyped, NoCallTyped DEF OwnerTypeOK, NoConsent, NoLatch
<1>13. OneLatched /\ ConsentFirst
  BY <1>10, <1>11 DEF OneLatched, ConsentFirst, Latched, NoConsent, NoLatch
<1>14. OuterKnown
  BY <1>10, <1>11 DEF OuterKnown, Known, NoConsent, NoLatch, NoAnswer
<1> QED BY <1>6, <1>7, <1>8, <1>9, <1>12, <1>13, <1>14 DEF IInv, LInv, OwnInv

\* Every step keeps it.
LEMMA AllKeep ==
  IInv /\ [ONext]_allVars => IInv'
<1> SUFFICES ASSUME IInv, [ONext]_allVars PROVE IInv'
  OBVIOUS
<1>1. CASE \E w \in Owners : OwnerStep(w)
  BY <1>1, OwnerKeeps
<1>2. CASE LauncherStep
  BY <1>2, LauncherKeeps
<1>3. CASE UNCHANGED allVars
  <2>1. UNCHANGED vars /\ UNCHANGED <<kind, out, consent, latch, owner, children>>
    BY <1>3 DEF allVars, vars, ownerVars
  <2>2. LInv'
    BY <2>1, LauncherStutter DEF IInv
  <2>3. OwnInv'
    BY <2>1 DEF IInv, OwnInv, OwnerTypeOK, OneLatched, ConsentFirst, OuterKnown, Known
  <2> QED BY <2>2, <2>3 DEF IInv
<1> QED BY <1>1, <1>2, <1>3 DEF ONext

\* Launchers and owners keep to the invariant, whatever races, dies or outlives whom.
THEOREM Invariant == OSpec => []IInv
BY InitInvariant, AllKeep, PTL DEF OSpec

\* Every answer of launcher, workflow and consent is true of the worker; a pass verifies
\* from the records alone, by the kit's verifier and by the case's.
THEOREM EveryAnswerIsTrueHolds == OSpec => []EveryAnswerIsTrue
<1>1. ASSUME IInv PROVE EveryAnswerIsTrue
  <2> USE <1>1 DEF IInv, LInv, OwnInv
  <2>1. worker \in Workers /\ out \in Outputs /\ TrueAnswer(out.final)
    BY DEF TypeOK, AnswersKnown
  <2>2. worker.worlds \in AnyCount
    BY <2>1 DEF Workers
  <2>3. VerifierAgrees
    <3> SUFFICES ASSUME kind = "kit", out.sealed, ~out.late PROVE KitVerifies <=> out.final.terminal = "PASS"
      BY DEF VerifierAgrees
    <3>1. Worlds = 2
      BY DEF Worlds
    <3> QED BY <2>1, <3>1 DEF KitVerifies, TrueAnswer, Reliable
  <2>4. AnswersAreTrue
    BY <2>1, <2>3 DEF AnswersAreTrue, TrueAnswer, Reliable
  <2>5. ASSUME NEW a \in {latch.result, consent.result}
        PROVE  /\ worker.worlds \in a.counts
               /\ a.counts # AnyCount => worker.state # "running" \/ worker.record # "none"
               /\ a.terminal = "PASS" => out.by \in children /\ out.final.terminal = "PASS" /\ out.sealed
    <3>1. Known(a)
      BY DEF OuterKnown
    <3> QED BY <2>1, <2>2, <3>1 DEF Known, TrueAnswer
  <2>6. OuterAnswersAreTrue
    BY <2>5 DEF OuterAnswersAreTrue, OneLatched, ConsentFirst
  <2>7. PassVerifies
    <3> SUFFICES ASSUME kind = "case", out.sealed, out.final.terminal = "PASS" PROVE RecordedVerifies
      BY DEF PassVerifies
    <3>1. Worlds = 2
      BY DEF Worlds
    <3> QED BY <2>1, <3>1 DEF RecordedVerifies, TrueAnswer
  <2> QED BY <2>4, <2>6, <2>7 DEF EveryAnswerIsTrue
<1> QED BY <1>1, Invariant, PTL

\* No worker that could still write into a sealed output is running, nor a sensor of
\* the case launcher.
THEOREM SealedIsQuietHolds == OSpec => []SealedIsQuiet
<1>1. IInv => SealedIsQuiet
  BY DEF IInv, LInv, AnswersKnown, Quiet, SealedIsQuiet
<1> QED BY <1>1, Invariant, PTL

\* Records stand: the output's as said above, and the workflow's result, once it has one.
RecordsStand == OutputStands /\ (latch.result # NoAnswer => UNCHANGED latch)

\* Over every step of owners, launchers and workers.
THEOREM RecordsStandHolds == OSpec => [][RecordsStand]_allVars
<1>1. ASSUME IInv, NEW w \in Owners, OwnerStep(w) PROVE RecordsStand
  <2>1. OutputStands
    BY <1>1, OwnerMoves DEF OutputStands
  <2>2. latch.result # NoAnswer => UNCHANGED latch
    <3>1. CASE Latches(w)
      BY <1>1, <3>1 DEF Latches, IInv, OwnInv, OneLatched, NoLatch
    <3>2. CASE RecordsDispatch(w) \/ Reports(w)
      BY <1>1, <3>2 DEF RecordsDispatch, Reports, IInv, OwnInv, OneLatched, Latched
    <3>3. CASE \/ Issues(w) \/ Grants(w) \/ Consumes(w) \/ WritesAuthority(w) \/ Spawns(w)
               \/ SpawnFails(w) \/ Hears(w) \/ Interrupts(w) \/ StopsChild(w)
               \/ Records(w) \/ Raises(w) \/ OwnerDies(w)
      BY <3>3 DEF Issues, Grants, Consumes, WritesAuthority, Spawns, SpawnFails, Hears, Interrupts,
         StopsChild, Records, Raises, OwnerDies
    <3> QED BY <1>1, <3>1, <3>2, <3>3 DEF OwnerStep
  <2> QED BY <2>1, <2>2 DEF RecordsStand
<1>2. ASSUME IInv, LauncherStep PROVE RecordsStand
  BY <1>2, NextStands DEF LauncherStep, IInv, ownerVars, RecordsStand
<1>3. IInv /\ [ONext]_allVars => [RecordsStand]_allVars
  BY <1>1, <1>2 DEF ONext
<1> QED BY <1>3, Invariant, PTL DEF OSpec

-----------------------------------------------------------------------------
(* The one-shot authority. *)

\* Claims, Opens and Dispatches carry out the abstract steps; no other step changes the
\* output's operation, its being started, or the history of workers.
LEMMA StepMaps ==
  ASSUME IInv, [ONext]_allVars
  PROVE  [Authority!Next]_(Authority!vars)
<1> USE LauncherAssumption DEF Authority!vars, IInv, LInv
<1>1. ASSUME UNCHANGED <<out.op, out.started, entered>> PROVE [Authority!Next]_(Authority!vars)
  BY <1>1
<1>2. out \in Outputs
  BY DEF TypeOK
<1>3. ASSUME NEW c \in Calls, Claims(c) PROVE Authority!Next
  <2>1. out = NoOutput /\ call[c].op \in Ops \ {None}
    BY <1>3 DEF Claims, BelongToClaim, Binding
  <2>2. out' = [NoOutput EXCEPT !.by = c, !.op = call[c].op] /\ entered' = entered
    BY <1>3 DEF Claims
  <2>3. out.op = None /\ out'.op = call[c].op /\ out'.started = out.started
    BY <2>1, <2>2 DEF NoOutput
  <2>4. Authority!Choose(call[c].op)
    BY <2>2, <2>3 DEF Authority!Choose
  <2> QED BY <2>1, <2>4 DEF Authority!Next
<1>4. ASSUME NEW c \in Calls, Opens(c) PROVE [Authority!Next]_(Authority!vars)
  <2>1. out.op \in Ops /\ out.started = FALSE /\ entered' = entered
    BY <1>2, <1>4 DEF Opens, BelongToClaim, Progress, Claimed, Outputs
  <2>2. CASE out' = out
    BY <1>1, <2>1, <2>2
  <2>3. CASE out' = [out EXCEPT !.started = TRUE]
    <3>1. out'.op = out.op /\ out'.started = TRUE
      BY <1>2, <2>3 DEF Outputs
    <3>2. Authority!Spend
      BY <2>1, <3>1 DEF Authority!Spend
    <3> QED BY <3>2 DEF Authority!Next
  <2> QED BY <1>4, <2>2, <2>3 DEF Opens
<1>5. ASSUME NEW c \in Calls, Dispatches(c) PROVE [Authority!Next]_(Authority!vars)
  <2>1. out' = out /\ call[c].op = out.op /\ entered = << >> /\ out.started
    BY <1>5 DEF Dispatches, BelongToClaim, Progress, Claimed
  <2>2. CASE entered' = entered
    BY <1>1, <2>1, <2>2
  <2>3. CASE entered' = Append(entered, call[c].op)
    <3>1. entered' = <<out.op>>
      BY <2>1, <2>3
    <3>2. Authority!Enter
      BY <2>1, <3>1 DEF Authority!Enter
    <3> QED BY <3>2 DEF Authority!Next
  <2> QED BY <1>5, <2>2, <2>3 DEF Dispatches
<1>6. ASSUME NEW c \in Calls, Admits(c) \/ Intends(c) \/ Samples(c) \/ Reaps(c) \/ Finishes(c) \/ Seals(c)
      PROVE  [Authority!Next]_(Authority!vars)
  <2>1. entered' = entered
    BY <1>6 DEF Admits, Intends, Samples, Reaps, Finishes, Seals
  <2>2. \/ out' = out
        \/ \E x : \/ out' = [out EXCEPT !.sensor = x]
                  \/ out' = [out EXCEPT !.intent = x]
                  \/ out' = [out EXCEPT !.hostStop = x]
                  \/ out' = [out EXCEPT !.measured = x]
                  \/ out' = [out EXCEPT !.sealed = x]
                  \/ \E l : out' = [out EXCEPT !.late = l, !.final = x]
    BY <1>6 DEF Admits, Intends, Samples, Reaps, Finishes, Seals
  <2>3. UNCHANGED <<out.op, out.started>>
    BY <1>2, <2>2 DEF Outputs
  <2> QED BY <1>1, <2>1, <2>3
<1>7. ASSUME NEW c \in Calls,
             \/ Locks(c) \/ Binds(c) \/ StoresBinding(c) \/ Refuses(c) \/ AdmissionErrs(c) \/ Stops(c)
             \/ Judges(c) \/ HandsOver(c) \/ Verifies(c) \/ Killed(c)
      PROVE  UNCHANGED <<out, entered>>
  BY <1>7 DEF Locks, Binds, StoresBinding, Refuses, AdmissionErrs, Stops, Judges, HandsOver, Verifies,
     Killed
<1>8. ASSUME NEW c \in Calls, Step(c) \/ Killed(c) PROVE [Authority!Next]_(Authority!vars)
  BY <1>1, <1>3, <1>4, <1>5, <1>6, <1>7, <1>8 DEF Step
<1>9. ASSUME WorkerStep \/ \E c \in Calls, o \in Ops : Begins(c, o) \/ Prepares(c, o)
      PROVE  UNCHANGED <<out, entered>>
  BY <1>9 DEF WorkerStep, WorkerEnters, WorkerRecords, WorkerExits, Begins, Prepares
<1>10. CASE LauncherStep
  BY <1>1, <1>8, <1>9, <1>10 DEF LauncherStep, Next
<1>11. CASE \E w \in Owners : OwnerStep(w)
  BY <1>1, <1>11, OwnerMoves
<1>12. CASE UNCHANGED allVars
  BY <1>1, <1>12 DEF allVars, vars
<1> QED BY <1>10, <1>11, <1>12 DEF ONext

\* Whatever calls and owners race or die, one operation claims the output, and a worker
\* is started at most once, for it, after the authority was recorded as used.
THEOREM LaunchersAreOneShot == OSpec => ImplementsOneShot
<1>1. OInit => Authority!Init
  BY DEF OInit, Init, NoOutput, Authority!Init
<1>2. IInv /\ [ONext]_allVars => [Authority!Next]_(Authority!vars)
  BY StepMaps
<1> QED BY <1>1, <1>2, Invariant, PTL DEF OSpec, ImplementsOneShot, Authority!Spec
=============================================================================
