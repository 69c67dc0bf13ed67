----------------------- MODULE DeveloperWorkflowProofs -----------------------
(***************************************************************************)
(* That what the developer workflow answers stays true, for any number of  *)
(* developers, variants, runtimes, sensors and deaths.                     *)
(***************************************************************************)
EXTENDS DeveloperWorkflow, TLAPS

Registered == home.runtime # None /\ home.sensor # None

Reviewed == {"key", "sensor", "host", "bind", "answer"}
Bound == {"mark", "child", "judge", "verify", "attach", "save"} \cup CardReads
Consented == Bound \ {"mark"}
Completed == {"verify", "attach", "save"} \cup CardReads
Recalled == {"result", "resultCheck", "resultLoad"}

\* What a process knows at each step of its call, whatever the others did since.
CallKnown(p) ==
  LET c == call[p] IN
  /\ c.at # "idle" => c.variant \in Variants
  /\ c.at = "register" => c.runtime \in Runtimes
  /\ c.at \in Reviewed \cup {"register"} => stage[c.variant] = "prepared"
  /\ c.at \in Reviewed => home.runtime # None
  /\ c.at = "host" => c.sensor \in Sensors
  /\ c.at \in {"bind", "answer"} => home.sensor # None
  /\ c.at = "answer" => c.operation = Operation(c.variant)
  /\ c.at \in Bound \cup {"admit", "doctor", "answer"} \cup Recalled => c.operation \in Operations
  /\ c.at \in Bound => Registered /\ c.operation = Operation(c.variant)
  /\ c.at \in Consented => c.operation \in marker
  /\ c.at \in Completed => dir[c.variant].operation = c.operation
  /\ c.at \in CardReads \cup Recalled => record[c.variant] = c.operation
  /\ c.at \in Loading /\ dir[c.variant].edited => p \in dir[c.variant].past

\* A home has its runtime before its sensor, and its key unless somebody is about
\* to create it or died there.
HomeKnown ==
  /\ home.sensor # None => home.runtime # None
  /\ home.runtime # None => home.key \/ abandoned \/ \E p \in Procs : At(p, "key")

\* A run directory is of its own variant and has used up its plan's grant; a record
\* names the run that the directory holds, or held when it was deleted.
RunsKnown ==
  \A v \in Variants :
    /\ dir[v].operation = None => dir[v].state = "absent"
    /\ dir[v].operation # None => v \in consumed /\ dir[v].operation.variant = v
    /\ record[v] # None => record[v] = dir[v].operation

\* What was answered.
AnswersKnown ==
  /\ \A v \in planned : stage[v] = "prepared"
  /\ \A o \in ready : Registered /\ o = Operation(o.variant) /\ stage[o.variant] = "prepared"
  /\ verified # {} => Registered
  /\ VerifiedIsConsented
  /\ CardIsOneRun

IInv == TypeOK /\ HomeKnown /\ RunsKnown /\ (\A p \in Procs : CallKnown(p)) /\ AnswersKnown
-----------------------------------------------------------------------------
(* Types. *)

LEMMA InitTyped == Init => TypeOK
<1>1. Idle \in CallStates
  BY DEF Idle, CallStates
<1>2. NoRun \in RunStates
  BY DEF NoRun, RunStates
<1> SUFFICES ASSUME Init PROVE TypeOK
  OBVIOUS
<1>3. call \in [Procs -> CallStates] /\ dir \in [Variants -> RunStates]
  BY <1>1, <1>2 DEF Init
<1>4. stage \in [Variants -> {"unknown", "declared", "preparing", "prepared"}]
      /\ record \in [Variants -> Operations \cup {None}]
  BY DEF Init
<1>5. home \in [runtime : Runtimes \cup {None}, key : BOOLEAN, sensor : Sensors \cup {None}]
  BY DEF Init
<1>6. deaths \in 0 .. MaxDeaths
  BY DeathsAreNat DEF Init
<1> QED BY <1>3, <1>4, <1>5, <1>6 DEF Init, TypeOK

\* The records that calls become.
LEMMA CallsTyped ==
  ASSUME TypeOK, NEW p \in Procs
  PROVE  /\ Idle \in CallStates
         /\ [call[p] EXCEPT !.at = "key", !.runtime = None] \in CallStates
         /\ [call[p] EXCEPT !.at = "bind", !.sensor = None] \in CallStates
         /\ [call[p] EXCEPT !.at = "sensor"] \in CallStates
         /\ [call[p] EXCEPT !.at = "host"] \in CallStates
<1>1. call[p] \in CallStates
  BY DEF TypeOK
<1>2. Idle \in CallStates
  BY DEF Idle, CallStates
<1>3. [call[p] EXCEPT !.at = "key", !.runtime = None] \in CallStates
  BY <1>1 DEF CallStates
<1>4. [call[p] EXCEPT !.at = "bind", !.sensor = None] \in CallStates
  BY <1>1 DEF CallStates
<1>5. [call[p] EXCEPT !.at = "sensor"] \in CallStates
  BY <1>1 DEF CallStates
<1>6. [call[p] EXCEPT !.at = "host"] \in CallStates
  BY <1>1 DEF CallStates
<1> QED BY <1>2, <1>3, <1>4, <1>5, <1>6

\* The records that a run directory becomes.
LEMMA RunsTyped ==
  ASSUME TypeOK, NEW v \in Variants, NEW S \in SUBSET Procs
  PROVE  /\ \A s \in {"open", "sealed", "stopped", "removed"} : [dir[v] EXCEPT !.state = s] \in RunStates
         /\ [dir[v] EXCEPT !.edited = TRUE, !.past = S] \in RunStates
         /\ \A s \in {"open", "sealed", "stopped"}, o \in Operations :
              [NoRun EXCEPT !.state = s, !.operation = o] \in RunStates
BY DEF TypeOK, NoRun, RunStates

LEMMA TypeStep ==
  ASSUME IInv, [Next]_vars
  PROVE  TypeOK'
<1> USE NothingIsNone, DeathsAreNat
<1> USE DEF IInv, TypeOK
<1>1. CASE UNCHANGED vars
  BY <1>1 DEF vars
<1>2. ASSUME NEW p \in Procs, Plan(p)
      PROVE  TypeOK'
  <2> USE DEF At, Becomes, Goes, Ends, NoDeath, Silent, FilesUnchanged, files, answers
  <2>1. ASSUME NEW v \in Variants, PlanRegisters(p, v) PROVE TypeOK'
    BY <2>1 DEF PlanRegisters, Doing, Idle, CallStates
  <2>2. CASE PlanPrepares(p)
    BY <2>2 DEF PlanPrepares, Idle, CallStates, CallKnown
  <2>3. CASE PlanSaves(p)
    BY <2>3 DEF PlanSaves, Idle, CallStates, CallKnown
  <2>4. CASE PlanAnswers(p)
    BY <2>4 DEF PlanAnswers, Idle, CallStates, CallKnown
  <2> QED BY <1>2, <2>1, <2>2, <2>3, <2>4 DEF Plan
<1>3. ASSUME NEW p \in Procs, Ready(p)
      PROVE  TypeOK'
  <2> USE DEF At, Becomes, Goes, Ends, NoDeath, Silent, FilesUnchanged, files, answers
  <2>1. ASSUME NEW v \in Variants, NEW r \in Runtimes \cup {None}, NEW s \in Sensors \cup {None},
               ReadyLooks(p, v, r, s)
        PROVE  TypeOK'
    <3>1. [Doing("sensor", v) EXCEPT !.sensor = s] \in CallStates
      BY DEF Doing, Idle, CallStates
    <3>2. [Doing("register", v) EXCEPT !.runtime = r, !.sensor = s] \in CallStates
      BY DEF Doing, Idle, CallStates
    <3> QED BY <2>1, <3>1, <3>2 DEF ReadyLooks
  <2>2. CASE RegistersRuntime(p) \/ CreatesKey(p)
    <3>1. call' \in [Procs -> CallStates]
      <4>1. /\ Idle \in CallStates
            /\ [call[p] EXCEPT !.at = "key", !.runtime = None] \in CallStates
            /\ [call[p] EXCEPT !.at = "bind", !.sensor = None] \in CallStates
            /\ [call[p] EXCEPT !.at = "sensor"] \in CallStates
            /\ [call[p] EXCEPT !.at = "host"] \in CallStates
        BY CallsTyped
      <4> QED BY <2>2, <4>1 DEF RegistersRuntime, CreatesKey
    <3>2. home' \in [runtime : Runtimes \cup {None}, key : BOOLEAN, sensor : Sensors \cup {None}]
      BY <2>2 DEF RegistersRuntime, CreatesKey, CallKnown
    <3> QED BY <2>2, <3>1, <3>2 DEF RegistersRuntime, CreatesKey
  <2>3. CASE SensorExists(p) \/ SensorMissing(p)
    <3>1. call' \in [Procs -> CallStates]
      <4>1. /\ Idle \in CallStates
            /\ [call[p] EXCEPT !.at = "key", !.runtime = None] \in CallStates
            /\ [call[p] EXCEPT !.at = "bind", !.sensor = None] \in CallStates
            /\ [call[p] EXCEPT !.at = "sensor"] \in CallStates
            /\ [call[p] EXCEPT !.at = "host"] \in CallStates
        BY CallsTyped
      <4> QED BY <2>3, <4>1 DEF SensorExists, SensorMissing
    <3> QED BY <2>3, <3>1 DEF SensorExists, SensorMissing
  <2>4. CASE RegistersHost(p)
    <3>1. call' \in [Procs -> CallStates]
      <4>1. /\ Idle \in CallStates
            /\ [call[p] EXCEPT !.at = "key", !.runtime = None] \in CallStates
            /\ [call[p] EXCEPT !.at = "bind", !.sensor = None] \in CallStates
            /\ [call[p] EXCEPT !.at = "sensor"] \in CallStates
            /\ [call[p] EXCEPT !.at = "host"] \in CallStates
        BY CallsTyped
      <4> QED BY <2>4, <4>1 DEF RegistersHost
    <3>2. home' \in [runtime : Runtimes \cup {None}, key : BOOLEAN, sensor : Sensors \cup {None}]
      BY <2>4 DEF RegistersHost, CallKnown
    <3> QED BY <2>4, <3>1, <3>2 DEF RegistersHost
  <2>5. CASE ReadyBinds(p)
    <3>1. Operation(call[p].variant) \in Operations
      BY <2>5 DEF ReadyBinds, CallKnown, Reviewed, Operation, Operations, Hosts
    <3>2. [Doing("answer", call[p].variant) EXCEPT !.operation = Operation(call[p].variant)] \in CallStates
      BY <2>5, <3>1 DEF ReadyBinds, CallKnown, Doing, Idle, CallStates
    <3>3. Operation(call[p].variant).variant = call[p].variant /\ Idle \in CallStates
      BY DEF Operation, Idle, CallStates
    <3> QED BY <2>5, <3>2, <3>3 DEF ReadyBinds
  <2>6. CASE ReadyAnswers(p)
    BY <2>6 DEF ReadyAnswers, CallKnown, Idle, CallStates
  <2> QED BY <1>3, <2>1, <2>2, <2>3, <2>4, <2>5, <2>6 DEF Ready
<1>4. ASSUME NEW p \in Procs, Run(p)
      PROVE  TypeOK'
  <2> USE DEF At, Becomes, Goes, Ends, NoDeath, Silent, FilesUnchanged, files, answers
  <2>1. ASSUME NEW v \in Variants, NEW o \in Operations, RunLooks(p, v, o) PROVE TypeOK'
    BY <2>1 DEF RunLooks, Doing, Idle, CallStates
  <2>2. CASE RunDoctor(p) \/ RunAdmits(p) \/ RunJudges(p) \/ RunVerifies(p)
    BY <2>2 DEF RunDoctor, RunAdmits, RunJudges, RunVerifies, Idle, CallStates
  <2>3. CASE RunMarks(p) \/ ChildStops(p)
    BY <2>3 DEF RunMarks, ChildStops, CallKnown, Bound, Idle, CallStates
  <2>4. CASE ChildEnters(p)
    BY <2>4 DEF ChildEnters, CallKnown, Bound, NoRun, RunStates, CallStates, Operations
  <2>5. CASE ChildEnds(p)
    <3>1. call' \in [Procs -> CallStates]
      BY <2>5 DEF ChildEnds, CallStates
    <3>2. dir' \in [Variants -> RunStates]
      <4>1. call[p].variant \in Variants
        BY <2>5 DEF ChildEnds, CallKnown
      <4>2. PICK s \in {"sealed", "stopped"} : dir' = [dir EXCEPT ![call[p].variant].state = s]
        BY <2>5 DEF ChildEnds
      <4>3. [dir[call[p].variant] EXCEPT !.state = s] \in RunStates
        BY <4>1, RunsTyped
      <4> QED BY <4>1, <4>2, <4>3
    <3> QED BY <2>5, <3>1, <3>2 DEF ChildEnds
  <2>6. CASE RunAttaches(p)
    BY <2>6 DEF RunAttaches, Idle, CallStates
  <2>7. CASE RunSaves(p)
    <3>1. call' \in [Procs -> CallStates]
      BY <2>7 DEF RunSaves, Idle, CallStates
    <3>2. record' \in [Variants -> Operations \cup {None}]
      BY <2>7 DEF RunSaves, CallKnown, RunStates
    <3> QED BY <2>7, <3>1, <3>2 DEF RunSaves
  <2> QED BY <1>4, <2>1, <2>2, <2>3, <2>4, <2>5, <2>6, <2>7 DEF Run
<1>5. ASSUME NEW p \in Procs, Result(p)
      PROVE  TypeOK'
  <2> USE DEF At, Becomes, Goes, Ends, NoDeath, Silent, FilesUnchanged, files, answers
  <2>1. ASSUME NEW v \in Variants, ResultBegins(p, v) PROVE TypeOK'
    BY <2>1 DEF ResultBegins, Doing, Idle, CallStates
  <2>2. ASSUME NEW r \in Operations \cup {None}, NEW e \in BOOLEAN, Answers(p, r, e),
               call[p].at \in CardReads \cup Recalled
        PROVE  /\ cards' \subseteq Cards /\ verified' \subseteq Operations
               /\ call' \in [Procs -> CallStates]
    <3>1. call[p].variant \in Variants /\ call[p].operation \in Operations
      BY <2>2 DEF CallKnown, Bound, Recalled, CardReads
    <3>2. Recorded(p) = call[p].operation
      BY <2>2 DEF CallKnown, Recorded
    <3>3. [variant |-> call[p].variant, operation |-> Recorded(p), run |-> r, edited |-> e,
           late |-> p \in dir[call[p].variant].past] \in Cards
      BY <3>1, <3>2 DEF Cards
    <3>4. cards' \subseteq Cards
      BY <2>2, <3>3 DEF Answers
    <3>5. verified' \subseteq Operations
      BY <2>2, <3>1 DEF Answers
    <3>6. call' \in [Procs -> CallStates]
      BY <2>2, CallsTyped DEF Answers
    <3> QED BY <3>4, <3>5, <3>6
  <2>3. CASE CardLooks(p)
    <3>1. call[p].at \in CardReads \cup Recalled
      BY <2>3 DEF CardLooks, CardReads, Recalled
    <3>2. CASE Answers(p, None, FALSE)
      BY <2>2, <2>3, <3>1, <3>2 DEF CardLooks
    <3>3. ASSUME NEW s \in {"cardCheck", "resultCheck"},
                 call' = [call EXCEPT ![p] = [call[p] EXCEPT !.at = s]]
          PROVE  call' \in [Procs -> CallStates]
      BY <3>3 DEF CallStates
    <3>4. CASE dir[call[p].variant].state # "removed"
      BY <2>3, <3>3, <3>4 DEF CardLooks
    <3> QED BY <2>3, <3>2, <3>4 DEF CardLooks
  <2>4. CASE CardChecks(p)
    BY <2>4 DEF CardChecks, Idle, CallStates
  <2>5. CASE CardLoads(p)
    <3> DEFINE v == call[p].variant
    <3>1. call[p].at \in CardReads \cup Recalled /\ v \in Variants
      BY <2>5 DEF CardLoads, CardReads, Recalled, Loading, CallKnown
    <3>2. dir[v].operation \in Operations \cup {None} /\ dir[v].edited \in BOOLEAN
      BY <3>1 DEF RunStates
    <3>3. CASE Answers(p, dir[v].operation, dir[v].edited)
      BY <2>2, <2>5, <3>1, <3>2, <3>3 DEF CardLoads
    <3>4. CASE Raises(p)
      BY <2>5, <3>4, CallsTyped DEF CardLoads, Raises
    <3> QED BY <2>5, <3>3, <3>4 DEF CardLoads
  <2> QED BY <1>5, <2>1, <2>3, <2>4, <2>5 DEF Result
<1>6. ASSUME NEW p \in Procs, Dies(p)
      PROVE  TypeOK'
  <2>1. call' \in [Procs -> CallStates]
    BY <1>6 DEF Dies, Becomes, Ends, Idle, CallStates
  <2>2. dir' \in [Variants -> RunStates]
    BY <1>6 DEF Dies, RunStates
  <2>3. deaths' \in 0 .. MaxDeaths /\ abandoned' \in BOOLEAN
    BY <1>6 DEF Dies, At
  <2> QED BY <1>6, <2>1, <2>2, <2>3 DEF Dies, answers
<1>7. ASSUME NEW v \in Variants, Others(v)
      PROVE  TypeOK'
  <2> USE DEF NoDeath, Silent, answers
  <2>1. CASE OtherRun(v)
    <3>1. OtherOperation(v) \in Operations
      BY <2>1 DEF OtherRun, OtherOperation, Operation, Operations, Hosts
    <3>2. dir' \in [Variants -> RunStates]
      <4>1. CASE dir' = dir
        BY <4>1
      <4>2. ASSUME NEW s \in {"sealed", "stopped"},
                   dir' = [dir EXCEPT ![v] = [NoRun EXCEPT !.state = s, !.operation = OtherOperation(v)]]
            PROVE  dir' \in [Variants -> RunStates]
        <5>1. [NoRun EXCEPT !.state = s, !.operation = OtherOperation(v)] \in RunStates
          BY <3>1, RunsTyped
        <5> QED BY <4>2, <5>1
      <4> QED BY <2>1, <4>1, <4>2 DEF OtherRun
    <3> QED BY <2>1, <3>1, <3>2 DEF OtherRun
  <2>2. CASE OtherAttach(v) \/ EditRun(v) \/ RemoveRun(v)
    <3>1. dir' \in [Variants -> RunStates]
      <4> DEFINE S == {p \in Procs : call[p].variant = v /\ call[p].at \in Loading}
      <4>1. [dir[v] EXCEPT !.state = "removed"] \in RunStates
            /\ [dir[v] EXCEPT !.edited = TRUE, !.past = S] \in RunStates
        <5>1. S \in SUBSET Procs
          OBVIOUS
        <5> HIDE DEF S
        <5> QED BY <5>1, RunsTyped
      <4> QED BY <2>2, <4>1 DEF OtherAttach, EditRun, RemoveRun
    <3>2. record' \in [Variants -> Operations \cup {None}]
      BY <2>2 DEF OtherAttach, EditRun, RemoveRun, RunStates
    <3> QED BY <2>2, <3>1, <3>2 DEF OtherAttach, EditRun, RemoveRun
  <2> QED BY <1>7, <2>1, <2>2 DEF Others
<1> QED BY <1>1, <1>2, <1>3, <1>4, <1>5, <1>6, <1>7 DEF Next
-----------------------------------------------------------------------------
(* Files. *)

\* An edit is noted with the calls that had checked the run before it.
EditKept(v) ==
  \/ dir'[v].edited = dir[v].edited /\ dir'[v].past = dir[v].past
  \/ dir'[v].past = {p \in Procs : call[p].variant = v /\ call[p].at \in Loading}

\* What a step leaves of the files, whoever takes it: a preparation, a registration, a
\* marker, a consumed grant, the run of a directory and a record stay for good.
Stands ==
  /\ \A v \in Variants : stage[v] = "prepared" => stage'[v] = "prepared"
  /\ home.runtime # None => home'.runtime = home.runtime
  /\ home.sensor # None => home'.sensor = home.sensor
  /\ home.key => home'.key
  /\ marker \subseteq marker' /\ consumed \subseteq consumed'
  /\ \A v \in Variants : dir[v].operation # None => dir'[v].operation = dir[v].operation
  /\ \A v \in Variants : record[v] # None => record'[v] = record[v]
  /\ \A v \in Variants : dir[v].operation # None => EditKept(v)

LEMMA StandsStep ==
  ASSUME IInv, [Next]_vars
  PROVE  Stands
<1> USE NothingIsNone
<1> USE DEF IInv
<1>0. UNCHANGED files => Stands
  BY DEF files, Stands, EditKept
<1>1. CASE UNCHANGED vars
  BY <1>0, <1>1 DEF vars, files
<1>2. ASSUME NEW p \in Procs, Plan(p)
      PROVE  Stands
  <2>1. UNCHANGED <<record, home, marker, consumed, dir>>
    BY <1>2 DEF Plan, PlanRegisters, PlanPrepares, PlanSaves, PlanAnswers, FilesUnchanged, files
  <2>2. \A v \in Variants : stage[v] = "prepared" => stage'[v] = "prepared"
    <3>1. ASSUME NEW v \in Variants, PlanRegisters(p, v)
          PROVE  \A w \in Variants : stage[w] = "prepared" => stage'[w] = "prepared"
      BY <3>1 DEF PlanRegisters, TypeOK
    <3>2. CASE PlanPrepares(p) \/ PlanSaves(p) \/ PlanAnswers(p)
      BY <3>2 DEF PlanPrepares, PlanSaves, PlanAnswers, FilesUnchanged, files, TypeOK
    <3> QED BY <1>2, <3>1, <3>2 DEF Plan
  <2> QED BY <2>1, <2>2 DEF Stands, EditKept
<1>3. ASSUME NEW p \in Procs, Ready(p)
      PROVE  Stands
  <2>1. CASE RegistersRuntime(p)
    BY <2>1 DEF RegistersRuntime, Stands, EditKept, TypeOK
  <2>2. CASE CreatesKey(p)
    BY <2>2 DEF CreatesKey, Stands, EditKept, TypeOK
  <2>3. CASE RegistersHost(p)
    BY <2>3 DEF RegistersHost, Stands, EditKept, TypeOK
  <2>4. CASE UNCHANGED files
    BY <1>0, <2>4
  <2> QED BY <1>3, <2>1, <2>2, <2>3, <2>4
          DEF Ready, ReadyLooks, SensorExists, SensorMissing, ReadyBinds, ReadyAnswers, FilesUnchanged
<1>4. ASSUME NEW p \in Procs, Run(p)
      PROVE  Stands
  <2>1. CASE RunMarks(p)
    BY <2>1 DEF RunMarks, Stands, EditKept
  <2>2. CASE ChildEnters(p)
    <3>1. call[p].operation.variant \in Variants /\ dir[call[p].operation.variant].operation = None
      BY <2>2 DEF ChildEnters, At, CallKnown, Bound, Operations, MayEnter, RunsKnown
    <3> QED BY <2>2, <3>1 DEF ChildEnters, Stands, EditKept, TypeOK
  <2>3. CASE ChildEnds(p)
    BY <2>3 DEF ChildEnds, Stands, EditKept, TypeOK, RunStates
  <2>4. CASE RunSaves(p)
    BY <2>4 DEF RunSaves, Stands, EditKept, TypeOK
  <2>5. CASE UNCHANGED files
    BY <1>0, <2>5
  <2> QED BY <1>4, <2>1, <2>2, <2>3, <2>4, <2>5
          DEF Run, RunLooks, RunDoctor, RunAdmits, ChildStops, RunJudges, RunVerifies, RunAttaches,
              FilesUnchanged
<1>5. ASSUME NEW p \in Procs, Result(p)
      PROVE  Stands
  BY <1>0, <1>5 DEF Result, ResultBegins, CardLooks, CardChecks, CardLoads, Raises, Answers, FilesUnchanged
<1>6. ASSUME NEW p \in Procs, Dies(p)
      PROVE  Stands
  <2>1. /\ UNCHANGED <<stage, record, home, marker, consumed>>
        /\ \/ dir' = dir
           \/ \E s \in {"open", "sealed", "stopped"} : dir' = [dir EXCEPT ![call[p].variant].state = s]
    BY <1>6 DEF Dies
  <2>2. \A v \in Variants : /\ dir'[v].operation = dir[v].operation
                           /\ dir'[v].edited = dir[v].edited /\ dir'[v].past = dir[v].past
    BY <2>1 DEF TypeOK, RunStates
  <2> QED BY <2>1, <2>2 DEF Stands, EditKept
<1>7. ASSUME NEW v \in Variants, Others(v)
      PROVE  Stands
  <2>1. CASE OtherRun(v)
    <3>1. MayEnter(v) => dir[v].operation = None
      BY DEF MayEnter, RunsKnown
    <3>2. CASE MayEnter(v)
      BY <2>1, <3>1, <3>2 DEF OtherRun, Stands, EditKept, TypeOK
    <3>3. CASE ~ MayEnter(v)
      BY <2>1, <3>3 DEF OtherRun, Stands, EditKept
    <3> QED BY <3>2, <3>3
  <2>2. CASE OtherAttach(v)
    BY <2>2 DEF OtherAttach, Stands, EditKept, TypeOK
  <2>3. CASE EditRun(v) \/ RemoveRun(v)
    BY <2>3 DEF EditRun, RemoveRun, Stands, EditKept, TypeOK, RunStates
  <2> QED BY <1>7, <2>1, <2>2, <2>3 DEF Others
<1> QED BY <1>1, <1>2, <1>3, <1>4, <1>5, <1>6, <1>7 DEF Next
\* A step of one process leaves the calls of the others alone.
LEMMA OneCallMoves ==
  ASSUME TypeOK, NEW p \in Procs, NEW q \in Procs, p # q,
         Plan(p) \/ Ready(p) \/ Run(p) \/ Result(p) \/ Dies(p)
  PROVE  call'[q] = call[q]
<1>1. \A c : Becomes(p, c) => call'[q] = call[q]
  BY DEF Becomes, TypeOK
<1>2. UNCHANGED call \/ \E c : Becomes(p, c)
  BY DEF Plan, PlanRegisters, PlanPrepares, PlanSaves, PlanAnswers,
         Ready, ReadyLooks, RegistersRuntime, CreatesKey, SensorExists, SensorMissing, RegistersHost,
         ReadyBinds, ReadyAnswers,
         Run, RunLooks, RunDoctor, RunAdmits, RunMarks, ChildEnters, ChildStops, ChildEnds, RunJudges,
         RunVerifies, RunAttaches, RunSaves,
         Result, ResultBegins, CardLooks, CardChecks, CardLoads, Raises, Answers, Dies, Goes, Ends
<1> QED BY <1>1, <1>2

\* Who is about to create the key stays so, or creates it, or dies there.
LEMMA KeyStep ==
  ASSUME IInv, [Next]_vars, NEW q \in Procs, At(q, "key")
  PROVE  At(q, "key")' \/ home'.key \/ abandoned'
<1> USE DEF IInv, At
<1>0. UNCHANGED call => At(q, "key")'
  OBVIOUS
<1>1. CASE UNCHANGED vars
  BY <1>0, <1>1 DEF vars
<1>2. ASSUME NEW p \in Procs, Plan(p) \/ Ready(p) \/ Run(p) \/ Result(p) \/ Dies(p), p # q
      PROVE  At(q, "key")'
  BY <1>0, <1>2, OneCallMoves
<1>3. CASE Plan(q) \/ Result(q)
  BY <1>3 DEF Plan, PlanRegisters, PlanPrepares, PlanSaves, PlanAnswers, Result, ResultBegins,
     CardLooks, CardChecks, CardLoads, Loading
<1>4. CASE Ready(q)
  <2>1. CreatesKey(q)
    BY <1>4 DEF Ready, ReadyLooks, RegistersRuntime, SensorExists, SensorMissing, RegistersHost,
         ReadyBinds, ReadyAnswers
  <2> QED BY <2>1 DEF CreatesKey, TypeOK
<1>5. CASE Run(q)
  BY <1>5 DEF Run, RunLooks, RunDoctor, RunAdmits, RunMarks, ChildEnters, ChildStops, ChildEnds,
       RunJudges, RunVerifies, RunAttaches, RunSaves
<1>6. CASE Dies(q)
  BY <1>6 DEF Dies
<1>7. ASSUME NEW v \in Variants, Others(v)
      PROVE  At(q, "key")'
  BY <1>0, <1>7 DEF Others, OtherRun, OtherAttach, EditRun, RemoveRun
<1> QED BY <1>1, <1>2, <1>3, <1>4, <1>5, <1>6, <1>7 DEF Next

LEMMA HomeStep ==
  ASSUME IInv, [Next]_vars
  PROVE  HomeKnown'
<1> USE NothingIsNone
<1> USE DEF IInv
<1>1. abandoned => abandoned'
  BY DEF Next, vars, Plan, PlanRegisters, PlanPrepares, PlanSaves, PlanAnswers,
         Ready, ReadyLooks, RegistersRuntime, CreatesKey, SensorExists, SensorMissing, RegistersHost,
         ReadyBinds, ReadyAnswers,
         Run, RunLooks, RunDoctor, RunAdmits, RunMarks, ChildEnters, ChildStops, ChildEnds, RunJudges,
         RunVerifies, RunAttaches, RunSaves,
         Result, ResultBegins, CardLooks, CardChecks, CardLoads, Raises, Answers, Dies,
         Others, OtherRun, OtherAttach, EditRun, RemoveRun, Silent, NoDeath
<1>2. CASE home' = home
  <2>1. CASE \E q \in Procs : At(q, "key")
    BY <1>2, <2>1, KeyStep DEF HomeKnown
  <2>2. CASE ~ \E q \in Procs : At(q, "key")
    BY <1>1, <1>2, <2>2 DEF HomeKnown
  <2> QED BY <2>1, <2>2
<1>3. ASSUME NEW p \in Procs, RegistersRuntime(p)
      PROVE  HomeKnown'
  <2>1. CASE home.runtime = None
    <3>1. At(p, "key")'
      <4>1. call'[p] = [call[p] EXCEPT !.at = "key", !.runtime = None]
        BY <1>3, <2>1 DEF RegistersRuntime, Becomes, TypeOK
      <4> QED BY <4>1 DEF At, TypeOK, CallStates
    <3>2. home'.runtime # None
      BY <1>3, <2>1 DEF RegistersRuntime, At, TypeOK, CallKnown
    <3> QED BY <3>1, <3>2 DEF HomeKnown
  <2> QED BY <1>2, <1>3, <2>1 DEF RegistersRuntime
<1>4. ASSUME NEW p \in Procs, CreatesKey(p)
      PROVE  HomeKnown'
  BY <1>4 DEF CreatesKey, HomeKnown, TypeOK
<1>5. ASSUME NEW p \in Procs, RegistersHost(p)
      PROVE  HomeKnown'
  <2>1. home'.runtime = home.runtime /\ home'.key = home.key /\ home.runtime # None
    BY <1>5 DEF RegistersHost, At, CallKnown, Reviewed, TypeOK
  <2>2. CASE \E q \in Procs : At(q, "key")
    BY <2>1, <2>2, KeyStep DEF HomeKnown
  <2>3. CASE ~ \E q \in Procs : At(q, "key")
    BY <1>1, <2>1, <2>3 DEF HomeKnown
  <2> QED BY <2>2, <2>3
<1>6. \/ home' = home
      \/ \E p \in Procs : RegistersRuntime(p) \/ CreatesKey(p) \/ RegistersHost(p)
  BY DEF Next, vars, Plan, PlanRegisters, PlanPrepares, PlanSaves, PlanAnswers,
         Ready, ReadyLooks, SensorExists, SensorMissing, ReadyBinds, ReadyAnswers,
         Run, RunLooks, RunDoctor, RunAdmits, RunMarks, ChildEnters, ChildStops, ChildEnds, RunJudges,
         RunVerifies, RunAttaches, RunSaves,
         Result, ResultBegins, CardLooks, CardChecks, CardLoads, Raises, Answers, Dies,
         Others, OtherRun, OtherAttach, EditRun, RemoveRun, FilesUnchanged, files
<1> QED BY <1>2, <1>3, <1>4, <1>5, <1>6

LEMMA RunsStep ==
  ASSUME IInv, [Next]_vars
  PROVE  RunsKnown'
<1> USE NothingIsNone
<1> USE DEF IInv
<1>1. Stands
  BY StandsStep
<1>2. CASE record' = record /\ dir' = dir
  BY <1>1, <1>2 DEF RunsKnown, Stands
<1>3. ASSUME NEW p \in Procs, ChildEnters(p)
      PROVE  RunsKnown'
  <2>1. call[p].operation \in Operations /\ call[p].operation.variant \in Variants
    BY <1>3 DEF ChildEnters, At, CallKnown, Bound, Operations
  <2> QED BY <1>1, <1>3, <2>1 DEF ChildEnters, MayEnter, NoRun, RunsKnown, Stands, TypeOK
<1>4. ASSUME NEW p \in Procs, ChildEnds(p)
      PROVE  RunsKnown'
  <2>1. call[p].variant \in Variants /\ call[p].operation # None
    BY <1>4 DEF ChildEnds, At, CallKnown, Bound
  <2>2. PICK s \in {"sealed", "stopped"} : dir' = [dir EXCEPT ![call[p].variant].state = s]
    BY <1>4 DEF ChildEnds
  <2>3. \A v \in Variants : dir'[v].operation = dir[v].operation
    BY <2>2 DEF TypeOK, RunStates
  <2>4. \A v \in Variants : v # call[p].variant => dir'[v] = dir[v]
    BY <2>2 DEF TypeOK
  <2> QED BY <1>1, <1>4, <2>1, <2>3, <2>4 DEF ChildEnds, RunsKnown, Stands
<1>5. ASSUME NEW p \in Procs, RunSaves(p)
      PROVE  RunsKnown'
  BY <1>1, <1>5 DEF RunSaves, RunsKnown, Stands, TypeOK
<1>6. ASSUME NEW p \in Procs, Dies(p)
      PROVE  RunsKnown'
  <2>1. CASE dir' = dir
    BY <1>2, <1>6, <2>1 DEF Dies
  <2>2. CASE At(p, "child") /\ dir[call[p].variant].operation = call[p].operation
    <3>1. call[p].variant \in Variants /\ call[p].operation # None
      BY <2>2 DEF At, CallKnown, Bound
    <3>2. PICK s \in {"open", "sealed", "stopped"} : dir' = [dir EXCEPT ![call[p].variant].state = s]
      BY <1>6, <2>2 DEF Dies
    <3>3. \A v \in Variants : dir'[v].operation = dir[v].operation
      BY <3>2 DEF TypeOK, RunStates
    <3>4. \A v \in Variants : v # call[p].variant => dir'[v] = dir[v]
      BY <3>2 DEF TypeOK
    <3> QED BY <1>1, <1>6, <2>2, <3>1, <3>3, <3>4 DEF Dies, RunsKnown, Stands
  <2> QED BY <1>6, <2>1, <2>2 DEF Dies
<1>7. ASSUME NEW v \in Variants, Others(v)
      PROVE  RunsKnown'
  <2>1. CASE OtherRun(v)
    <3>1. OtherOperation(v) \in Operations /\ OtherOperation(v).variant = v
      BY <2>1 DEF OtherRun, OtherOperation, Operation, Operations, Hosts, TypeOK
    <3>2. CASE MayEnter(v)
      <4>1. PICK s \in {"sealed", "stopped"} :
              dir' = [dir EXCEPT ![v] = [NoRun EXCEPT !.state = s, !.operation = OtherOperation(v)]]
        BY <2>1, <3>2 DEF OtherRun
      <4>2. dir'[v].operation = OtherOperation(v) /\ \A w \in Variants : w # v => dir'[w] = dir[w]
        BY <4>1 DEF NoRun, TypeOK
      <4>3. dir[v].operation = None /\ record[v] = None /\ v \in consumed' /\ record' = record
        BY <2>1, <3>2 DEF OtherRun, MayEnter, RunsKnown
      <4>4. OtherOperation(v) # None
        BY <3>1
      <4> QED BY <1>1, <3>1, <4>2, <4>3, <4>4 DEF RunsKnown, Stands
    <3>3. CASE ~ MayEnter(v)
      BY <1>2, <2>1, <3>3 DEF OtherRun
    <3> QED BY <3>2, <3>3
  <2>2. CASE OtherAttach(v)
    BY <1>1, <2>2 DEF OtherAttach, RunsKnown, Stands, TypeOK
  <2>3. CASE EditRun(v)
    BY <1>1, <2>3 DEF EditRun, RunsKnown, Stands, TypeOK, RunStates
  <2>4. CASE RemoveRun(v)
    BY <1>1, <2>4 DEF RemoveRun, RunsKnown, Stands, TypeOK, RunStates
  <2> QED BY <1>7, <2>1, <2>2, <2>3, <2>4 DEF Others
<1>8. \/ record' = record /\ dir' = dir
      \/ \E p \in Procs : ChildEnters(p) \/ ChildEnds(p) \/ RunSaves(p) \/ Dies(p)
      \/ \E v \in Variants : Others(v)
  BY DEF Next, vars, Plan, PlanRegisters, PlanPrepares, PlanSaves, PlanAnswers,
         Ready, ReadyLooks, RegistersRuntime, CreatesKey, SensorExists, SensorMissing, RegistersHost,
         ReadyBinds, ReadyAnswers,
         Run, RunLooks, RunDoctor, RunAdmits, RunMarks, ChildStops, RunJudges, RunVerifies, RunAttaches,
         Result, ResultBegins, CardLooks, CardChecks, CardLoads, Raises, Answers, FilesUnchanged, files
<1> QED BY <1>2, <1>3, <1>4, <1>5, <1>6, <1>7, <1>8
-----------------------------------------------------------------------------
(* Calls. *)

\* What a call knew before a step of others, it knows after it.
LEMMA KnownStands ==
  ASSUME IInv, Stands, NEW q \in Procs, call'[q] = call[q]
  PROVE  CallKnown(q)'
<1> USE NothingIsNone
<1> DEFINE c == call[q]
<1>1. CallKnown(q) /\ c \in CallStates
  BY DEF IInv, TypeOK
<1>2. c.at \in Reviewed \cup {"register"} => stage'[c.variant] = "prepared"
  BY <1>1 DEF CallKnown, Stands, Reviewed
<1>3. c.at \in Reviewed => home'.runtime # None
  BY <1>1 DEF CallKnown, Stands
<1>4. c.at \in {"bind", "answer"} => home'.sensor # None
  BY <1>1 DEF CallKnown, Stands
<1>5. c.at \in Bound \cup {"answer"} => Operation(c.variant)' = Operation(c.variant)
  BY <1>1 DEF CallKnown, Stands, Operation, Registered, Reviewed
<1>6. c.at \in Bound => Registered'
  BY <1>1 DEF CallKnown, Stands, Registered
<1>7. c.at \in Consented => c.operation \in marker'
  BY <1>1 DEF CallKnown, Stands
<1>8. c.at \in Completed => dir'[c.variant].operation = c.operation
  BY <1>1 DEF CallKnown, Stands, Completed, Bound, CardReads
<1>9. c.at \in CardReads \cup Recalled => record'[c.variant] = c.operation
  BY <1>1 DEF CallKnown, Stands, Bound, Recalled, CardReads
<1>10. c.at \in Loading /\ dir'[c.variant].edited => q \in dir'[c.variant].past
  <2> SUFFICES ASSUME c.at \in Loading
               PROVE  dir'[c.variant].edited => q \in dir'[c.variant].past
    OBVIOUS
  <2>1. c.variant \in Variants /\ dir[c.variant].operation # None
    BY <1>1 DEF CallKnown, Loading, CardReads, Recalled, Bound, IInv, RunsKnown
  <2>2. dir[c.variant].edited => q \in dir[c.variant].past
    BY <1>1 DEF CallKnown
  <2> QED BY <2>1, <2>2 DEF Stands, EditKept
<1>11. call'[q] = c
  OBVIOUS
<1> QED BY <1>1, <1>2, <1>3, <1>4, <1>5, <1>6, <1>7, <1>8, <1>9, <1>10, <1>11 DEF CallKnown

\* A call that goes to its next step with nothing more to know than its variant.
LEMMA OnlyItsVariant ==
  ASSUME NEW q \in Procs, call'[q].at \in {"idle", "prepare", "preparing", "view"},
         call'[q].at # "idle" => call'[q].variant \in Variants
  PROVE  CallKnown(q)'
BY DEF CallKnown, Reviewed, Bound, Consented, Completed, CardReads, Recalled, Loading

LEMMA IdleKnown ==
  ASSUME NEW q \in Procs, call'[q] = Idle
  PROVE  CallKnown(q)'
BY OnlyItsVariant DEF Idle

LEMMA OwnPlan ==
  ASSUME IInv, NEW p \in Procs, Plan(p)
  PROVE  CallKnown(p)'
<1> USE DEF IInv, At, Becomes, Goes, Ends
<1>1. ASSUME NEW v \in Variants, PlanRegisters(p, v) PROVE CallKnown(p)'
  BY <1>1, OnlyItsVariant DEF PlanRegisters, Doing, Idle, TypeOK
<1>2. CASE PlanPrepares(p)
  <2>1. CASE call'[p] = Idle
    BY <2>1, IdleKnown
  <2>2. ASSUME NEW s \in {"preparing", "view"}, call'[p] = [call[p] EXCEPT !.at = s]
        PROVE  CallKnown(p)'
    BY <1>2, <2>2, OnlyItsVariant DEF PlanPrepares, CallKnown, TypeOK, CallStates
  <2> QED BY <1>2, <2>1, <2>2 DEF PlanPrepares, TypeOK
<1>3. CASE PlanSaves(p)
  <2>1. call'[p] = [call[p] EXCEPT !.at = "view"]
    BY <1>3 DEF PlanSaves, TypeOK
  <2> QED BY <1>3, <2>1, OnlyItsVariant DEF PlanSaves, CallKnown, TypeOK, CallStates
<1>4. CASE PlanAnswers(p)
  BY <1>4, IdleKnown DEF PlanAnswers, TypeOK
<1> QED BY <1>1, <1>2, <1>3, <1>4 DEF Plan

LEMMA OwnReady ==
  ASSUME IInv, Stands, NEW p \in Procs, Ready(p)
  PROVE  CallKnown(p)'
<1> USE NothingIsNone
<1> USE DEF IInv, At, Becomes, Goes, Ends
<1>0. call[p] \in CallStates /\ CallKnown(p)
  BY DEF TypeOK
<1>1. ASSUME NEW v \in Variants, NEW r \in Runtimes \cup {None}, NEW s \in Sensors \cup {None},
             ReadyLooks(p, v, r, s)
      PROVE  CallKnown(p)'
  <2>1. stage'[v] = "prepared" /\ home' = home
    BY <1>1 DEF ReadyLooks, Runnable, FilesUnchanged, files
  <2>2. CASE home.runtime # None
    <3>1. call'[p] = [Doing("sensor", v) EXCEPT !.sensor = s]
      BY <1>1, <2>2 DEF ReadyLooks, TypeOK
    <3>2. call'[p].at = "sensor" /\ call'[p].variant = v
      BY <3>1 DEF Doing, Idle
    <3> QED BY <2>1, <2>2, <3>2 DEF CallKnown, Reviewed, Bound, Consented, Completed, CardReads, Recalled,
       Loading
  <2>3. CASE home.runtime = None
    <3>1. call'[p] = [Doing("register", v) EXCEPT !.runtime = r, !.sensor = s] /\ r \in Runtimes
      BY <1>1, <2>3 DEF ReadyLooks, TypeOK
    <3>2. call'[p].at = "register" /\ call'[p].variant = v /\ call'[p].runtime = r
      BY <3>1 DEF Doing, Idle
    <3> QED BY <2>1, <3>1, <3>2 DEF CallKnown, Reviewed, Bound, Consented, Completed, CardReads, Recalled,
       Loading
  <2> QED BY <2>2, <2>3
<1>2. CASE RegistersRuntime(p)
  <2>1. CASE home.runtime = None
    <3>1. call'[p] = [call[p] EXCEPT !.at = "key", !.runtime = None]
      BY <1>2, <2>1 DEF RegistersRuntime, TypeOK
    <3>2. call'[p].at = "key" /\ call'[p].variant = call[p].variant
      BY <1>0, <3>1 DEF CallStates
    <3>3. home'.runtime # None
      BY <1>0, <1>2, <2>1 DEF RegistersRuntime, CallKnown, TypeOK
    <3> QED BY <1>0, <1>2, <3>2, <3>3
            DEF RegistersRuntime, CallKnown, Reviewed, Bound, Consented, Completed, CardReads, Recalled,
                Loading
  <2>2. CASE home.runtime # None
    BY <1>2, <2>2, IdleKnown DEF RegistersRuntime, TypeOK
  <2> QED BY <2>1, <2>2
<1>3. CASE CreatesKey(p)
  <2>1. call'[p] = [call[p] EXCEPT !.at = "sensor"]
    BY <1>3 DEF CreatesKey, TypeOK
  <2>2. call'[p].at = "sensor" /\ call'[p].variant = call[p].variant
    BY <1>0, <2>1 DEF CallStates
  <2> QED BY <1>0, <1>3, <2>2
          DEF CreatesKey, Stands, CallKnown, Reviewed, Bound, Consented, Completed, CardReads, Recalled,
              Loading
<1>4. CASE SensorExists(p)
  <2>1. CASE call'[p] = [call[p] EXCEPT !.at = "bind", !.sensor = None]
    <3>1. call'[p].at = "bind" /\ call'[p].variant = call[p].variant
      BY <1>0, <2>1 DEF CallStates
    <3> QED BY <1>0, <1>4, <3>1
            DEF SensorExists, FilesUnchanged, files, CallKnown, Reviewed, Bound, Consented, Completed,
                CardReads, Recalled, Loading
  <2> QED BY <1>4, <2>1, IdleKnown DEF SensorExists, TypeOK
<1>5. CASE SensorMissing(p)
  <2>1. CASE call[p].sensor # None
    <3>1. call'[p] = [call[p] EXCEPT !.at = "host"]
      BY <1>5, <2>1 DEF SensorMissing, TypeOK
    <3>2. call'[p].at = "host" /\ call'[p].variant = call[p].variant /\ call'[p].sensor \in Sensors
      BY <1>0, <2>1, <3>1 DEF CallStates
    <3> QED BY <1>0, <1>5, <3>2
            DEF SensorMissing, FilesUnchanged, files, CallKnown, Reviewed, Bound, Consented, Completed,
                CardReads, Recalled, Loading
  <2> QED BY <1>5, <2>1, IdleKnown DEF SensorMissing, TypeOK
<1>6. CASE RegistersHost(p)
  <2>1. CASE home.sensor = None
    <3>1. call'[p] = [call[p] EXCEPT !.at = "bind", !.sensor = None]
      BY <1>6, <2>1 DEF RegistersHost, TypeOK
    <3>2. call'[p].at = "bind" /\ call'[p].variant = call[p].variant
      BY <1>0, <3>1 DEF CallStates
    <3>3. home'.sensor # None /\ home'.runtime = home.runtime
      BY <1>0, <1>6, <2>1 DEF RegistersHost, CallKnown, TypeOK
    <3> QED BY <1>0, <1>6, <3>2, <3>3
            DEF RegistersHost, CallKnown, Reviewed, Bound, Consented, Completed, CardReads, Recalled,
                Loading
  <2> QED BY <1>6, <2>1, IdleKnown DEF RegistersHost, TypeOK
<1>7. CASE ReadyBinds(p)
  <2> DEFINE v == call[p].variant
             o == Operation(v)
  <2>1. CASE call'[p] = [Doing("answer", o.variant) EXCEPT !.operation = o]
    <3>1. o.variant = v
      BY DEF Operation
    <3>2. call'[p].at = "answer" /\ call'[p].variant = v /\ call'[p].operation = o
      BY <2>1, <3>1 DEF Doing, Idle
    <3>3. v \in Variants /\ stage[v] = "prepared" /\ Registered
      BY <1>0, <1>7 DEF ReadyBinds, CallKnown, Reviewed, Registered
    <3>4. o \in Operations
      BY <3>3 DEF Operation, Operations, Hosts, Registered, TypeOK
    <3>5. stage' = stage /\ home' = home
      BY <1>7 DEF ReadyBinds, FilesUnchanged, files
    <3>6. call'[p].operation = [variant |-> call'[p].variant, runtime |-> home'.runtime,
                                sensor |-> home'.sensor, host |-> "v4"]
      BY <3>2, <3>5 DEF Operation
    <3> HIDE DEF o
    <3> QED BY <3>2, <3>3, <3>4, <3>5, <3>6
            DEF CallKnown, Registered, Reviewed, Bound, Consented, Completed, CardReads, Recalled,
                Loading, Operation
  <2> QED BY <1>7, <2>1, IdleKnown DEF ReadyBinds, TypeOK
<1>8. CASE ReadyAnswers(p)
  BY <1>8, IdleKnown DEF ReadyAnswers, TypeOK
<1> QED BY <1>1, <1>2, <1>3, <1>4, <1>5, <1>6, <1>7, <1>8 DEF Ready
\* A call bound to its operation takes its next step: only the new step's own condition
\* has to be shown, the rest stands.
LEMMA BoundStep ==
  ASSUME IInv, Stands, NEW p \in Procs, NEW s \in Bound,
         call'[p] = [call[p] EXCEPT !.at = s], call[p].at \in Bound,
         s \in Consented => call[p].operation \in marker',
         s \in Completed => dir'[call[p].variant].operation = call[p].operation,
         s \in CardReads => record'[call[p].variant] = call[p].operation,
         s \in Loading => ~ dir'[call[p].variant].edited
  PROVE  CallKnown(p)'
<1> DEFINE c == call[p]
<1>1. c \in CallStates /\ CallKnown(p)
  BY DEF IInv, TypeOK
<1>2. /\ call'[p].at = s /\ call'[p].variant = c.variant /\ call'[p].operation = c.operation
  BY <1>1 DEF CallStates
<1>3. c.variant \in Variants /\ c.operation \in Operations /\ Registered /\ c.operation = Operation(c.variant)
  BY <1>1 DEF CallKnown, Bound, CardReads
<1>4. Registered' /\ c.operation = [variant |-> c.variant, runtime |-> home'.runtime,
                                    sensor |-> home'.sensor, host |-> "v4"]
  BY <1>3 DEF Registered, Stands, Operation
<1> HIDE DEF c
<1>5. /\ s \in Consented => c.operation \in marker'
      /\ s \in Completed => dir'[c.variant].operation = c.operation
      /\ s \in CardReads => record'[c.variant] = c.operation
      /\ s \in Loading => ~ dir'[c.variant].edited
  BY DEF c
<1>6. s \notin Reviewed \cup Recalled \cup {"register", "idle"}
  BY DEF Bound, Reviewed, Recalled, CardReads
<1> QED BY <1>2, <1>3, <1>4, <1>5, <1>6 DEF CallKnown, Operation, Reviewed

LEMMA OwnRun ==
  ASSUME IInv, Stands, NEW p \in Procs, Run(p)
  PROVE  CallKnown(p)'
<1> USE NothingIsNone
<1> USE DEF IInv, At, Becomes, Goes, Ends
<1> DEFINE c == call[p]
<1>0. c \in CallStates /\ CallKnown(p)
  BY DEF TypeOK
<1>1. ASSUME NEW v \in Variants, NEW o \in Operations, RunLooks(p, v, o) PROVE CallKnown(p)'
  <2>1. call'[p] = [Doing("doctor", v) EXCEPT !.operation = o]
    BY <1>1 DEF RunLooks, TypeOK
  <2>2. call'[p].at = "doctor" /\ call'[p].variant = v /\ call'[p].operation = o
    BY <2>1 DEF Doing, Idle
  <2> QED BY <2>2 DEF CallKnown, Reviewed, Bound, Consented, Completed, CardReads, Recalled, Loading
<1>2. CASE RunDoctor(p)
  <2>1. CASE call'[p] = [c EXCEPT !.at = "admit"]
    <3>1. call'[p].at = "admit" /\ call'[p].variant = c.variant /\ call'[p].operation = c.operation
      BY <1>0, <2>1 DEF CallStates
    <3> QED BY <1>0, <1>2, <3>1 DEF RunDoctor, CallKnown, Reviewed, Bound, Consented, Completed, CardReads,
       Recalled, Loading
  <2> QED BY <1>2, <2>1, IdleKnown DEF RunDoctor, TypeOK
<1>3. CASE RunAdmits(p)
  <2>1. CASE Binds(c.variant, c.operation) /\ ~ Closed(c.operation)
    <3>1. call'[p] = [c EXCEPT !.at = "mark"] /\ home' = home
      BY <1>3, <2>1 DEF RunAdmits, TypeOK, FilesUnchanged, files
    <3>2. call'[p].at = "mark" /\ call'[p].variant = c.variant /\ call'[p].operation = c.operation
      BY <1>0, <3>1 DEF CallStates
    <3>3. Registered /\ c.variant \in Variants /\ c.operation \in Operations
      BY <1>0, <1>3, <2>1 DEF RunAdmits, Binds, Registered, HomeKnown, CallKnown
    <3>4. c.operation = [variant |-> c.variant, runtime |-> home'.runtime,
                         sensor |-> home'.sensor, host |-> "v4"]
      BY <2>1, <3>1 DEF Binds, Operation
    <3>5. Registered'
      BY <3>1, <3>3 DEF Registered
    <3> HIDE DEF c
    <3> QED BY <3>2, <3>3, <3>4, <3>5 DEF CallKnown, Operation, Reviewed, Bound, Consented, Completed,
       CardReads, Recalled, Loading
  <2>2. CASE ~ (Binds(c.variant, c.operation) /\ ~ Closed(c.operation))
    BY <1>3, <2>2, IdleKnown DEF RunAdmits, TypeOK
  <2> QED BY <2>1, <2>2
<1>4. CASE RunMarks(p)
  <2>1. CASE call'[p] = [c EXCEPT !.at = "child"] /\ c.operation \in marker'
    BY <1>4, <2>1, BoundStep DEF RunMarks, Bound, Consented, Completed, CardReads, Loading
  <2> QED BY <1>4, <2>1, IdleKnown DEF RunMarks, TypeOK
<1>5. CASE ChildEnters(p)
  BY <1>5, KnownStands DEF ChildEnters
<1>6. CASE ChildStops(p) \/ ChildEnds(p)
  <2>1. call'[p] = [c EXCEPT !.at = "judge"] /\ c.at = "child"
    BY <1>6 DEF ChildStops, ChildEnds, TypeOK
  <2>2. c.operation \in marker'
    BY <1>0, <2>1 DEF CallKnown, Consented, Bound, Stands
  <2> QED BY <2>1, <2>2, BoundStep DEF Bound, Consented, Completed, CardReads, Loading
<1>7. CASE RunJudges(p)
  <2>1. CASE Linked(c.variant, c.operation) /\ call'[p] = [c EXCEPT !.at = "verify"]
    <3>1. dir'[c.variant].operation = c.operation /\ c.operation \in marker' /\ c.at = "judge"
      BY <1>0, <1>7, <2>1
         DEF RunJudges, Linked, FilesUnchanged, files, CallKnown, Bound, Consented
    <3> QED BY <2>1, <3>1, BoundStep DEF Bound, Consented, Completed, CardReads, Loading
  <2> QED BY <1>7, <2>1, IdleKnown DEF RunJudges, TypeOK
<1>8. ASSUME c.at \in Completed
      PROVE  dir'[c.variant].operation = c.operation /\ c.operation \in marker' /\ c.at \in Bound
  BY <1>0, <1>8 DEF CallKnown, Stands, Bound, Consented, Completed, CardReads
<1>9. CASE RunVerifies(p)
  <2>1. CASE call'[p] = [c EXCEPT !.at = "attach"]
    <3>1. c.at \in Completed
      BY <1>9 DEF RunVerifies, Completed
    <3> QED BY <1>8, <2>1, <3>1, BoundStep DEF Bound, CardReads, Loading
  <2> QED BY <1>9, <2>1, IdleKnown DEF RunVerifies, TypeOK
<1>10. CASE RunAttaches(p)
  <2>0. c.at \in Completed
    BY <1>10 DEF RunAttaches, Completed
  <2>1. CASE call'[p] = [c EXCEPT !.at = "card"] /\ record[c.variant] = dir[c.variant].operation
    <3>1. record'[c.variant] = c.operation
      BY <1>0, <1>10, <2>0, <2>1 DEF RunAttaches, FilesUnchanged, files, CallKnown
    <3> QED BY <1>8, <2>0, <2>1, <3>1, BoundStep DEF Bound, CardReads, Loading
  <2>2. CASE call'[p] = [c EXCEPT !.at = "save"]
    BY <1>8, <2>0, <2>2, BoundStep DEF Bound, CardReads, Loading
  <2> QED BY <1>10, <2>1, <2>2, IdleKnown DEF RunAttaches, TypeOK
<1>11. CASE RunSaves(p)
  <2>0. c.at \in Completed
    BY <1>11 DEF RunSaves, Completed
  <2>1. CASE record[c.variant] = None
    <3>1. call'[p] = [c EXCEPT !.at = "card"]
      BY <1>11, <2>1 DEF RunSaves, TypeOK
    <3>2. record'[c.variant] = c.operation
      BY <1>0, <1>11, <2>0, <2>1 DEF RunSaves, CallKnown, Completed, TypeOK
    <3> QED BY <1>8, <2>0, <3>1, <3>2, BoundStep DEF Bound, CardReads, Loading
  <2> QED BY <1>11, <2>1, IdleKnown DEF RunSaves, TypeOK
<1> QED BY <1>1, <1>2, <1>3, <1>4, <1>5, <1>6, <1>7, <1>9, <1>10, <1>11 DEF Run

\* The next step of a card: its record stands, and a run about to be loaded was checked.
LEMMA ReadStep ==
  ASSUME IInv, Stands, NEW p \in Procs, NEW s \in CardReads \cup Recalled,
         call'[p] = [call[p] EXCEPT !.at = s], call[p].at \in CardReads \cup Recalled,
         s \in CardReads <=> call[p].at \in CardReads,
         s \in Loading => ~ dir'[call[p].variant].edited
  PROVE  CallKnown(p)'
<1> USE NothingIsNone
<1> DEFINE c == call[p]
<1>1. c \in CallStates /\ CallKnown(p)
  BY DEF IInv, TypeOK
<1>2. /\ c.variant \in Variants /\ c.operation \in Operations
      /\ record'[c.variant] = c.operation
  BY <1>1 DEF CallKnown, CardReads, Recalled, Bound, Stands
<1>3. CASE s \in CardReads
  <2>1. c.operation \in marker' /\ dir'[c.variant].operation = c.operation
    BY <1>1, <1>2, <1>3 DEF CallKnown, Consented, Completed, Bound, CardReads, Stands
  <2> QED BY <1>2, <1>3, <2>1, BoundStep DEF Bound, CardReads
<1>4. CASE s \in Recalled
  <2>1. call'[p].at = s /\ call'[p].variant = c.variant /\ call'[p].operation = c.operation
    BY <1>1 DEF CallStates
  <2>2. s \notin Reviewed \cup Bound \cup {"register", "idle", "answer", "bind", "host"}
    BY <1>4 DEF Bound, Reviewed, Recalled, CardReads
  <2> HIDE DEF c
  <2> QED BY <1>2, <1>4, <2>1, <2>2 DEF CallKnown, c, Consented, Completed, Bound
<1> QED BY <1>3, <1>4

LEMMA OwnResult ==
  ASSUME IInv, Stands, NEW p \in Procs, Result(p)
  PROVE  CallKnown(p)'
<1> USE DEF IInv, At, Becomes, Goes, Ends
<1>1. ASSUME NEW v \in Variants, ResultBegins(p, v) PROVE CallKnown(p)'
  <2>1. call'[p] = [Doing("result", v) EXCEPT !.operation = record[v]] /\ record' = record
    BY <1>1 DEF ResultBegins, FilesUnchanged, files, TypeOK
  <2>2. call'[p].at = "result" /\ call'[p].variant = v /\ call'[p].operation = record[v]
    BY <2>1 DEF Doing, Idle
  <2>3. record[v] \in Operations
    BY <1>1 DEF ResultBegins, TypeOK
  <2> QED BY <2>1, <2>2, <2>3
          DEF CallKnown, Reviewed, Bound, Consented, Completed, CardReads, Recalled, Loading
<1>2. CASE CardLooks(p)
  <2>1. CASE call'[p] = Idle
    BY <2>1, IdleKnown
  <2>2. CASE dir[call[p].variant].state # "removed"
    <3> DEFINE s == IF call[p].at = "card" THEN "cardCheck" ELSE "resultCheck"
    <3>1. call'[p] = [call[p] EXCEPT !.at = s]
      BY <1>2, <2>2 DEF CardLooks, TypeOK
    <3>2. /\ s \in CardReads \cup Recalled /\ call[p].at \in CardReads \cup Recalled
          /\ s \in CardReads <=> call[p].at \in CardReads
          /\ s \notin Loading
      BY <1>2 DEF CardLooks, CardReads, Recalled, Loading
    <3> HIDE DEF s
    <3> QED BY <3>1, <3>2, ReadStep
  <2> QED BY <1>2, <2>1, <2>2 DEF CardLooks, Answers, TypeOK
<1>3. CASE CardChecks(p)
  <2>1. CASE ~ Unedited(call[p].variant)
    BY <1>3, <2>1, IdleKnown DEF CardChecks, TypeOK
  <2>2. CASE Unedited(call[p].variant)
    <3> DEFINE s == IF call[p].at = "cardCheck" THEN "cardLoad" ELSE "resultLoad"
    <3>1. call'[p] = [call[p] EXCEPT !.at = s]
      BY <1>3, <2>2 DEF CardChecks, TypeOK
    <3>2. /\ s \in CardReads \cup Recalled /\ call[p].at \in CardReads \cup Recalled
          /\ s \in CardReads <=> call[p].at \in CardReads
      BY <1>3 DEF CardChecks, CardReads, Recalled
    <3>3. ~ dir'[call[p].variant].edited
      BY <1>3, <2>2 DEF CardChecks, Unedited, FilesUnchanged, files
    <3> HIDE DEF s
    <3> QED BY <3>1, <3>2, <3>3, ReadStep
  <2> QED BY <2>1, <2>2
<1>4. CASE CardLoads(p)
  BY <1>4, IdleKnown DEF CardLoads, Answers, Raises, TypeOK
<1> QED BY <1>1, <1>2, <1>3, <1>4 DEF Result

LEMMA CallsStep ==
  ASSUME IInv, [Next]_vars, NEW q \in Procs
  PROVE  CallKnown(q)'
<1>1. Stands
  BY StandsStep
<1>2. CASE call'[q] = call[q]
  BY <1>1, <1>2, KnownStands
<1>3. CASE Plan(q) \/ Ready(q) \/ Run(q) \/ Result(q)
  BY <1>1, <1>3, OwnPlan, OwnReady, OwnRun, OwnResult
<1>4. CASE Dies(q)
  BY <1>4, IdleKnown DEF Dies, Ends, Becomes, IInv, TypeOK
<1>5. ASSUME NEW p \in Procs, Plan(p) \/ Ready(p) \/ Run(p) \/ Result(p) \/ Dies(p), p # q
      PROVE  call'[q] = call[q]
  BY <1>5, OneCallMoves DEF IInv
<1>6. ASSUME NEW v \in Variants, Others(v)
      PROVE  call' = call
  BY <1>6 DEF Others, OtherRun, OtherAttach, EditRun, RemoveRun
<1> QED BY <1>2, <1>3, <1>4, <1>5, <1>6 DEF Next, vars
-----------------------------------------------------------------------------
(* Answers. *)

\* What was answered before a step stays true after it.
LEMMA AnswersStand ==
  ASSUME IInv, Stands, NEW o \in Operations
  PROVE  /\ o \in ready => Registered' /\ o = Operation(o.variant)' /\ stage'[o.variant] = "prepared"
         /\ o \in verified =>
              /\ Registered' /\ o = Operation(o.variant)' /\ o \in marker'
              /\ record'[o.variant] = o /\ o.variant \in consumed'
              /\ dir'[o.variant].operation = o
<1> USE NothingIsNone
<1>1. o.variant \in Variants /\ o # None
  BY DEF Operations
<1>2. Registered => Registered' /\ Operation(o.variant)' = Operation(o.variant)
  BY DEF Registered, Stands, Operation
<1>3. o \in ready => Registered /\ o = Operation(o.variant) /\ stage[o.variant] = "prepared"
  BY DEF IInv, AnswersKnown
<1>4. o \in verified => Registered /\ VerifiedIsConsented
  BY DEF IInv, AnswersKnown
<1> QED BY <1>1, <1>2, <1>3, <1>4 DEF Stands, VerifiedIsConsented

\* The card a call returns: of the recorded run, or of none.
CardKnown(p, run, edited) ==
  /\ call[p].at \in CardReads \cup Recalled /\ record' = record
  /\ run \in {None, Recorded(p)}
  /\ edited => p \in dir[call[p].variant].past
  /\ Answers(p, run, edited)

\* Every card that is returned is such a one.
LEMMA CardsKnown ==
  ASSUME IInv, NEW p \in Procs, CardLooks(p) \/ CardLoads(p)
  PROVE  \/ CardKnown(p, None, FALSE)
         \/ CardKnown(p, dir[call[p].variant].operation, dir[call[p].variant].edited)
         \/ cards' = cards /\ verified' = verified
<1>1. record' = record
  BY DEF CardLooks, CardLoads, FilesUnchanged, files
<1>2. CASE CardLooks(p)
  BY <1>1, <1>2 DEF CardLooks, CardKnown, CardReads, Recalled
<1>3. CASE CardLoads(p)
  <2>1. call[p].at \in CardReads \cup Recalled
    BY <1>3 DEF CardLoads, Loading, CardReads, Recalled
  <2>2. dir[call[p].variant].edited => p \in dir[call[p].variant].past
    BY <1>3 DEF CardLoads, IInv, CallKnown
  <2> QED BY <1>1, <1>3, <2>1, <2>2 DEF CardLoads, CardKnown, Raises
<1> QED BY <1>2, <1>3

LEMMA CardsStep ==
  ASSUME IInv, [Next]_vars
  PROVE  CardIsOneRun'
<1> USE NothingIsNone
<1>1. Stands
  BY StandsStep
<1>2. \A c \in cards : /\ c.run \in {None, c.operation} /\ (c.edited => c.late)
                       /\ record'[c.variant] = c.operation /\ c.operation.variant = c.variant
  BY <1>1 DEF IInv, AnswersKnown, CardIsOneRun, TypeOK, Cards, Stands
<1>3. CASE cards' = cards
  BY <1>2, <1>3 DEF CardIsOneRun
<1>4. ASSUME NEW p \in Procs, NEW run, NEW edited, CardKnown(p, run, edited)
      PROVE  CardIsOneRun'
  <2>1. call[p].variant \in Variants /\ call[p].operation \in Operations
    BY <1>4 DEF CardKnown, IInv, CallKnown, Bound, Recalled, CardReads
  <2>2. record[call[p].variant] = call[p].operation /\ Recorded(p) = call[p].operation
    BY <1>4 DEF CardKnown, IInv, CallKnown, Recorded
  <2>3. call[p].operation.variant = call[p].variant
    BY <2>1, <2>2 DEF IInv, RunsKnown
  <2> DEFINE c == [variant |-> call[p].variant, operation |-> Recorded(p), run |-> run,
                   edited |-> edited, late |-> p \in dir[call[p].variant].past]
  <2>4. /\ c.run \in {None, c.operation} /\ (c.edited => c.late)
        /\ record'[c.variant] = c.operation /\ c.operation.variant = c.variant
    BY <1>4, <2>2, <2>3 DEF CardKnown
  <2>5. cards' = cards \cup {c}
    BY <1>4 DEF CardKnown, Answers
  <2> HIDE DEF c
  <2> QED BY <1>2, <2>4, <2>5 DEF CardIsOneRun
<1>5. cards' = cards \/ \E p \in Procs : CardLooks(p) \/ CardLoads(p)
  BY DEF Next, vars, answers, Silent, Plan, PlanRegisters, PlanPrepares, PlanSaves, PlanAnswers,
         Ready, ReadyLooks, RegistersRuntime, CreatesKey, SensorExists, SensorMissing, RegistersHost,
         ReadyBinds, ReadyAnswers,
         Run, RunLooks, RunDoctor, RunAdmits, RunMarks, ChildEnters, ChildStops, ChildEnds, RunJudges,
         RunVerifies, RunAttaches, RunSaves,
         Result, ResultBegins, CardChecks, Dies, Others, OtherRun, OtherAttach, EditRun, RemoveRun
<1> QED BY <1>3, <1>4, <1>5, CardsKnown

LEMMA AnswersStep ==
  ASSUME IInv, [Next]_vars
  PROVE  AnswersKnown'
<1> USE NothingIsNone
<1>1. Stands /\ CardIsOneRun' /\ TypeOK'
  BY StandsStep, CardsStep, TypeStep
<1>2. \A v \in planned' : stage'[v] = "prepared"
  <2>1. ASSUME NEW p \in Procs, PlanAnswers(p)
        PROVE  \A v \in planned' : stage'[v] = "prepared"
    BY <2>1 DEF PlanAnswers, FilesUnchanged, files, IInv, AnswersKnown
  <2>2. CASE planned' = planned
    BY <1>1, <2>2 DEF IInv, AnswersKnown, Stands, TypeOK
  <2>3. planned' = planned \/ \E p \in Procs : PlanAnswers(p)
    BY DEF Next, vars, answers, Silent, Plan, PlanRegisters, PlanPrepares, PlanSaves,
           Ready, ReadyLooks, RegistersRuntime, CreatesKey, SensorExists, SensorMissing, RegistersHost,
           ReadyBinds, ReadyAnswers,
           Run, RunLooks, RunDoctor, RunAdmits, RunMarks, ChildEnters, ChildStops, ChildEnds, RunJudges,
           RunVerifies, RunAttaches, RunSaves,
           Result, ResultBegins, CardLooks, CardChecks, CardLoads, Raises, Answers, Dies, Others,
           OtherRun, OtherAttach, EditRun, RemoveRun
  <2> QED BY <2>1, <2>2, <2>3
<1>3. \A o \in ready' : Registered' /\ o = Operation(o.variant)' /\ stage'[o.variant] = "prepared"
  <2>1. ASSUME NEW p \in Procs, ReadyAnswers(p), NEW o, o = call[p].operation
        PROVE  Registered' /\ o = Operation(o.variant)' /\ stage'[o.variant] = "prepared"
    <3>1. /\ Registered /\ o = Operation(call[p].variant) /\ stage[call[p].variant] = "prepared"
      BY <2>1 DEF ReadyAnswers, At, IInv, CallKnown, Reviewed, Registered
    <3>2. o.variant = call[p].variant
      BY <3>1 DEF Operation
    <3>3. home' = home /\ stage' = stage
      BY <2>1 DEF ReadyAnswers, FilesUnchanged, files
    <3> QED BY <3>1, <3>2, <3>3 DEF Registered, Operation
  <2>2. \A o \in ready : Registered' /\ o = Operation(o.variant)' /\ stage'[o.variant] = "prepared"
    BY <1>1, AnswersStand DEF IInv, TypeOK
  <2>3. ready' = ready \/ \E p \in Procs : ReadyAnswers(p)
    BY DEF Next, vars, answers, Silent, Plan, PlanRegisters, PlanPrepares, PlanSaves, PlanAnswers,
           Ready, ReadyLooks, RegistersRuntime, CreatesKey, SensorExists, SensorMissing, RegistersHost,
           ReadyBinds,
           Run, RunLooks, RunDoctor, RunAdmits, RunMarks, ChildEnters, ChildStops, ChildEnds, RunJudges,
           RunVerifies, RunAttaches, RunSaves,
           Result, ResultBegins, CardLooks, CardChecks, CardLoads, Raises, Answers, Dies, Others,
           OtherRun, OtherAttach, EditRun, RemoveRun
  <2>4. \A p \in Procs : ReadyAnswers(p) => ready' \subseteq ready \cup {call[p].operation}
    BY DEF ReadyAnswers
  <2> QED BY <2>1, <2>2, <2>3, <2>4
<1>4. VerifiedIsConsented' /\ (verified' # {} => Registered')
  <2>1. \A o \in verified : /\ Registered' /\ o = Operation(o.variant)' /\ o \in marker'
                            /\ record'[o.variant] = o /\ o.variant \in consumed'
                            /\ dir'[o.variant].operation = o
    BY <1>1, AnswersStand DEF IInv, TypeOK
  <2>2. CASE verified' = verified
    BY <2>1, <2>2 DEF VerifiedIsConsented
  <2>3. ASSUME NEW p \in Procs, NEW run, NEW edited, CardKnown(p, run, edited),
               call[p].at \in CardReads, UNCHANGED files
        PROVE  VerifiedIsConsented' /\ (verified' # {} => Registered')
    <3> DEFINE v == call[p].variant
               o == call[p].operation
    <3>1. /\ v \in Variants /\ o \in Operations /\ Registered /\ o = Operation(v) /\ o \in marker
          /\ dir[v].operation = o /\ record[v] = o
      BY <2>3 DEF IInv, CallKnown, Bound, Consented, Completed, CardReads
    <3>2. o.variant = v /\ v \in consumed
      BY <3>1 DEF IInv, RunsKnown, Operation
    <3>3. verified' = verified \cup {o}
      BY <2>3 DEF CardKnown, Answers
    <3>4. home' = home /\ record' = record /\ dir' = dir /\ marker' = marker /\ consumed' = consumed
      BY <2>3 DEF files
    <3>5. Registered' /\ o = [variant |-> o.variant, runtime |-> home'.runtime,
                              sensor |-> home'.sensor, host |-> "v4"]
      BY <3>1, <3>2, <3>4 DEF Registered, Operation
    <3> HIDE DEF o
    <3> QED BY <2>1, <3>1, <3>2, <3>3, <3>4, <3>5 DEF VerifiedIsConsented, Operation
  <2>4. verified' = verified \/ \E p \in Procs : CardLooks(p) \/ CardLoads(p)
    BY DEF Next, vars, answers, Silent, Plan, PlanRegisters, PlanPrepares, PlanSaves, PlanAnswers,
           Ready, ReadyLooks, RegistersRuntime, CreatesKey, SensorExists, SensorMissing, RegistersHost,
           ReadyBinds, ReadyAnswers,
           Run, RunLooks, RunDoctor, RunAdmits, RunMarks, ChildEnters, ChildStops, ChildEnds, RunJudges,
           RunVerifies, RunAttaches, RunSaves,
           Result, ResultBegins, CardChecks, Dies, Others, OtherRun, OtherAttach, EditRun, RemoveRun
  <2>5. ASSUME NEW p \in Procs, CardLooks(p) \/ CardLoads(p)
        PROVE  VerifiedIsConsented' /\ (verified' # {} => Registered')
    <3>1. UNCHANGED files
      BY <2>5 DEF CardLooks, CardLoads, FilesUnchanged
    <3>2. ASSUME NEW run, NEW edited, CardKnown(p, run, edited), call[p].at \notin CardReads
          PROVE  verified' = verified
      BY <3>2 DEF CardKnown, Answers
    <3> QED BY <2>2, <2>3, <2>5, <3>1, <3>2, CardsKnown
  <2> QED BY <2>2, <2>4, <2>5
<1> QED BY <1>1, <1>2, <1>3, <1>4 DEF AnswersKnown

-----------------------------------------------------------------------------
(* Theorems. *)

LEMMA InitKnown == Init => IInv
<1> SUFFICES ASSUME Init PROVE IInv
  OBVIOUS
<1>1. TypeOK
  BY InitTyped
<1>2. HomeKnown /\ RunsKnown /\ AnswersKnown
  BY DEF Init, NoRun, HomeKnown, RunsKnown, AnswersKnown, VerifiedIsConsented, CardIsOneRun
<1>3. \A p \in Procs : CallKnown(p)
  BY DEF Init, Idle, CallKnown, Reviewed, Bound, Consented, Completed, CardReads, Recalled, Loading
<1> QED BY <1>1, <1>2, <1>3 DEF IInv

\* The strengthened invariant: what each call knows of the files whatever the other
\* calls, users, edits and deaths do, and what was answered from it.
THEOREM WorkflowInductive == Spec => []IInv
<1>1. Init => IInv
  BY InitKnown
<1>2. IInv /\ [Next]_vars => IInv'
  BY TypeStep, HomeStep, RunsStep, CallsStep, AnswersStep DEF IInv
<1> QED BY <1>1, <1>2, PTL DEF Spec

\* A plan answered as ready is prepared, and an operation answered as RUN_READY is the
\* one its home still binds, with a key unless it is being made or its maker died
\* (session/workflow.py `ready`), for any number of developers.
THEOREM ReadyStays == Spec => []ReadyStands
<1>1. IInv => ReadyStands
  BY DEF IInv, AnswersKnown, HomeKnown, ReadyStands, Registered
<1> QED BY <1>1, WorkflowInductive, PTL

\* RUN_VERIFIED is said of the consented operation and of no other: its marker, its
\* plan's grant, its run directory and the record of its variant are its own for good
\* (session/workflow.py `run`).
THEOREM VerifiedStays == Spec => []VerifiedIsConsented
<1>1. IInv => VerifiedIsConsented
  BY DEF IInv, AnswersKnown
<1> QED BY <1>1, WorkflowInductive, PTL

\* Every card ever returned joins one record with the run it names, and all cards of a
\* variant are of the same run; an edited run shows only in a card whose own call had
\* checked the manifest before the edit (session/workflow.py `_recorded_run`, `result`).
THEOREM CardsAreOneRun == Spec => []CardIsOneRun
<1>1. IInv => CardIsOneRun
  BY DEF IInv, AnswersKnown
<1> QED BY <1>1, WorkflowInductive, PTL
=============================================================================
