---------------------- MODULE CounterfactualSessionProofs ----------------------
(***************************************************************************)
(* That a session without a lock keeps its ledger, and that a package      *)
(* moves what it says and nothing else: for any number of processes,       *)
(* variants and runs, with hand edits and crashes anywhere.                *)
(***************************************************************************)
EXTENDS SessionHandoff, FiniteSetTheorems, TLAPS

Ofs(ops) == {p \in Procs : call[p].op \in ops}

\* What a process still knows at each step, although it looked some steps ago.
CallKnown(p) ==
  LET c == call[p] IN
  /\ c.op = "register" => c.variant \in Variants
  /\ c.op \in {"mkdir", "save"} => c.variant \in registered
  /\ c.op = "save" => prepared[c.variant] \in 1 .. (Complete - 1)
  /\ c.op \in {"verifier", "record", "recording"} =>
       /\ c.variant \in registered /\ prepared[c.variant] = Complete
       /\ c.run \in Runs /\ RunOf[c.run] = c.variant /\ c.label \in Labels
  /\ c.op = "recording" => verification[c.variant].stage = "torn"
  /\ \A row \in c.rows :
       verification[row.variant] = [stage |-> "complete", run |-> row.run, label |-> row.label]

\* Two processes never fill one directory, nor write one record.
Exclusive ==
  \A p, q \in Procs : \A op \in {"save", "recording"} :
    call[p].op = op /\ call[q].op = op /\ call[p].variant = call[q].variant => p = q

\* A variant that is not registered has no files.
NothingUnregistered == \A v \in Variants : v \notin registered => prepared[v] = 0

\* What is registered, and what may still be renamed in after an old look at the limit.
Counted ==
  Cardinality(registered) + Cardinality(Ofs({"register"})) <= (MaxVariants + Cardinality(Procs)) - 1

\* A record is of a preparation that was complete, and names a run of its variant.
RecordsKnown ==
  /\ VerifiedIsPrepared
  /\ \A v \in Variants : verification[v].stage = "complete" =>
       verification[v].run \in Runs /\ verification[v].label \in Labels

\* What was answered is what the records say.
AnswerKnown ==
  /\ answer.status = Verdict(answer.rows)
  /\ \A row \in answer.rows :
       verification[row.variant] = [stage |-> "complete", run |-> row.run, label |-> row.label]

IInv ==
  /\ TypeOK /\ (\A p \in Procs : CallKnown(p)) /\ Exclusive /\ NothingUnregistered
  /\ RecordsKnown /\ AnswerKnown /\ Counted

-----------------------------------------------------------------------------
(* Types. *)

LEMMA InitTyped == Init => TypeOK
<1> SUFFICES ASSUME Init PROVE TypeOK
  OBVIOUS
<1>1. Idle \in Calls /\ NoRecord \in Records
  BY DEF Idle, Calls, Ops, NoRecord, Records
<1>2. NoAnswer \in [status : {"NO_VERIFIED_VARIANTS", "VERIFIED_VARIANTS_COMPARED",
                            "TEST_ONLY_COMPARISON_NOT_EVIDENCE"}, rows : SUBSET Rows]
  BY DEF NoAnswer
<1>3. prepared \in [Variants -> 0 .. Complete]
  BY DEF Init, Complete
<1> QED BY <1>1, <1>2, <1>3 DEF Init, TypeOK

LEMMA CallsTyped ==
  ASSUME TypeOK, NEW p \in Procs, NEW c \in Calls, Becomes(p, c)
  PROVE  call' \in [Procs -> Calls]
BY DEF TypeOK, Becomes

LEMMA DoingTyped ==
  /\ Idle \in Calls
  /\ \A op \in Ops : [Idle EXCEPT !.op = op] \in Calls
  /\ \A op \in Ops, v \in Variants \cup {None} : Doing(op, v) \in Calls
BY DEF Idle, Doing, Calls, Ops

LEMMA StartTyped ==
  ASSUME IInv, NEW p \in Procs, Start(p)
  PROVE  TypeOK'
<1> USE DEF IInv
<1>1. files' = files /\ drifted' = drifted /\ answer' = answer
  BY DEF Start, StageSession, EvaluateCoverage, ListVariants, CheckVariant, CheckUnprepared, BindRun
<1>2. call' \in [Procs -> Calls] => TypeOK'
  BY <1>1 DEF files, TypeOK
<1>3. CASE StageSession(p) \/ EvaluateCoverage(p)
  <2>1. Doing("place", None) \in Calls /\ Doing("cover", None) \in Calls
    BY DoingTyped DEF Ops
  <2> QED BY <1>2, <1>3, <2>1, CallsTyped DEF StageSession, EvaluateCoverage
<1>4. CASE ListVariants(p)
  <2>1. [Idle EXCEPT !.op = "compare", !.todo = registered] \in Calls
    BY DEF Idle, Calls, Ops, TypeOK
  <2> QED BY <1>2, <1>4, <2>1, CallsTyped DEF ListVariants
<1>5. ASSUME NEW v \in Variants, CheckVariant(p, v) \/ CheckUnprepared(p, v)
      PROVE  TypeOK'
  <2>1. Doing("register", v) \in Calls /\ Doing("mkdir", v) \in Calls
    BY DoingTyped DEF Ops
  <2> QED BY <1>2, <1>5, <2>1, CallsTyped DEF CheckVariant, CheckUnprepared
<1>6. ASSUME NEW v \in Variants, NEW r \in Runs, NEW label \in Labels, BindRun(p, v, r, label)
      PROVE  TypeOK'
  <2>1. [Doing("verifier", v) EXCEPT !.run = r, !.label = label] \in Calls
    BY DEF Doing, Idle, Calls, Ops
  <2> QED BY <1>2, <1>6, <2>1, CallsTyped DEF BindRun
<1> QED BY <1>3, <1>4, <1>5, <1>6 DEF Start

LEMMA StepTyped ==
  ASSUME IInv, NEW p \in Procs, Step(p)
  PROVE  TypeOK'
<1> USE DEF IInv
<1>0. Idle \in Calls /\ call[p] \in Calls /\ CallKnown(p)
  BY DoingTyped DEF TypeOK
<1>1. CASE PlaceSession(p)
  <2>1. call' \in [Procs -> Calls]
    BY <1>0, <1>1, CallsTyped DEF PlaceSession, Returns
  <2> QED BY <1>1, <2>1 DEF PlaceSession, RenamedSession, files, TypeOK
<1>2. CASE RenameVariant(p)
  <2>1. call' \in [Procs -> Calls]
    BY <1>0, <1>2, CallsTyped DEF RenameVariant, Returns
  <2>2. call[p].variant \in Variants
    BY <1>0, <1>2 DEF RenameVariant, In, CallKnown
  <2> QED BY <1>2, <2>1, <2>2 DEF RenameVariant, TypeOK
<1>3. CASE MakeDirectory(p)
  <2>1. call[p].variant \in Variants
    BY <1>0, <1>3 DEF MakeDirectory, In, CallKnown, TypeOK
  <2>2. Doing("save", call[p].variant) \in Calls
    BY <2>1, DoingTyped DEF Ops
  <2>3. call' \in [Procs -> Calls]
    BY <1>0, <1>3, <2>2, CallsTyped DEF MakeDirectory, Returns
  <2>4. prepared' \in [Variants -> 0 .. Complete]
    BY <1>3, <2>1 DEF MakeDirectory, TypeOK, Complete
  <2> QED BY <1>3, <2>3, <2>4 DEF MakeDirectory, TypeOK
<1>4. CASE SaveFile(p)
  <2>1. call[p].variant \in Variants /\ prepared[call[p].variant] \in 1 .. (Complete - 1)
    BY <1>0, <1>4 DEF SaveFile, In, CallKnown, TypeOK
  <2>2. call' \in [Procs -> Calls]
    BY <1>0, <1>4, CallsTyped DEF SaveFile
  <2>3. prepared' \in [Variants -> 0 .. Complete]
    BY <1>4, <2>1 DEF SaveFile, TypeOK, Complete
  <2> QED BY <1>4, <2>2, <2>3 DEF SaveFile, TypeOK
<1>5. CASE CreateCoverage(p) \/ WriteCoverage(p)
  <2>1. Doing("covering", None) \in Calls
    BY DoingTyped DEF Ops
  <2>2. call' \in [Procs -> Calls]
    BY <1>0, <1>5, <2>1, CallsTyped DEF CreateCoverage, WriteCoverage, Returns
  <2> QED BY <1>5, <2>2 DEF CreateCoverage, WriteCoverage, TypeOK
<1>6. CASE VerifierAnswers(p)
  <2>1. [call[p] EXCEPT !.op = "record"] \in Calls
    BY <1>0 DEF Calls, Ops
  <2>2. call' \in [Procs -> Calls]
    BY <1>0, <1>6, <2>1, CallsTyped DEF VerifierAnswers, Returns
  <2> QED BY <1>6, <2>2 DEF VerifierAnswers, files, TypeOK
<1>7. CASE CreateRecord(p)
  <2>1. [call[p] EXCEPT !.op = "recording"] \in Calls
    BY <1>0 DEF Calls, Ops
  <2>2. call' \in [Procs -> Calls]
    BY <1>0, <1>7, <2>1, CallsTyped DEF CreateRecord, Returns
  <2>3. verification' \in [Variants -> Records]
    BY <1>7 DEF CreateRecord, TypeOK, Records
  <2> QED BY <1>7, <2>2, <2>3 DEF CreateRecord, TypeOK
<1>8. CASE WriteRecord(p)
  <2>1. call' \in [Procs -> Calls]
    BY <1>0, <1>8, CallsTyped DEF WriteRecord, Returns
  <2>2. [stage |-> "complete", run |-> call[p].run, label |-> call[p].label] \in Records
    BY <1>0 DEF Calls, Records
  <2>3. verification' \in [Variants -> Records]
    BY <1>8, <2>2 DEF WriteRecord, TypeOK
  <2> QED BY <1>8, <2>1, <2>3 DEF WriteRecord, TypeOK
<1>9. ASSUME NEW v \in Variants, ReadVariant(p, v)
      PROVE  TypeOK'
  <2> DEFINE left == [call[p] EXCEPT !.todo = @ \ {v}]
             row  == [variant |-> v, run |-> verification[v].run, label |-> verification[v].label]
  <2>1. left \in Calls
    BY <1>0 DEF Calls
  <2>2. ASSUME verification[v].stage = "complete" PROVE [left EXCEPT !.rows = @ \cup {row}] \in Calls
    <3>1. row \in Rows
      BY <2>2 DEF RecordsKnown, Rows
    <3> HIDE DEF left, row
    <3> QED BY <2>1, <3>1 DEF Calls
  <2>3. call' \in [Procs -> Calls]
    <3> HIDE DEF left
    <3> QED BY <1>0, <1>9, <2>1, <2>2, CallsTyped DEF ReadVariant, left
  <2> QED BY <1>9, <2>3 DEF ReadVariant, files, TypeOK
<1>10. CASE AnswerComparison(p)
  <2>1. call' \in [Procs -> Calls]
    BY <1>0, <1>10, CallsTyped DEF AnswerComparison, Returns
  <2>2. answer' \in [status : {"NO_VERIFIED_VARIANTS", "VERIFIED_VARIANTS_COMPARED",
                             "TEST_ONLY_COMPARISON_NOT_EVIDENCE"}, rows : SUBSET Rows]
    BY <1>0, <1>10 DEF AnswerComparison, Verdict, Calls
  <2> QED BY <1>10, <2>1, <2>2 DEF AnswerComparison, files, TypeOK
<1> QED BY <1>1, <1>2, <1>3, <1>4, <1>5, <1>6, <1>7, <1>8, <1>9, <1>10 DEF Step

LEMMA TypeStep ==
  ASSUME IInv, [Next]_vars
  PROVE  TypeOK'
<1>1. CASE UNCHANGED vars
  BY <1>1 DEF vars, IInv, TypeOK
<1>2. ASSUME NEW p \in Procs, Crash(p) PROVE TypeOK'
  <2>1. call' \in [Procs -> Calls]
    BY <1>2, DoingTyped, CallsTyped DEF Crash, Returns, IInv
  <2> QED BY <1>2, <2>1 DEF Crash, files, IInv, TypeOK
<1>3. ASSUME NEW a \in MayDrift, Edit(a) PROVE TypeOK'
  BY <1>3, ConstantsAssumption DEF Edit, files, IInv, TypeOK
<1> QED BY <1>1, <1>2, <1>3, StartTyped, StepTyped DEF Next
-----------------------------------------------------------------------------
(* Files. *)

Core == <<registered, prepared, verification>>

Writes(p) == RenameVariant(p) \/ MakeDirectory(p) \/ SaveFile(p) \/ CreateRecord(p) \/ WriteRecord(p)

\* Five steps write what the ledger is about.
LEMMA CoreStep ==
  ASSUME [Next]_vars
  PROVE  Core' = Core \/ \E p \in Procs : Writes(p)
BY DEF Next, vars, files, Core, Writes, Start, StageSession, EvaluateCoverage, ListVariants,
       CheckVariant, CheckUnprepared, BindRun, Step, PlaceSession, RenamedSession, CreateCoverage,
       WriteCoverage, VerifierAnswers, ReadVariant, AnswerComparison, Crash, Edit

\* What the writer knows.
LEMMA WriterKnows ==
  ASSUME IInv, NEW p \in Procs
  PROVE  /\ RenameVariant(p) => call[p].variant \in Variants
         /\ MakeDirectory(p) => call[p].variant \in registered
         /\ SaveFile(p) => /\ call[p].variant \in registered
                           /\ prepared[call[p].variant] \in 1 .. (Complete - 1)
         /\ CreateRecord(p) \/ WriteRecord(p) =>
              /\ call[p].variant \in registered /\ prepared[call[p].variant] = Complete
              /\ call[p].run \in Runs /\ RunOf[call[p].run] = call[p].variant
              /\ call[p].label \in Labels
         /\ WriteRecord(p) => verification[call[p].variant].stage = "torn"
         /\ registered \subseteq Variants
BY DEF IInv, TypeOK, CallKnown, RenameVariant, MakeDirectory, SaveFile, CreateRecord, WriteRecord, In

\* Nothing of the files is ever taken back.
Stands ==
  /\ registered \subseteq registered'
  /\ \A v \in Variants : /\ prepared[v] = Complete => prepared'[v] = Complete
                         /\ prepared[v] # 0 => prepared'[v] # 0
                         /\ verification[v].stage # "absent" => verification'[v].stage # "absent"
                         /\ verification[v].stage = "complete" => verification'[v] = verification[v]

\* One step writes the files of one variant.
LEMMA OneVariant ==
  ASSUME IInv, NEW p \in Procs, Writes(p), NEW v \in Variants, v # call[p].variant
  PROVE  prepared'[v] = prepared[v] /\ verification'[v] = verification[v]
BY DEF IInv, TypeOK, Writes, RenameVariant, MakeDirectory, SaveFile, CreateRecord, WriteRecord

LEMMA StandsStep ==
  ASSUME IInv, [Next]_vars
  PROVE  Stands
<1>1. CASE Core' = Core
  BY <1>1 DEF Core, Stands
<1>2. ASSUME NEW p \in Procs, Writes(p) PROVE Stands
  <2>0. registered \subseteq Variants
    BY WriterKnows
  <2>1. CASE RenameVariant(p)
    BY <2>1 DEF RenameVariant, Stands
  <2>2. CASE MakeDirectory(p)
    BY <2>2 DEF MakeDirectory, CanMakeDirectory, Stands, IInv, TypeOK, Complete
  <2>3. CASE SaveFile(p)
    <3>1. \A v \in Variants : prepared'[v] = IF v = call[p].variant THEN prepared[v] + 1 ELSE prepared[v]
      BY <2>3 DEF SaveFile, IInv, TypeOK
    <3>2. prepared[call[p].variant] \in 1 .. (Complete - 1)
      BY <2>3, WriterKnows
    <3> QED BY <2>3, <3>1, <3>2 DEF SaveFile, Stands, Complete
  <2>4. CASE CreateRecord(p)
    BY <2>4 DEF CreateRecord, ExclusiveCreate, Stands, IInv, TypeOK
  <2>5. CASE WriteRecord(p)
    BY <2>5, WriterKnows DEF WriteRecord, Stands, IInv, TypeOK
  <2> QED BY <1>2, <2>1, <2>2, <2>3, <2>4, <2>5 DEF Writes
<1> QED BY <1>1, <1>2, CoreStep

LEMMA FilesStep ==
  ASSUME IInv, [Next]_vars
  PROVE  NothingUnregistered' /\ RecordsKnown'
<1>0. Stands
  BY StandsStep
<1>1. CASE Core' = Core
  BY <1>1 DEF Core, IInv, NothingUnregistered, RecordsKnown, VerifiedIsPrepared
<1>2. ASSUME NEW p \in Procs, Writes(p)
      PROVE  NothingUnregistered' /\ RecordsKnown'
  <2> DEFINE w == call[p].variant
  <2>0. registered \subseteq Variants /\ w \in Variants
    BY <1>2, WriterKnows DEF Writes
  <2>1. ASSUME NEW v \in Variants, v # w
        PROVE  /\ v \notin registered' => prepared'[v] = 0
               /\ verification'[v].stage # "absent" =>
                    /\ v \in registered' /\ prepared'[v] = Complete
                    /\ verification'[v].stage = "complete" =>
                         /\ RunOf[verification'[v].run] = v /\ verification'[v].run \in Runs
                         /\ verification'[v].label \in Labels
    BY <1>0, <1>2, <2>1, OneVariant
       DEF Stands, IInv, NothingUnregistered, RecordsKnown, VerifiedIsPrepared
  <2>2. CASE RenameVariant(p)
    BY <2>2 DEF RenameVariant, IInv, NothingUnregistered, RecordsKnown, VerifiedIsPrepared
  <2>3. CASE MakeDirectory(p)
    <3>1. w \in registered' /\ verification'[w] = verification[w]
      BY <2>3, WriterKnows DEF MakeDirectory
    <3>2. prepared[w] = Complete => prepared'[w] = Complete
      BY <1>0, <2>0 DEF Stands
    <3> HIDE DEF w
    <3> QED BY <2>1, <2>0, <3>1, <3>2 DEF IInv, NothingUnregistered, RecordsKnown, VerifiedIsPrepared
  <2>4. CASE SaveFile(p)
    <3>1. w \in registered' /\ verification'[w] = verification[w]
      BY <2>4, WriterKnows DEF SaveFile
    <3>2. prepared[w] = Complete => prepared'[w] = Complete
      BY <1>0, <2>0 DEF Stands
    <3> HIDE DEF w
    <3> QED BY <2>1, <2>0, <3>1, <3>2 DEF IInv, NothingUnregistered, RecordsKnown, VerifiedIsPrepared
  <2>5. CASE CreateRecord(p)
    <3>1. w \in registered' /\ prepared'[w] = Complete
      BY <2>5, WriterKnows DEF CreateRecord
    <3>2. verification'[w] = verification[w] \/ verification'[w].stage = "torn"
      BY <2>0, <2>5 DEF CreateRecord, IInv, TypeOK, Records
    <3> HIDE DEF w
    <3> QED BY <2>0, <2>1, <3>1, <3>2 DEF IInv, NothingUnregistered, RecordsKnown, VerifiedIsPrepared
  <2>6. CASE WriteRecord(p)
    <3>1. /\ w \in registered' /\ prepared'[w] = Complete
          /\ call[p].run \in Runs /\ RunOf[call[p].run] = w /\ call[p].label \in Labels
      BY <2>6, WriterKnows DEF WriteRecord
    <3>2. verification'[w] = [stage |-> "complete", run |-> call[p].run, label |-> call[p].label]
      BY <2>0, <2>6 DEF WriteRecord, IInv, TypeOK
    <3> HIDE DEF w
    <3> QED BY <2>0, <2>1, <3>1, <3>2 DEF NothingUnregistered, RecordsKnown, VerifiedIsPrepared
  <2> QED BY <1>2, <2>2, <2>3, <2>4, <2>5, <2>6 DEF Writes
<1> QED BY <1>1, <1>2, CoreStep
-----------------------------------------------------------------------------
(* Calls. *)

\* A step of one process leaves the calls of the others alone.
LEMMA OneCallMoves ==
  ASSUME TypeOK, NEW p \in Procs, NEW q \in Procs, p # q, Start(p) \/ Step(p) \/ Crash(p)
  PROVE  call'[q] = call[q]
<1>1. \A c : Becomes(p, c) => call'[q] = call[q]
  BY DEF Becomes, TypeOK
<1>2. \E c : Becomes(p, c)
  <2>1. CASE Start(p)
    BY <2>1 DEF Start, StageSession, EvaluateCoverage, ListVariants, CheckVariant, CheckUnprepared, BindRun
  <2>2. CASE Step(p)
    BY <2>2 DEF Step, PlaceSession, RenameVariant, MakeDirectory, SaveFile, CreateCoverage, WriteCoverage,
         VerifierAnswers, CreateRecord, WriteRecord, ReadVariant, AnswerComparison, Returns
  <2>3. CASE Crash(p)
    BY <2>3 DEF Crash, Returns
  <2> QED BY <2>1, <2>2, <2>3
<1> QED BY <1>1, <1>2

\* The files that a call is in the middle of are not touched by the writes of others.
LEMMA MineAlone ==
  ASSUME IInv, NEW p \in Procs, NEW q \in Procs, p # q, Writes(p)
  PROVE  /\ call[q].op = "save" => prepared'[call[q].variant] = prepared[call[q].variant]
         /\ call[q].op = "recording" => verification'[call[q].variant].stage = "torn"
<1>0. /\ call[q].op = "save" =>
            call[q].variant \in Variants /\ prepared[call[q].variant] \in 1 .. (Complete - 1)
      /\ call[q].op = "recording" =>
            call[q].variant \in Variants /\ verification[call[q].variant].stage = "torn"
  BY DEF IInv, CallKnown, TypeOK
<1>1. CASE call[p].variant # call[q].variant
  BY <1>0, <1>1, OneVariant
<1>2. CASE call[p].variant = call[q].variant
  <2>1. CASE RenameVariant(p)
    BY <1>0, <2>1 DEF RenameVariant
  <2>2. CASE MakeDirectory(p)
    BY <1>0, <1>2, <2>2 DEF MakeDirectory, CanMakeDirectory, Complete
  <2>3. CASE SaveFile(p)
    BY <1>0, <1>2, <2>3 DEF SaveFile, In, IInv, Exclusive
  <2>4. CASE CreateRecord(p)
    BY <1>0, <1>2, <2>4 DEF CreateRecord, ExclusiveCreate
  <2>5. CASE WriteRecord(p)
    BY <1>0, <1>2, <2>5 DEF WriteRecord, In, IInv, Exclusive
  <2> QED BY <2>1, <2>2, <2>3, <2>4, <2>5 DEF Writes
<1> QED BY <1>1, <1>2

\* Rows that say what the records say go on doing so.
LEMMA RowsStand ==
  ASSUME Stands, NEW rows \in SUBSET Rows,
         \A row \in rows : verification[row.variant] =
                           [stage |-> "complete", run |-> row.run, label |-> row.label]
  PROVE  \A row \in rows : verification'[row.variant] =
                           [stage |-> "complete", run |-> row.run, label |-> row.label]
<1> SUFFICES ASSUME NEW row \in rows
             PROVE  verification'[row.variant] = [stage |-> "complete", run |-> row.run, label |-> row.label]
  OBVIOUS
<1>1. row.variant \in Variants
  BY DEF Rows
<1>2. verification[row.variant] = [stage |-> "complete", run |-> row.run, label |-> row.label]
  OBVIOUS
<1>3. verification[row.variant].stage = "complete"
  BY <1>2
<1> QED BY <1>1, <1>2, <1>3 DEF Stands

\* What a call knew it knows after a step that leaves its own files alone.
LEMMA KnownStands ==
  ASSUME IInv, Stands, NEW q \in Procs, call'[q] = call[q],
         call[q].op = "save" => prepared'[call[q].variant] = prepared[call[q].variant],
         call[q].op = "recording" => verification'[call[q].variant].stage = "torn"
  PROVE  CallKnown(q)'
<1> DEFINE c == call[q]
<1>1. CallKnown(q) /\ c \in Calls /\ registered \subseteq Variants
  BY DEF IInv, TypeOK
<1>2. \A row \in c.rows :
        verification'[row.variant] = [stage |-> "complete", run |-> row.run, label |-> row.label]
  <2>1. c.rows \in SUBSET Rows
    BY <1>1 DEF Calls
  <2>2. \A row \in c.rows :
          verification[row.variant] = [stage |-> "complete", run |-> row.run, label |-> row.label]
    BY <1>1 DEF CallKnown
  <2> HIDE DEF c
  <2> QED BY <2>1, <2>2, RowsStand
<1>3. c.op \in {"verifier", "record", "recording"} => prepared'[c.variant] = Complete
  BY <1>1 DEF CallKnown, Stands
<1>4. \A v : v \in registered => v \in registered'
  BY DEF Stands
<1>5. call'[q] = c
  OBVIOUS
<1>6. /\ c.op = "save" => prepared'[c.variant] \in 1 .. (Complete - 1)
      /\ c.op = "recording" => verification'[c.variant].stage = "torn"
  BY <1>1 DEF CallKnown
<1> HIDE DEF c
<1> QED BY <1>1, <1>2, <1>3, <1>4, <1>5, <1>6 DEF CallKnown

\* A call that looks at nothing yet, and one that is over, have nothing to know.
LEMMA NothingToKnow ==
  ASSUME NEW q \in Procs, call'[q].rows = {},
         call'[q].op \in {"idle", "place", "cover", "covering", "compare"}
  PROVE  CallKnown(q)'
BY DEF CallKnown

LEMMA OwnStart ==
  ASSUME IInv, NEW p \in Procs, Start(p)
  PROVE  CallKnown(p)'
<1> USE DEF IInv, Becomes
<1>0. Core' = Core /\ registered' = registered /\ prepared' = prepared
  BY DEF Core, files, Start, StageSession, EvaluateCoverage, ListVariants, CheckVariant, CheckUnprepared,
     BindRun
<1>1. CASE StageSession(p) \/ EvaluateCoverage(p)
  BY <1>1, NothingToKnow DEF StageSession, EvaluateCoverage, Doing, Idle, TypeOK
<1>2. CASE ListVariants(p)
  BY <1>2, NothingToKnow DEF ListVariants, Idle, TypeOK
<1>3. ASSUME NEW v \in Variants, CheckVariant(p, v) PROVE CallKnown(p)'
  <2>1. call'[p] = Doing("register", v)
    BY <1>3 DEF CheckVariant, TypeOK
  <2>2. call'[p].op = "register" /\ call'[p].variant = v /\ call'[p].rows = {}
    BY <2>1 DEF Doing, Idle
  <2> QED BY <2>2 DEF CallKnown
<1>4. ASSUME NEW v \in Variants, CheckUnprepared(p, v) PROVE CallKnown(p)'
  <2>1. call'[p] = Doing("mkdir", v)
    BY <1>4 DEF CheckUnprepared, TypeOK
  <2>2. call'[p].op = "mkdir" /\ call'[p].variant = v /\ call'[p].rows = {}
    BY <2>1 DEF Doing, Idle
  <2> QED BY <1>0, <1>4, <2>2 DEF CheckUnprepared, Loads, CallKnown
<1>5. ASSUME NEW v \in Variants, NEW r \in Runs, NEW label \in Labels, BindRun(p, v, r, label)
      PROVE  CallKnown(p)'
  <2>1. call'[p] = [Doing("verifier", v) EXCEPT !.run = r, !.label = label]
    BY <1>5 DEF BindRun, TypeOK
  <2>2. /\ call'[p].op = "verifier" /\ call'[p].variant = v /\ call'[p].run = r
        /\ call'[p].label = label /\ call'[p].rows = {}
    BY <2>1 DEF Doing, Idle
  <2>3. v \in registered' /\ prepared'[v] = Complete /\ RunOf[r] = v
    BY <1>0, <1>5 DEF BindRun, BoundTo, IsPrepared, Loads
  <2> QED BY <2>2, <2>3 DEF CallKnown
<1> QED BY <1>1, <1>2, <1>3, <1>4, <1>5 DEF Start

LEMMA OwnStep ==
  ASSUME IInv, Stands, NEW p \in Procs, Step(p)
  PROVE  CallKnown(p)'
<1> USE DEF IInv, Becomes, Returns
<1>0. call[p] \in Calls /\ CallKnown(p) /\ registered \subseteq Variants
  BY DEF TypeOK
<1>1. CASE call'[p] = Idle
  BY <1>1, NothingToKnow DEF Idle
<1>2. CASE PlaceSession(p) \/ RenameVariant(p) \/ WriteCoverage(p) \/ WriteRecord(p) \/ AnswerComparison(p)
  BY <1>1, <1>2 DEF PlaceSession, RenameVariant, WriteCoverage, WriteRecord, AnswerComparison, TypeOK
<1>3. CASE MakeDirectory(p)
  <2>1. CASE CanMakeDirectory(call[p].variant)
    <3>1. call'[p] = Doing("save", call[p].variant)
      BY <1>3, <2>1 DEF MakeDirectory, TypeOK
    <3>2. call'[p].op = "save" /\ call'[p].variant = call[p].variant /\ call'[p].rows = {}
      BY <3>1 DEF Doing, Idle
    <3>3. call[p].variant \in registered' /\ prepared'[call[p].variant] = 1
      BY <1>0, <1>3, <2>1 DEF MakeDirectory, In, CallKnown, TypeOK
    <3> QED BY <3>2, <3>3 DEF CallKnown, Complete
  <2> QED BY <1>1, <1>3, <2>1 DEF MakeDirectory, TypeOK
<1>4. CASE SaveFile(p)
  <2> DEFINE v == call[p].variant
             n == prepared[v] + 1
  <2>0. v \in registered /\ v \in Variants /\ prepared[v] \in 1 .. (Complete - 1)
    BY <1>0, <1>4 DEF SaveFile, In, CallKnown
  <2>1. CASE n # Complete
    <3>1. call'[p] = call[p] /\ prepared'[v] = n /\ call[p].op = "save"
      BY <1>4, <2>0, <2>1 DEF SaveFile, In, TypeOK
    <3>2. prepared'[v] \in 1 .. (Complete - 1) /\ registered' = registered /\ verification' = verification
      BY <1>4, <2>0, <2>1, <3>1 DEF SaveFile, Complete
    <3> HIDE DEF v
    <3>3. v = call[p].variant
      BY DEF v
    <3> QED BY <1>0, <2>0, <3>1, <3>2, <3>3 DEF CallKnown
  <2> QED BY <1>1, <1>4, <2>1 DEF SaveFile, TypeOK
<1>5. CASE CreateCoverage(p)
  <2>1. CASE call'[p] = Doing("covering", None)
    BY <2>1, NothingToKnow DEF Doing, Idle
  <2> QED BY <1>1, <1>5, <2>1 DEF CreateCoverage, TypeOK
<1>6. CASE VerifierAnswers(p)
  <2>1. CASE call'[p] = [call[p] EXCEPT !.op = "record"]
    <3>1. /\ call'[p].op = "record" /\ call'[p].variant = call[p].variant /\ call'[p].run = call[p].run
          /\ call'[p].label = call[p].label /\ call'[p].rows = call[p].rows
      BY <1>0, <2>1 DEF Calls
    <3> QED BY <1>0, <1>6, <3>1 DEF VerifierAnswers, In, files, CallKnown
  <2> QED BY <1>1, <1>6, <2>1 DEF VerifierAnswers, TypeOK
<1>7. CASE CreateRecord(p)
  <2> DEFINE v == call[p].variant
  <2>0. v \in registered /\ v \in Variants
    BY <1>0, <1>7 DEF CreateRecord, In, CallKnown
  <2>1. CASE ExclusiveCreate(v)
    <3>1. /\ call'[p] = [call[p] EXCEPT !.op = "recording"]
          /\ verification' = [verification EXCEPT ![v].stage = "torn"]
          /\ prepared' = prepared /\ registered' = registered
      BY <1>7, <2>1 DEF CreateRecord, TypeOK
    <3>2. verification'[v].stage = "torn"
      BY <2>0, <3>1 DEF TypeOK, Records
    <3>3. /\ call'[p].op = "recording" /\ call'[p].variant = v /\ call'[p].run = call[p].run
          /\ call'[p].label = call[p].label /\ call'[p].rows = call[p].rows
      BY <1>0, <3>1 DEF Calls
    <3>4. \A row \in call[p].rows :
            verification'[row.variant] = [stage |-> "complete", run |-> row.run, label |-> row.label]
      <4>1. call[p].rows \in SUBSET Rows
        BY <1>0 DEF Calls
      <4> QED BY <1>0, <4>1, RowsStand DEF CallKnown
    <3> QED BY <1>0, <1>7, <2>0, <3>1, <3>2, <3>3, <3>4 DEF CreateRecord, In, CallKnown
  <2> QED BY <1>1, <1>7, <2>1 DEF CreateRecord, TypeOK
<1>8. ASSUME NEW v \in Variants, ReadVariant(p, v)
      PROVE  CallKnown(p)'
  <2> DEFINE left == [call[p] EXCEPT !.todo = @ \ {v}]
             row  == [variant |-> v, run |-> verification[v].run, label |-> verification[v].label]
  <2>1. left.op = "compare" /\ left.rows = call[p].rows /\ left \in Calls
    BY <1>0, <1>8 DEF ReadVariant, In, Calls
  <2>2. verification' = verification
    BY <1>8 DEF ReadVariant, files
  <2>3. CASE call'[p] = left
    BY <1>0, <2>1, <2>2, <2>3 DEF CallKnown
  <2>4. CASE call'[p] = [left EXCEPT !.rows = @ \cup {row}] /\ verification[v].stage = "complete"
    <3>1. verification[v] = [stage |-> "complete", run |-> row.run, label |-> row.label]
      BY <2>4 DEF TypeOK, Records
    <3>2. row.variant = v
      OBVIOUS
    <3> HIDE DEF left, row
    <3>3. call'[p].op = "compare" /\ call'[p].rows = call[p].rows \cup {row}
      BY <2>1, <2>4 DEF Calls
    <3> QED BY <1>0, <2>2, <3>1, <3>2, <3>3 DEF CallKnown
  <2> QED
    <3> HIDE DEF left, row
    <3> QED BY <1>1, <1>8, <2>3, <2>4 DEF ReadVariant, TypeOK, left, row
<1> QED BY <1>2, <1>3, <1>4, <1>5, <1>6, <1>7, <1>8 DEF Step

LEMMA CallsStep ==
  ASSUME IInv, [Next]_vars, NEW q \in Procs
  PROVE  CallKnown(q)'
<1>1. Stands
  BY StandsStep
<1>2. ASSUME Core' = Core, call'[q] = call[q] PROVE CallKnown(q)'
  BY <1>1, <1>2, KnownStands DEF Core, IInv, CallKnown
<1>3. ASSUME NEW p \in Procs, p # q, Start(p) \/ Step(p) \/ Crash(p) PROVE CallKnown(q)'
  <2>1. call'[q] = call[q]
    BY <1>3, OneCallMoves DEF IInv
  <2>2. CASE Writes(p)
    BY <1>1, <1>3, <2>1, <2>2, MineAlone, KnownStands
  <2>3. CASE ~ Writes(p)
    <3>1. Core' = Core
      BY <1>3, <2>3 DEF Writes, files, Core, Start, StageSession, EvaluateCoverage, ListVariants,
       CheckVariant, CheckUnprepared, BindRun, Step, PlaceSession, RenamedSession, CreateCoverage,
       WriteCoverage, VerifierAnswers, ReadVariant, AnswerComparison, Crash
    <3> QED BY <1>2, <2>1, <3>1
  <2> QED BY <2>2, <2>3
<1>4. CASE Start(q) \/ Step(q)
  BY <1>1, <1>4, OwnStart, OwnStep
<1>5. CASE Crash(q)
  BY <1>5, NothingToKnow DEF Crash, Returns, Becomes, Idle, IInv, TypeOK
<1>6. ASSUME NEW a \in MayDrift, Edit(a) PROVE CallKnown(q)'
  BY <1>2, <1>6 DEF Edit, files, Core
<1>7. CASE UNCHANGED vars
  BY <1>2, <1>7 DEF vars, files, Core
<1> QED BY <1>3, <1>4, <1>5, <1>6, <1>7 DEF Next
\* How calls begin.
LEMMA StartedOps ==
  ASSUME TypeOK, NEW p \in Procs, Start(p)
  PROVE  /\ call'[p].op \in {"place", "cover", "compare", "register", "mkdir", "verifier"}
         /\ call'[p].op = "register" => \E v \in Variants : CheckVariant(p, v)
<1> USE DEF Becomes
<1>1. CASE StageSession(p) \/ EvaluateCoverage(p)
  BY <1>1 DEF StageSession, EvaluateCoverage, Doing, Idle, TypeOK
<1>2. CASE ListVariants(p)
  BY <1>2 DEF ListVariants, Idle, TypeOK
<1>3. ASSUME NEW v \in Variants, CheckVariant(p, v) PROVE call'[p].op = "register"
  BY <1>3 DEF CheckVariant, Doing, Idle, TypeOK
<1>4. ASSUME NEW v \in Variants, CheckUnprepared(p, v) PROVE call'[p].op = "mkdir"
  BY <1>4 DEF CheckUnprepared, Doing, Idle, TypeOK
<1>5. ASSUME NEW v \in Variants, NEW r \in Runs, NEW label \in Labels, BindRun(p, v, r, label)
      PROVE  call'[p].op = "verifier"
  <2>1. call'[p] = [Doing("verifier", v) EXCEPT !.run = r, !.label = label]
    BY <1>5 DEF BindRun, TypeOK
  <2> QED BY <2>1 DEF Doing, Idle
<1> QED BY <1>1, <1>2, <1>3, <1>4, <1>5 DEF Start

\* A process that begins to fill a directory or to write a record is the only one.
LEMMA EntersAlone ==
  ASSUME IInv, NEW p \in Procs, NEW q \in Procs, p # q, Start(p) \/ Step(p) \/ Crash(p),
         NEW op \in {"save", "recording"}, call'[p].op = op, call[q].op = op
  PROVE  call'[p].variant # call[q].variant
<1> USE DEF IInv, Becomes, Returns
<1>0. call[p] \in Calls /\ CallKnown(q)
  BY DEF TypeOK
<1>1. CASE Start(p)
  BY <1>1, StartedOps
<1>2. call'[p] # Idle
  BY DEF Idle
<1>3. CASE MakeDirectory(p)
  <2>1. CanMakeDirectory(call[p].variant) /\ call'[p] = Doing("save", call[p].variant)
    BY <1>2, <1>3 DEF MakeDirectory, TypeOK
  <2>2. call'[p].op = "save" /\ call'[p].variant = call[p].variant
    BY <2>1 DEF Doing, Idle
  <2> QED BY <1>0, <2>1, <2>2 DEF CanMakeDirectory, CallKnown, Complete
<1>4. CASE SaveFile(p)
  <2>1. call'[p] = call[p] /\ call[p].op = "save"
    BY <1>2, <1>4 DEF SaveFile, In, TypeOK
  <2> QED BY <2>1 DEF Exclusive
<1>5. CASE CreateRecord(p)
  <2>1. ExclusiveCreate(call[p].variant) /\ call'[p] = [call[p] EXCEPT !.op = "recording"]
    BY <1>2, <1>5 DEF CreateRecord, TypeOK
  <2>2. call'[p].op = "recording" /\ call'[p].variant = call[p].variant
    BY <1>0, <2>1 DEF Calls
  <2> QED BY <1>0, <2>1, <2>2 DEF ExclusiveCreate, CallKnown
<1>6. CASE CreateCoverage(p)
  <2>1. call'[p] = Doing("covering", None)
    BY <1>2, <1>6 DEF CreateCoverage, TypeOK
  <2> QED BY <2>1 DEF Doing, Idle
<1>7. CASE VerifierAnswers(p)
  <2>1. call'[p] = [call[p] EXCEPT !.op = "record"]
    BY <1>2, <1>7 DEF VerifierAnswers, TypeOK
  <2> QED BY <1>0, <2>1 DEF Calls
<1>8. ASSUME NEW v \in Variants, ReadVariant(p, v)
      PROVE  call'[p].variant # call[q].variant
  <2> DEFINE left == [call[p] EXCEPT !.todo = @ \ {v}]
             row  == [variant |-> v, run |-> verification[v].run, label |-> verification[v].label]
  <2>1. left.op = "compare" /\ left \in Calls
    BY <1>0, <1>8 DEF ReadVariant, In, Calls
  <2> HIDE DEF left, row
  <2>2. call'[p] = left \/ call'[p] = [left EXCEPT !.rows = @ \cup {row}]
    BY <1>2, <1>8 DEF ReadVariant, TypeOK, left, row
  <2> QED BY <2>1, <2>2 DEF Calls
<1>9. CASE Crash(p) \/ PlaceSession(p) \/ RenameVariant(p) \/ WriteCoverage(p) \/ WriteRecord(p)
           \/ AnswerComparison(p)
  BY <1>2, <1>9 DEF Crash, PlaceSession, RenameVariant, WriteCoverage, WriteRecord, AnswerComparison, TypeOK
<1> QED BY <1>1, <1>3, <1>4, <1>5, <1>6, <1>7, <1>8, <1>9 DEF Step

LEMMA ExclusiveStep ==
  ASSUME IInv, [Next]_vars
  PROVE  Exclusive'
<1> SUFFICES ASSUME NEW p \in Procs, NEW q \in Procs, NEW op \in {"save", "recording"}, p # q,
                    call'[p].op = op, call'[q].op = op, call'[p].variant = call'[q].variant
             PROVE  FALSE
  BY DEF Exclusive
<1>1. CASE call' = call
  BY <1>1 DEF IInv, Exclusive
<1>2. ASSUME NEW m \in Procs, Start(m) \/ Step(m) \/ Crash(m)
      PROVE  FALSE
  <2>1. CASE m = p
    <3>1. call'[q] = call[q]
      BY <1>2, <2>1, OneCallMoves DEF IInv
    <3> QED BY <1>2, <2>1, <3>1, EntersAlone
  <2>2. CASE m = q
    <3>1. call'[p] = call[p]
      BY <1>2, <2>2, OneCallMoves DEF IInv
    <3> QED BY <1>2, <2>2, <3>1, EntersAlone
  <2>3. CASE m # p /\ m # q
    <3>1. call'[p] = call[p] /\ call'[q] = call[q]
      BY <1>2, <2>3, OneCallMoves DEF IInv
    <3> QED BY <3>1 DEF IInv, Exclusive
  <2> QED BY <2>1, <2>2, <2>3
<1> QED BY <1>1, <1>2 DEF Next, vars, Edit

LEMMA AnswerStep ==
  ASSUME IInv, [Next]_vars
  PROVE  AnswerKnown'
<1>1. Stands
  BY StandsStep
<1>2. CASE answer' = answer
  BY <1>1, <1>2, RowsStand DEF IInv, AnswerKnown, TypeOK
<1>3. ASSUME NEW p \in Procs, AnswerComparison(p) PROVE AnswerKnown'
  <2>1. /\ answer'.rows = call[p].rows /\ answer'.status = Verdict(call[p].rows)
        /\ verification' = verification
    BY <1>3 DEF AnswerComparison, files
  <2> QED BY <2>1 DEF IInv, CallKnown, AnswerKnown, Verdict
<1>4. answer' = answer \/ \E p \in Procs : AnswerComparison(p)
  BY DEF Next, vars, Start, StageSession, EvaluateCoverage, ListVariants, CheckVariant, CheckUnprepared,
       BindRun, Step, PlaceSession, RenameVariant, MakeDirectory, SaveFile, CreateCoverage,
       WriteCoverage, VerifierAnswers, CreateRecord, WriteRecord, ReadVariant, Crash, Edit
<1> QED BY <1>2, <1>3, <1>4

-----------------------------------------------------------------------------
(* The limit. *)

\* Only two steps of a session concern what is registered, or is about to be.
LEMMA OthersRegisterNothing ==
  ASSUME IInv, NEW p \in Procs, Start(p) \/ Step(p) \/ Crash(p), ~ RenameVariant(p),
         \A v \in Variants : ~ CheckVariant(p, v)
  PROVE  registered' = registered /\ Ofs({"register"})' \subseteq Ofs({"register"})
<1>1. registered' = registered
  BY DEF files, Start, StageSession, EvaluateCoverage, ListVariants, CheckUnprepared,
     BindRun, Step, PlaceSession, RenamedSession, MakeDirectory, SaveFile, CreateCoverage,
     WriteCoverage, VerifierAnswers, CreateRecord, WriteRecord, ReadVariant, AnswerComparison, Crash
<1>2. call'[p].op # "register"
  <2> USE DEF Becomes, Returns
  <2>0. call[p] \in Calls
    BY DEF IInv, TypeOK
  <2>1. CASE call'[p] = Idle
    BY <2>1 DEF Idle
  <2>2. CASE Start(p)
    BY <2>2, StartedOps DEF IInv
  <2>3. CASE MakeDirectory(p) \/ CreateCoverage(p) \/ SaveFile(p)
    <3>1. Doing("save", call[p].variant).op = "save" /\ Doing("covering", None).op = "covering"
      BY DEF Doing, Idle
    <3>2. CASE MakeDirectory(p)
      BY <2>1, <3>1, <3>2 DEF MakeDirectory, IInv, TypeOK
    <3>3. CASE CreateCoverage(p)
      BY <2>1, <3>1, <3>3 DEF CreateCoverage, IInv, TypeOK
    <3>4. CASE SaveFile(p)
      BY <2>1, <3>4 DEF SaveFile, In, IInv, TypeOK
    <3> QED BY <2>3, <3>2, <3>3, <3>4
  <2>4. CASE VerifierAnswers(p) \/ CreateRecord(p)
    BY <2>0, <2>1, <2>4 DEF VerifierAnswers, CreateRecord, Calls, IInv, TypeOK
  <2>5. ASSUME NEW v \in Variants, ReadVariant(p, v) PROVE call'[p].op # "register"
    <3> DEFINE left == [call[p] EXCEPT !.todo = @ \ {v}]
               row  == [variant |-> v, run |-> verification[v].run, label |-> verification[v].label]
    <3>1. left.op = "compare" /\ left \in Calls
      BY <2>0, <2>5 DEF ReadVariant, In, Calls
    <3> HIDE DEF left, row
    <3>2. call'[p] \in {Idle, left, [left EXCEPT !.rows = @ \cup {row}]}
      BY <2>5 DEF ReadVariant, IInv, TypeOK, left, row
    <3> QED BY <2>1, <3>1, <3>2 DEF Calls
  <2>6. CASE Crash(p) \/ PlaceSession(p) \/ WriteCoverage(p) \/ WriteRecord(p) \/ AnswerComparison(p)
    BY <2>1, <2>6 DEF Crash, PlaceSession, WriteCoverage, WriteRecord, AnswerComparison, IInv, TypeOK
  <2> QED BY <2>2, <2>3, <2>4, <2>5, <2>6 DEF Step
<1>3. \A q \in Procs : q # p => call'[q] = call[q]
  BY OneCallMoves DEF IInv
<1> QED BY <1>1, <1>2, <1>3 DEF Ofs

LEMMA CountedStep ==
  ASSUME IInv, [Next]_vars
  PROVE  Counted'
<1> DEFINE R == Ofs({"register"})
<1>0. /\ IsFiniteSet(Procs) /\ IsFiniteSet(Variants) /\ Procs # {} /\ MaxVariants \in Nat
      /\ registered \in SUBSET Variants /\ R \in SUBSET Procs /\ R' \in SUBSET Procs
  BY ConstantsAssumption DEF IInv, TypeOK, Ofs
<1>1. IsFiniteSet(registered) /\ IsFiniteSet(R) /\ IsFiniteSet(R')
  BY <1>0, FS_Subset
<1>2. /\ Cardinality(registered) \in Nat /\ Cardinality(R) \in Nat /\ Cardinality(R') \in Nat
      /\ Cardinality(Procs) \in Nat /\ Cardinality(R') <= Cardinality(Procs)
  BY <1>0, <1>1, FS_CardinalityType, FS_Subset
<1>3. Cardinality(registered) + Cardinality(R) <= (MaxVariants + Cardinality(Procs)) - 1
  BY DEF IInv, Counted
<1>4. CASE registered' = registered /\ R' \subseteq R
  <2>1. Cardinality(R') <= Cardinality(R)
    BY <1>1, <1>4, FS_Subset
  <2> QED BY <1>0, <1>2, <1>3, <1>4, <2>1 DEF Counted
<1>5. ASSUME NEW p \in Procs, NEW v \in Variants, CheckVariant(p, v) PROVE Counted'
  <2>1. Cardinality(registered) < MaxVariants /\ registered' = registered
    BY <1>5 DEF CheckVariant, BelowLimit, files
  <2> QED BY <1>0, <1>2, <2>1 DEF Counted
<1>6. ASSUME NEW p \in Procs, RenameVariant(p) PROVE Counted'
  <2>1. p \in R /\ R' = R \ {p}
    BY <1>6 DEF RenameVariant, In, Returns, Becomes, Ofs, Idle, IInv, TypeOK
  <2>2. Cardinality(R') = Cardinality(R) - 1
    BY <1>1, <2>1, FS_RemoveElement
  <2>3. registered' = registered \cup {call[p].variant}
    BY <1>6 DEF RenameVariant
  <2>4. Cardinality(registered') \in Nat /\ Cardinality(registered') <= Cardinality(registered) + 1
    <3>1. IsFiniteSet(registered')
      BY <1>1, <2>3, FS_AddElement
    <3>2. Cardinality(registered') \in Nat
      BY <3>1, FS_CardinalityType
    <3>3. Cardinality(registered \cup {call[p].variant}) =
             IF call[p].variant \in registered THEN Cardinality(registered) ELSE Cardinality(registered) + 1
      BY <1>1, FS_AddElement
    <3> HIDE DEF R
    <3> QED BY <1>2, <2>3, <3>2, <3>3
  <2> HIDE DEF R
  <2>5. Cardinality(registered') + Cardinality(R') <= (MaxVariants + Cardinality(Procs)) - 1
    BY <1>0, <1>2, <1>3, <2>2, <2>4
  <2> QED BY <2>5 DEF Counted, R
<1>7. ASSUME NEW p \in Procs, Start(p) \/ Step(p) \/ Crash(p), ~ RenameVariant(p),
             \A v \in Variants : ~ CheckVariant(p, v)
      PROVE  registered' = registered /\ R' \subseteq R
  BY <1>7, OthersRegisterNothing
<1>8. (UNCHANGED vars \/ \E a \in MayDrift : Edit(a)) => registered' = registered /\ R' \subseteq R
  BY DEF vars, files, Edit, Ofs
<1> QED BY <1>4, <1>5, <1>6, <1>7, <1>8 DEF Next
-----------------------------------------------------------------------------
(* The ledger. *)

Entries == [v \in Variants |-> Entry(v)]

LEMMA InitLedger == Init => Ledger!LInit
BY DEF Init, NoRecord, Complete, Entry, Ledger!LInit, Ledger!Blank

LEMMA LedgerStep ==
  ASSUME IInv, IInv', [Next]_vars
  PROVE  [Ledger!LNext]_Entries
<1>1. CASE Core' = Core
  BY <1>1 DEF Core, Entry, Entries
<1>2. ASSUME NEW p \in Procs, Writes(p)
      PROVE  [Ledger!LNext]_Entries
  <2>a. registered \subseteq Variants /\ call[p].variant \in Variants
    BY <1>2, WriterKnows DEF Writes
  <2>0. PICK w \in Variants : w = call[p].variant
    BY <2>a
  <2>1. \A v \in Variants \ {w} : Entry(v)' = Entry(v)
    <3> SUFFICES ASSUME NEW v \in Variants, v # w PROVE Entry(v)' = Entry(v)
      OBVIOUS
    <3>1. prepared'[v] = prepared[v] /\ verification'[v] = verification[v]
      BY <1>2, <2>0, OneVariant
    <3>2. v \in registered' <=> v \in registered
      BY <1>2, <2>0 DEF Writes, RenameVariant, MakeDirectory, SaveFile, CreateRecord, WriteRecord
    <3> QED BY <3>1, <3>2 DEF Entry
  <2>2. CASE Entry(w)' = Entry(w)
    <3>1. Entries' = Entries
      BY <2>1, <2>2 DEF Entries
    <3> QED BY <3>1
  <2>3. /\ w \notin registered => prepared[w] = 0 /\ verification[w].stage = "absent"
        /\ verification[w].stage # "absent" => prepared[w] = Complete
        /\ verification'[w].stage # "absent" => prepared'[w] = Complete
    BY <2>0 DEF IInv, NothingUnregistered, RecordsKnown, VerifiedIsPrepared
  <2>4. Entries[w] = Entry(w)
    BY <2>0 DEF Entries
  <2>b. Entries' = [Entries EXCEPT ![w] = Entry(w)']
    BY <2>1 DEF Entries
  <2>5. CASE RenameVariant(p)
    <3>1. /\ registered' = registered \cup {w} /\ prepared' = prepared /\ verification' = verification
      BY <2>0, <2>5 DEF RenameVariant
    <3>2. CASE w \in registered
      BY <2>2, <3>1, <3>2 DEF Entry
    <3>3. CASE w \notin registered
      <4>1. Entry(w).stage = "unknown" /\ Entry(w)' = Ledger!Blank("declared")
        BY <2>3, <3>1, <3>3 DEF Entry, Ledger!Blank, Complete
      <4>2. Ledger!Declare(w)
        BY <2>4, <2>b, <4>1 DEF Ledger!Declare, Ledger!Advance, Entries
      <4> QED BY <2>0, <4>2 DEF Ledger!LNext
    <3> QED BY <3>2, <3>3
  <2>6. CASE MakeDirectory(p)
    <3>1. registered' = registered /\ verification' = verification /\ w \in registered
      BY <2>0, <2>6, WriterKnows DEF MakeDirectory
    <3>2. \/ prepared' = prepared
          \/ prepared[w] = 0 /\ prepared'[w] = 1
      <4>1. CASE CanMakeDirectory(w)
        BY <2>0, <2>6, <4>1 DEF MakeDirectory, CanMakeDirectory, IInv, TypeOK
      <4>2. CASE ~ CanMakeDirectory(w)
        BY <2>0, <2>6, <4>2 DEF MakeDirectory
      <4> QED BY <4>1, <4>2
    <3>3. Entry(w)' = Entry(w)
      BY <2>3, <3>1, <3>2 DEF Entry, Complete
    <3> QED BY <2>2, <3>3
  <2>7. CASE SaveFile(p)
    <3>1. /\ registered' = registered /\ verification' = verification /\ w \in registered
          /\ prepared[w] \in 1 .. (Complete - 1)
      BY <2>0, <2>7, WriterKnows DEF SaveFile
    <3>2. prepared'[w] = prepared[w] + 1
      BY <2>0, <2>7 DEF SaveFile, IInv, TypeOK
    <3>3. verification[w].stage = "absent"
      BY <2>3, <3>1 DEF Complete
    <3>4. CASE prepared'[w] # Complete
      <4>1. Entry(w)' = Entry(w)
        BY <3>1, <3>3, <3>4 DEF Entry, Complete
      <4> QED BY <2>2, <4>1
    <3>5. CASE prepared'[w] = Complete
      <4>1. Entry(w).stage = "declared" /\ Entry(w)' = Ledger!Blank("prepared")
        BY <3>1, <3>3, <3>5 DEF Entry, Ledger!Blank, Complete
      <4>2. Ledger!Prepare(w)
        BY <2>4, <2>b, <4>1 DEF Ledger!Prepare, Ledger!Advance, Entries
      <4> QED BY <2>0, <4>2 DEF Ledger!LNext
    <3> QED BY <3>4, <3>5
  <2>8. CASE CreateRecord(p)
    <3>1. registered' = registered /\ prepared' = prepared /\ w \in registered /\ prepared[w] = Complete
      BY <2>0, <2>8, WriterKnows DEF CreateRecord
    <3>2. \/ verification' = verification
          \/ verification[w].stage = "absent" /\ verification'[w].stage = "torn"
      BY <2>0, <2>8 DEF CreateRecord, ExclusiveCreate, IInv, TypeOK, Records
    <3>3. Entry(w)' = Entry(w)
      BY <3>1, <3>2 DEF Entry
    <3> QED BY <2>2, <3>3
  <2>9. CASE WriteRecord(p)
    <3> DEFINE r == call[p].run
               e == [stage |-> "verified", run |-> r, label |-> call[p].label]
    <3>1. /\ registered' = registered /\ prepared' = prepared /\ w \in registered /\ prepared[w] = Complete
          /\ verification[w].stage = "torn" /\ r \in Runs /\ RunOf[r] = w /\ call[p].label \in Labels
      BY <2>0, <2>9, WriterKnows DEF WriteRecord
    <3>2. verification'[w] = [stage |-> "complete", run |-> r, label |-> call[p].label]
      BY <2>0, <2>9 DEF WriteRecord, IInv, TypeOK
    <3>3. Entry(w).stage = "prepared"
      BY <3>1 DEF Entry
    <3>4. Entry(w)' = e
      BY <3>1, <3>2 DEF Entry
    <3>5. Ledger!Verify(w)
      <4>1. Entries' = [Entries EXCEPT ![w] = e]
        BY <2>b, <3>4
      <4> QED BY <2>4, <3>1, <3>3, <4>1 DEF Ledger!Verify, Ledger!Advance, Entries
    <3> QED BY <2>0, <3>5 DEF Ledger!LNext
  <2> QED BY <1>2, <2>5, <2>6, <2>7, <2>8, <2>9 DEF Writes
<1> QED BY <1>1, <1>2, CoreStep

-----------------------------------------------------------------------------
(* Theorems. *)

LEMMA InitKnown == Init => IInv
<1> SUFFICES ASSUME Init PROVE IInv
  OBVIOUS
<1>1. TypeOK
  BY InitTyped
<1>2. \A p \in Procs : call[p].op = "idle" /\ call[p].rows = {}
  BY DEF Init, Idle
<1>3. (\A p \in Procs : CallKnown(p)) /\ Exclusive
  BY <1>2 DEF CallKnown, Exclusive
<1>4. NothingUnregistered /\ RecordsKnown
  BY DEF Init, NoRecord, NothingUnregistered, RecordsKnown, VerifiedIsPrepared
<1>5. AnswerKnown
  BY DEF Init, NoAnswer, AnswerKnown, Verdict
<1>6. Counted
  <2>1. Ofs({"register"}) = {} /\ registered = {}
    BY <1>2 DEF Ofs, Init
  <2>2. Cardinality(Procs) \in Nat /\ Cardinality(Procs) # 0 /\ MaxVariants \in Nat \ {0}
    BY ConstantsAssumption, FS_CardinalityType, FS_EmptySet
  <2>3. Cardinality({}) = 0
    BY FS_EmptySet
  <2> QED BY <2>1, <2>2, <2>3 DEF Counted
<1> QED BY <1>1, <1>3, <1>4, <1>5, <1>6 DEF IInv

LEMMA SessionKeeps ==
  ASSUME IInv, [Next]_vars
  PROVE  IInv'
BY TypeStep, CallsStep, ExclusiveStep, FilesStep, AnswerStep, CountedStep DEF IInv

\* The strengthened invariant: what every call in progress still knows of a session
\* that others add to, prepare, verify, compare and edit without a lock.
THEOREM SessionInductive == Spec => []IInv
<1>1. Init => IInv
  BY InitKnown
<1>2. IInv /\ [Next]_vars => IInv'
  BY SessionKeeps
<1> QED BY <1>1, <1>2, PTL DEF Spec

\* No record without a complete preparation of its variant and a run of it
\* (session/core.py `verify_selected`), whatever crashes and races.
THEOREM RecordsArePrepared == Spec => []VerifiedIsPrepared
<1>1. IInv => VerifiedIsPrepared
  BY DEF IInv, RecordsKnown
<1> QED BY <1>1, SessionInductive, PTL

\* A comparison, read record by record while others write, is never contradicted by
\* the records, and carries the weakest label of its rows (`compare_verified`).
THEOREM ComparisonStands == Spec => []AnswerStands
<1>1. IInv => AnswerStands
  <2> SUFFICES ASSUME IInv PROVE AnswerStands
    OBVIOUS
  <2>1. AnswerKnown
    BY DEF IInv
  <2>2. answer.status = "VERIFIED_VARIANTS_COMPARED" =>
          \A row \in answer.rows : row.label = "RECORDED_RUN_VERIFIED"
    BY <2>1 DEF AnswerKnown, Verdict
  <2>3. ASSUME NEW row \in answer.rows
        PROVE  verification[row.variant].label = row.label
    <3>1. verification[row.variant] = [stage |-> "complete", run |-> row.run, label |-> row.label]
      BY <2>1 DEF AnswerKnown
    <3> QED BY <3>1
  <2> QED BY <2>1, <2>2, <2>3 DEF AnswerKnown, AnswerStands
<1> QED BY <1>1, SessionInductive, PTL

\* However many processes pass the stale count of `add_variant`, the limit is exceeded
\* by fewer variants than there are processes.
THEOREM Overshoot == Spec => []OvershootBounded
<1>1. IInv => OvershootBounded
  <2> SUFFICES ASSUME IInv PROVE OvershootBounded
    OBVIOUS
  <2>1. IsFiniteSet(registered) /\ IsFiniteSet(Ofs({"register"}))
    BY ConstantsAssumption, FS_Subset DEF IInv, TypeOK, Ofs
  <2>2. /\ Cardinality(registered) \in Nat /\ Cardinality(Ofs({"register"})) \in Nat
        /\ Cardinality(Procs) \in Nat /\ MaxVariants \in Nat
    BY <2>1, ConstantsAssumption, FS_CardinalityType
  <2> QED BY <2>2 DEF IInv, Counted, OvershootBounded
<1> QED BY <1>1, SessionInductive, PTL

\* The session is a ledger of its variants: each is declared, prepared and verified
\* once, in that order, and nothing is overwritten.
THEOREM SessionIsLedger == Spec => ImplementsLedger
<1>1. Init => Ledger!LInit
  BY InitLedger
<1>2. IInv /\ IInv' /\ [Next]_vars => [Ledger!LNext]_([v \in Variants |-> Entry(v)])
  BY LedgerStep DEF Entries
<1> QED BY <1>1, <1>2, SessionInductive, PTL DEF Spec, ImplementsLedger, Ledger!LSpec
-----------------------------------------------------------------------------
(* Handing a session over. *)

ImportStages == {"rest", "place", "open", "check", "add", "prepare", "stopped", "imported"}
SetupPackages == UNION {s.packages : s \in Setups}
Packages == SetupPackages \cup {NoPackage}
ImportRecords == [stage : ImportStages, package : Packages, left : SUBSET Variants]
PackageEntries == [variant : Variants, prepared : BOOLEAN]

HTypeOK ==
  /\ setup \in Setups /\ import \in [Importers -> ImportRecords]
  /\ added \in [Importers -> SUBSET Variants] /\ overtaken \in [Importers -> BOOLEAN]
  /\ export \in [Users -> [stage : {"rest", "read", "write"}, left : SUBSET Variants,
                           entries : SUBSET PackageEntries]]
  /\ out \in [files : 0 .. 3, entries : SUBSET PackageEntries]

\* Before it is placed a session holds nothing and nobody adds to it; only what is
\* there can be edited.
PlaceKnown ==
  /\ ~ session => registered = {} /\ Ofs({"register"}) = {}
  /\ drifted \subseteq registered \cup {Source}

\* The variant an importer has checked and not yet renamed in.
Pending(i) == {v \in Variants : In(i, "register") /\ call[i].variant = v}

\* What an import may rely on at each stage, whoever works on the session beside it.
ImportKnown(i) ==
  LET stage == import[i].stage
      left == import[i].left
      k == import[i].package IN
  /\ stage \notin {"rest", "stopped"} => Importable(k)
  /\ stage \in {"open", "check", "add", "prepare", "imported"} => session
  /\ ~ Free(i) =>
       \/ stage = "add" /\ In(i, "register") /\ call[i].variant \in k.variants \ left
       \/ stage = "prepare" /\ call[i].op \in {"mkdir", "save"}
  /\ stage \in {"place", "open", "check"} => added[i] = {}
  /\ stage \in {"check", "add"} =>
       left \subseteq k.variants /\ k.variants \ left \subseteq registered \cup Pending(i)
  /\ stage \in {"prepare", "imported"} => k.variants \subseteq registered
  /\ stage = "prepare" => setup.reconstruct /\ \A v \in k.variants \ left : prepared[v] = Complete
  /\ stage = "imported" /\ setup.reconstruct =>
       \A v \in k.variants : prepared[v] = Complete /\ k.reference[v] # "other"

\* And what it has judged, unless others came in between.
JudgedKnown(i) ==
  LET stage == import[i].stage
      left == import[i].left
      k == import[i].package IN
  ~ setup.reconstruct /\ ~ overtaken[i] =>
    /\ stage = "stopped" => added[i] = {}
    /\ stage \in {"check", "add"} => (left \cup Pending(i)) \cap registered = {} /\ WithinLimit(k)
    /\ stage = "add" => \A v \in (k.variants \ left) \ Pending(i) : Loads(v)
    /\ stage = "imported" => \A v \in k.variants : Loads(v)

\* An entry that was read tells of the session, for good; one exporter at a time writes.
Told(e) == e.variant \in registered /\ (e.prepared => prepared[e.variant] = Complete)

ExportKnown ==
  /\ \A u \in Users : \A e \in export[u].entries : Told(e)
  /\ \A e \in out.entries : Told(e)
  /\ \A u, w \in Users : export[u].stage = "write" /\ export[w].stage = "write" => u = w
  /\ \A u \in Users : export[u].stage = "write" => out.files \in {1, 2}

HInv ==
  /\ IInv /\ HTypeOK /\ PlaceKnown /\ ExportKnown
  /\ \A i \in Importers : ImportKnown(i) /\ JudgedKnown(i)

LEMMA PackageVariants == \A k \in Packages : k.variants \subseteq Variants
<1>1. \A s \in Setups : \A k \in s.packages : k.variants \subseteq Variants
  BY HandoffAssumption
<1>2. NoPackage.variants \subseteq Variants
  BY DEF NoPackage
<1>3. ASSUME NEW k \in Packages PROVE k.variants \subseteq Variants
  <2>1. k \in SetupPackages \/ k = NoPackage
    BY DEF Packages
  <2>2. CASE k = NoPackage
    BY <1>2, <2>2
  <2>3. CASE k \in SetupPackages
    <3>1. PICK s \in Setups : k \in s.packages
      BY <2>3 DEF SetupPackages
    <3> QED BY <1>1, <3>1
  <2> QED BY <2>1, <2>2, <2>3
<1> QED BY <1>3

LEMMA OneOrTheOther ==
  /\ \A i \in Importers : i \in Procs /\ i \notin Users
  /\ \A u \in Users : u \in Procs
BY HandoffAssumption

\* A call of an importer that ends, by itself or with its process.
LEMMA EndsKeep ==
  ASSUME IInv, NEW p \in Procs, Returns(p), UNCHANGED <<files, drifted, answer>>
  PROVE  IInv' /\ Stands /\ Ofs({"register"})' \subseteq Ofs({"register"})
<1>0. /\ call'[p] = Idle /\ \A q \in Procs \ {p} : call'[q] = call[q]
      /\ registered' = registered /\ prepared' = prepared /\ verification' = verification
  BY DEF Returns, Becomes, IInv, TypeOK, files
<1>1. Stands
  BY <1>0 DEF Stands
<1>2. TypeOK'
  <2>1. call' \in [Procs -> Calls]
    BY DoingTyped, CallsTyped DEF Returns, IInv
  <2> QED BY <2>1 DEF IInv, TypeOK, files
<1>3. ASSUME NEW q \in Procs PROVE CallKnown(q)'
  <2>1. CASE q = p
    BY <1>0, <2>1, NothingToKnow DEF Idle
  <2>2. CASE q # p
    <3>1. CallKnown(q) /\ call'[q] = call[q]
      BY <1>0, <2>2 DEF IInv
    <3> QED BY <1>0, <3>1 DEF CallKnown
  <2> QED BY <2>1, <2>2
<1>4. call'[p].op = "idle"
  BY <1>0 DEF Idle
<1>5. Exclusive'
  BY <1>0, <1>4 DEF IInv, Exclusive
<1>6. NothingUnregistered' /\ RecordsKnown' /\ AnswerKnown'
  BY <1>0 DEF IInv, NothingUnregistered, RecordsKnown, VerifiedIsPrepared, AnswerKnown
<1>7. Ofs({"register"})' \subseteq Ofs({"register"})
  BY <1>0, <1>4 DEF Ofs
<1>8. Counted'
  <2> DEFINE R == Ofs({"register"})
  <2>1. IsFiniteSet(Procs) /\ IsFiniteSet(Variants) /\ MaxVariants \in Nat
        /\ R \in SUBSET Procs /\ registered \in SUBSET Variants
    BY ConstantsAssumption DEF Ofs, IInv, TypeOK
  <2>2. IsFiniteSet(R) /\ IsFiniteSet(R') /\ IsFiniteSet(registered) /\ Cardinality(R') <= Cardinality(R)
    BY <1>7, <2>1, FS_Subset
  <2>3. /\ Cardinality(R) \in Nat /\ Cardinality(R') \in Nat
        /\ Cardinality(registered) \in Nat /\ Cardinality(Procs) \in Nat
    BY <2>1, <2>2, FS_CardinalityType
  <2>4. Cardinality(registered) + Cardinality(R) <= (MaxVariants + Cardinality(Procs)) - 1
    BY DEF IInv, Counted
  <2>5. registered' = registered
    BY <1>0
  <2> HIDE DEF R
  <2>6. Cardinality(registered') + Cardinality(R') <= (MaxVariants + Cardinality(Procs)) - 1
    BY <2>1, <2>2, <2>3, <2>4, <2>5
  <2> QED BY <2>6 DEF Counted, R
<1> QED BY <1>1, <1>2, <1>3, <1>5, <1>6, <1>7, <1>8 DEF IInv

\* A whole session is placed where there was none.
LEMMA PlacedKeep ==
  ASSUME IInv, PlaceKnown, ~ session, session' = TRUE,
         registered' \in SUBSET Variants, Cardinality(registered') <= MaxVariants,
         UNCHANGED <<prepared, verification, coverage, drifted, call, answer>>
  PROVE  IInv' /\ Stands
<1>1. registered = {} /\ Ofs({"register"}) = {}
  BY DEF PlaceKnown
<1>2. \A v \in Variants : prepared[v] = 0 /\ verification[v].stage = "absent"
  BY <1>1 DEF IInv, NothingUnregistered, RecordsKnown, VerifiedIsPrepared, Complete
<1>3. Stands
  BY <1>1 DEF Stands
<1>4. TypeOK'
  BY DEF IInv, TypeOK
<1>5. ASSUME NEW q \in Procs PROVE CallKnown(q)'
  <2>1. call[q].op = "save" => prepared'[call[q].variant] = prepared[call[q].variant]
    OBVIOUS
  <2>2. call[q].op = "recording" => verification'[call[q].variant].stage = "torn"
    BY DEF IInv, CallKnown
  <2> QED BY <1>3, <2>1, <2>2, KnownStands
<1>6. Exclusive' /\ NothingUnregistered' /\ RecordsKnown' /\ AnswerKnown'
  BY <1>2 DEF IInv, Exclusive, NothingUnregistered, RecordsKnown, VerifiedIsPrepared, AnswerKnown
<1>7. Counted'
  <2>1. Ofs({"register"})' = {}
    BY <1>1 DEF Ofs
  <2>2. IsFiniteSet(Procs) /\ IsFiniteSet(registered') /\ Procs # {} /\ MaxVariants \in Nat
    BY ConstantsAssumption, FS_Subset
  <2>3. /\ Cardinality(Procs) \in Nat /\ Cardinality(Procs) # 0
        /\ Cardinality(registered') \in Nat /\ Cardinality({}) = 0
    BY <2>2, FS_CardinalityType, FS_EmptySet
  <2> QED BY <2>1, <2>2, <2>3 DEF Counted
<1> QED BY <1>3, <1>4, <1>5, <1>6, <1>7 DEF IInv

\* The session's own steps are most of what importers, exporters and users do.
LEMMA StepsOfSession ==
  ASSUME HInv, [HNext]_hvars
  PROVE  \/ [Next]_vars
         \/ \E i \in Importers : PlaceImported(i) /\ ~ session
         \/ \E i \in Importers : Die(i)
<1>1. CASE UNCHANGED hvars
  BY <1>1 DEF hvars
<1>2. ASSUME NEW p \in Procs, CallStep(p) PROVE Next
  BY <1>2 DEF CallStep, Next
<1>3. ASSUME NEW a \in MayDrift, EditStep(a) PROVE Next
  BY <1>3 DEF EditStep, Next
<1>4. ASSUME NEW i \in Importers, Begin(i) PROVE UNCHANGED vars
  BY <1>4 DEF Begin, SessionUnchanged
<1>5. ASSUME NEW i \in Importers, ImportStep(i), ~(PlaceImported(i) /\ ~ session) PROVE [Next]_vars
  <2>0. i \in Procs
    BY OneOrTheOther
  <2>1. CASE PlaceImported(i)
    BY <1>5, <2>1 DEF PlaceImported, vars
  <2>2. CASE OpenExisting(i) \/ CheckCounterparts(i) \/ AllAdded(i) \/ CompareReferences(i)
    BY <2>2 DEF OpenExisting, CheckCounterparts, AllAdded, CompareReferences, SessionUnchanged
  <2>3. ASSUME NEW v \in Variants, AddMissing(i, v) \/ PrepareNext(i, v) PROVE [Next]_vars
    BY <2>0, <2>3 DEF AddMissing, PrepareNext, SessionUnchanged, Next, Start
  <2> QED BY <1>5, <2>1, <2>2, <2>3 DEF ImportStep
<1>6. ASSUME NEW u \in Users, UserStep(u) PROVE Next
  BY <1>6, OneOrTheOther DEF UserStep, UserStarts, Next, Start
<1>7. ASSUME NEW u \in Users, ExportStep(u) PROVE UNCHANGED vars
  BY <1>7 DEF ExportStep, BeginExport, MakeOutput, WriteOutput, AbandonOutput, ReadEntry, ExportQuiet,
       SessionUnchanged
<1> QED BY <1>1, <1>2, <1>3, <1>4, <1>5, <1>6, <1>7 DEF HNext

\* So the invariant of the session holds beside imports, and a session that is there stays.
LEMMA SessionPart ==
  ASSUME HInv, [HNext]_hvars
  PROVE  IInv' /\ Stands /\ PlaceKnown' /\ (session => session')
<1> USE DEF HInv
<1>1. CASE [Next]_vars
  <2>1. IInv' /\ Stands
    BY <1>1, SessionKeeps, StandsStep
  <2>2. session => session'
    BY <1>1 DEF vars, files, Next, Start, StageSession, EvaluateCoverage, ListVariants, CheckVariant,
         CheckUnprepared, BindRun, Step, PlaceSession, RenamedSession, RenameVariant, MakeDirectory,
         SaveFile, CreateCoverage, WriteCoverage, VerifierAnswers, CreateRecord, WriteRecord,
         ReadVariant, AnswerComparison, Crash, Edit
  <2>3. drifted' \subseteq registered' \cup {Source}
    <3>1. ASSUME NEW a \in MayDrift, Edit(a) PROVE drifted' \subseteq registered' \cup {Source}
      BY <3>1 DEF Edit, files, PlaceKnown
    <3>2. drifted' = drifted \/ \E a \in MayDrift : Edit(a)
      BY <1>1 DEF vars, Next, Start, StageSession, EvaluateCoverage, ListVariants, CheckVariant,
         CheckUnprepared, BindRun, Step, PlaceSession, RenameVariant, MakeDirectory,
         SaveFile, CreateCoverage, WriteCoverage, VerifierAnswers, CreateRecord, WriteRecord,
         ReadVariant, AnswerComparison, Crash
    <3> QED BY <2>1, <3>1, <3>2 DEF Stands, PlaceKnown
  <2>4. ~ session' => registered' = {} /\ Ofs({"register"})' = {}
    <3> SUFFICES ASSUME ~ session' PROVE registered' = {} /\ Ofs({"register"})' = {}
      OBVIOUS
    <3>1. ~ session /\ registered = {} /\ Ofs({"register"}) = {}
      BY <2>2 DEF PlaceKnown
    <3>2. ASSUME NEW p \in Procs, Start(p) \/ Step(p) \/ Crash(p)
          PROVE  registered' = registered /\ Ofs({"register"})' \subseteq Ofs({"register"})
      <4>1. ~ RenameVariant(p)
        BY <3>1 DEF RenameVariant, In, Ofs
      <4>2. \A v \in Variants : ~ CheckVariant(p, v)
        BY <3>1 DEF CheckVariant
      <4> QED BY <3>2, <4>1, <4>2, OthersRegisterNothing
    <3>3. (UNCHANGED vars \/ \E a \in MayDrift : Edit(a)) =>
             registered' = registered /\ Ofs({"register"})' \subseteq Ofs({"register"})
      BY DEF vars, files, Edit, Ofs
    <3> QED BY <1>1, <3>1, <3>2, <3>3 DEF Next
  <2> QED BY <2>1, <2>2, <2>3, <2>4 DEF PlaceKnown
<1>2. ASSUME NEW i \in Importers, PlaceImported(i), ~ session
      PROVE  IInv' /\ Stands /\ PlaceKnown' /\ (session => session')
  <2>1. /\ session' = TRUE /\ registered' = import[i].package.variants
        /\ UNCHANGED <<prepared, verification, coverage, drifted, call, answer>>
    BY <1>2 DEF PlaceImported
  <2>2. import[i].package \in Packages /\ Importable(import[i].package)
    BY <1>2 DEF PlaceImported, At, ImportKnown, HTypeOK, ImportRecords
  <2>3. registered' \in SUBSET Variants /\ Cardinality(registered') <= MaxVariants
    BY <2>1, <2>2, PackageVariants DEF Importable, Authentic
  <2>4. IInv' /\ Stands
    BY <1>2, <2>1, <2>3, PlacedKeep
  <2>5. PlaceKnown'
    BY <1>2, <2>1 DEF PlaceKnown
  <2> QED BY <1>2, <2>4, <2>5
<1>3. ASSUME NEW i \in Importers, Die(i)
      PROVE  IInv' /\ Stands /\ PlaceKnown' /\ (session => session')
  <2>1. Returns(i) /\ UNCHANGED <<files, drifted, answer>> /\ i \in Procs
    BY <1>3, OneOrTheOther DEF Die
  <2>2. IInv' /\ Stands /\ Ofs({"register"})' \subseteq Ofs({"register"})
    BY <2>1, EndsKeep
  <2> QED BY <2>1, <2>2 DEF PlaceKnown, files
<1> QED BY <1>1, <1>2, <1>3, StepsOfSession

-----------------------------------------------------------------------------
(* One importer's step. *)

\* The import is at a stage, with what is left; the others are where they were.
Moved(i, stage, left) ==
  /\ import'[i].stage = stage /\ import'[i].left = left
  /\ import'[i].package = import[i].package
  /\ \A j \in Importers \ {i} : import'[j] = import[j]
  /\ import' \in [Importers -> ImportRecords]

LEMMA Moves ==
  ASSUME HTypeOK, NEW i \in Importers
  PROVE  /\ \A s \in ImportStages : Goes(i, s) => Moved(i, s, import[i].left)
         /\ \A L \in SUBSET Variants :
              import' = [import EXCEPT ![i].left = L] => Moved(i, import[i].stage, L)
         /\ \A s \in ImportStages, L \in SUBSET Variants :
              import' = [import EXCEPT ![i].stage = s, ![i].left = L] => Moved(i, s, L)
<1>0. import \in [Importers -> ImportRecords] /\ import[i] \in ImportRecords
  BY DEF HTypeOK
<1>1. ASSUME NEW r \in ImportRecords, import' = [import EXCEPT ![i] = r], r.package = import[i].package
      PROVE  Moved(i, r.stage, r.left)
  BY <1>0, <1>1 DEF Moved
<1>2. ASSUME NEW s \in ImportStages, Goes(i, s) PROVE Moved(i, s, import[i].left)
  <2> DEFINE r == [import[i] EXCEPT !.stage = s]
  <2>1. /\ r \in ImportRecords /\ r.stage = s /\ r.left = import[i].left /\ r.package = import[i].package
    BY <1>0 DEF ImportRecords
  <2>2. import' = [import EXCEPT ![i] = r]
    BY <1>2 DEF Goes
  <2> HIDE DEF r
  <2> QED BY <1>1, <2>1, <2>2
<1>3. ASSUME NEW L \in SUBSET Variants, import' = [import EXCEPT ![i].left = L]
      PROVE  Moved(i, import[i].stage, L)
  <2> DEFINE r == [import[i] EXCEPT !.left = L]
  <2>1. /\ r \in ImportRecords /\ r.stage = import[i].stage /\ r.left = L /\ r.package = import[i].package
    BY <1>0 DEF ImportRecords
  <2>2. import' = [import EXCEPT ![i] = r]
    BY <1>3
  <2> HIDE DEF r
  <2> QED BY <1>1, <2>1, <2>2
<1>4. ASSUME NEW s \in ImportStages, NEW L \in SUBSET Variants,
             import' = [import EXCEPT ![i].stage = s, ![i].left = L]
      PROVE  Moved(i, s, L)
  <2> DEFINE r == [import[i] EXCEPT !.stage = s, !.left = L]
  <2>1. /\ r \in ImportRecords /\ r.stage = s /\ r.left = L /\ r.package = import[i].package
    BY <1>0 DEF ImportRecords
  <2>2. import' = [import EXCEPT ![i] = r]
    BY <1>4
  <2> HIDE DEF r
  <2> QED BY <1>1, <2>1, <2>2
<1> QED BY <1>2, <1>3, <1>4

\* What an importer knew it knows after a step that leaves its own import and call alone.
LEMMA ImportStands ==
  ASSUME HInv, [HNext]_hvars, NEW i \in Importers, import'[i] = import[i], call'[i] = call[i],
         added'[i] = added[i], setup' = setup
  PROVE  ImportKnown(i)'
<1>1. Stands /\ (session => session') /\ ImportKnown(i)
  BY SessionPart DEF HInv
<1>2. import[i].package.variants \subseteq Variants
  BY PackageVariants DEF HInv, HTypeOK, ImportRecords
<1>3. Pending(i)' = Pending(i)
  BY DEF Pending, In
<1> QED BY <1>1, <1>2, <1>3 DEF ImportKnown, Stands, Free, In

LEMMA JudgedStands ==
  ASSUME HInv, [HNext]_hvars, NEW i \in Importers, import'[i] = import[i], call'[i] = call[i],
         added'[i] = added[i], setup' = setup,
         ~ overtaken'[i] =>
           ~ overtaken[i] /\ drifted' = drifted /\ (registered' = registered \/ ~ session)
  PROVE  JudgedKnown(i)'
<1>1. Stands /\ ImportKnown(i) /\ JudgedKnown(i)
  BY SessionPart DEF HInv
<1>2. Pending(i)' = Pending(i)
  BY DEF Pending, In
<1>3. ASSUME ~ overtaken'[i], import[i].stage \in {"check", "add"} PROVE registered' = registered
  BY <1>1, <1>3 DEF ImportKnown
<1> QED BY <1>1, <1>2, <1>3 DEF JudgedKnown, WithinLimit, Loads, Stands

\* An importer whose call is over and that holds no package needs to know nothing.
LEMMA Nothing ==
  ASSUME NEW i \in Importers, Free(i)', import'[i].stage \in {"rest", "stopped"},
         import'[i].stage = "stopped" /\ ~ setup'.reconstruct /\ ~ overtaken'[i] => added'[i] = {}
  PROVE  ImportKnown(i)' /\ JudgedKnown(i)'
BY DEF ImportKnown, JudgedKnown, Free

LEMMA BeginKeeps ==
  ASSUME HInv, [HNext]_hvars, NEW i \in Importers, Begin(i)
  PROVE  ImportKnown(i)' /\ JudgedKnown(i)' /\ HTypeOK'
<1>0. HTypeOK /\ ImportKnown(i)
  BY DEF HInv
<1>1. PICK k \in setup.packages :
        /\ Importable(k)
        /\ import' = [import EXCEPT ![i] = [stage |-> IF session THEN "open" ELSE "place",
                                            package |-> k, left |-> {}]]
  BY DEF Begin
<1>2. /\ import'[i].stage = (IF session THEN "open" ELSE "place") /\ import'[i].package = k
      /\ added'[i] = {} /\ call' = call /\ session' = session /\ Free(i)
  BY <1>0, <1>1 DEF HTypeOK, Begin, SessionUnchanged, vars
<1>3. Importable(k)
  BY <1>1
<1>4. HTypeOK'
  <2>1. k \in Packages
    BY <1>0, <1>1 DEF HTypeOK, Packages, SetupPackages
  <2>2. import' \in [Importers -> ImportRecords]
    BY <1>0, <1>1, <2>1 DEF HTypeOK, ImportRecords, ImportStages
  <2>3. added' \in [Importers -> SUBSET Variants]
    BY <1>0 DEF HTypeOK, Begin
  <2> QED BY <1>0, <2>2, <2>3 DEF HTypeOK, Begin
<1> QED BY <1>2, <1>3, <1>4 DEF ImportKnown, JudgedKnown, Free, Importable

LEMMA PlaceKeeps ==
  ASSUME HInv, [HNext]_hvars, NEW i \in Importers, PlaceImported(i)
  PROVE  ImportKnown(i)' /\ JudgedKnown(i)' /\ Moved(i, "open", import[i].left)
<1>0. HTypeOK /\ ImportKnown(i)
  BY DEF HInv
<1>1. Moved(i, "open", import[i].left)
  BY <1>0, Moves DEF PlaceImported, ImportStages
<1>2. session' = TRUE /\ added' = added /\ call' = call
  BY DEF PlaceImported, Quiet, HInv, IInv, TypeOK
<1>3. Free(i) /\ import[i].stage = "place"
  BY DEF PlaceImported, At
<1> QED BY <1>0, <1>1, <1>2, <1>3 DEF ImportKnown, JudgedKnown, Moved, Free, In

LEMMA OpenKeeps ==
  ASSUME HInv, [HNext]_hvars, NEW i \in Importers, OpenExisting(i)
  PROVE  ImportKnown(i)' /\ JudgedKnown(i)' /\ \E s \in {"check", "stopped"}, L \in SUBSET Variants : Moved(i, s, L)
<1> DEFINE k == import[i].package
<1>0. HTypeOK /\ ImportKnown(i) /\ k \in Packages
  BY DEF HInv, HTypeOK, ImportRecords
<1>1. /\ call' = call /\ registered' = registered /\ session' = session /\ added' = added
      /\ overtaken'[i] = FALSE /\ Free(i) /\ import[i].stage = "open" /\ setup' = setup
  BY <1>0 DEF OpenExisting, SessionUnchanged, vars, At, HTypeOK
<1>2. Importable(k) /\ added[i] = {} /\ session
  BY <1>0, <1>1 DEF ImportKnown
<1>3. k.variants \subseteq Variants /\ import[i].left \in SUBSET Variants
  BY <1>0, PackageVariants DEF HTypeOK, ImportRecords
<1>4. CASE SourceIntact /\ WithinLimit(k)
  <2>1. Moved(i, "check", k.variants \ registered)
    <3>1. import' = [import EXCEPT ![i].stage = "check", ![i].left = k.variants \ registered]
      BY <1>4 DEF OpenExisting
    <3>2. k.variants \ registered \in SUBSET Variants
      BY <1>3
    <3> HIDE DEF k
    <3> QED BY <1>0, <3>1, <3>2, Moves DEF ImportStages
  <2>2. Pending(i)' = {}
    BY <1>1 DEF Pending, Free, In
  <2>3. WithinLimit(k)'
    BY <1>1, <1>4, <2>1 DEF WithinLimit, Moved
  <2>4. import'[i].stage = "check" /\ import'[i].left = k.variants \ registered /\ import'[i].package = k
    BY <2>1 DEF Moved
  <2>5. Cardinality(registered' \cup k.variants) <= MaxVariants
    BY <1>1, <1>4 DEF WithinLimit
  <2>6. Free(i)'
    BY <1>1 DEF Free
  <2>7. ImportKnown(i)'
    <3> HIDE DEF k
    <3> QED BY <1>1, <1>2, <2>2, <2>4, <2>6 DEF ImportKnown, Importable
  <2>8. JudgedKnown(i)'
    <3> HIDE DEF k
    <3> QED BY <1>1, <1>2, <2>2, <2>4, <2>5 DEF JudgedKnown, WithinLimit
  <2> QED BY <1>3, <2>1, <2>7, <2>8
<1>5. CASE ~(SourceIntact /\ WithinLimit(k))
  <2>1. Moved(i, "stopped", import[i].left)
    BY <1>0, <1>5, Moves DEF OpenExisting, ImportStages
  <2>2. ImportKnown(i)' /\ JudgedKnown(i)'
    BY <1>1, <1>2, <2>1, Nothing DEF Moved, Free
  <2> QED BY <1>3, <2>1, <2>2
<1> QED BY <1>4, <1>5

LEMMA CheckKeeps ==
  ASSUME HInv, [HNext]_hvars, NEW i \in Importers, CheckCounterparts(i)
  PROVE  ImportKnown(i)' /\ JudgedKnown(i)' /\ \E s \in {"add", "stopped"}, L \in SUBSET Variants : Moved(i, s, L)
<1> DEFINE k == import[i].package
<1>0. HTypeOK /\ ImportKnown(i) /\ JudgedKnown(i) /\ import[i].left \in SUBSET Variants
  BY DEF HInv, HTypeOK, ImportRecords
<1>1. /\ call' = call /\ registered' = registered /\ session' = session /\ added' = added
      /\ drifted' = drifted
      /\ overtaken' = overtaken /\ setup' = setup /\ Free(i) /\ import[i].stage = "check"
  BY DEF CheckCounterparts, SessionUnchanged, Quiet, vars, At
<1>2. Pending(i)' = {} /\ Pending(i) = {} /\ Free(i)'
  BY <1>1 DEF Pending, Free, In
<1>3. CASE CounterpartsMatch(i)
  <2>1. Moved(i, "add", import[i].left)
    BY <1>0, <1>3, Moves DEF CheckCounterparts, ImportStages
  <2>2. ImportKnown(i)'
    BY <1>0, <1>1, <1>2, <2>1 DEF ImportKnown, Moved
  <2>3. JudgedKnown(i)'
    BY <1>0, <1>1, <1>2, <1>3, <2>1 DEF JudgedKnown, Moved, CounterpartsMatch, Loads, WithinLimit
  <2> QED BY <1>0, <2>1, <2>2, <2>3
<1>4. CASE ~ CounterpartsMatch(i)
  <2>1. Moved(i, "stopped", import[i].left)
    BY <1>0, <1>4, Moves DEF CheckCounterparts, ImportStages
  <2>2. added'[i] = {}
    BY <1>0, <1>1 DEF ImportKnown
  <2>3. ImportKnown(i)' /\ JudgedKnown(i)'
    BY <1>2, <2>1, <2>2, Nothing DEF Moved
  <2> QED BY <1>0, <2>1, <2>3
<1> QED BY <1>3, <1>4

LEMMA AddKeeps ==
  ASSUME HInv, [HNext]_hvars, NEW i \in Importers, NEW v \in Variants, AddMissing(i, v)
  PROVE  /\ ImportKnown(i)' /\ JudgedKnown(i)' /\ added' \in [Importers -> SUBSET Variants]
         /\ \E s \in {"add", "stopped"}, L \in SUBSET Variants : Moved(i, s, L)
<1> DEFINE k == import[i].package
           left == import[i].left
<1>0. /\ HTypeOK /\ ImportKnown(i) /\ JudgedKnown(i) /\ left \in SUBSET Variants /\ k.variants \subseteq Variants
      /\ i \in Procs
  BY PackageVariants, OneOrTheOther DEF HInv, HTypeOK, ImportRecords
<1>1. /\ registered' = registered /\ session' = session /\ drifted' = drifted
      /\ overtaken' = overtaken /\ setup' = setup /\ Free(i) /\ import[i].stage = "add" /\ v \in left
      /\ added' = added \/ added' = [added EXCEPT ![i] = @ \cup {v}]
  BY DEF AddMissing, CheckVariant, files, SessionUnchanged, vars, At
<1>2. Pending(i) = {} /\ session /\ Importable(k) /\ left \subseteq k.variants
      /\ k.variants \ left \subseteq registered
  BY <1>0, <1>1 DEF Pending, Free, In, ImportKnown
<1>3. added' \in [Importers -> SUBSET Variants]
  BY <1>0, <1>1 DEF HTypeOK
<1>4. WithinLimit(k) => Cardinality(registered' \cup k.variants) <= MaxVariants
  BY <1>1 DEF WithinLimit
<1>5. left \ {v} \in SUBSET Variants
  BY <1>0
<1>6. ASSUME CheckVariant(i, v), import' = [import EXCEPT ![i].left = @ \ {v}]
      PROVE  ImportKnown(i)' /\ JudgedKnown(i)' /\ Moved(i, "add", left \ {v})
  <2>1. Moved(i, "add", left \ {v})
    BY <1>0, <1>1, <1>5, <1>6, Moves
  <2>2. call'[i].op = "register" /\ call'[i].variant = v
    <3>1. call'[i] = Doing("register", v)
      BY <1>0, <1>6 DEF CheckVariant, Becomes, HInv, IInv, TypeOK
    <3> QED BY <3>1 DEF Doing, Idle
  <2>3. Pending(i)' = {v} /\ ~ Free(i)' /\ In(i, "register")'
    BY <2>2 DEF Pending, In, Free
  <2>4. v \notin registered
    BY <1>6 DEF CheckVariant
  <2>5. /\ import'[i].stage = "add" /\ import'[i].left = left \ {v} /\ import'[i].package = k
    BY <2>1 DEF Moved
  <2> HIDE DEF k, left
  <2>6. ImportKnown(i)'
    BY <1>1, <1>2, <2>2, <2>3, <2>5 DEF ImportKnown, Importable
  <2>7. JudgedKnown(i)'
    <3>1. ~ setup.reconstruct /\ ~ overtaken[i] =>
            left \cap registered = {} /\ WithinLimit(k) /\ \A x \in k.variants \ left : Loads(x)
      BY <1>0, <1>1, <1>2 DEF JudgedKnown, k, left
    <3> QED BY <1>1, <1>4, <2>3, <2>4, <2>5, <3>1 DEF JudgedKnown, Loads, WithinLimit
  <2> QED BY <2>1, <2>6, <2>7
<1>7. ASSUME Loads(v), import' = [import EXCEPT ![i].left = @ \ {v}], SessionUnchanged
      PROVE  ImportKnown(i)' /\ JudgedKnown(i)' /\ Moved(i, "add", left \ {v})
  <2>1. Moved(i, "add", left \ {v})
    BY <1>0, <1>1, <1>5, <1>7, Moves
  <2>2. Pending(i)' = {} /\ Free(i)'
    BY <1>1, <1>2, <1>7 DEF Pending, In, Free, SessionUnchanged, vars
  <2>3. v \in registered
    BY <1>7 DEF Loads
  <2>4. /\ import'[i].stage = "add" /\ import'[i].left = left \ {v} /\ import'[i].package = k
    BY <2>1 DEF Moved
  <2> HIDE DEF k, left
  <2>5. ImportKnown(i)'
    BY <1>1, <1>2, <2>2, <2>3, <2>4 DEF ImportKnown, Importable
  <2>6. JudgedKnown(i)'
    <3>1. ~ setup.reconstruct /\ ~ overtaken[i] =>
            left \cap registered = {} /\ WithinLimit(k) /\ \A x \in k.variants \ left : Loads(x)
      BY <1>0, <1>1, <1>2 DEF JudgedKnown, k, left
    <3> QED BY <1>1, <1>4, <1>7, <2>2, <2>4, <3>1 DEF JudgedKnown, Loads, WithinLimit
  <2> QED BY <2>1, <2>5, <2>6
<1>8. ASSUME ~ Loads(v), v \in registered \/ ~ BelowLimit, Goes(i, "stopped"), SessionUnchanged
      PROVE  ImportKnown(i)' /\ JudgedKnown(i)' /\ Moved(i, "stopped", left)
  <2>1. Moved(i, "stopped", left)
    BY <1>0, <1>8, Moves DEF ImportStages
  \* What is missing fits, if nobody came in between: then there is room for one more.
  <2>2. setup.reconstruct \/ overtaken[i]
    <3> SUFFICES ASSUME ~ setup.reconstruct, ~ overtaken[i] PROVE FALSE
      OBVIOUS
    <3>1. v \notin registered /\ Cardinality(registered \cup k.variants) <= MaxVariants
      BY <1>0, <1>1 DEF JudgedKnown, WithinLimit
    <3>2. registered \in SUBSET Variants /\ IsFiniteSet(Variants) /\ MaxVariants \in Nat
      BY ConstantsAssumption DEF HInv, IInv, TypeOK
    <3>3. IsFiniteSet(registered) /\ IsFiniteSet(registered \cup k.variants)
      BY <1>0, <3>2, FS_Subset
    <3>4. registered \cup {v} \subseteq registered \cup k.variants
      BY <1>1, <1>2
    <3>5. Cardinality(registered \cup {v}) <= Cardinality(registered \cup k.variants)
      BY <3>3, <3>4, FS_Subset
    <3>6. Cardinality(registered \cup {v}) = Cardinality(registered) + 1
      BY <3>1, <3>3, FS_AddElement
    <3>7. Cardinality(registered) \in Nat /\ Cardinality(registered \cup k.variants) \in Nat
      BY <3>3, FS_CardinalityType
    <3> QED BY <1>8, <3>1, <3>2, <3>5, <3>6, <3>7 DEF BelowLimit
  <2>3. Free(i)'
    BY <1>1, <1>8 DEF Free, SessionUnchanged, vars
  <2>4. import'[i].stage = "stopped"
    BY <2>1 DEF Moved
  <2> HIDE DEF left
  <2> QED BY <1>1, <2>1, <2>2, <2>3, <2>4, Nothing
<1>9. \/ CheckVariant(i, v) /\ import' = [import EXCEPT ![i].left = @ \ {v}]
      \/ Loads(v) /\ import' = [import EXCEPT ![i].left = @ \ {v}] /\ SessionUnchanged
      \/ ~ Loads(v) /\ (v \in registered \/ ~ BelowLimit) /\ Goes(i, "stopped") /\ SessionUnchanged
  BY DEF AddMissing
<1> QED BY <1>0, <1>3, <1>5, <1>6, <1>7, <1>8, <1>9

LEMMA AllAddedKeeps ==
  ASSUME HInv, [HNext]_hvars, NEW i \in Importers, AllAdded(i)
  PROVE  ImportKnown(i)' /\ JudgedKnown(i)' /\ \E s \in {"prepare", "imported"}, L \in SUBSET Variants : Moved(i, s, L)
<1> DEFINE k == import[i].package
<1>0. HTypeOK /\ ImportKnown(i) /\ JudgedKnown(i) /\ k.variants \subseteq Variants
  BY PackageVariants DEF HInv, HTypeOK, ImportRecords
<1>1. /\ call' = call /\ registered' = registered /\ session' = session /\ prepared' = prepared
      /\ added' = added /\ drifted' = drifted /\ overtaken' = overtaken /\ setup' = setup
      /\ Free(i) /\ import[i].stage = "add" /\ import[i].left = {}
  BY DEF AllAdded, SessionUnchanged, Quiet, vars, At
<1>2. Pending(i) = {} /\ Free(i)' /\ session /\ Importable(k) /\ k.variants \subseteq registered
  BY <1>0, <1>1 DEF Pending, Free, In, ImportKnown
<1>3. CASE setup.reconstruct
  <2>1. Moved(i, "prepare", k.variants)
    <3>1. import' = [import EXCEPT ![i].stage = "prepare", ![i].left = k.variants]
      BY <1>1, <1>3 DEF AllAdded
    <3> HIDE DEF k
    <3> QED BY <1>0, <3>1, Moves DEF ImportStages
  <2>2. /\ import'[i].stage = "prepare" /\ import'[i].left = k.variants /\ import'[i].package = k
    BY <2>1 DEF Moved
  <2> HIDE DEF k
  <2>3. ImportKnown(i)' /\ JudgedKnown(i)'
    BY <1>1, <1>2, <1>3, <2>2 DEF ImportKnown, JudgedKnown, Importable
  <2> QED BY <1>0, <2>1, <2>3
<1>4. CASE ~ setup.reconstruct
  <2>1. Moved(i, "imported", {})
    <3>1. import' = [import EXCEPT ![i].stage = "imported", ![i].left = {}]
      BY <1>1, <1>4 DEF AllAdded
    <3> QED BY <1>0, <3>1, Moves DEF ImportStages
  <2>2. /\ import'[i].stage = "imported" /\ import'[i].package = k
    BY <2>1 DEF Moved
  <2>3. ~ overtaken[i] => \A x \in k.variants : Loads(x)
    BY <1>0, <1>1, <1>2, <1>4 DEF JudgedKnown
  <2> HIDE DEF k
  <2>4. ImportKnown(i)' /\ JudgedKnown(i)'
    BY <1>1, <1>2, <1>4, <2>2, <2>3 DEF ImportKnown, JudgedKnown, Importable, Loads
  <2> QED BY <2>1, <2>4
<1> QED BY <1>3, <1>4

LEMMA PrepareKeeps ==
  ASSUME HInv, [HNext]_hvars, NEW i \in Importers, NEW v \in Variants, PrepareNext(i, v)
  PROVE  /\ ImportKnown(i)' /\ JudgedKnown(i)'
         /\ \E s \in {"prepare", "stopped"}, L \in SUBSET Variants : Moved(i, s, L)
<1> DEFINE k == import[i].package
           left == import[i].left
<1>0. HTypeOK /\ ImportKnown(i) /\ left \in SUBSET Variants /\ i \in Procs
  BY OneOrTheOther DEF HInv, HTypeOK, ImportRecords
<1>1. /\ registered' = registered /\ session' = session /\ prepared' = prepared
      /\ overtaken' = overtaken /\ setup' = setup /\ added' = added
      /\ Free(i) /\ import[i].stage = "prepare" /\ v \in left
  BY DEF PrepareNext, CheckUnprepared, files, SessionUnchanged, vars, At, Quiet
<1>2. /\ session /\ Importable(k) /\ k.variants \subseteq registered /\ setup.reconstruct
      /\ \A x \in k.variants \ left : prepared[x] = Complete
  BY <1>0, <1>1 DEF ImportKnown
<1>3. ASSUME NEW L \in SUBSET Variants, Moved(i, "prepare", L),
             \A x \in k.variants \ L : prepared[x] = Complete,
             Free(i)' \/ call'[i].op = "mkdir"
      PROVE  ImportKnown(i)' /\ JudgedKnown(i)'
  <2>1. import'[i].stage = "prepare" /\ import'[i].left = L /\ import'[i].package = k
    BY <1>3 DEF Moved
  <2> HIDE DEF k
  <2> QED BY <1>1, <1>2, <1>3, <2>1 DEF ImportKnown, JudgedKnown, Importable
<1>4. CASE CheckUnprepared(i, v) /\ UNCHANGED import
  <2>1. Moved(i, "prepare", left)
    BY <1>0, <1>1, <1>4 DEF Moved, HTypeOK
  <2>2. call'[i].op = "mkdir"
    <3>1. call'[i] = Doing("mkdir", v)
      BY <1>0, <1>4 DEF CheckUnprepared, Becomes, HInv, IInv, TypeOK
    <3> QED BY <3>1 DEF Doing, Idle
  <2> QED BY <1>0, <1>2, <1>3, <2>1, <2>2
<1>5. CASE IsPrepared(v) /\ import' = [import EXCEPT ![i].left = @ \ {v}] /\ SessionUnchanged
  <2>1. Moved(i, "prepare", left \ {v}) /\ left \ {v} \in SUBSET Variants
    BY <1>0, <1>1, <1>5, Moves
  <2>2. \A x \in k.variants \ (left \ {v}) : prepared[x] = Complete
    BY <1>2, <1>5 DEF IsPrepared
  <2>3. Free(i)'
    BY <1>1, <1>5 DEF Free, SessionUnchanged, vars
  <2> QED BY <1>3, <2>1, <2>2, <2>3
<1>6. CASE Goes(i, "stopped") /\ SessionUnchanged
  <2>1. Moved(i, "stopped", left)
    BY <1>0, <1>6, Moves DEF ImportStages
  <2>2. Free(i)' /\ import'[i].stage = "stopped"
    BY <1>1, <1>6, <2>1 DEF Free, SessionUnchanged, vars, Moved
  <2>3. ImportKnown(i)' /\ JudgedKnown(i)'
    BY <1>1, <1>2, <2>2, Nothing
  <2> QED BY <1>0, <2>1, <2>3
<1> QED BY <1>4, <1>5, <1>6 DEF PrepareNext

LEMMA CompareKeeps ==
  ASSUME HInv, [HNext]_hvars, NEW i \in Importers, CompareReferences(i)
  PROVE  /\ ImportKnown(i)' /\ JudgedKnown(i)'
         /\ \E s \in {"imported", "stopped"}, L \in SUBSET Variants : Moved(i, s, L)
<1> DEFINE k == import[i].package
<1>0. HTypeOK /\ ImportKnown(i) /\ import[i].left \in SUBSET Variants
  BY DEF HInv, HTypeOK, ImportRecords
<1>1. /\ call' = call /\ registered' = registered /\ session' = session /\ prepared' = prepared
      /\ overtaken' = overtaken /\ setup' = setup
      /\ Free(i) /\ import[i].stage = "prepare" /\ import[i].left = {}
  BY DEF CompareReferences, SessionUnchanged, vars, At, Quiet
<1>2. /\ session /\ Importable(k) /\ k.variants \subseteq registered /\ setup.reconstruct
      /\ \A x \in k.variants : prepared[x] = Complete
  BY <1>0, <1>1 DEF ImportKnown
<1>3. CASE Reconstructed(k)
  <2>1. Moved(i, "imported", import[i].left)
    BY <1>0, <1>3, Moves DEF CompareReferences, ImportStages
  <2>2. /\ import'[i].stage = "imported" /\ import'[i].package = k /\ Free(i)'
    BY <1>1, <2>1 DEF Moved, Free
  <2>3. \A x \in k.variants : k.reference[x] # "other"
    BY <1>3 DEF Reconstructed
  <2> HIDE DEF k
  <2>4. ImportKnown(i)' /\ JudgedKnown(i)'
    BY <1>1, <1>2, <2>2, <2>3 DEF ImportKnown, JudgedKnown, Importable
  <2> QED BY <1>0, <2>1, <2>4
<1>4. CASE ~ Reconstructed(k)
  <2>1. Moved(i, "stopped", import[i].left)
    BY <1>0, <1>4, Moves DEF CompareReferences, ImportStages
  <2>2. Free(i)' /\ import'[i].stage = "stopped"
    BY <1>1, <2>1 DEF Free, Moved
  <2>3. ImportKnown(i)' /\ JudgedKnown(i)'
    BY <1>1, <1>2, <2>2, Nothing
  <2> QED BY <1>0, <2>1, <2>3
<1> QED BY <1>3, <1>4

LEMMA DieKeeps ==
  ASSUME HInv, [HNext]_hvars, NEW i \in Importers, Die(i)
  PROVE  ImportKnown(i)' /\ JudgedKnown(i)' /\ import' \in [Importers -> ImportRecords]
<1>0. import' = [import EXCEPT ![i] = Resting] /\ Returns(i) /\ import \in [Importers -> ImportRecords]
      /\ i \in Procs
  BY OneOrTheOther DEF Die, HInv, HTypeOK
<1>1. Resting \in ImportRecords /\ Resting.stage = "rest"
  BY DEF Resting, ImportRecords, ImportStages, Packages
<1>2. import'[i].stage = "rest" /\ import' \in [Importers -> ImportRecords]
  BY <1>0, <1>1
<1>3. Free(i)'
  BY <1>0 DEF Free, Returns, Becomes, Idle, HInv, IInv, TypeOK
<1> QED BY <1>2, <1>3, Nothing

\* A call of the session in progress is another process's ...
LEMMA OtherCallKeeps ==
  ASSUME HInv, [HNext]_hvars, NEW p \in Procs, CallStep(p), NEW i \in Importers, i # p
  PROVE  ImportKnown(i)' /\ JudgedKnown(i)' /\ import'[i] = import[i]
<1>0. HTypeOK /\ i \in Procs /\ TypeOK
  BY OneOrTheOther DEF HInv, IInv
<1>1. call'[i] = call[i]
  BY <1>0, OneCallMoves DEF CallStep
<1>2. import'[i] = import[i]
  BY <1>1 DEF CallStep, AfterCall, In
<1>3. added'[i] = added[i] /\ setup' = setup
  BY DEF CallStep
<1>4. drifted' = drifted
  BY DEF CallStep, Step, PlaceSession, RenameVariant, MakeDirectory, SaveFile, CreateCoverage,
     WriteCoverage,
       VerifierAnswers, CreateRecord, WriteRecord, ReadVariant, AnswerComparison
<1>5. ~ overtaken'[i] => ~ overtaken[i] /\ registered' = registered
  BY DEF CallStep
<1> QED BY <1>1, <1>2, <1>3, <1>4, <1>5, ImportStands, JudgedStands

\* ... or the importer's own: a registration, or a preparation.
LEMMA OwnCallKeeps ==
  ASSUME HInv, [HNext]_hvars, NEW i \in Importers, CallStep(i)
  PROVE  /\ ImportKnown(i)' /\ JudgedKnown(i)'
         /\ \E s \in {import[i].stage, "stopped"} : import'[i] = [import[i] EXCEPT !.stage = s]
<1> DEFINE k == import[i].package
           left == import[i].left
<1>0. /\ HTypeOK /\ ImportKnown(i) /\ JudgedKnown(i) /\ CallKnown(i) /\ import[i] \in ImportRecords
      /\ i \in Procs /\ TypeOK /\ call \in [Procs -> Calls] /\ PlaceKnown /\ k.variants \subseteq Variants
  BY OneOrTheOther, PackageVariants DEF HInv, HTypeOK, ImportRecords, IInv, TypeOK
<1>1. Step(i) /\ added' = added /\ setup' = setup /\ import'[i] = AfterCall(i)
  BY DEF CallStep
<1>2. Stands /\ (session => session')
  BY SessionPart
<1>3. overtaken'[i] = overtaken[i]
  BY <1>0 DEF CallStep, HTypeOK
<1>4. import[i] = [import[i] EXCEPT !.stage = import[i].stage]
  BY <1>0 DEF ImportRecords
<1>5. CASE RenameVariant(i)
  <2>1. In(i, "register") /\ import[i].stage = "add" /\ call[i].variant \in k.variants \ left
    BY <1>0, <1>5 DEF RenameVariant, In, Free, ImportKnown
  <2>2. PICK v \in Variants : v = call[i].variant
    BY <1>0, <2>1
  <2>3. import'[i] = import[i]
    BY <1>1, <2>1 DEF AfterCall, In
  <2>4. registered' = registered \cup {v} /\ drifted' = drifted /\ prepared' = prepared /\ session' = session
    BY <1>5, <2>2 DEF RenameVariant
  <2>5. Free(i)' /\ Pending(i)' = {} /\ Pending(i) = {v}
    BY <1>0, <1>5, <2>1, <2>2 DEF RenameVariant, Returns, Becomes, Idle, Free, Pending, In
  <2>6. registered \subseteq Variants /\ v \in k.variants \ left
    BY <1>0, <2>1, <2>2 DEF TypeOK
  <2>7. ImportKnown(i)'
    <3>1. session /\ Importable(k) /\ left \subseteq k.variants /\ k.variants \ left \subseteq registered \cup {v}
      BY <1>0, <2>1, <2>5 DEF ImportKnown
    <3> HIDE DEF k, left
    <3>2. import'[i].stage = "add" /\ import'[i].left = left /\ import'[i].package = k
      BY <2>1, <2>3 DEF k, left
    <3> QED BY <2>4, <2>5, <3>1, <3>2 DEF ImportKnown, Importable
  <2>8. JudgedKnown(i)'
    <3> SUFFICES ASSUME ~ setup.reconstruct, ~ overtaken[i] PROVE JudgedKnown(i)'
      BY <1>1, <1>3 DEF JudgedKnown
    <3>1. /\ (left \cup {v}) \cap registered = {} /\ Cardinality(registered \cup k.variants) <= MaxVariants
          /\ \A x \in (k.variants \ left) \ {v} : Loads(x)
      BY <1>0, <2>1, <2>5 DEF JudgedKnown, WithinLimit
    <3>2. v \notin drifted
      BY <1>0, <3>1, ConstantsAssumption DEF PlaceKnown
    <3>3. registered' \cup k.variants = registered \cup k.variants
      BY <2>4, <2>6
    <3> HIDE DEF k, left
    <3>4. import'[i].stage = "add" /\ import'[i].left = left /\ import'[i].package = k
      BY <2>1, <2>3 DEF k, left
    <3> QED BY <2>4, <2>5, <2>6, <3>1, <3>2, <3>3, <3>4 DEF JudgedKnown, WithinLimit, Loads
  <2> QED BY <1>4, <2>3, <2>7, <2>8
<1>6. ASSUME call[i].op \in {"mkdir", "save"}, call'[i].op \in {"mkdir", "save", "idle"},
             \/ import'[i] = import[i]
             \/ call'[i].op = "idle" /\ import'[i] = [import[i] EXCEPT !.stage = "stopped"]
      PROVE  ImportKnown(i)' /\ JudgedKnown(i)'
  <2>1. /\ import[i].stage = "prepare" /\ setup.reconstruct /\ Importable(k) /\ session
        /\ k.variants \subseteq registered /\ \A x \in k.variants \ left : prepared[x] = Complete
    BY <1>0, <1>6 DEF Free, In, ImportKnown
  <2>0. Free(i)' <=> call'[i].op = "idle"
    BY DEF Free
  <2>2. CASE import'[i] = import[i]
    <3>1. import'[i].stage = "prepare" /\ import'[i].left = left /\ import'[i].package = k
      BY <2>1, <2>2
    <3>2. k.variants \subseteq registered' /\ \A x \in k.variants \ left : prepared'[x] = Complete
      BY <1>0, <1>2, <2>1 DEF Stands
    <3> HIDE DEF k, left
    <3> QED BY <1>1, <1>2, <1>6, <2>0, <2>1, <3>1, <3>2 DEF ImportKnown, JudgedKnown, Importable
  <2>3. CASE call'[i].op = "idle" /\ import'[i] = [import[i] EXCEPT !.stage = "stopped"]
    <3>1. import'[i].stage = "stopped"
      BY <1>0, <2>3 DEF ImportRecords
    <3> QED BY <1>1, <2>0, <2>1, <2>3, <3>1, Nothing
  <2> QED BY <1>6, <2>2, <2>3
<1>7. CASE MakeDirectory(i)
  <2>1. call[i].op = "mkdir"
    BY <1>7 DEF MakeDirectory, In
  <2>2. call'[i].op \in {"save", "idle"}
    <3>1. call'[i] = Doing("save", call[i].variant) \/ call'[i] = Idle
      BY <1>0, <1>7 DEF MakeDirectory, Becomes, Returns
    <3>2. Doing("save", call[i].variant).op = "save" /\ Idle.op = "idle"
      BY DEF Doing, Idle
    <3> QED BY <3>1, <3>2
  <2>3. import'[i] = IF call'[i].op = "idle" THEN [import[i] EXCEPT !.stage = "stopped"] ELSE import[i]
    BY <1>1, <2>1 DEF AfterCall, In
  <2>4. ImportKnown(i)' /\ JudgedKnown(i)'
    BY <1>6, <2>1, <2>2, <2>3
  <2> QED BY <1>4, <2>2, <2>3, <2>4
<1>8. CASE SaveFile(i)
  <2>1. call[i].op = "save" /\ call'[i].op \in {"save", "idle"}
    BY <1>0, <1>8 DEF SaveFile, In, Becomes, Idle
  <2>2. import'[i] = import[i]
    BY <1>1, <2>1 DEF AfterCall, In
  <2>3. ImportKnown(i)' /\ JudgedKnown(i)'
    BY <1>6, <2>1, <2>2
  <2> QED BY <1>4, <2>2, <2>3
<1>9. call[i].op \in {"register", "mkdir", "save", "idle"}
  BY <1>0 DEF ImportKnown, Free, In
<1> QED BY <1>1, <1>5, <1>7, <1>8, <1>9
        DEF Step, PlaceSession, CreateCoverage, WriteCoverage, VerifierAnswers, CreateRecord,
            WriteRecord, ReadVariant, AnswerComparison, In

\* Another importer's step.
LEMMA OtherImporterKeeps ==
  ASSUME HInv, [HNext]_hvars, NEW j \in Importers, NEW i \in Importers, i # j,
         Begin(j) \/ ImportStep(j) \/ Die(j)
  PROVE  ImportKnown(i)' /\ JudgedKnown(i)'
<1>0. HTypeOK /\ TypeOK /\ i \in Procs /\ j \in Procs
  BY OneOrTheOther DEF HInv, IInv
<1>1. \A s, L : Moved(j, s, L) => import'[i] = import[i]
  BY DEF Moved
<1>2. ASSUME call'[i] = call[i], import'[i] = import[i], added'[i] = added[i], setup' = setup,
             overtaken'[i] = overtaken[i], drifted' = drifted, registered' = registered \/ ~ session
      PROVE  ImportKnown(i)' /\ JudgedKnown(i)'
  BY <1>2, ImportStands, JudgedStands
<1>3. CASE Begin(j)
  BY <1>0, <1>2, <1>3 DEF Begin, SessionUnchanged, vars, HTypeOK
<1>4. CASE PlaceImported(j)
  BY <1>1, <1>2, <1>4, PlaceKeeps DEF PlaceImported, Quiet
<1>5. CASE OpenExisting(j)
  BY <1>0, <1>1, <1>2, <1>5, OpenKeeps DEF OpenExisting, SessionUnchanged, vars, HTypeOK
<1>6. CASE CheckCounterparts(j)
  BY <1>1, <1>2, <1>6, CheckKeeps DEF CheckCounterparts, SessionUnchanged, vars, Quiet
<1>7. CASE AllAdded(j)
  BY <1>1, <1>2, <1>7, AllAddedKeeps DEF AllAdded, SessionUnchanged, vars, Quiet
<1>8. CASE CompareReferences(j)
  BY <1>1, <1>2, <1>8, CompareKeeps DEF CompareReferences, SessionUnchanged, vars, Quiet
<1>9. ASSUME NEW v \in Variants, AddMissing(j, v) PROVE ImportKnown(i)' /\ JudgedKnown(i)'
  <2>1. import'[i] = import[i]
    BY <1>1, <1>9, AddKeeps
  <2>2. call'[i] = call[i] /\ registered' = registered /\ drifted' = drifted
    BY <1>0, <1>9 DEF AddMissing, CheckVariant, Becomes, files, SessionUnchanged, vars, TypeOK
  <2>3. added'[i] = added[i] /\ setup' = setup /\ overtaken' = overtaken
    BY <1>0, <1>9 DEF AddMissing, HTypeOK
  <2> QED BY <1>2, <2>1, <2>2, <2>3
<1>10. ASSUME NEW v \in Variants, PrepareNext(j, v) PROVE ImportKnown(i)' /\ JudgedKnown(i)'
  <2>1. import'[i] = import[i]
    BY <1>1, <1>10, PrepareKeeps
  <2>2. call'[i] = call[i] /\ registered' = registered /\ drifted' = drifted
    BY <1>0, <1>10 DEF PrepareNext, CheckUnprepared, Becomes, files, SessionUnchanged, vars, TypeOK
  <2>3. added' = added /\ setup' = setup /\ overtaken' = overtaken
    BY <1>10 DEF PrepareNext, Quiet
  <2> QED BY <1>2, <2>1, <2>2, <2>3
<1>11. CASE Die(j)
  BY <1>0, <1>2, <1>11 DEF Die, Returns, Becomes, files, HTypeOK, TypeOK
<1> QED BY <1>3, <1>4, <1>5, <1>6, <1>7, <1>8, <1>9, <1>10, <1>11 DEF ImportStep

LEMMA ImportsStep ==
  ASSUME HInv, [HNext]_hvars, NEW i \in Importers
  PROVE  ImportKnown(i)' /\ JudgedKnown(i)'
<1>0. HTypeOK /\ TypeOK /\ i \in Procs /\ i \notin Users
  BY OneOrTheOther DEF HInv, IInv
<1>1. CASE UNCHANGED hvars
  BY <1>1, ImportStands, JudgedStands DEF hvars, vars
<1>2. ASSUME NEW p \in Procs, CallStep(p) PROVE ImportKnown(i)' /\ JudgedKnown(i)'
  BY <1>2, OtherCallKeeps, OwnCallKeeps
<1>3. ASSUME NEW a \in MayDrift, EditStep(a) PROVE ImportKnown(i)' /\ JudgedKnown(i)'
  <2>1. /\ import'[i] = import[i] /\ call'[i] = call[i] /\ added'[i] = added[i] /\ setup' = setup
        /\ overtaken'[i] = TRUE
    BY <1>3 DEF EditStep, Edit
  <2> QED BY <2>1, ImportStands, JudgedStands
<1>4. ASSUME NEW j \in Importers, Begin(j) \/ ImportStep(j) \/ Die(j) PROVE ImportKnown(i)' /\ JudgedKnown(i)'
  <2>1. CASE j # i
    BY <1>4, <2>1, OtherImporterKeeps
  <2>2. CASE j = i
    BY <1>4, <2>2, BeginKeeps, PlaceKeeps, OpenKeeps, CheckKeeps, AddKeeps, AllAddedKeeps,
       PrepareKeeps, CompareKeeps, DieKeeps DEF ImportStep
  <2> QED BY <2>1, <2>2
<1>5. ASSUME NEW u \in Users, UserStep(u) PROVE ImportKnown(i)' /\ JudgedKnown(i)'
  <2>1. u \in Procs /\ u # i /\ (Start(u) \/ Crash(u))
    BY <1>0, <1>5, OneOrTheOther DEF UserStep, UserStarts, Start
  <2>2. call'[i] = call[i]
    BY <1>0, <2>1, OneCallMoves
  <2>3. registered' = registered /\ drifted' = drifted
    BY <1>5 DEF UserStep, UserStarts, StageSession, CheckVariant, CheckUnprepared, Crash, files
  <2>4. import' = import /\ added' = added /\ setup' = setup /\ overtaken' = overtaken
    BY <1>5 DEF UserStep
  <2> QED BY <2>2, <2>3, <2>4, ImportStands, JudgedStands
<1>6. ASSUME NEW u \in Users, ExportStep(u) PROVE ImportKnown(i)' /\ JudgedKnown(i)'
  <2>1. ExportQuiet
    BY <1>6 DEF ExportStep, BeginExport, MakeOutput, WriteOutput, AbandonOutput, ReadEntry
  <2> QED BY <2>1, ImportStands, JudgedStands DEF ExportQuiet, SessionUnchanged, vars
<1> QED BY <1>1, <1>2, <1>3, <1>4, <1>5, <1>6 DEF HNext

LEMMA HandoffTyped ==
  ASSUME HInv, [HNext]_hvars
  PROVE  HTypeOK'
<1>0. HTypeOK
  BY DEF HInv
<1>1. CASE UNCHANGED hvars
  BY <1>0, <1>1 DEF hvars, HTypeOK
<1>2. ASSUME NEW p \in Procs, CallStep(p) PROVE HTypeOK'
  <2>1. ASSUME NEW i \in Importers PROVE AfterCall(i) \in ImportRecords
    BY <1>0 DEF HTypeOK, AfterCall, ImportRecords, ImportStages
  <2>2. import' \in [Importers -> ImportRecords]
    BY <1>2, <2>1 DEF CallStep
  <2>3. overtaken' \in [Importers -> BOOLEAN]
    BY <1>0, <1>2 DEF CallStep, HTypeOK
  <2> QED BY <1>0, <1>2, <2>2, <2>3 DEF CallStep, HTypeOK
<1>3. ASSUME NEW a \in MayDrift, EditStep(a) PROVE HTypeOK'
  BY <1>0, <1>3 DEF EditStep, HTypeOK
<1>4. ASSUME NEW i \in Importers, Begin(i) PROVE HTypeOK'
  BY <1>4, BeginKeeps
<1>5. ASSUME NEW i \in Importers, ImportStep(i) PROVE HTypeOK'
  <2>1. import' \in [Importers -> ImportRecords]
    BY <1>5, PlaceKeeps, OpenKeeps, CheckKeeps, AddKeeps, AllAddedKeeps, PrepareKeeps, CompareKeeps
       DEF ImportStep, Moved
  <2>2. added' \in [Importers -> SUBSET Variants]
    <3>1. (\E v \in Variants : AddMissing(i, v)) => added' \in [Importers -> SUBSET Variants]
      BY AddKeeps
    <3>2. (~ \E v \in Variants : AddMissing(i, v)) => added' = added
      BY <1>5 DEF ImportStep, PlaceImported, OpenExisting, CheckCounterparts, AllAdded, PrepareNext,
           CompareReferences, Quiet
    <3> QED BY <1>0, <3>1, <3>2 DEF HTypeOK
  <2>3. overtaken' \in [Importers -> BOOLEAN] /\ UNCHANGED <<setup, export, out>>
    BY <1>0, <1>5 DEF ImportStep, PlaceImported, OpenExisting, CheckCounterparts, AddMissing, AllAdded,
         PrepareNext, CompareReferences, Quiet, HTypeOK
  <2> QED BY <1>0, <2>1, <2>2, <2>3 DEF HTypeOK
<1>6. ASSUME NEW i \in Importers, Die(i) PROVE HTypeOK'
  BY <1>0, <1>6, DieKeeps DEF Die, HTypeOK
<1>7. ASSUME NEW u \in Users, UserStep(u) PROVE HTypeOK'
  BY <1>0, <1>7 DEF UserStep, HTypeOK
<1>8. ASSUME NEW u \in Users, ExportStep(u) PROVE HTypeOK'
  <2> DEFINE Exports == [stage : {"rest", "read", "write"}, left : SUBSET Variants,
                         entries : SUBSET PackageEntries]
  <2>0. export[u] \in Exports /\ out.files \in 0 .. 3 /\ out.entries \subseteq PackageEntries
        /\ registered \in SUBSET Variants
    BY <1>0 DEF HTypeOK, HInv, IInv, TypeOK
  <2>1. NotExporting \in Exports /\ NoDirectory \in [files : 0 .. 3, entries : SUBSET PackageEntries]
    BY DEF NotExporting, NoDirectory
  <2>2. ASSUME NEW e \in Exports, ExportGoes(u, e), out' \in [files : 0 .. 3, entries : SUBSET PackageEntries],
               ExportQuiet
        PROVE  HTypeOK'
    <3>1. export' \in [Users -> Exports]
      BY <1>0, <2>2 DEF ExportGoes, HTypeOK
    <3> QED BY <1>0, <2>2, <3>1 DEF ExportQuiet, HTypeOK
  <2>3. CASE BeginExport(u)
    <3>1. [stage |-> "read", left |-> registered, entries |-> {}] \in Exports
      BY <2>0
    <3> QED BY <1>0, <2>2, <2>3, <3>1 DEF BeginExport, HTypeOK
  <2>4. ASSUME NEW v \in Variants, ReadEntry(u, v) PROVE HTypeOK'
    <3> DEFINE e == [export[u] EXCEPT !.left = @ \ {v}, !.entries = @ \cup {Entry0(v, prepared[v] > 0)}]
    <3>1. Entry0(v, prepared[v] > 0) \in PackageEntries
      BY DEF Entry0, PackageEntries
    <3>2. e \in Exports
      BY <2>0, <3>1
    <3>3. ExportGoes(u, e) \/ ExportGoes(u, NotExporting)
      BY <2>4 DEF ReadEntry
    <3> HIDE DEF e
    <3> QED BY <1>0, <2>1, <2>2, <2>4, <3>2, <3>3 DEF ReadEntry, HTypeOK
  <2>5. CASE MakeOutput(u)
    <3>1. [export[u] EXCEPT !.stage = "write"] \in Exports
      BY <2>0
    <3>2. [files |-> 1, entries |-> {}] \in [files : 0 .. 3, entries : SUBSET PackageEntries]
      OBVIOUS
    <3> QED BY <1>0, <2>1, <2>2, <2>5, <3>1, <3>2 DEF MakeOutput, HTypeOK
  <2>6. CASE WriteOutput(u)
    <3>1. out.files + 1 \in 0 .. 3
      BY <2>6 DEF WriteOutput, Exporting, HInv, ExportKnown
    <3>2. out' \in [files : 0 .. 3, entries : SUBSET PackageEntries]
      BY <2>0, <2>6, <3>1 DEF WriteOutput
    <3>3. ExportGoes(u, NotExporting) \/ ExportGoes(u, export[u])
      BY <2>6 DEF WriteOutput
    <3> QED BY <2>0, <2>1, <2>2, <2>6, <3>2, <3>3 DEF WriteOutput
  <2>7. CASE AbandonOutput(u)
    BY <1>0, <2>1, <2>2, <2>7 DEF AbandonOutput, HTypeOK
  <2> QED BY <1>8, <2>3, <2>4, <2>5, <2>6, <2>7 DEF ExportStep
<1> QED BY <1>1, <1>2, <1>3, <1>4, <1>5, <1>6, <1>7, <1>8 DEF HNext

-----------------------------------------------------------------------------
(* Exporters. *)

LEMMA ToldStands ==
  ASSUME Stands, NEW e \in PackageEntries, Told(e)
  PROVE  Told(e)'
BY DEF Told, Stands, PackageEntries

LEMMA ExportsStep ==
  ASSUME HInv, [HNext]_hvars
  PROVE  ExportKnown'
<1>0. HTypeOK /\ ExportKnown /\ Stands /\ HTypeOK'
  BY SessionPart, HandoffTyped DEF HInv
<1>1. /\ \A u \in Users : \A e \in export[u].entries : e \in PackageEntries /\ Told(e)'
      /\ \A e \in out.entries : e \in PackageEntries /\ Told(e)'
  <2>1. /\ \A u \in Users : export[u].entries \subseteq PackageEntries
        /\ out.entries \subseteq PackageEntries
    BY <1>0 DEF HTypeOK
  <2> QED BY <1>0, <2>1, ToldStands DEF ExportKnown
<1>2. CASE UNCHANGED <<export, out>>
  BY <1>0, <1>1, <1>2 DEF ExportKnown
<1>3. ASSUME NEW u \in Users, ExportStep(u) PROVE ExportKnown'
  <2> DEFINE e == export[u]
  <2>0. /\ e.stage \in {"rest", "read", "write"} /\ out.files \in 0 .. 3
        /\ export \in [Users -> [stage : {"rest", "read", "write"}, left : SUBSET Variants,
                                 entries : SUBSET PackageEntries]]
    BY <1>0 DEF HTypeOK
  <2>1. \A w \in Users \ {u} : \A f : ExportGoes(u, f) => export'[w] = export[w]
    BY <2>0 DEF ExportGoes
  <2>2. \A f : ExportGoes(u, f) => export'[u] = f
    BY <2>0 DEF ExportGoes
  <2>3. NotExporting.entries = {} /\ NotExporting.stage = "rest" /\ NoDirectory.entries = {}
    BY DEF NotExporting, NoDirectory
  \* An exporter that is not writing afterwards, and a directory that stays, or whose only writer it was.
  <2>4. ASSUME NEW f, ExportGoes(u, f), f.stage # "write", \A x \in f.entries : Told(x)',
               \A x \in out'.entries : Told(x)', out' = out \/ e.stage = "write"
        PROVE  ExportKnown'
    <3>1. /\ export'[u] = f /\ \A w \in Users \ {u} : export'[w] = export[w]
      BY <2>1, <2>2, <2>4
    <3>2. \A w \in Users : export'[w].stage = "write" => w # u /\ out' = out
      BY <1>0, <2>4, <3>1 DEF ExportKnown
    <3> HIDE DEF e
    <3> QED BY <1>0, <1>1, <2>4, <3>1, <3>2 DEF ExportKnown
  <2>5. CASE BeginExport(u)
    <3> DEFINE f == [stage |-> "read", left |-> registered, entries |-> {}]
    <3>1. f.stage = "read" /\ f.entries = {} /\ ExportGoes(u, f) /\ out' = out
      BY <2>5 DEF BeginExport
    <3> HIDE DEF f
    <3> QED BY <1>1, <2>4, <3>1
  <2>6. ASSUME NEW v \in Variants, ReadEntry(u, v) PROVE ExportKnown'
    <3>1. out' = out /\ e.stage = "read" /\ registered' = registered /\ prepared' = prepared
      BY <2>6 DEF ReadEntry, Exporting, ExportQuiet, SessionUnchanged, vars
    <3>2. CASE Exportable(v)
      <4>a. Entry0(v, prepared[v] > 0) \in PackageEntries
        BY DEF Entry0, PackageEntries
      <4>0. PICK x \in PackageEntries : x = Entry0(v, prepared[v] > 0)
        BY <4>a
      <4> DEFINE f == [e EXCEPT !.left = @ \ {v}, !.entries = @ \cup {x}]
      <4>1. ExportGoes(u, f)
        BY <2>6, <3>2, <4>0 DEF ReadEntry
      <4>2. x.variant = v /\ (x.prepared <=> prepared[v] > 0)
        BY <4>0 DEF Entry0
      <4>3. Told(x)'
        BY <3>1, <3>2, <4>2 DEF Told, Exportable, Loads, Complete
      <4>4. f.stage = "read" /\ f.entries = e.entries \cup {x}
        BY <2>0, <3>1
      <4> HIDE DEF f
      <4> QED BY <1>1, <2>4, <3>1, <4>1, <4>3, <4>4
    <3>3. CASE ~ Exportable(v)
      <4>1. ExportGoes(u, NotExporting)
        BY <2>6, <3>3 DEF ReadEntry
      <4> QED BY <1>1, <2>3, <2>4, <3>1, <4>1
    <3> QED BY <3>2, <3>3
  <2>7. CASE MakeOutput(u)
    <3>1. CASE FreshOutput
      <4> DEFINE f == [e EXCEPT !.stage = "write"]
      <4>1. ExportGoes(u, f) /\ out' = [files |-> 1, entries |-> {}] /\ out.files = 0
        BY <2>7, <3>1 DEF MakeOutput, FreshOutput
      <4>2. f.stage = "write" /\ f.entries = e.entries
        BY <2>0
      <4>3. \A w \in Users : export[w].stage # "write"
        BY <1>0, <4>1 DEF ExportKnown
      <4>4. export'[u] = f /\ \A w \in Users \ {u} : export'[w] = export[w]
        BY <2>1, <2>2, <4>1
      <4>5. out'.files = 1 /\ out'.entries = {}
        BY <4>1
      <4> HIDE DEF f
      <4> QED BY <1>1, <4>2, <4>3, <4>4, <4>5 DEF ExportKnown
    <3>2. CASE ~ FreshOutput
      BY <1>1, <2>3, <2>4, <2>7, <3>2 DEF MakeOutput
    <3> QED BY <3>1, <3>2
  <2>8. CASE WriteOutput(u)
    <3>1. e.stage = "write" /\ out.files \in {1, 2}
      BY <1>0, <2>8 DEF WriteOutput, Exporting, ExportKnown
    <3>2. out'.files = out.files + 1
      BY <2>8 DEF WriteOutput
    <3>3. CASE out.files = 2
      <4>1. ExportGoes(u, NotExporting) /\ out'.entries = e.entries
        BY <2>8, <3>3 DEF WriteOutput
      <4> QED BY <1>1, <2>3, <2>4, <3>1, <4>1
    <3>4. CASE out.files = 1
      <4>1. ExportGoes(u, e) /\ out'.entries = {} /\ out'.files = 2
        BY <2>8, <3>2, <3>4 DEF WriteOutput
      <4>2. \A w \in Users : export'[w] = export[w]
        BY <2>1, <2>2, <4>1
      <4> HIDE DEF e
      <4> QED BY <1>0, <1>1, <4>1, <4>2 DEF ExportKnown
    <3> QED BY <3>1, <3>3, <3>4
  <2>9. CASE AbandonOutput(u)
    <3>1. e.stage = "write" /\ out' \in {NoDirectory, out} /\ ExportGoes(u, NotExporting)
      BY <2>9 DEF AbandonOutput, Exporting
    <3> QED BY <1>1, <2>3, <2>4, <3>1
  <2> QED BY <1>3, <2>5, <2>6, <2>7, <2>8, <2>9 DEF ExportStep
<1>4. UNCHANGED <<export, out>> \/ \E u \in Users : ExportStep(u)
  BY DEF HNext, hvars, CallStep, EditStep, Begin, ImportStep, PlaceImported, OpenExisting,
     CheckCounterparts,
       AddMissing, AllAdded, PrepareNext, CompareReferences, Die, UserStep, Quiet
<1> QED BY <1>2, <1>3, <1>4

-----------------------------------------------------------------------------
(* Theorems of the handoff. *)

LEMMA InitHandoff == HInit => HInv
<1> SUFFICES ASSUME HInit PROVE HInv
  OBVIOUS
<1>1. IInv
  BY InitKnown DEF HInit
<1>2. HTypeOK
  <2>1. Resting \in ImportRecords
    BY DEF Resting, ImportRecords, ImportStages, Packages
  <2>2. NotExporting \in [stage : {"rest", "read", "write"}, left : SUBSET Variants, entries : SUBSET PackageEntries]
    BY DEF NotExporting
  <2>3. NoDirectory \in [files : 0 .. 3, entries : SUBSET PackageEntries]
    BY DEF NoDirectory
  <2> QED BY <2>1, <2>2, <2>3 DEF HInit, HTypeOK
<1>3. \A p \in Procs : call[p].op = "idle"
  BY DEF HInit, Init, Idle
<1>4. PlaceKnown
  BY <1>3 DEF HInit, Init, PlaceKnown, Ofs
<1>5. ExportKnown
  BY DEF HInit, ExportKnown, NotExporting, NoDirectory
<1>6. ASSUME NEW i \in Importers PROVE ImportKnown(i) /\ JudgedKnown(i)
  <2>1. import[i].stage = "rest"
    BY DEF HInit, Resting
  <2>2. Free(i)
    BY <1>3, OneOrTheOther DEF Free
  <2> QED BY <2>1, <2>2 DEF ImportKnown, JudgedKnown
<1> QED BY <1>1, <1>2, <1>4, <1>5, <1>6 DEF HInv

\* The invariant of imports and exports beside everything else that is done to a session.
THEOREM HandoffInductive == HSpec => []HInv
<1>1. HInit => HInv
  BY InitHandoff
<1>2. HInv /\ [HNext]_hvars => HInv'
  BY SessionPart, HandoffTyped, ImportsStep, ExportsStep DEF HInv
<1> QED BY <1>1, <1>2, PTL DEF HSpec

\* An import that reported success is complete, for good (session/handoff.py `import_session`).
THEOREM ImportsAreComplete == HSpec => []ImportedIsComplete
<1>1. HInv => ImportedIsComplete
  BY DEF HInv, ImportKnown, ImportedIsComplete
<1> QED BY <1>1, HandoffInductive, PTL

\* An import judges the limit and every counterpart before it adds anything: unless others
\* came in between, it either changes nothing or finds the whole package intact.
THEOREM ImportsJudgeFirst == HSpec => []JudgedBeforeAdding
<1>1. HInv => JudgedBeforeAdding
  BY DEF HInv, JudgedKnown, JudgedBeforeAdding
<1> QED BY <1>1, HandoffInductive, PTL

\* A package whose manifest is there tells of what the session has, and exports do not mix.
THEOREM PackagesAreFaithful == HSpec => []PackageIsFaithful
<1>1. HInv => PackageIsFaithful
  <2> SUFFICES ASSUME HInv PROVE PackageIsFaithful
    OBVIOUS
  <2> DEFINE W == {u \in Users : export[u].stage = "write"}
  <2>1. Cardinality(W) <= 1
    <3>1. CASE W = {}
      <4>1. Cardinality({}) = 0
        BY FS_EmptySet
      <4> QED BY <3>1, <4>1
    <3>2. CASE W # {}
      <4>1. PICK u \in W : TRUE
        BY <3>2
      <4>2. W = {u}
        BY <4>1 DEF HInv, ExportKnown
      <4>3. Cardinality({u}) = 1
        BY FS_Singleton
      <4> HIDE DEF W
      <4> QED BY <4>2, <4>3
    <3> QED BY <3>1, <3>2
  <2> QED BY <2>1 DEF HInv, ExportKnown, Told, PackageIsFaithful
<1> QED BY <1>1, HandoffInductive, PTL

\* Whatever is imported, exported or edited beside it, no record is without a complete
\* preparation of its variant and a run of it.
THEOREM HandedRecordsArePrepared == HSpec => []VerifiedIsPrepared
<1>1. HInv => VerifiedIsPrepared
  BY DEF HInv, IInv, RecordsKnown
<1> QED BY <1>1, HandoffInductive, PTL

\* A package that is finished and an import that has succeeded are never taken back.
FinishedStands ==
  /\ out.files = 3 => UNCHANGED out
  /\ \A i \in Importers : import[i].stage = "imported" => import'[i] = import[i]

\* Over every step of importers, exporters and users (handoff.py's exclusive mkdir and
\* the calls that an import waits for).
THEOREM FinishedStandsHolds == HSpec => [][FinishedStands]_hvars
<1>1. ASSUME HInv, HNext, out.files = 3 PROVE UNCHANGED out
  <2>1. \A u \in Users : export[u].stage # "write"
    BY <1>1 DEF HInv, ExportKnown
  <2>2. ASSUME NEW u \in Users, ExportStep(u) PROVE UNCHANGED out
    <3>1. CASE BeginExport(u) \/ \E v \in Variants : ReadEntry(u, v)
      BY <3>1 DEF BeginExport, ReadEntry
    <3>2. CASE MakeOutput(u)
      BY <1>1, <3>2 DEF MakeOutput, FreshOutput
    <3>3. ~ WriteOutput(u) /\ ~ AbandonOutput(u)
      BY <2>1 DEF WriteOutput, AbandonOutput, Exporting
    <3> QED BY <2>2, <3>1, <3>2, <3>3 DEF ExportStep
  <2> QED BY <1>1, <2>2 DEF HNext, CallStep, EditStep, Begin, ImportStep, PlaceImported, OpenExisting,
       CheckCounterparts, AddMissing, AllAdded, PrepareNext, CompareReferences, Die, UserStep, Quiet
<1>2. ASSUME HInv, HNext, NEW i \in Importers, import[i].stage = "imported"
      PROVE  import'[i] = import[i]
  <2>1. HTypeOK /\ Free(i)
    BY <1>2 DEF HInv, ImportKnown
  <2>2. ASSUME NEW p \in Procs, CallStep(p) PROVE import'[i] = import[i]
    BY <2>1, <2>2 DEF CallStep, AfterCall, Free, In
  <2>3. ASSUME NEW j \in Importers, Begin(j) \/ ImportStep(j) \/ Die(j) PROVE import'[i] = import[i]
    <3>1. j # i
      BY <1>2, <2>3 DEF Begin, ImportStep, PlaceImported, OpenExisting, CheckCounterparts, AddMissing,
           AllAdded, PrepareNext, CompareReferences, Die, At
    <3>2. ASSUME NEW s, NEW L, Moved(j, s, L) PROVE import'[i] = import[i]
      BY <3>1, <3>2 DEF Moved
    <3>3. CASE ImportStep(j)
      BY <1>2, <3>2, <3>3, PlaceKeeps, OpenKeeps, CheckKeeps, AddKeeps, AllAddedKeeps, PrepareKeeps,
         CompareKeeps DEF ImportStep
    <3> QED BY <2>1, <2>3, <3>1, <3>3 DEF Begin, Die, HTypeOK
  <2>4. CASE UNCHANGED import
    BY <2>4
  <2> QED BY <1>2, <2>2, <2>3, <2>4 DEF HNext, EditStep, UserStep, ExportStep, BeginExport, MakeOutput,
       WriteOutput, AbandonOutput, ReadEntry, ExportQuiet
<1>3. HInv /\ [HNext]_hvars => [FinishedStands]_hvars
  BY <1>1, <1>2 DEF FinishedStands
<1> QED BY <1>3, HandoffInductive, PTL DEF HSpec
=============================================================================
