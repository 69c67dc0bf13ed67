-------------------------- MODULE EventWatchProofs --------------------------
(***************************************************************************)
(* The inductive invariant of EventWatch and the theorems it gives: all    *)
(* safety properties of the watcher, for every chain, provider and limit.  *)
(***************************************************************************)
EXTENDS EventWatch, SequenceTheorems, TLAPS

\* The main goroutine is between the consumption and native execution.
Spending == {"load", "admit", "revalidate", "native"}
Covering == {"fetch", "observe", "observeHalt", "judge", "lockMarker", "lockRow"}
Opening == {"down", "check", "generation", "activate"}
Ending == {"fail", "deferred", "waiting", "exit"}

\* What the main goroutine knows of the authority at each of its steps.
AuthorityKnown ==
  /\ state.consumed => state.lock # None
  /\ entered # << >> => state.consumed
  /\ pc \in Spending => state.consumed /\ entered = << >>
  /\ pc = "paired" => state.consumed
  /\ pc \in Covering => state.lock = None

\* Who is running at each step of the main goroutine.
ThreadsKnown ==
  /\ pc \in Opening \cup Ending \cup {"subscribe"} => reader = NoReader
  /\ pc \in Opening \cup {"exit"} => running = {}
  /\ reader.phase \in {"read", "halting", "queueing"} => reader.log \in Logs

\* A generation is counted before its socket is opened.
Budgeted ==
  connects + (IF pc \in {"activate", "subscribe"} THEN 1 ELSE 0) <= state.reconnects

\* A refusal has stopped the operation, or still holds the mutex that load needs.
RefusalHolds ==
  refused =>
    /\ entered = << >>
    /\ pc \notin {"revalidate", "native", "paired"}
    /\ pc # "down" => Terminal \/ (~ControllerFree /\ pc # "admit")

\* A case is PENDING exactly while its capture runs, until the journal is stopped.
CasesKnown ==
  /\ \A b \in running : state.cases[b] = "PENDING"
  /\ Live /\ state.stop = "none" => \A b \in Blocks : state.cases[b] = "PENDING" => b \in running
  /\ DrainCompletesCaptures
  /\ state.draining => Quiet
  /\ pc \in {"waiting", "exit"} /\ state.draining => state.stop # "none"

\* What CompleteRange has established of its range, with logs not yet observed in left.
SameChain(logs) == \A k, l \in logs : Height(k) = Height(l) => Block[k] = Block[l]
Judged(l) == Block[l] \in range.todo \/ state.cases[Block[l]] = "INELIGIBLE"
RangeKnown ==
  /\ pc \in {"observe", "judge", "lockMarker", "lockRow"} => \A l \in range.logs : InRange(l, range)
  /\ pc = "observe" => SameChain(range.logs \ range.left)
  /\ pc \in {"judge", "lockMarker", "lockRow"} =>
       /\ SameChain(range.logs)
       /\ \A l \in range.logs : Judged(l)
       /\ range.todo \subseteq {Block[l] : l \in range.logs}

IInv ==
  /\ TypeOK /\ AuthorityKnown /\ ThreadsKnown /\ Budgeted /\ RefusalHolds
  /\ CasesKnown /\ RangeKnown /\ NothingPassedUnjudged

-----------------------------------------------------------------------------
(* What a step may do to the journal's state. *)

JournalType == state \in EventState /\ fatal \in BOOLEAN /\ expired \in BOOLEAN

\* The steps without a row.
Steady ==
  \/ UNCHANGED vars \/ Start \/ Exit \/ Killed \/ WindowEnds \/ HardFailure
  \/ ReaderReads \/ ReaderFails \/ ReaderDisconnected
  \/ FirstHead \/ RangeBegins \/ Fetch \/ RangeObserved \/ LockMarker \/ Loop \/ Select
  \/ NativeDisabled \/ ConsumeMarker \/ LoadLocked \/ Admit \/ Revalidate \/ EnterNative
  \/ Closing \/ CapturesWaited

\* Rows that say nothing of logs, cases, the lock or the authority.
Kept ==
  /\ state'.seen = state.seen /\ state'.cases = state.cases /\ state'.cursor = state.cursor
  /\ state'.lock = state.lock /\ state'.consumed = state.consumed
  /\ state'.stop # state.stop => state.stop = "none" /\ state'.stop # "DRAINED"
  /\ state.draining => state'.draining
  /\ state'.draining # state.draining => Quiet /\ state'.draining

\* A row about logs or cases.
Settled ==
  /\ state'.lock = state.lock /\ state'.consumed = state.consumed
  /\ state'.cursor = state.cursor
  /\ state'.stop = state.stop /\ state'.draining = state.draining

Recorded(l) == Fresh(l) /\ Height(l) > state.cursor /\ ~Terminal /\ Record(l)

LEMMA Untouching ==
  ASSUME JournalType, UNCHANGED state
  PROVE  state' \in EventState /\ Kept
BY DEF JournalType, Kept

LEMMA Halting ==
  ASSUME JournalType, NEW reason \in {"HALTED", "WINDOW_ENDED"}, Halt(reason)
  PROVE  JournalType' /\ Kept /\ state'.stop # "none"
BY DEF Halt, JournalType, Kept, EventState, Stops

LEMMA Draining ==
  ASSUME JournalType, BeginDrain, Quiet
  PROVE  JournalType' /\ Kept
<1>1. CASE state.draining
  BY <1>1 DEF BeginDrain, NoHalt, JournalType, Kept
<1>2. CASE ~state.draining /\ (state.stop # "none" \/ state.consumed \/ Refuses)
  BY <1>2 DEF BeginDrain, JournalType, Kept
<1>3. CASE ~state.draining /\ ~(state.stop # "none" \/ state.consumed \/ Refuses)
  BY <1>3 DEF BeginDrain, JournalOnly, JournalType, EventState, Kept
<1> QED
  BY <1>1, <1>2, <1>3

LEMMA Recording ==
  ASSUME JournalType, NEW l \in Logs, Fresh(l), Record(l)
  PROVE  /\ state' \in EventState /\ Settled
         /\ state'.seen = state.seen \cup {l}
         /\ state'.cases = [state.cases EXCEPT ![Block[l]] = IF @ = "none" THEN "PENDING" ELSE @]
<1> DEFINE cases == [state.cases EXCEPT ![Block[l]] = IF @ = "none" THEN "PENDING" ELSE @]
<1>1. state.seen \cup {l} \in SUBSET Logs /\ Block[l] \in Blocks
  BY ChainAssumption DEF JournalType, EventState
<1>2. cases \in [Blocks -> CaseStatus]
  BY <1>1 DEF JournalType, EventState, CaseStatus
<1>3. state' = [state EXCEPT !.seen = @ \cup {l}, !.cases = cases]
  BY DEF Record, JournalType, EventState
<1> HIDE DEF cases
<1>4. /\ state' \in EventState /\ Settled
      /\ state'.seen = state.seen \cup {l} /\ state'.cases = cases
  BY <1>1, <1>2, <1>3 DEF JournalType, EventState, Settled
<1> QED
  BY <1>4 DEF cases

LEMMA Settling ==
  ASSUME JournalType, NEW b \in Blocks, NEW status \in CaseStatus,
         state' = [state EXCEPT !.cases[b] = status]
  PROVE  /\ state' \in EventState /\ Settled /\ state'.seen = state.seen
         /\ state'.cases = [state.cases EXCEPT ![b] = status]
BY DEF JournalType, EventState, Settled

LEMMA SteadyKeeps == Steady => UNCHANGED state
BY DEF Steady, vars, Start, Exit, Killed, Dies, WindowEnds, HardFailure, ReaderReads, ReaderFails,
       ReaderDisconnected, FirstHead, RangeBegins, Fetch, RangeObserved, LockMarker, Loop, Select,
       NativeDisabled, ConsumeMarker, LoadLocked, Admit, Revalidate, EnterNative, Closing,
       CapturesWaited, NoHalt

LEMMA SteadyType ==
  ASSUME JournalType, Steady
  PROVE  JournalType'
<1>1. fatal' \in BOOLEAN /\ expired' \in BOOLEAN
  BY DEF JournalType, Steady, vars, Start, Exit, Killed, Dies, WindowEnds, HardFailure,
         ReaderReads, ReaderFails, ReaderDisconnected, FirstHead, RangeBegins, Fetch,
         RangeObserved, LockMarker, MarkerCreated, MarkerFails, Loop, Select, NativeDisabled,
         ConsumeMarker, LoadLocked, Admit, Revalidate, EnterNative, Closing, CapturesWaited,
         NoHalt, JournalOnly
<1> QED
  BY <1>1, SteadyKeeps DEF JournalType

\* How any step may move the journal's state.
Moves ==
  \/ Kept
  \/ \E l \in Logs : Recorded(l)
  \/ \E b \in Blocks : CaptureFinishes(b) /\ ~Refuses
  \/ Judge /\ state' # state
  \/ Deferred /\ Halt("DRAINED") /\ running = {} /\ state.stop = "none"
  \/ LockRow /\ Agrees
  \/ CoverageComplete /\ Agrees
  \/ ConsumeRow /\ state.lock # None /\ ~state.consumed

LEMMA NotForbidden ==
  ASSUME JournalType, NEW l \in Logs, NEW altered, ~ObserveError(l, altered), Record(l)
  PROVE  UNCHANGED <<state, running>> \/ Recorded(l)
<1>1. Height(l) \in Int /\ state.cursor \in Int
  BY ChainAssumption DEF Height, JournalType, EventState
<1>2. CASE Fresh(l)
  <2>1. Height(l) > state.cursor
    BY <1>1, <1>2 DEF ObserveError
  <2> QED
    BY <1>2, <2>1 DEF ObserveError, Recorded
<1>3. CASE ~Fresh(l)
  BY <1>3 DEF Record
<1> QED
  BY <1>2, <1>3

LEMMA StateStep ==
  ASSUME TypeOK, ThreadsKnown, [Next]_vars
  PROVE  JournalType' /\ Moves
<1>a. JournalType
  BY DEF TypeOK, JournalType
<1>1. CASE Steady
  BY <1>a, <1>1, SteadyType, SteadyKeeps, Untouching DEF Moves
<1>2. CASE Resume
  <2>1. CASE Untouched
    BY <1>a, <1>2, <2>1 DEF Resume, JournalOnly, JournalType, EventState, Kept, Moves
  <2>2. CASE ~Untouched
    BY <1>a, <1>2, <2>2, Halting DEF Resume, Moves
  <2> QED
    BY <2>1, <2>2
<1>3. CASE Generation
  <2>1. CASE ~Refuses /\ state.reconnects < Reconnects + 1
    BY <1>a, <1>3, <2>1, PolicyAssumption
       DEF Generation, JournalOnly, JournalType, EventState, Kept, Moves
  <2>2. CASE ~(~Refuses /\ state.reconnects < Reconnects + 1)
    BY <1>a, <1>3, <2>2, Halting DEF Generation, Moves
  <2> QED
    BY <2>1, <2>2
<1>4. CASE Activate
  <2>1. CASE state' = [state EXCEPT !.activated = TRUE] /\ JournalOnly
    BY <1>a, <2>1 DEF JournalOnly, JournalType, EventState, Kept, Moves
  <2>2. CASE Halt("HALTED")
    BY <1>a, <2>2, Halting DEF Moves
  <2> QED
    BY <1>4, <2>1, <2>2 DEF Activate
<1>5. CASE Subscribe
  <2>1. CASE state' = [state EXCEPT !.connected = TRUE]
    BY <1>a, <1>5, <2>1 DEF Subscribe, JournalOnly, JournalType, EventState, Kept, Moves
  <2>2. CASE UNCHANGED state
    BY <1>a, <1>5, <2>2, Untouching DEF Subscribe, JournalOnly, JournalType, Moves
  <2> QED
    BY <1>5, <2>1, <2>2 DEF Subscribe
<1>6. CASE MainObserves
  <2>1. UNCHANGED <<fatal, expired>>
    BY <1>6 DEF MainObserves
  <2>2. UNCHANGED state \/ \E l \in Logs : Recorded(l)
    BY <1>a, <1>6, NotForbidden DEF MainObserves, Lowest, TypeOK
  <2>3. state' \in EventState
    BY <1>a, <2>2, Untouching, Recording DEF Recorded
  <2> QED
    BY <1>a, <2>1, <2>2, <2>3, Untouching DEF JournalType, Moves
<1>7. CASE MainObserveHalts
  <2>1. CASE state.draining
    BY <1>a, <1>7, <2>1, Untouching DEF MainObserveHalts, NoHalt, JournalType, Moves
  <2>2. CASE ~state.draining
    BY <1>a, <1>7, <2>2, Halting DEF MainObserveHalts, Moves
  <2> QED
    BY <2>1, <2>2
<1>8. CASE Judge
  <2>1. UNCHANGED <<fatal, expired>>
    BY <1>8 DEF Judge, JournalOnly
  <2>2. CASE UNCHANGED state
    BY <1>a, <2>1, <2>2, Untouching DEF JournalType, Moves
  <2>3. CASE state' # state
    <3>1. PICK b \in Blocks : state' = [state EXCEPT !.cases[b] = "INELIGIBLE"]
      BY <1>8, <2>3 DEF Judge, LowestBlocks, TypeOK
    <3>2. state' \in EventState
      BY <1>a, <3>1, Settling DEF CaseStatus
    <3> QED
      BY <1>a, <1>8, <2>1, <2>3, <3>2 DEF JournalType, Moves
  <2> QED
    BY <2>2, <2>3
<1>9. CASE LockRow
  <2>1. UNCHANGED <<fatal, expired>>
    BY <1>9 DEF LockRow, JournalOnly
  <2>2. CASE Agrees
    <3>1. PICK b \in Blocks : state' = [state EXCEPT !.lock = b, !.cursor = Number[b]]
      BY <1>9, <2>2 DEF LockRow, LowestBlocks, TypeOK
    <3>2. state' \in EventState
      BY <1>a, <3>1, ChainAssumption DEF JournalType, EventState
    <3> QED
      BY <1>a, <1>9, <2>1, <2>2, <3>2 DEF JournalType, Moves
  <2>3. CASE ~Agrees
    BY <1>a, <1>9, <2>1, <2>3, Untouching DEF LockRow, JournalType, Moves
  <2> QED
    BY <2>2, <2>3
<1>10. CASE CoverageComplete
  <2>1. UNCHANGED <<fatal, expired>>
    BY <1>10 DEF CoverageComplete, JournalOnly
  <2>2. CASE Agrees
    <3>1. state' = [state EXCEPT !.cursor = range.end] /\ range.end \in 0 .. Tip
      BY <1>10, <2>2 DEF CoverageComplete, TypeOK
    <3>2. state' \in EventState
      BY <1>a, <3>1 DEF JournalType, EventState
    <3> QED
      BY <1>a, <1>10, <2>1, <2>2, <3>2 DEF JournalType, Moves
  <2>3. CASE ~Agrees
    BY <1>a, <1>10, <2>1, <2>3, Untouching DEF CoverageComplete, JournalType, Moves
  <2> QED
    BY <2>2, <2>3
<1>11. CASE ConsumeRow
  <2>1. CASE state' = [state EXCEPT !.consumed = TRUE]
    BY <1>a, <1>11, <2>1, Untouching DEF ConsumeRow, JournalOnly, JournalType, EventState, Moves
  <2>2. CASE UNCHANGED state
    BY <1>a, <1>11, <2>2, Untouching DEF ConsumeRow, JournalOnly, JournalType, Moves
  <2> QED
    BY <1>11, <2>1, <2>2 DEF ConsumeRow
<1>12. CASE Paired
  <2>1. CASE conn
    BY <1>a, <1>12, <2>1, Untouching DEF Paired, NoHalt, JournalType, Moves
  <2>2. CASE ~conn
    BY <1>a, <1>12, <2>2, Halting DEF Paired, Moves
  <2> QED
    BY <2>1, <2>2
<1>13. CASE ErrorDrains
  <2>1. CASE Quiet /\ BeginDrain
    BY <1>a, <2>1, Draining DEF Moves
  <2>2. CASE NoHalt
    BY <1>a, <2>2, Untouching DEF NoHalt, JournalType, Moves
  <2> QED
    BY <1>13, <2>1, <2>2 DEF ErrorDrains
<1>14. CASE Closed
  <2>1. CASE NoHalt
    BY <1>a, <2>1, Untouching DEF NoHalt, JournalType, Moves
  <2>2. CASE Halt("WINDOW_ENDED")
    BY <1>a, <2>2, Halting DEF Moves
  <2>3. CASE /\ state.reconnects < Reconnects + 1 /\ JournalOnly
             /\ state' = [state EXCEPT !.reconnects = @ + 1]
    BY <1>a, <2>3, PolicyAssumption DEF JournalOnly, JournalType, EventState, Kept, Moves
  <2> QED
    BY <1>14, <2>1, <2>2, <2>3 DEF Closed
<1>15. CASE Fail
  <2>1. CASE Quiet /\ BeginDrain
    BY <1>a, <2>1, Draining DEF Moves
  <2>2. CASE Halt("HALTED")
    BY <1>a, <2>2, Halting DEF Moves
  <2> QED
    BY <1>15, <2>1, <2>2 DEF Fail
<1>16. CASE Deferred
  <2>1. CASE Halt("DRAINED") /\ running = {} /\ state.stop = "none"
    <3>1. JournalType'
      BY <1>a, <2>1 DEF Halt, JournalType, EventState, Stops
    <3> QED
      BY <1>16, <2>1, <3>1 DEF Moves
  <2>2. CASE expired' = TRUE /\ UNCHANGED <<state, fatal>>
    BY <1>a, <2>2, Untouching DEF JournalType, Moves
  <2> QED
    BY <1>16, <2>1, <2>2 DEF Deferred
<1>17. ASSUME NEW altered \in BOOLEAN, ReaderObserves(altered) PROVE JournalType' /\ Moves
  <2>1. UNCHANGED <<fatal, expired>>
    BY <1>17 DEF ReaderObserves
  <2>2. UNCHANGED state \/ Recorded(reader.log)
    BY <1>a, <1>17, NotForbidden DEF ReaderObserves, ThreadsKnown, TypeOK
  <2>3. reader.log \in Logs
    BY <1>17 DEF ReaderObserves, ThreadsKnown
  <2>4. state' \in EventState
    BY <1>a, <2>2, <2>3, Untouching, Recording DEF Recorded
  <2> QED
    BY <1>a, <2>1, <2>2, <2>3, <2>4, Untouching DEF JournalType, Moves
<1>18. CASE ReaderObserveHalts
  <2>1. CASE NoHalt
    BY <1>a, <2>1, Untouching DEF NoHalt, JournalType, Moves
  <2>2. CASE Halt("HALTED")
    BY <1>a, <2>2, Halting DEF Moves
  <2> QED
    BY <1>18, <2>1, <2>2 DEF ReaderObserveHalts
<1>19. CASE ReaderObservesRemoved
  BY <1>a, <1>19, Halting DEF ReaderObservesRemoved, Moves
<1>20. CASE ReaderRecordsLoss
  <2>1. CASE UNCHANGED state
    BY <1>a, <1>20, <2>1, Untouching DEF ReaderRecordsLoss, JournalType, Moves
  <2>2. CASE state' = [state EXCEPT !.connected = FALSE]
    BY <1>a, <1>20, <2>2 DEF ReaderRecordsLoss, JournalType, EventState, Kept, Moves
  <2> QED
    BY <1>20, <2>1, <2>2 DEF ReaderRecordsLoss
<1>21. CASE ReaderLeaves
  <2>1. CASE NoHalt
    BY <1>a, <2>1, Untouching DEF NoHalt, JournalType, Moves
  <2>2. CASE Halt("HALTED")
    BY <1>a, <2>2, Halting DEF Moves
  <2> QED
    BY <1>21, <2>1, <2>2 DEF ReaderLeaves
<1>22. CASE ReaderQueues
  <2>1. CASE NoHalt
    BY <1>a, <2>1, Untouching DEF NoHalt, JournalType, Moves
  <2>2. CASE Halt("HALTED")
    BY <1>a, <2>2, Halting DEF Moves
  <2> QED
    BY <1>22, <2>1, <2>2 DEF ReaderQueues
<1>23. ASSUME NEW b \in Blocks, CaptureFinishes(b) PROVE JournalType' /\ Moves
  <2>1. CASE Refuses
    BY <1>a, <1>23, <2>1, Halting DEF CaptureFinishes, Moves
  <2>2. CASE ~Refuses
    <3>1. PICK status \in CaseStatus : state' = [state EXCEPT !.cases[b] = status]
      BY <1>23, <2>2 DEF CaptureFinishes, CaseStatus
    <3>2. state' \in EventState
      BY <1>a, <3>1, Settling
    <3> QED
      BY <1>a, <1>23, <2>2, <3>2 DEF CaptureFinishes, JournalOnly, JournalType, Moves
  <2> QED
    BY <2>1, <2>2
<1>24. CASE EvidenceHalts
  BY <1>a, <1>24, Halting DEF EvidenceHalts, Moves
<1> QED
  BY <1>1, <1>2, <1>3, <1>4, <1>5, <1>6, <1>7, <1>8, <1>9, <1>10, <1>11, <1>12, <1>13, <1>14,
     <1>15, <1>16, <1>17, <1>18, <1>19, <1>20, <1>21, <1>22, <1>23, <1>24
     DEF Next, Main, Reader, Steady

-----------------------------------------------------------------------------
(* Type correctness of the rest. *)

RangeType == [from : Nat, end : 0 .. Tip, logs : SUBSET Logs, left : SUBSET Logs,
          todo : SUBSET Blocks, notified : SUBSET Logs]

LEMMA StepsType == TypeOK /\ [Next]_vars => pc' \in Steps
<1> SUFFICES ASSUME TypeOK, [Next]_vars PROVE pc' \in Steps
  OBVIOUS
<1>1. pc \in Steps
  BY DEF TypeOK
<1>2. CASE Steady \/ Main
  BY <1>1, <1>2
     DEF Steady, Main, vars, Steps, Start, Exit, Killed, Dies, WindowEnds, HardFailure, ReaderReads,
         ReaderFails, ReaderDisconnected, ReaderOnly, Goes, Errs, Reconciles, Resume, Generation,
         Activate, Subscribe, FirstHead, RangeBegins, Fetch, MainObserves, MainObserveHalts,
         RangeObserved, Judge, LockMarker, LockRow, CoverageComplete, Loop, Select, NativeDisabled,
         ConsumeMarker, ConsumeRow, LoadLocked, Admit, Revalidate, EnterNative, Paired,
         ErrorDrains, Closing, Closed, Fail, Deferred, CapturesWaited
<1>3. CASE Reader
  BY <1>1, <1>3
     DEF Reader, ReaderReads, ReaderObserves, ReaderObservesRemoved, ReaderObserveHalts,
         ReaderFails, ReaderDisconnected, ReaderRecordsLoss, ReaderLeaves, ReaderQueues, ReaderOnly
<1>4. CASE EvidenceHalts \/ \E b \in Blocks : CaptureFinishes(b)
  BY <1>1, <1>4 DEF EvidenceHalts, CaptureFinishes
<1> QED
  BY <1>2, <1>3, <1>4 DEF Next, Steady

\* The steps of everyone but the main goroutine.
Background ==
  \/ Reader \/ WindowEnds \/ HardFailure \/ EvidenceHalts
  \/ \E b \in Blocks : CaptureFinishes(b)

\* The steps of the main goroutine that touch only the journal and its own variables.
Private ==
  \/ Resume \/ Generation \/ Activate \/ FirstHead \/ RangeBegins \/ Fetch \/ MainObserveHalts
  \/ RangeObserved \/ Judge \/ LockMarker \/ LockRow \/ CoverageComplete \/ Loop
  \/ ConsumeMarker \/ ConsumeRow \/ LoadLocked \/ Admit \/ Revalidate
  \/ ErrorDrains \/ Closed \/ Fail \/ Deferred \/ CapturesWaited

Shared ==
  \/ Start \/ Exit \/ Killed \/ Subscribe \/ MainObserves \/ Select \/ NativeDisabled
  \/ EnterNative \/ Paired \/ Closing

LEMMA StepKinds == [Next]_vars => UNCHANGED vars \/ Background \/ Private \/ Shared
BY DEF Next, Main, Background, Private, Shared

LEMMA BackgroundKeeps ==
  ASSUME Background
  PROVE  UNCHANGED <<marker, pc, to, range, reconnect, conn, entered, connects, starts>>
BY DEF Background, Reader, ReaderReads, ReaderObserves, ReaderObservesRemoved, ReaderObserveHalts,
       ReaderFails, ReaderDisconnected, ReaderRecordsLoss, ReaderLeaves, ReaderQueues, ReaderOnly,
       WindowEnds, HardFailure, EvidenceHalts, CaptureFinishes, mainVars, history

LEMMA PrivateKeeps ==
  ASSUME Private
  PROVE  UNCHANGED <<conn, reader, queue, lost, running, entered, refused, connects, starts>>
BY DEF Private, MainOnly, history, Resume, Generation, Activate, FirstHead, RangeBegins, Fetch,
       MainObserveHalts, RangeObserved, Judge, LockMarker, LockRow, CoverageComplete, Loop,
       ConsumeMarker, ConsumeRow, LoadLocked, Admit, Revalidate, ErrorDrains, Closed, Fail,
       Deferred, CapturesWaited

LEMMA RangeStays == TypeOK /\ [Next]_vars => range' \in RangeType /\ to' \in 0 .. Tip
<1> SUFFICES ASSUME TypeOK, [Next]_vars PROVE range' \in RangeType /\ to' \in 0 .. Tip
  OBVIOUS
<1>a. range \in RangeType /\ to \in 0 .. Tip /\ state \in EventState /\ queue \in Seq(0 .. Tip)
  BY DEF TypeOK, RangeType
<1>b. NoRange \in RangeType
  BY ChainAssumption DEF NoRange, RangeType
<1>1. CASE UNCHANGED vars \/ Background
  BY <1>a, <1>1, BackgroundKeeps DEF vars, mainVars
<1>2. CASE Start \/ Subscribe \/ NativeDisabled \/ EnterNative \/ Paired \/ Closing
  BY <1>a, <1>2 DEF Start, Subscribe, NativeDisabled, EnterNative, Paired, Closing, mainVars
<1>3. CASE Exit \/ Killed
  BY <1>b, <1>3, ChainAssumption DEF Exit, Killed, Dies
<1>4. CASE Resume \/ Generation \/ Activate \/ MainObserveHalts \/ Loop \/ ConsumeMarker \/ ConsumeRow
           \/ LoadLocked \/ Admit \/ Revalidate \/ ErrorDrains \/ Closed \/ Fail \/ Deferred
           \/ CapturesWaited
  BY <1>a, <1>4 DEF Resume, Generation, Activate, MainObserveHalts, Loop, ConsumeMarker, ConsumeRow,
     LoadLocked, Admit, Revalidate, ErrorDrains, Closed, Fail, Deferred, CapturesWaited, mainVars
<1>5. CASE FirstHead \/ Select
  <2>1. CASE queue # << >> /\ to' = queue[1] /\ UNCHANGED range
    <3>1. 1 \in 1 .. Len(queue)
      BY <1>a, <2>1, LenProperties, EmptySeq
    <3>2. queue[1] \in 0 .. Tip
      BY <1>a, <3>1, ElementOfSeq
    <3> QED
      BY <1>a, <2>1, <3>2
  <2>2. CASE UNCHANGED range /\ to' = to
    BY <1>a, <2>2
  <2>3. CASE UNCHANGED range /\ \E n \in 0 .. Tip : to' = n
    BY <1>a, <2>3
  <2>4. \A n \in state.cursor .. Tip : n \in 0 .. Tip
    BY <1>a, ChainAssumption DEF EventState
  <2> QED
    BY <1>5, <2>1, <2>2, <2>3, <2>4 DEF FirstHead, Select, Reconciles
<1>6. CASE RangeBegins
  <2>1. CASE UNCHANGED range
    BY <1>a, <1>6, <2>1 DEF RangeBegins
  <2>2. CASE range' = [NoRange EXCEPT !.from = state.cursor + 1,
                                      !.end = Min2(to, state.cursor + RangeBlocks)]
    <3>1. state.cursor + 1 \in Nat /\ Min2(to, state.cursor + RangeBlocks) \in 0 .. Tip
      BY <1>a, ChainAssumption, PolicyAssumption DEF EventState, Min2
    <3> QED
      BY <1>a, <1>b, <1>6, <2>2, <3>1 DEF RangeBegins, RangeType
  <2> QED
    BY <1>6, <2>1, <2>2 DEF RangeBegins
<1>7. CASE Fetch
  <2>1. CASE \E logs \in SUBSET Logs :
               range' = [range EXCEPT !.logs = logs, !.left = logs, !.notified = state.seen]
    BY <1>a, <1>7, <2>1 DEF Fetch, RangeType, EventState
  <2> QED
    BY <1>a, <1>b, <1>7, <2>1 DEF Fetch
<1>8. CASE MainObserves \/ RangeObserved \/ Judge
  <2>1. CASE \E logs \in SUBSET Logs : range' = [range EXCEPT !.left = logs]
    BY <1>a, <1>8, <2>1 DEF MainObserves, RangeObserved, Judge, RangeType, mainVars
  <2>2. CASE \E blocks \in SUBSET Blocks : range' = [range EXCEPT !.todo = blocks]
    BY <1>a, <1>8, <2>2 DEF MainObserves, RangeObserved, Judge, RangeType, mainVars
  <2>3. CASE range' = NoRange \/ UNCHANGED range
    BY <1>a, <1>b, <1>8, <2>3 DEF MainObserves, RangeObserved, Judge, mainVars
  <2>4. /\ \A l : range.left \ {l} \in SUBSET Logs
        /\ \A b : range.todo \ {b} \in SUBSET Blocks
        /\ {Block[l] : l \in range.logs} \in SUBSET Blocks
    BY <1>a, ChainAssumption DEF RangeType
  <2> QED
    BY <1>8, <2>1, <2>2, <2>3, <2>4 DEF MainObserves, RangeObserved, Judge
<1>9. CASE LockMarker \/ LockRow \/ CoverageComplete
  BY <1>a, <1>b, <1>9 DEF LockMarker, LockRow, CoverageComplete, mainVars
<1> QED
  BY <1>1, <1>2, <1>3, <1>4, <1>5, <1>6, <1>7, <1>8, <1>9, StepKinds DEF Private, Shared

LEMMA ReaderType ==
  TypeOK /\ ThreadsKnown /\ [Next]_vars =>
    /\ reader' \in [phase : Phases, log : Logs \cup {None}]
    /\ queue' \in Seq(0 .. Tip) /\ Len(queue') <= QueueCap
    /\ lost' \in BOOLEAN
<1> SUFFICES ASSUME TypeOK, ThreadsKnown, [Next]_vars
             PROVE  /\ reader' \in [phase : Phases, log : Logs \cup {None}]
                    /\ queue' \in Seq(0 .. Tip) /\ Len(queue') <= QueueCap
                    /\ lost' \in BOOLEAN
  OBVIOUS
<1> DEFINE Readers == [phase : Phases, log : Logs \cup {None}]
<1>a. reader \in Readers
  BY DEF TypeOK
<1>b. NoReader \in Readers /\ \A l \in Logs \cup {None} :
        [phase |-> "reading", log |-> l] \in Readers /\ [phase |-> "read", log |-> l] \in Readers
  BY DEF NoReader, Phases
<1>c. queue \in Seq(0 .. Tip) /\ Len(queue) <= QueueCap /\ lost \in BOOLEAN
  BY DEF TypeOK
<1>d. << >> \in Seq(0 .. Tip) /\ Len(<< >>) <= QueueCap
  BY PolicyAssumption
<1>e. reader.phase = "queueing" => Height(reader.log) \in 0 .. Tip
  BY ChainAssumption DEF ThreadsKnown, Height
<1>1. CASE UNCHANGED <<reader, queue, lost>>
  BY <1>a, <1>c, <1>1
<1>2. CASE ReaderReads \/ ReaderObservesRemoved \/ ReaderObserveHalts \/ ReaderFails
           \/ ReaderDisconnected \/ ReaderRecordsLoss \/ ReaderLeaves
           \/ \E altered \in BOOLEAN : ReaderObserves(altered)
  <2>1. reader' \in Readers
    BY <1>a, <1>b, <1>2 DEF ReaderReads, ReaderObservesRemoved, ReaderObserveHalts, ReaderFails,
       ReaderDisconnected, ReaderRecordsLoss, ReaderLeaves, ReaderObserves, ReaderTo, Phases
  <2>2. UNCHANGED queue /\ lost' \in {lost, TRUE}
    BY <1>2 DEF ReaderReads, ReaderObservesRemoved, ReaderObserveHalts, ReaderFails,
       ReaderDisconnected, ReaderRecordsLoss, ReaderLeaves, ReaderObserves
  <2> QED
    BY <1>c, <2>1, <2>2
<1>3. CASE ReaderQueues
  <2>1. CASE Len(queue) < QueueCap
    <3>1. queue' = Append(queue, Height(reader.log)) /\ Height(reader.log) \in 0 .. Tip
      BY <1>3, <1>e, <2>1 DEF ReaderQueues
    <3>2. queue' \in Seq(0 .. Tip) /\ Len(queue') = Len(queue) + 1
      BY <1>c, <3>1, AppendProperties
    <3> QED
      BY <1>b, <1>c, <1>3, <2>1, <3>2, LenProperties, PolicyAssumption DEF ReaderQueues
  <2>2. CASE ~(Len(queue) < QueueCap)
    BY <1>b, <1>c, <1>3, <2>2 DEF ReaderQueues
  <2> QED
    BY <2>1, <2>2
<1>4. CASE Exit \/ Killed
  BY <1>b, <1>d, <1>4 DEF Exit, Killed, Dies
<1>5. CASE Subscribe
  BY <1>a, <1>b, <1>c, <1>5 DEF Subscribe
<1>6. CASE Select
  <2>1. CASE queue # << >> /\ queue' = Tail(queue)
    BY <1>a, <1>c, <1>6, <2>1, HeadTailProperties, LenProperties, PolicyAssumption DEF Select
  <2>2. CASE UNCHANGED queue
    BY <1>a, <1>c, <1>6, <2>2 DEF Select
  <2> QED
    BY <1>6, <2>1, <2>2 DEF Select
<1>7. CASE Start \/ MainObserves \/ NativeDisabled \/ EnterNative \/ Paired \/ Closing
  BY <1>1, <1>7 DEF Start, MainObserves, NativeDisabled, EnterNative, Paired, Closing
<1>8. CASE Private \/ UNCHANGED vars
  BY <1>1, <1>8, PrivateKeeps DEF vars
<1>9. CASE WindowEnds \/ HardFailure \/ EvidenceHalts \/ \E b \in Blocks : CaptureFinishes(b)
  BY <1>1, <1>9 DEF WindowEnds, HardFailure, EvidenceHalts, CaptureFinishes
<1> QED
  BY <1>2, <1>3, <1>4, <1>5, <1>6, <1>7, <1>8, <1>9, StepKinds
     DEF Background, Reader, Shared

\* Only an observation starts a capture.
LEMMA RunningStep ==
  ASSUME TypeOK, ThreadsKnown, [Next]_vars
  PROVE  \/ running' \subseteq running
         \/ (\E l \in Logs : Recorded(l)) /\ (pc = "observe" \/ reader.phase = "read")
<1>a. JournalType
  BY DEF TypeOK, JournalType
<1>1. CASE MainObserves
  BY <1>a, <1>1, NotForbidden DEF MainObserves, Lowest, TypeOK
<1>2. ASSUME NEW altered \in BOOLEAN, ReaderObserves(altered)
      PROVE  \/ running' \subseteq running
             \/ (\E l \in Logs : Recorded(l)) /\ reader.phase = "read"
  BY <1>a, <1>2, NotForbidden DEF ReaderObserves, ThreadsKnown
<1>3. CASE ReaderReads \/ ReaderObservesRemoved \/ ReaderObserveHalts \/ ReaderFails
           \/ ReaderDisconnected \/ ReaderRecordsLoss \/ ReaderLeaves \/ ReaderQueues
           \/ WindowEnds \/ HardFailure \/ EvidenceHalts \/ \E b \in Blocks : CaptureFinishes(b)
  BY <1>3 DEF ReaderReads, ReaderObservesRemoved, ReaderObserveHalts, ReaderFails,
     ReaderDisconnected, ReaderRecordsLoss, ReaderLeaves, ReaderQueues, WindowEnds, HardFailure,
     EvidenceHalts, CaptureFinishes
<1>4. CASE Start \/ Exit \/ Killed \/ Subscribe \/ Select \/ NativeDisabled \/ EnterNative \/ Paired
           \/ Closing
  BY <1>4 DEF Start, Exit, Killed, Dies, Subscribe, Select, NativeDisabled, EnterNative, Paired,
     Closing
<1> QED
  BY <1>1, <1>2, <1>3, <1>4, StepKinds, PrivateKeeps DEF Background, Reader, Shared, vars

\* The rows that leave the cases alone.
LEMMA OtherRows ==
  ASSUME JournalType,
         \/ Deferred /\ Halt("DRAINED")
         \/ LockRow /\ Agrees
         \/ CoverageComplete /\ Agrees
         \/ ConsumeRow
  PROVE  state'.cases = state.cases /\ state'.seen = state.seen /\ state'.draining = state.draining
BY DEF Halt, LockRow, CoverageComplete, ConsumeRow, JournalType, EventState

LEMMA TypeInit == Init => TypeOK
<1> SUFFICES ASSUME Init PROVE TypeOK
  OBVIOUS
<1>1. state \in EventState
  BY ChainAssumption, PolicyAssumption DEF Init, EmptyState, EventState, CaseStatus, Stops
<1>2. range \in RangeType /\ to \in 0 .. Tip
  BY ChainAssumption DEF Init, NoRange, RangeType
<1>3. reader \in [phase : Phases, log : Logs \cup {None}]
  BY DEF Init, NoReader, Phases
<1>4. queue \in Seq(0 .. Tip) /\ Len(queue) <= QueueCap /\ entered \in Seq(Blocks)
  BY PolicyAssumption DEF Init
<1>5. pc \in Steps /\ running \subseteq Cases /\ connects \in Nat /\ starts \in 0 .. MaxStarts
  BY PolicyAssumption DEF Init, Steps
<1>6. /\ marker \subseteq {"lock", "consumed"}
      /\ fatal \in BOOLEAN /\ expired \in BOOLEAN /\ reconnect \in BOOLEAN
      /\ conn \in BOOLEAN /\ lost \in BOOLEAN /\ refused \in BOOLEAN
  BY DEF Init
<1> QED
  BY <1>1, <1>2, <1>3, <1>4, <1>5, <1>6 DEF TypeOK, RangeType

LEMMA TypeStep == TypeOK /\ AuthorityKnown /\ ThreadsKnown /\ [Next]_vars => TypeOK'
<1> SUFFICES ASSUME TypeOK, AuthorityKnown, ThreadsKnown, [Next]_vars PROVE TypeOK'
  OBVIOUS
<1>1. JournalType' /\ Moves /\ JournalType
  BY StateStep DEF TypeOK, JournalType
<1>2. marker' \subseteq {"lock", "consumed"}
  <2>1. marker \subseteq {"lock", "consumed"}
    BY DEF TypeOK
  <2>2. CASE Private
    BY <2>1, <2>2
       DEF Private, Resume, Generation, Activate, FirstHead, RangeBegins, Fetch, MainObserveHalts,
           RangeObserved, Judge, LockMarker, LockRow, CoverageComplete, Loop, ConsumeMarker,
           ConsumeRow, LoadLocked, Admit, Revalidate, ErrorDrains, Closed, Fail, Deferred,
           CapturesWaited, MarkerCreated, MarkerFails
  <2>3. CASE Shared
    BY <2>1, <2>3 DEF Shared, Start, Exit, Killed, Dies, Subscribe, MainObserves, Select,
                      NativeDisabled, EnterNative, Paired, Closing
  <2> QED
    BY <2>1, <2>2, <2>3, StepKinds, BackgroundKeeps DEF vars
<1>3. reconnect' \in BOOLEAN
  <2>1. reconnect \in BOOLEAN
    BY DEF TypeOK
  <2>2. CASE Private
    BY <2>1, <2>2
       DEF Private, Resume, Generation, Activate, FirstHead, RangeBegins, Fetch, MainObserveHalts,
           RangeObserved, Judge, LockMarker, LockRow, CoverageComplete, Loop, ConsumeMarker,
           ConsumeRow, LoadLocked, Admit, Revalidate, ErrorDrains, Closed, Fail, Deferred,
           CapturesWaited, Errs, Reconciles, mainVars
  <2>3. CASE Shared
    BY <2>1, <2>3 DEF Shared, Start, Exit, Killed, Dies, Subscribe, MainObserves, Select,
                      NativeDisabled, EnterNative, Paired, Closing, Errs, Reconciles, mainVars
  <2> QED
    BY <2>1, <2>2, <2>3, StepKinds, BackgroundKeeps DEF vars, mainVars
<1>4. conn' \in BOOLEAN
  BY StepKinds, BackgroundKeeps, PrivateKeeps
     DEF TypeOK, vars, Shared, Start, Exit, Killed, Dies, Subscribe, MainObserves, Select,
         NativeDisabled, EnterNative, Paired, Closing
<1>5. refused' \in BOOLEAN
  <2>1. refused \in BOOLEAN
    BY DEF TypeOK
  <2>2. CASE Background
    BY <2>1, <2>2
       DEF Background, Reader, ReaderReads, ReaderObserves, ReaderObservesRemoved,
           ReaderObserveHalts, ReaderFails, ReaderDisconnected, ReaderRecordsLoss, ReaderLeaves,
           ReaderQueues, WindowEnds, HardFailure, EvidenceHalts, CaptureFinishes, history
  <2>3. CASE Shared
    BY <2>1, <2>3 DEF Shared, Start, Exit, Killed, Dies, Subscribe, MainObserves, Select,
                      NativeDisabled, EnterNative, Paired, Closing, history
  <2> QED
    BY <2>1, <2>2, <2>3, StepKinds, PrivateKeeps DEF vars, history
<1>6. (running \subseteq Cases)'
  <2>1. running \subseteq Cases
    BY DEF TypeOK
  <2>2. CASE \E l \in Logs : Recorded(l)
    <3>1. PICK l \in Logs : Record(l) /\ Fresh(l)
      BY <2>2 DEF Recorded
    <3>2. state'.cases = [state.cases EXCEPT ![Block[l]] = IF @ = "none" THEN "PENDING" ELSE @]
      BY <1>1, <3>1, Recording
    <3>3. running' \subseteq running \cup {Block[l]} /\ Block[l] \in Blocks
      BY <3>1, ChainAssumption DEF Record
    <3> QED
      BY <1>1, <2>1, <3>2, <3>3 DEF Cases, JournalType, EventState
  <2>3. CASE ~\E l \in Logs : Recorded(l)
    <3>1. running' \subseteq running
      BY <2>3, RunningStep
    <3>2. CASE state'.cases = state.cases
      BY <2>1, <3>1, <3>2 DEF Cases
    <3>3. CASE \E b \in Blocks : CaptureFinishes(b) /\ ~Refuses
      <4>1. PICK b \in Blocks, status \in {"CAPTURED", "FAILED"} : state' = [state EXCEPT !.cases[b] = status]
        BY <3>3 DEF CaptureFinishes
      <4>2. state'.cases = [state.cases EXCEPT ![b] = status]
        BY <1>1, <4>1, Settling DEF CaseStatus
      <4> QED
        BY <1>1, <2>1, <3>1, <4>2 DEF Cases, JournalType, EventState
    <3>4. CASE Judge /\ state' # state
      <4>1. PICK b \in Blocks : state' = [state EXCEPT !.cases[b] = "INELIGIBLE"]
        BY <3>4 DEF Judge, LowestBlocks, TypeOK
      <4>2. state'.cases = [state.cases EXCEPT ![b] = "INELIGIBLE"]
        BY <1>1, <4>1, Settling DEF CaseStatus
      <4> QED
        BY <1>1, <2>1, <3>1, <4>2 DEF Cases, JournalType, EventState
    <3>5. CASE \/ Deferred /\ Halt("DRAINED")
               \/ LockRow /\ Agrees
               \/ CoverageComplete /\ Agrees
               \/ ConsumeRow
      BY <1>1, <3>2, <3>5, OtherRows
    <3>6. CASE Kept
      BY <3>2, <3>6 DEF Kept
    <3> QED
      BY <1>1, <2>3, <3>3, <3>4, <3>5, <3>6 DEF Moves
  <2> QED
    BY <2>2, <2>3
<1>7. entered' \in Seq(Blocks) /\ connects' \in Nat /\ starts' \in 0 .. MaxStarts
  <2>1. entered \in Seq(Blocks) /\ connects \in Nat /\ starts \in 0 .. MaxStarts
    BY DEF TypeOK
  <2>2. CASE Subscribe
    BY <2>1, <2>2 DEF Subscribe
  <2>3. CASE EnterNative
    <3>1. state.lock \in Blocks
      BY <1>1, <2>3 DEF EnterNative, AuthorityKnown, Spending, JournalType, EventState
    <3> QED
      BY <2>1, <2>3, <3>1, AppendProperties DEF EnterNative
  <2>4. CASE Start
    BY <2>1, <2>4, PolicyAssumption DEF Start
  <2>5. CASE Exit \/ Killed \/ MainObserves \/ Select \/ NativeDisabled \/ Paired \/ Closing
    BY <2>1, <2>5 DEF Exit, Killed, Dies, MainObserves, Select, NativeDisabled, Paired, Closing,
                      history
  <2> QED
    BY <2>1, <2>2, <2>3, <2>4, <2>5, StepKinds, BackgroundKeeps, PrivateKeeps
       DEF vars, history, Shared
<1> QED
  BY <1>1, <1>2, <1>3, <1>4, <1>5, <1>6, <1>7, StepsType, RangeStays, ReaderType
     DEF TypeOK, JournalType, RangeType

-----------------------------------------------------------------------------
(* The rows again, by the fields they change. *)

SameLogs == state'.seen = state.seen /\ state'.cases = state.cases
SameLock == state'.lock = state.lock /\ state'.consumed = state.consumed
SameCursor == state'.cursor = state.cursor
SameEnd == state'.stop = state.stop /\ state'.draining = state.draining

Observed(l) ==
  /\ Recorded(l) /\ SameLock /\ SameCursor /\ SameEnd
  /\ state'.seen = state.seen \cup {l}
  /\ state'.cases = [state.cases EXCEPT ![Block[l]] = IF @ = "none" THEN "PENDING" ELSE @]
Finished(b) ==
  /\ CaptureFinishes(b) /\ SameLock /\ SameCursor /\ SameEnd /\ state'.seen = state.seen
  /\ \E status \in {"CAPTURED", "FAILED"} : state'.cases = [state.cases EXCEPT ![b] = status]
Rejected(b) ==
  /\ Judge /\ SameLock /\ SameCursor /\ SameEnd /\ state'.seen = state.seen
  /\ state'.cases = [state.cases EXCEPT ![b] = "INELIGIBLE"]
  /\ b \notin running /\ pc' = pc /\ range' = [range EXCEPT !.todo = @ \ {b}]
DrainEnds ==
  /\ Deferred /\ SameLogs /\ SameLock /\ SameCursor /\ state'.draining = state.draining
  /\ running = {} /\ state.stop = "none" /\ state'.stop = "DRAINED"
Locks(b) ==
  /\ LockRow /\ Agrees /\ SameLogs /\ SameEnd /\ state'.consumed = state.consumed
  /\ b \in LowestBlocks /\ state'.lock = b /\ state'.cursor = Number[b]
Covers ==
  /\ CoverageComplete /\ Agrees /\ SameLogs /\ SameLock /\ SameEnd
  /\ state'.cursor = range.end
Consumes ==
  /\ ConsumeRow /\ SameLogs /\ SameCursor /\ SameEnd /\ state'.lock = state.lock
  /\ state.lock # None /\ ~state.consumed /\ state'.consumed

LEMMA ObservedBy ==
  ASSUME JournalType, NEW l \in Logs, Recorded(l)
  PROVE  Observed(l)
BY Recording DEF Recorded, Observed, Settled, SameLock, SameCursor, SameEnd

LEMMA FinishedBy ==
  ASSUME JournalType, NEW b \in Blocks, CaptureFinishes(b), ~Refuses
  PROVE  Finished(b)
<1>1. PICK status \in {"CAPTURED", "FAILED"} : state' = [state EXCEPT !.cases[b] = status]
  BY DEF CaptureFinishes
<1> QED
  BY <1>1, Settling DEF Finished, Settled, SameLock, SameCursor, SameEnd, CaseStatus

LEMMA Rows ==
  ASSUME TypeOK, ThreadsKnown, [Next]_vars
  PROVE  \/ Kept
         \/ \E l \in Logs : Observed(l)
         \/ \E b \in Blocks : Finished(b) \/ Rejected(b) \/ Locks(b)
         \/ DrainEnds \/ Covers \/ Consumes
<1>a. JournalType /\ Moves
  BY StateStep DEF TypeOK, JournalType
<1>1. ASSUME NEW l \in Logs, Recorded(l) PROVE Observed(l)
  BY <1>a, <1>1, ObservedBy
<1>2. ASSUME NEW b \in Blocks, CaptureFinishes(b), ~Refuses PROVE Finished(b)
  BY <1>a, <1>2, FinishedBy
<1>3. ASSUME Judge, state' # state PROVE \E b \in Blocks : Rejected(b)
  <2>1. PICK b \in Blocks : /\ b \notin running
                            /\ state' = [state EXCEPT !.cases[b] = "INELIGIBLE"]
                            /\ pc' = pc /\ range' = [range EXCEPT !.todo = @ \ {b}]
    BY <1>3 DEF Judge, LowestBlocks, TypeOK
  <2>2. Rejected(b)
    BY <1>a, <1>3, <2>1, Settling DEF Rejected, Settled, SameLock, SameCursor, SameEnd, CaseStatus
  <2> QED
    BY <2>2
<1>4. ASSUME Deferred, Halt("DRAINED"), running = {}, state.stop = "none" PROVE DrainEnds
  BY <1>a, <1>4 DEF DrainEnds, Halt, JournalType, EventState, SameLogs, SameLock, SameCursor
<1>5. ASSUME LockRow, Agrees PROVE \E b \in Blocks : Locks(b)
  <2>1. PICK b \in LowestBlocks : state' = [state EXCEPT !.lock = b, !.cursor = Number[b]]
    BY <1>5 DEF LockRow
  <2>2. b \in Blocks
    BY <2>1 DEF LowestBlocks, TypeOK
  <2>3. Locks(b)
    BY <1>a, <1>5, <2>1 DEF Locks, JournalType, EventState, SameLogs, SameEnd
  <2> QED
    BY <2>2, <2>3
<1>6. ASSUME CoverageComplete, Agrees PROVE Covers
  BY <1>a, <1>6 DEF CoverageComplete, Covers, JournalType, EventState, SameLogs, SameLock, SameEnd
<1>7. ASSUME ConsumeRow, state.lock # None, ~state.consumed PROVE Kept \/ Consumes
  <2>1. CASE UNCHANGED state
    BY <1>a, <2>1, Untouching
  <2>2. CASE state' = [state EXCEPT !.consumed = TRUE]
    BY <1>a, <1>7, <2>2 DEF Consumes, JournalType, EventState, SameLogs, SameCursor, SameEnd
  <2> QED
    BY <1>7, <2>1, <2>2 DEF ConsumeRow
<1> QED
  BY <1>a, <1>1, <1>2, <1>3, <1>4, <1>5, <1>6, <1>7 DEF Moves

\* Where the main goroutine comes from when it enters a phase.
Flow ==
  /\ pc' \in Spending => pc \in Spending \/ (ConsumeRow /\ pc' = "load")
  /\ pc' \notin {"down", "check", "exit"} => Live \/ (Resume /\ Untouched)
  /\ pc' = "admit" => pc = "admit" \/ ControllerFree
  /\ pc' \in {"revalidate", "native"} => pc' = pc \/ Admit \/ Revalidate
  /\ pc' = "paired" => pc \in {"paired", "native"}
  /\ pc' \in Covering => pc \in Covering \/ state.lock = None
  /\ pc' \in Ending \cup {"subscribe"} => pc \in Opening \cup Ending \cup {"subscribe"} \/ reader = NoReader
  /\ pc = "down" => pc' = "down" \/ Start
  /\ pc' \in Opening => pc \in Opening \/ (reader' = NoReader /\ running' = {})
  /\ pc' = "exit" => pc \in Opening \cup {"exit"} \/ running' = {}
  /\ pc' \in {"waiting", "exit"} => pc \in {"waiting", "exit"} \/ Halt("HALTED") \/ Deferred
  /\ pc' \in {"activate", "subscribe"} => pc' = pc \/ Generation \/ Activate \/ Closed
  /\ pc' \in {"observe", "judge", "lockMarker", "lockRow"} =>
       pc' = pc \/ Fetch \/ RangeObserved \/ Judge \/ LockMarker

LEMMA FlowStep ==
  ASSUME [Next]_vars
  PROVE  Flow
<1>1. CASE UNCHANGED pc
  BY <1>1 DEF Flow, Live
<1>2. CASE Exit \/ Killed
  BY <1>2 DEF Flow, Exit, Killed, Dies, Spending, Covering, Ending, Opening, Live
<1>3. CASE Start \/ Subscribe \/ MainObserves \/ Select \/ NativeDisabled \/ EnterNative \/ Paired
           \/ Closing
  BY <1>3 DEF Flow, Start, Subscribe, MainObserves, Select, NativeDisabled, EnterNative, Paired,
     Closing, Goes, Errs, Reconciles, Spending, Covering, Ending, Opening, Live
<1>4. CASE Resume \/ Generation \/ Activate \/ ErrorDrains \/ Closed \/ Fail \/ Deferred \/ CapturesWaited
  BY <1>4 DEF Flow, Resume, Generation, Activate, ErrorDrains, Closed, Fail, Deferred,
     CapturesWaited, MainOnly, Goes, Spending, Covering, Ending, Opening, Live
<1>5. CASE FirstHead \/ RangeBegins \/ Fetch \/ MainObserveHalts \/ RangeObserved \/ Judge \/ LockMarker
           \/ LockRow \/ CoverageComplete
  BY <1>5 DEF Flow, FirstHead, RangeBegins, Fetch, MainObserveHalts, RangeObserved, Judge,
     LockMarker, LockRow, CoverageComplete, Goes, Errs, Reconciles, Spending, Covering, Ending,
     Opening, Live
<1>6. CASE Loop \/ ConsumeMarker \/ ConsumeRow \/ LoadLocked \/ Admit \/ Revalidate
  BY <1>6 DEF Flow, Loop, ConsumeMarker, ConsumeRow, LoadLocked, Admit, Revalidate, Goes, Errs,
     Spending, Covering, Ending, Opening, Live
<1> QED
  BY <1>1, <1>2, <1>3, <1>4, <1>5, <1>6, StepKinds, BackgroundKeeps DEF vars, Private, Shared

-----------------------------------------------------------------------------
(* The parts of the invariant, one by one. *)

LEMMA AuthorityStep ==
  ASSUME TypeOK, AuthorityKnown, ThreadsKnown, [Next]_vars
  PROVE  AuthorityKnown'
<1>1. /\ state.consumed => state'.consumed
      /\ state.lock # None => state'.lock = state.lock
      /\ state'.consumed /\ ~state.consumed => state.lock # None
  BY Rows, ChainAssumption DEF Kept, Observed, Finished, Rejected, DrainEnds, Locks, Covers, Consumes,
     SameLock, Agrees, AuthorityKnown
<1>2. state'.consumed => state'.lock # None
  BY <1>1 DEF AuthorityKnown
<1>3. entered' = entered \/ (EnterNative /\ pc = "native" /\ pc' = "paired")
  BY StepKinds, BackgroundKeeps, PrivateKeeps
     DEF vars, history, Shared, Start, Exit, Killed, Dies, Subscribe, MainObserves, Select,
         NativeDisabled, EnterNative, Paired, Closing, Goes
<1>4. entered' # << >> => state'.consumed
  BY <1>1, <1>3 DEF AuthorityKnown, Spending
<1>5. pc' \in Spending => state'.consumed /\ entered' = << >>
  <2>1. CASE pc \in Spending
    BY <1>1, <1>3, <2>1 DEF AuthorityKnown, Spending
  <2>2. CASE ConsumeRow /\ pc' = "load"
    <3>1. state' = [state EXCEPT !.consumed = TRUE] /\ ~state.consumed
      BY <2>2 DEF ConsumeRow, Errs
    <3>2. state'.consumed
      BY <3>1 DEF TypeOK, EventState
    <3> QED
      BY <1>3, <2>2, <3>1, <3>2 DEF AuthorityKnown, ConsumeRow
  <2> QED
    BY <2>1, <2>2, FlowStep DEF Flow
<1>6. pc' = "paired" => state'.consumed
  BY <1>1, FlowStep DEF Flow, AuthorityKnown, Spending
<1>7. pc' \in Covering => state'.lock = None
  <2>1. state'.lock # state.lock => LockRow /\ Agrees
    BY Rows DEF Kept, Observed, Finished, Rejected, DrainEnds, Locks, Covers, Consumes, SameLock
  <2>2. LockRow /\ Agrees => pc' \notin Covering
    BY DEF LockRow, Goes, Covering
  <2> QED
    BY <2>1, <2>2, FlowStep DEF Flow, AuthorityKnown
<1> QED
  BY <1>2, <1>4, <1>5, <1>6, <1>7 DEF AuthorityKnown

LEMMA ThreadsStep ==
  ASSUME TypeOK, ThreadsKnown, [Next]_vars
  PROVE  ThreadsKnown'
<1>1. reader = NoReader => reader' = NoReader \/ (Subscribe /\ pc' = "head")
  BY StepKinds, PrivateKeeps
     DEF Background, Reader, ReaderReads, ReaderObserves, ReaderObservesRemoved, ReaderObserveHalts,
         ReaderFails, ReaderDisconnected, ReaderRecordsLoss, ReaderLeaves, ReaderQueues, NoReader,
         WindowEnds, HardFailure, EvidenceHalts, CaptureFinishes, vars, Shared, Start, Exit, Killed,
         Dies, Subscribe, MainObserves, Select, NativeDisabled, EnterNative, Paired, Closing, Goes
<1>2. pc' \in Opening \cup Ending \cup {"subscribe"} => reader' = NoReader
  <2>1. pc' = "head" => pc' \notin Opening \cup Ending \cup {"subscribe"}
    BY DEF Opening, Ending
  <2> QED
    BY <1>1, <2>1, FlowStep DEF Flow, ThreadsKnown
<1>3. pc' \in Opening \cup {"exit"} => running' = {}
  <2>1. CASE pc \in Opening \cup {"exit"}
    <3>1. running = {} /\ reader = NoReader /\ pc # "observe"
      BY <2>1 DEF ThreadsKnown, Opening, Ending
    <3> QED
      BY <3>1, RunningStep DEF NoReader
  <2> QED
    BY <2>1, FlowStep DEF Flow
<1>4. reader'.phase \in {"read", "halting", "queueing"} => reader'.log \in Logs
  <2>1. CASE UNCHANGED reader
    BY <2>1 DEF ThreadsKnown
  <2>2. CASE reader' = NoReader \/ reader' = [phase |-> "reading", log |-> None]
    BY <2>2 DEF NoReader
  <2>3. CASE ReaderReads
    BY <2>3 DEF ReaderReads
  <2>4. CASE \E altered \in BOOLEAN : ReaderObserves(altered)
    BY <2>4 DEF ReaderObserves, ReaderTo, ThreadsKnown, TypeOK
  <2>5. CASE ReaderObservesRemoved \/ ReaderObserveHalts \/ ReaderFails \/ ReaderDisconnected
             \/ ReaderRecordsLoss
    BY <2>5 DEF ReaderObservesRemoved, ReaderObserveHalts, ReaderFails, ReaderDisconnected,
       ReaderRecordsLoss, ReaderTo, TypeOK
  <2>6. CASE ReaderLeaves \/ ReaderQueues
    BY <2>2, <2>6 DEF ReaderLeaves, ReaderQueues
  <2>7. CASE WindowEnds \/ HardFailure \/ EvidenceHalts \/ \E b \in Blocks : CaptureFinishes(b)
    BY <2>1, <2>7 DEF WindowEnds, HardFailure, EvidenceHalts, CaptureFinishes
  <2>8. CASE Shared
    BY <2>1, <2>2, <2>8 DEF Shared, Start, Exit, Killed, Dies, Subscribe, MainObserves, Select,
       NativeDisabled, EnterNative, Paired, Closing
  <2> QED
    BY <2>1, <2>3, <2>4, <2>5, <2>6, <2>7, <2>8, StepKinds, PrivateKeeps
       DEF Background, Reader, vars
<1> QED
  BY <1>2, <1>3, <1>4 DEF ThreadsKnown

LEMMA BudgetKept ==
  ASSUME state \in EventState, [Next]_vars, ~(Generation \/ Closed)
  PROVE  state'.reconnects = state.reconnects
<1>1. ASSUME NEW reason, Halt(reason) PROVE state'.reconnects = state.reconnects
  BY <1>1 DEF Halt, EventState
<1>2. CASE Steady
  BY <1>2, SteadyKeeps
<1>3. CASE Resume \/ Activate \/ MainObserveHalts \/ Paired \/ Deferred \/ EvidenceHalts
  BY <1>1, <1>3 DEF Resume, Activate, MainObserveHalts, Paired, Deferred, EvidenceHalts, NoHalt,
     EventState
<1>4. CASE ErrorDrains \/ Fail
  BY <1>1, <1>4 DEF ErrorDrains, Fail, BeginDrain, NoHalt, EventState
<1>5. CASE Subscribe \/ Judge \/ LockRow \/ CoverageComplete \/ ConsumeRow \/ MainObserves
  BY <1>5 DEF Subscribe, Judge, LockRow, CoverageComplete, ConsumeRow, MainObserves, Record,
     EventState
<1>6. CASE ReaderObserveHalts \/ ReaderObservesRemoved \/ ReaderLeaves \/ ReaderQueues
           \/ \E b \in Blocks : CaptureFinishes(b)
  BY <1>1, <1>6 DEF ReaderObserveHalts, ReaderObservesRemoved, ReaderLeaves, ReaderQueues,
     CaptureFinishes, NoHalt, EventState
<1>7. CASE ReaderRecordsLoss \/ \E altered \in BOOLEAN : ReaderObserves(altered)
  BY <1>7 DEF ReaderRecordsLoss, ReaderObserves, Record, EventState
<1> QED
  BY <1>2, <1>3, <1>4, <1>5, <1>6, <1>7 DEF Next, Main, Reader, Steady

LEMMA BudgetStep ==
  ASSUME TypeOK, Budgeted, [Next]_vars
  PROVE  Budgeted'
<1>a. connects \in Nat /\ state \in EventState /\ state.reconnects \in Nat
  BY PolicyAssumption DEF TypeOK, EventState
<1>1. CASE Generation
  BY <1>a, <1>1 DEF Generation, Halt, Goes, MainOnly, history, Budgeted, EventState
<1>2. CASE Activate
  BY <1>a, <1>2 DEF Activate, Halt, Goes, MainOnly, history, Budgeted, EventState
<1>3. CASE Subscribe
  BY <1>a, <1>3 DEF Subscribe, Goes, Budgeted, EventState
<1>4. CASE Closed
  BY <1>a, <1>4 DEF Closed, Halt, NoHalt, Goes, MainOnly, history, Budgeted, EventState
<1>5. CASE /\ ~(Generation \/ Activate \/ Subscribe \/ Closed)
  <2>1. state'.reconnects = state.reconnects
    BY <1>5, BudgetKept DEF TypeOK
  <2>2. connects' = connects
    BY <1>5, StepKinds, BackgroundKeeps, PrivateKeeps
       DEF vars, history, Shared, Start, Exit, Killed, Dies, MainObserves, Select, NativeDisabled,
           EnterNative, Paired, Closing
  <2>3. pc' \in {"activate", "subscribe"} => pc' = pc
    BY <1>5, FlowStep DEF Flow
  <2> QED
    BY <1>a, <2>1, <2>2, <2>3 DEF Budgeted
<1> QED
  BY <1>1, <1>2, <1>3, <1>4, <1>5

LEMMA TerminalStays ==
  ASSUME TypeOK, ThreadsKnown, [Next]_vars, Terminal
  PROVE  Terminal'
BY Rows DEF Terminal, Kept, Observed, Finished, Rejected, DrainEnds, Locks, Covers, Consumes, SameEnd

LEMMA HaltIsTerminal ==
  ASSUME state \in EventState, NEW reason \in Stops \ {"none"}, Halt(reason)
  PROVE  Terminal'
BY DEF Halt, Terminal, EventState, Stops

\* The mutex is given back only after the row that stops the operation.
LEMMA MutexHeld ==
  ASSUME TypeOK, ThreadsKnown, [Next]_vars, ~ControllerFree
  PROVE  ~ControllerFree' \/ Terminal' \/ pc' = "down"
<1>a. state \in EventState
  BY DEF TypeOK
<1>1. CASE Exit \/ Killed
  BY <1>1 DEF Exit, Killed, Dies
<1>2. CASE MainObserveHalts
  BY <1>a, <1>2, HaltIsTerminal DEF MainObserveHalts, NoHalt, Terminal, Stops
<1>3. CASE ReaderObserveHalts
  BY <1>a, <1>3, HaltIsTerminal DEF ReaderObserveHalts, NoHalt, Terminal, Stops
<1>4. CASE ~(Exit \/ Killed \/ MainObserveHalts) /\ pc = "observeHalt"
  <2>1. CASE Private
    BY <1>4, <2>1
       DEF Private, Resume, Generation, Activate, FirstHead, RangeBegins, Fetch, RangeObserved,
           Judge, LockMarker, LockRow, CoverageComplete, Loop, ConsumeMarker, ConsumeRow,
           LoadLocked, Admit, Revalidate, ErrorDrains, Closed, Fail, Deferred, CapturesWaited
  <2>2. CASE Shared
    BY <1>4, <2>2 DEF Shared, Start, Subscribe, MainObserves, Select, NativeDisabled, EnterNative,
                      Paired, Closing
  <2> QED
    BY <1>4, <2>1, <2>2, StepKinds, BackgroundKeeps DEF vars, ControllerFree
<1>5. CASE ~(Exit \/ Killed \/ ReaderObserveHalts) /\ reader.phase = "halting"
  <2>1. CASE Background
    BY <1>5, <2>1
       DEF Background, Reader, ReaderReads, ReaderObserves, ReaderObservesRemoved, ReaderFails,
           ReaderDisconnected, ReaderRecordsLoss, ReaderLeaves, ReaderQueues, WindowEnds,
           HardFailure, EvidenceHalts, CaptureFinishes, ControllerFree
  <2>2. CASE Subscribe
    BY <1>5, <2>2 DEF Subscribe, ThreadsKnown, NoReader
  <2>3. CASE Start \/ MainObserves \/ Select \/ NativeDisabled \/ EnterNative \/ Paired \/ Closing
    BY <1>5, <2>3 DEF Start, MainObserves, Select, NativeDisabled, EnterNative, Paired, Closing,
       ControllerFree
  <2> QED
    BY <1>5, <2>1, <2>2, <2>3, StepKinds, PrivateKeeps DEF vars, Shared, ControllerFree
<1> QED
  BY <1>1, <1>2, <1>3, <1>4, <1>5 DEF ControllerFree

\* A refusal is an observation that failed before the consumption.
LEMMA RefusedBy ==
  ASSUME TypeOK, [Next]_vars, refused'
  PROVE  \/ refused /\ ~Start
         \/ MainObserves /\ pc' = "observeHalt"
         \/ ~state.consumed /\ pc' = pc /\ entered' = entered /\ reader'.phase = "halting"
         \/ ~state.consumed /\ pc' = pc /\ entered' = entered /\ Terminal'
<1>1. CASE \E altered \in BOOLEAN : ReaderObserves(altered)
  <2>1. pc' = pc /\ entered' = entered /\ ~Start
    BY <1>1 DEF ReaderObserves, ReaderOnly, Start
  <2>2. CASE refused' = refused
    BY <2>1, <2>2
  <2>3. CASE ReaderTo("halting") /\ refused' = (refused \/ ~state.consumed)
    BY <2>1, <2>3 DEF ReaderTo, TypeOK
  <2> QED
    BY <1>1, <2>2, <2>3 DEF ReaderObserves
<1>2. CASE ReaderObservesRemoved
  <2>1. pc' = pc /\ entered' = entered /\ ~Start /\ refused' = (refused \/ ~state.consumed)
    BY <1>2 DEF ReaderObservesRemoved, ReaderOnly, Start
  <2>2. Terminal'
    BY <1>2, HaltIsTerminal DEF ReaderObservesRemoved, TypeOK, Stops
  <2> QED
    BY <2>1, <2>2
<1>3. CASE MainObserves
  <2>1. ~Start
    BY <1>3 DEF MainObserves, Start
  <2> QED
    BY <1>3, <2>1 DEF MainObserves, Goes
<1>4. CASE Start
  BY <1>4 DEF Start
<1>5. CASE UNCHANGED refused /\ ~Start
  BY <1>5
<1>6. CASE ReaderReads \/ ReaderObserveHalts \/ ReaderFails \/ ReaderDisconnected \/ ReaderRecordsLoss
           \/ ReaderLeaves \/ ReaderQueues \/ WindowEnds \/ HardFailure \/ EvidenceHalts
           \/ \E b \in Blocks : CaptureFinishes(b)
  BY <1>4, <1>5, <1>6 DEF ReaderReads, ReaderObserveHalts, ReaderFails, ReaderDisconnected,
     ReaderRecordsLoss, ReaderLeaves, ReaderQueues, WindowEnds, HardFailure, EvidenceHalts,
     CaptureFinishes, history
<1>7. CASE Exit \/ Killed \/ Subscribe \/ Select \/ NativeDisabled \/ EnterNative \/ Paired \/ Closing
  BY <1>4, <1>5, <1>7 DEF Exit, Killed, Dies, Subscribe, Select, NativeDisabled, EnterNative, Paired,
     Closing, history
<1> QED
  BY <1>1, <1>2, <1>3, <1>4, <1>5, <1>6, <1>7, StepKinds, PrivateKeeps
     DEF Background, Reader, Shared, vars, history

LEMMA RefusalStep ==
  ASSUME TypeOK, AuthorityKnown, ThreadsKnown, RefusalHolds, [Next]_vars
  PROVE  RefusalHolds'
<1> SUFFICES ASSUME refused'
             PROVE  /\ entered' = << >>
                    /\ pc' \notin {"revalidate", "native", "paired"}
                    /\ pc' # "down" => Terminal' \/ (~ControllerFree' /\ pc' # "admit")
  BY DEF RefusalHolds
<1>1. CASE refused /\ ~Start
  <2>1. entered' = << >>
    BY <1>1, StepKinds, BackgroundKeeps, PrivateKeeps
       DEF RefusalHolds, vars, history, Shared, Exit, Killed, Dies, Subscribe, MainObserves, Select,
           NativeDisabled, EnterNative, Paired, Closing
  <2>2. pc = "admit" => Terminal
    BY <1>1 DEF RefusalHolds
  <2>3. pc' \notin {"revalidate", "native", "paired"}
    BY <1>1, <2>2, FlowStep DEF Flow, RefusalHolds, Admit, Revalidate, Errs
  <2>4. pc = "down" => pc' = "down"
    BY <1>1, FlowStep DEF Flow
  <2>5. pc' = "admit" => pc = "admit" \/ ControllerFree
    BY FlowStep DEF Flow
  <2>6. pc' # "down" => Terminal' \/ (~ControllerFree' /\ pc' # "admit")
    BY <1>1, <2>4, <2>5, MutexHeld, TerminalStays DEF RefusalHolds
  <2> QED
    BY <2>1, <2>3, <2>6
<1>2. CASE MainObserves /\ pc' = "observeHalt"
  <2>1. entered' = << >>
    BY <1>2 DEF MainObserves, AuthorityKnown, Covering
  <2> QED
    BY <1>2, <2>1 DEF ControllerFree
<1>3. CASE /\ ~state.consumed /\ pc' = pc /\ entered' = entered
           /\ reader'.phase = "halting" \/ Terminal'
  <2>1. entered = << >> /\ pc \notin Spending \cup {"paired"}
    BY <1>3 DEF AuthorityKnown
  <2> QED
    BY <1>3, <2>1 DEF ControllerFree, Spending
<1> QED
  BY <1>1, <1>2, <1>3, RefusedBy

LEMMA StopStays ==
  ASSUME TypeOK, ThreadsKnown, [Next]_vars, state.stop # "none"
  PROVE  state'.stop = state.stop
BY Rows DEF Kept, Observed, Finished, Rejected, DrainEnds, Locks, Covers, Consumes, SameEnd

\* A capture ends by its row, by a stop of the journal or with its process.
LEMMA RunningEnds ==
  ASSUME TypeOK, [Next]_vars
  PROVE  \/ running \subseteq running'
         \/ \E b \in Blocks : CaptureFinishes(b) /\ ~Refuses
         \/ state'.stop # "none"
         \/ pc' = "down"
<1>1. CASE MainObserves \/ \E altered \in BOOLEAN : ReaderObserves(altered)
  BY <1>1 DEF MainObserves, ReaderObserves, Record
<1>2. ASSUME NEW b \in Blocks, CaptureFinishes(b), Refuses PROVE state'.stop # "none"
  BY <1>2 DEF CaptureFinishes, Halt, TypeOK, EventState
<1>3. CASE ReaderReads \/ ReaderObservesRemoved \/ ReaderObserveHalts \/ ReaderFails
           \/ ReaderDisconnected \/ ReaderRecordsLoss \/ ReaderLeaves \/ ReaderQueues
           \/ WindowEnds \/ HardFailure \/ EvidenceHalts
  BY <1>3 DEF ReaderReads, ReaderObservesRemoved, ReaderObserveHalts, ReaderFails,
     ReaderDisconnected, ReaderRecordsLoss, ReaderLeaves, ReaderQueues, WindowEnds, HardFailure,
     EvidenceHalts
<1>4. CASE Exit \/ Killed
  BY <1>4 DEF Exit, Killed, Dies
<1>5. CASE Start \/ Subscribe \/ Select \/ NativeDisabled \/ EnterNative \/ Paired \/ Closing
  BY <1>5 DEF Start, Subscribe, Select, NativeDisabled, EnterNative, Paired, Closing
<1> QED
  BY <1>1, <1>2, <1>3, <1>4, <1>5, StepKinds, PrivateKeeps DEF Background, Reader, Shared, vars

LEMMA DrainBegins ==
  ASSUME TypeOK, [Next]_vars, state'.draining # state.draining
  PROVE  ErrorDrains \/ Fail
<1>a. state \in EventState
  BY DEF TypeOK
<1>1. ASSUME NEW reason, Halt(reason) PROVE FALSE
  BY <1>a, <1>1 DEF Halt, EventState
<1>2. ~Steady
  BY SteadyKeeps
<1>3. ~(Resume \/ Activate \/ Generation \/ Closed \/ MainObserveHalts \/ Paired \/ Deferred \/ EvidenceHalts)
  BY <1>a, <1>1 DEF Resume, Activate, Generation, Closed, MainObserveHalts, Paired, Deferred,
     EvidenceHalts, NoHalt, EventState
<1>4. ~(Subscribe \/ Judge \/ LockRow \/ CoverageComplete \/ ConsumeRow \/ MainObserves)
  BY <1>a DEF Subscribe, Judge, LockRow, CoverageComplete, ConsumeRow, MainObserves, Record,
     EventState
<1>5. ~(ReaderObserveHalts \/ ReaderObservesRemoved \/ ReaderLeaves \/ ReaderQueues
        \/ \E b \in Blocks : CaptureFinishes(b))
  BY <1>a, <1>1 DEF ReaderObserveHalts, ReaderObservesRemoved, ReaderLeaves, ReaderQueues,
     CaptureFinishes, NoHalt, EventState
<1>6. ~(ReaderRecordsLoss \/ \E altered \in BOOLEAN : ReaderObserves(altered))
  BY <1>a DEF ReaderRecordsLoss, ReaderObserves, Record, EventState
<1> QED
  BY <1>2, <1>3, <1>4, <1>5, <1>6 DEF Next, Main, Reader, Steady

LEMMA CasesStep ==
  ASSUME TypeOK, ThreadsKnown, CasesKnown, [Next]_vars
  PROVE  CasesKnown'
<1>a. JournalType /\ running \subseteq Blocks /\ state.cases \in [Blocks -> CaseStatus]
  BY DEF TypeOK, JournalType, Cases, EventState
<1>1. \A b \in running' : state'.cases[b] = "PENDING"
  <2>1. ASSUME NEW l \in Logs, Recorded(l) PROVE \A b \in running' : state'.cases[b] = "PENDING"
    <3>1. state'.cases = [state.cases EXCEPT ![Block[l]] = IF @ = "none" THEN "PENDING" ELSE @]
      BY <1>a, <2>1, ObservedBy DEF Observed
    <3>2. running' = IF state.cases[Block[l]] = "none" THEN running \cup {Block[l]} ELSE running
      BY <2>1 DEF Recorded, Record
    <3> QED
      BY <1>a, <2>1, <3>1, <3>2, ChainAssumption DEF CasesKnown
  <2>2. CASE running' \subseteq running /\ Kept
    BY <2>2 DEF CasesKnown, Kept
  <2>3. ASSUME NEW b \in Blocks, Finished(b) PROVE \A c \in running' : state'.cases[c] = "PENDING"
    BY <1>a, <2>3 DEF CasesKnown, Finished, CaptureFinishes
  <2>4. ASSUME NEW b \in Blocks, Rejected(b), running' \subseteq running
        PROVE  \A c \in running' : state'.cases[c] = "PENDING"
    BY <1>a, <2>4 DEF CasesKnown, Rejected
  <2>5. CASE running' \subseteq running /\ SameLogs
    BY <2>5 DEF CasesKnown, SameLogs
  <2> QED
    BY <2>1, <2>2, <2>3, <2>4, <2>5, Rows, RunningStep DEF DrainEnds, Locks, Covers, Consumes, Observed
<1>2. Live' /\ state'.stop = "none" =>
        \A b \in Blocks : state'.cases[b] = "PENDING" => b \in running'
  <2> SUFFICES ASSUME Live', state'.stop = "none", NEW b \in Blocks, state'.cases[b] = "PENDING"
               PROVE  b \in running'
    OBVIOUS
  <2>a. state.stop = "none"
    BY StopStays
  <2>1. CASE ~Live
    <3>1. Resume /\ Untouched
      BY <2>1, FlowStep DEF Flow, Live
    <3>2. state'.cases = state.cases
      BY <1>a, <3>1 DEF Resume, JournalType, EventState
    <3> QED
      BY <3>1, <3>2 DEF Untouched
  <2>2. ASSUME Live, NEW l \in Logs, Recorded(l) PROVE b \in running'
    <3>1. state'.cases = [state.cases EXCEPT ![Block[l]] = IF @ = "none" THEN "PENDING" ELSE @]
      BY <1>a, <2>2, ObservedBy DEF Observed
    <3>2. running' = IF state.cases[Block[l]] = "none" THEN running \cup {Block[l]} ELSE running
      BY <2>2 DEF Recorded, Record
    <3> QED
      BY <1>a, <2>a, <2>2, <3>1, <3>2, ChainAssumption DEF CasesKnown
  <2>3. CASE Live /\ ~\E l \in Logs : Recorded(l)
    <3>1. state.cases[b] = "PENDING"
      BY <1>a, <2>3, Rows DEF Kept, Observed, Finished, Rejected, DrainEnds, Locks, Covers, Consumes,
         SameLogs
    <3>2. b \in running
      BY <2>a, <2>3, <3>1 DEF CasesKnown
    <3>3. ASSUME NEW c \in Blocks, CaptureFinishes(c), ~Refuses PROVE b \in running'
      <4>1. state'.cases[c] # "PENDING"
        BY <1>a, <3>3, FinishedBy DEF Finished
      <4> QED
        BY <3>2, <3>3, <4>1 DEF CaptureFinishes
    <3> QED
      BY <3>2, <3>3, RunningEnds DEF Live
  <2> QED
    BY <2>1, <2>2, <2>3
<1>3. DrainCompletesCaptures'
  <2> SUFFICES ASSUME state'.stop = "DRAINED", NEW b \in Blocks, state'.cases[b] = "PENDING"
               PROVE  FALSE
    BY DEF DrainCompletesCaptures
  <2>1. CASE state.stop = "DRAINED"
    <3>1. ~\E l \in Logs : Observed(l)
      BY <2>1 DEF Observed, Recorded, Terminal
    <3>2. state.cases[b] = "PENDING"
      BY <1>a, <3>1, Rows DEF Kept, Finished, Rejected, DrainEnds, Locks, Covers, Consumes, SameLogs
    <3> QED
      BY <2>1, <3>2 DEF CasesKnown, DrainCompletesCaptures
  <2>2. CASE state.stop # "DRAINED"
    <3>1. DrainEnds
      BY <2>2, Rows DEF Kept, Observed, Finished, Rejected, Locks, Covers, Consumes, SameEnd
    <3>2. Live
      BY <3>1 DEF DrainEnds, Deferred, Live
    <3> QED
      BY <3>1, <3>2 DEF DrainEnds, SameLogs, CasesKnown
  <2> QED
    BY <2>1, <2>2
<1>4. state'.draining => Quiet
  BY Rows DEF Kept, Observed, Finished, Rejected, DrainEnds, Locks, Covers, Consumes, SameEnd,
     CasesKnown
<1>5. pc' \in {"waiting", "exit"} /\ state'.draining => state'.stop # "none"
  <2> SUFFICES ASSUME pc' \in {"waiting", "exit"}, state'.draining PROVE state'.stop # "none"
    OBVIOUS
  <2>1. state.draining
    BY DrainBegins DEF ErrorDrains, Fail, Goes, TypeOK, EventState
  <2>2. CASE pc \in {"waiting", "exit"}
    BY <2>1, <2>2, StopStays DEF CasesKnown
  <2>3. CASE Halt("HALTED")
    BY <1>a, <2>3 DEF Halt, JournalType, EventState
  <2>4. CASE Deferred
    <3>1. CASE Halt("DRAINED")
      BY <1>a, <3>1 DEF Halt, JournalType, EventState
    <3>2. CASE state.stop # "none"
      BY <3>2, StopStays
    <3> QED
      BY <2>1, <2>4, <3>1, <3>2 DEF Deferred, CasesKnown
  <2> QED
    BY <2>2, <2>3, <2>4, FlowStep DEF Flow
<1> QED
  BY <1>1, <1>2, <1>3, <1>4, <1>5 DEF CasesKnown

LEMMA IneligibleStays ==
  ASSUME TypeOK, ThreadsKnown, CasesKnown, [Next]_vars,
         NEW b \in Blocks, state.cases[b] = "INELIGIBLE"
  PROVE  state'.cases[b] = "INELIGIBLE"
<1>1. state.cases \in [Blocks -> CaseStatus]
  BY DEF TypeOK, EventState
<1>2. ASSUME NEW l \in Logs, Observed(l) PROVE state'.cases[b] = "INELIGIBLE"
  BY <1>1, <1>2, ChainAssumption DEF Observed
<1>3. ASSUME NEW c \in Blocks, Finished(c) PROVE state'.cases[b] = "INELIGIBLE"
  BY <1>1, <1>3 DEF Finished, CaptureFinishes, CasesKnown
<1>4. ASSUME NEW c \in Blocks, Rejected(c) PROVE state'.cases[b] = "INELIGIBLE"
  BY <1>1, <1>4 DEF Rejected
<1> QED
  BY <1>2, <1>3, <1>4, Rows DEF Kept, DrainEnds, Locks, Covers, Consumes, SameLogs

Ranging == {"observe", "judge", "lockMarker", "lockRow"}

LEMMA RangeMoves ==
  ASSUME [Next]_vars, pc' \in Ranging
  PROVE  \/ pc' = pc /\ range' = range
         \/ Fetch \/ MainObserves \/ RangeObserved \/ Judge \/ LockMarker
<1>1. CASE Start \/ Exit \/ Killed \/ Subscribe \/ Select \/ NativeDisabled \/ EnterNative \/ Paired
           \/ Closing
  BY <1>1 DEF Start, Exit, Killed, Dies, Subscribe, Select, NativeDisabled, EnterNative, Paired,
     Closing, Goes, Errs, Reconciles, Ranging
<1>2. CASE Private
  BY <1>2 DEF Private, Resume, Generation, Activate, FirstHead, RangeBegins, MainObserveHalts,
     LockRow, CoverageComplete, Loop, ConsumeMarker, ConsumeRow, LoadLocked, Admit, Revalidate,
     ErrorDrains, Closed, Fail, Deferred, CapturesWaited, Goes, Errs, Reconciles, Ranging
<1> QED
  BY <1>1, <1>2, StepKinds, BackgroundKeeps DEF Shared, vars, mainVars

LEMMA RangeStep ==
  ASSUME TypeOK, ThreadsKnown, CasesKnown, RangeKnown, [Next]_vars
  PROVE  RangeKnown'
<1>a. range \in RangeType
  BY DEF TypeOK, RangeType
<1>b. \A l \in Logs : Block[l] \in Blocks
  BY ChainAssumption
<1>1. CASE pc' \notin Ranging
  BY <1>1 DEF RangeKnown, Ranging
<1>2. CASE /\ pc' \in Ranging /\ range' = range
           /\ pc' = "observe" => pc = "observe"
           /\ pc' # pc => pc \in {"judge", "lockMarker"}
  <2>1. \A l \in range.logs : Judged(l) => Judged(l)'
    BY <1>a, <1>b, <1>2, IneligibleStays DEF Judged, RangeType
  <2>2. pc' \in {"judge", "lockMarker", "lockRow"} =>
          pc \in {"judge", "lockMarker", "lockRow"} /\ \A l \in range'.logs : Judged(l)'
    BY <1>2, <2>1 DEF RangeKnown, Ranging
  <2> QED
    BY <1>2, <2>2 DEF RangeKnown, Ranging, InRange, SameChain
<1>3. CASE Fetch /\ pc' \in Ranging
  <2>1. PICK logs \in SUBSET {l \in Logs : InRange(l, range)} :
           range' = [range EXCEPT !.logs = logs, !.left = logs, !.notified = state.seen]
    BY <1>3 DEF Fetch, Errs, Ranging
  <2>2. pc' = "observe"
    BY <1>3 DEF Fetch, Errs, Goes, Ranging
  <2> QED
    BY <1>a, <2>1, <2>2 DEF RangeKnown, RangeType, InRange, SameChain
<1>4. CASE MainObserves /\ pc' \in Ranging
  <2>1. PICK l \in range.left : ~Reorged(l) /\ range' = [range EXCEPT !.left = @ \ {l}]
    BY <1>4 DEF MainObserves, Lowest, Errs, Goes, Ranging
  <2>2. pc = "observe" /\ pc' = "observe"
    BY <1>4 DEF MainObserves, Errs, Goes, Ranging
  <2>3. /\ range'.logs = range.logs /\ range'.left = range.left \ {l}
        /\ range'.from = range.from /\ range'.end = range.end
    BY <1>a, <2>1 DEF RangeType
  <2>4. SameChain(range'.logs \ range'.left)
    BY <2>1, <2>2, <2>3 DEF RangeKnown, SameChain, Reorged
  <2> QED
    BY <2>2, <2>3, <2>4 DEF RangeKnown, InRange, SameChain
<1>5. CASE RangeObserved /\ pc' \in Ranging
  <2>1. /\ range.left = {} /\ pc = "observe" /\ pc' = "judge"
        /\ range' = [range EXCEPT !.todo = {Block[l] : l \in range.logs}]
    BY <1>5 DEF RangeObserved, Errs, Goes, Ranging
  <2>2. /\ range'.logs = range.logs /\ range'.todo = {Block[l] : l \in range.logs}
        /\ range'.from = range.from /\ range'.end = range.end
    BY <1>a, <2>1 DEF RangeType
  <2>3. range.logs \ range.left = range.logs
    BY <2>1
  <2> QED
    BY <2>1, <2>2, <2>3 DEF RangeKnown, InRange, SameChain, Judged
<1>6. CASE Judge /\ pc' \in Ranging /\ range' # range
  <2>1. PICK b \in range.todo :
           /\ pc' = pc /\ pc = "judge" /\ range' = [range EXCEPT !.todo = @ \ {b}]
           /\ state' = [state EXCEPT !.cases[b] = "INELIGIBLE"]
    BY <1>6 DEF Judge, LowestBlocks, Errs, Goes, Ranging, mainVars
  <2>2. /\ range'.logs = range.logs /\ range'.todo = range.todo \ {b}
        /\ range'.from = range.from /\ range'.end = range.end
    BY <1>a, <2>1 DEF RangeType
  <2>3. state'.cases[b] = "INELIGIBLE"
    BY <1>a, <2>1 DEF TypeOK, EventState, RangeType
  <2>4. \A l \in range.logs : Judged(l)'
    BY <1>a, <1>b, <2>1, <2>2, <2>3, IneligibleStays DEF RangeKnown, Judged, RangeType
  <2> QED
    BY <2>1, <2>2, <2>4 DEF RangeKnown, InRange, SameChain
<1>7. CASE (Judge \/ LockMarker) /\ pc' \in Ranging /\ ~(Judge /\ range' # range)
  <2>1. /\ range' = range /\ pc \in {"judge", "lockMarker"}
        /\ pc' \in {"judge", "lockMarker", "lockRow"}
    BY <1>7 DEF Judge, LockMarker, Errs, Goes, Ranging
  <2> QED
    BY <1>2, <1>7, <2>1
<1>8. CASE pc' = pc /\ range' = range /\ pc' \in Ranging
  BY <1>2, <1>8
<1> QED
  BY <1>1, <1>3, <1>4, <1>5, <1>6, <1>7, <1>8, RangeMoves

LEMMA PassedStep ==
  ASSUME TypeOK, ThreadsKnown, CasesKnown, RangeKnown, NothingPassedUnjudged, [Next]_vars
  PROVE  NothingPassedUnjudged'
<1>a. /\ state.cursor \in Nat /\ state.seen \subseteq Logs /\ state.lock \in Blocks \cup {None}
      /\ range \in RangeType
  BY DEF TypeOK, EventState, RangeType
<1>b. \A l \in Logs : Block[l] \in Blocks /\ Block[l] # None /\ Height(l) \in Nat
  BY ChainAssumption DEF Height
<1>c. \A l \in Logs : state.cases[Block[l]] = "INELIGIBLE" => state'.cases[Block[l]] = "INELIGIBLE"
  BY <1>b, IneligibleStays
<1>1. CASE Kept \/ DrainEnds \/ Consumes \/ \E b \in Blocks : Finished(b) \/ Rejected(b)
  <2>1. state'.seen = state.seen /\ state'.cursor = state.cursor /\ state'.lock = state.lock
    BY <1>1 DEF Kept, DrainEnds, Consumes, Finished, Rejected, SameLogs, SameCursor, SameLock
  <2> QED
    BY <1>a, <1>c, <2>1 DEF NothingPassedUnjudged
<1>2. ASSUME NEW l \in Logs, Observed(l) PROVE NothingPassedUnjudged'
  <2>1. /\ state'.seen = state.seen \cup {l} /\ Height(l) > state.cursor
        /\ state'.cursor = state.cursor /\ state'.lock = state.lock
    BY <1>2 DEF Observed, Recorded, SameCursor, SameLock
  <2> QED
    BY <1>a, <1>b, <1>c, <2>1 DEF NothingPassedUnjudged
\* The logs of a range that closes are all in the answer, so all judged.
<1>3. ASSUME Agrees, range.todo \subseteq {Block[k] : k \in range.logs},
             NEW l \in state.seen, Height(l) > state.cursor, Height(l) <= range.end,
             pc \in {"judge", "lockRow"}
      PROVE  l \in range.logs /\ Judged(l)
  <2>1. InRange(l, range)
    BY <1>a, <1>b, <1>3 DEF Agrees, InRange, RangeType
  <2> QED
    BY <1>3, <2>1 DEF Agrees, RangeKnown
<1>4. ASSUME NEW b \in Blocks, Locks(b) PROVE NothingPassedUnjudged'
  <2>1. /\ Agrees /\ state'.seen = state.seen /\ state'.lock = b /\ state'.cursor = Number[b]
        /\ state.lock = None /\ pc = "lockRow" /\ b \in LowestBlocks
    BY <1>4 DEF Locks, SameLogs, Agrees, LockRow
  <2>2. PICK k \in range.logs : Block[k] = b
    BY <2>1 DEF RangeKnown, LowestBlocks
  <2>3. Height(k) = Number[b] /\ Number[b] \in Nat /\ Number[b] <= range.end
    BY <1>a, <1>b, <2>1, <2>2 DEF RangeKnown, InRange, Height, RangeType
  <2> SUFFICES ASSUME NEW l \in state.seen, Height(l) <= Number[b]
               PROVE  Block[l] = b \/ state'.cases[Block[l]] = "INELIGIBLE"
    BY <2>1 DEF NothingPassedUnjudged
  <2>4. CASE Height(l) <= state.cursor
    BY <1>a, <1>b, <1>c, <2>1, <2>4 DEF NothingPassedUnjudged
  <2>5. CASE Height(l) > state.cursor
    <3>a. Height(l) <= range.end
      BY <1>a, <1>b, <2>3 DEF RangeType
    <3>b. range.todo \subseteq {Block[m] : m \in range.logs}
      BY <2>1 DEF RangeKnown
    <3>1. l \in range.logs /\ Judged(l)
      BY <1>3, <2>1, <2>5, <3>a, <3>b
    <3>2. CASE Block[l] \in range.todo
      <4>1. Height(l) = Height(k)
        BY <1>a, <1>b, <2>1, <2>3, <3>2 DEF LowestBlocks, Height
      <4> QED
        BY <2>1, <2>2, <3>1, <4>1 DEF RangeKnown, SameChain
    <3> QED
      BY <1>a, <1>c, <3>1, <3>2 DEF Judged
  <2> QED
    BY <1>a, <1>b, <2>3, <2>4, <2>5
<1>5. CASE Covers
  <2>1. /\ Agrees /\ state'.seen = state.seen /\ state'.lock = state.lock /\ state'.cursor = range.end
        /\ pc = "judge" /\ range.todo = {}
    BY <1>5 DEF Covers, SameLogs, SameLock, CoverageComplete
  <2> SUFFICES ASSUME NEW l \in state.seen, Height(l) <= range.end
               PROVE  Block[l] = state.lock \/ state'.cases[Block[l]] = "INELIGIBLE"
    BY <2>1 DEF NothingPassedUnjudged
  <2>2. CASE Height(l) <= state.cursor
    BY <1>a, <1>c, <2>2 DEF NothingPassedUnjudged
  <2>3. CASE Height(l) > state.cursor
    <3>1. Judged(l)
      BY <1>3, <2>1, <2>3 DEF RangeKnown
    <3> QED
      BY <1>a, <1>c, <2>1, <3>1 DEF Judged
  <2> QED
    BY <1>a, <1>b, <2>2, <2>3
<1> QED
  BY <1>1, <1>2, <1>4, <1>5, Rows

-----------------------------------------------------------------------------
(* The theorems. *)

LEMMA InvInit == Init => IInv
<1> SUFFICES ASSUME Init PROVE IInv
  OBVIOUS
<1>1. /\ pc = "down" /\ reader = NoReader /\ running = {} /\ entered = << >> /\ refused = FALSE
      /\ connects = 0 /\ state.reconnects = 0 /\ state.consumed = FALSE /\ state.draining = FALSE
      /\ state.stop = "none" /\ state.seen = {}
  BY DEF Init, EmptyState
<1>2. AuthorityKnown
  BY <1>1 DEF AuthorityKnown, Spending, Covering
<1>3. ThreadsKnown
  BY <1>1 DEF ThreadsKnown, NoReader
<1>4. Budgeted /\ RefusalHolds
  BY <1>1 DEF Budgeted, RefusalHolds
<1>5. CasesKnown
  BY <1>1 DEF CasesKnown, Live, DrainCompletesCaptures
<1>6. RangeKnown /\ NothingPassedUnjudged
  BY <1>1 DEF RangeKnown, NothingPassedUnjudged
<1> QED
  BY <1>2, <1>3, <1>4, <1>5, <1>6, TypeInit DEF IInv

LEMMA InvStep == IInv /\ [Next]_vars => IInv'
BY TypeStep, AuthorityStep, ThreadsStep, BudgetStep, RefusalStep, CasesStep, RangeStep, PassedStep
   DEF IInv

\* The strengthened invariant holds whatever the chain, the policy and the provider.
THEOREM WatchInductive == Spec => []IInv
BY InvInit, InvStep, PTL DEF Spec

\* The watcher's variables keep their types: the queue, the cursor and the budget
\* stay within their limits.
THEOREM WatchTypeCorrect == Spec => []TypeOK
<1>1. IInv => TypeOK
  BY DEF IInv
<1> QED
  BY <1>1, WatchInductive, PTL

\* Range coverage and notifications race, yet the cursor never passes a notified block
\* that was not judged (CompleteRange).
THEOREM FirstEligible == Spec => []NothingPassedUnjudged
<1>1. IInv => NothingPassedUnjudged
  BY DEF IInv
<1> QED
  BY <1>1, WatchInductive, PTL

\* The reader's Halt races the main goroutine, yet a refused notification is never
\* followed by native execution (Observe, load).
THEOREM RefusalStops == Spec => []RefusedNeverNative
<1>1. IInv => RefusedNeverNative
  BY DEF IInv, RefusalHolds, RefusedNeverNative
<1> QED
  BY <1>1, WatchInductive, PTL

\* No sequence of reconnections and restarts opens more sockets than the policy
\* allows (CONNECTION_GENERATION).
THEOREM WithinBudget == Spec => []ConnectionsBounded
<1>1. IInv => ConnectionsBounded
  BY PolicyAssumption DEF IInv, TypeOK, EventState, Budgeted, ConnectionsBounded
<1> QED
  BY <1>1, WatchInductive, PTL

\* A drain that ends with its STOP row has a row for every capture (the deferred
\* function of runEventWatcherWith).
LEMMA DrainIsComplete == Spec => []DrainCompletesCaptures
<1>1. IInv => DrainCompletesCaptures
  BY DEF IInv, CasesKnown
<1> QED
  BY <1>1, WatchInductive, PTL

\* When the main goroutine returns, the reader and the captures are done and a drain
\* has been stopped (reader.Wait and the deferred wait).
THEOREM ReturnsAlone == Spec => []NothingLeftBehind
<1>1. IInv /\ DrainCompletesCaptures => NothingLeftBehind
  BY DEF IInv, ThreadsKnown, CasesKnown, Ending, NothingLeftBehind
<1> QED
  BY <1>1, WatchInductive, DrainIsComplete, PTL

LEMMA AuthorityMoves ==
  ASSUME IInv, [Next]_vars
  PROVE  [Authority!Next]_(Authority!vars)
<1>a. /\ TypeOK /\ ThreadsKnown /\ AuthorityKnown
      /\ state.consumed \in BOOLEAN /\ state'.consumed \in BOOLEAN
  BY StateStep DEF IInv, TypeOK, JournalType, EventState
<1>1. CASE EnterNative
  <2>1. state' = state /\ state.consumed /\ entered = << >> /\ entered' = Append(entered, state.lock)
    BY <1>a, <1>1 DEF EnterNative, NoHalt, AuthorityKnown, Spending
  <2>2. entered' = <<state.lock>>
    BY <2>1
  <2>3. Authority!Enter
    BY <2>1, <2>2 DEF Authority!Enter
  <2> QED
    BY <2>3 DEF Authority!Next
<1>2. CASE ~EnterNative
  <2>1. entered' = entered
    BY <1>2, StepKinds, BackgroundKeeps, PrivateKeeps
       DEF vars, history, Shared, Start, Exit, Killed, Dies, Subscribe, MainObserves, Select,
           NativeDisabled, Paired, Closing
  <2>2. ASSUME NEW b \in Blocks, Locks(b) PROVE Authority!Choose(b)
    BY <1>a, <2>1, <2>2 DEF Locks, Agrees, Authority!Choose
  <2>3. ASSUME Consumes PROVE Authority!Spend
    BY <1>a, <2>1, <2>3 DEF Consumes, Authority!Spend
  <2>4. CASE state'.lock = state.lock /\ state'.consumed = state.consumed
    BY <2>1, <2>4 DEF Authority!vars
  <2> QED
    BY <1>a, <2>2, <2>3, <2>4, Rows, ChainAssumption
       DEF Kept, Observed, Finished, Rejected, DrainEnds, Covers, SameLock, Authority!Next
<1> QED
  BY <1>1, <1>2

\* Over all processes, restarts and deaths the watcher chooses one block, spends its
\* authority once and enters native execution at most once, on that block.
THEOREM WatchIsOneShot == Spec => ImplementsOneShot
<1>1. Init => Authority!Init
  BY DEF Init, EmptyState, Authority!Init
<1>2. IInv /\ [Next]_vars => [Authority!Next]_(Authority!vars)
  BY AuthorityMoves
<1> QED
  BY <1>1, <1>2, WatchInductive, PTL DEF Spec, ImplementsOneShot, Authority!Spec
=============================================================================
