----------------------------- MODULE EventWatch -----------------------------
(***************************************************************************)
(* The event watcher: RunEventWatcher (event_watch.go) with its socket     *)
(* reader, the EventController (event_controller.go) and its provisional   *)
(* captures, range coverage (event_transport.go, quiet_coverage.go) and    *)
(* the drain.  The main goroutine, the reader, one goroutine per capture,  *)
(* the RPC provider and the clock interleave freely.                       *)
(*                                                                         *)
(* The provider is not trusted: it may notify any log at any time, twice   *)
(* or never, answer eth_getLogs with any part of a range, fail, or drop    *)
(* the connection.  What the code decides from such answers is the model.  *)
(*                                                                         *)
(* Abstractions.  A journal row is one atomic step here: rows that fail    *)
(* halfway, and power loss, are EventJournal's subject, and a failure is   *)
(* its latched fatal reason (HardFailure).  Activation is block 0.  Only   *)
(* target swaps are logs.  Header checks and RPC budgets fail at will.     *)
(* The observed policy (observed_selection.go) is not modelled.            *)
(***************************************************************************)
EXTENDS Integers, Sequences, FiniteSets

CONSTANTS Blocks, Number,    \* block hashes and their heights, forks included
          Tip,               \* bound: the highest head the provider reports
          Logs, Block,       \* target logs and the blocks they are in
          Eligible,          \* blocks CompleteRange finds ELIGIBLE
          None,
          Quiet,             \* the policy has quiet coverage: guarded and draining
          Science,           \* a scientific authority was given
          Captures, Reconnects, RangeBlocks, QueueCap,   \* limits of the policy
          MaxStarts          \* bound: how often the process is started

ASSUME ChainAssumption ==
  /\ Tip \in Nat
  /\ Number \in [Blocks -> 0 .. Tip] /\ Block \in [Logs -> Blocks]
  /\ Eligible \subseteq Blocks /\ None \notin Blocks \cup Logs
ASSUME PolicyAssumption ==
  /\ Quiet \in BOOLEAN /\ Science \in BOOLEAN
  /\ Captures \in Nat /\ Reconnects \in Nat /\ RangeBlocks \in Nat \ {0}
  /\ QueueCap \in Nat /\ MaxStarts \in Nat

VARIABLES
  state,      \* the acknowledged EventState of the journal; survives the process
  marker,     \* the marker files that exist; survives the process
  fatal,      \* j.fatalReason # ""
  expired,    \* ctx.Err() # nil: the window ended or the journal cancelled it
  pc,         \* where the main goroutine is; "down" without a process
  to, range,  \* reconcile's argument and the range CompleteRange works on
  reconnect,  \* the error that ended the loop is the reader's
  conn,       \* the socket is open
  reader,     \* the reader goroutine: what it does and with which log
  queue,      \* the events channel
  lost,       \* an error waits in the disconnected channel
  running,    \* captures whose done channel is not closed
  entered,    \* history: the blocks native execution was entered for
  refused,    \* history: a notification was refused before the consumption
  connects,   \* history: sockets opened, by all processes
  starts

mainVars == <<to, range, reconnect>>
history == <<entered, refused, connects, starts>>
vars == <<state, marker, fatal, expired, pc, mainVars, conn, reader, queue, lost, running, history>>

Height(l) == Number[Block[l]]

CaseStatus == {"none", "PENDING", "CAPTURED", "FAILED", "INELIGIBLE"}
Stops == {"none", "HALTED", "DRAINED", "WINDOW_ENDED"}

EventState ==
  [began : BOOLEAN, activated : BOOLEAN, cursor : 0 .. Tip, seen : SUBSET Logs,
   cases : [Blocks -> CaseStatus], lock : Blocks \cup {None}, connected : BOOLEAN,
   consumed : BOOLEAN, draining : BOOLEAN, stop : Stops, reconnects : 0 .. Reconnects + 1]

EmptyState == [began |-> FALSE, activated |-> FALSE, cursor |-> 0, seen |-> {},
               cases |-> [b \in Blocks |-> "none"], lock |-> None, connected |-> FALSE,
               consumed |-> FALSE, draining |-> FALSE, stop |-> "none", reconnects |-> 0]
NoRange == [from |-> 0, end |-> 0, logs |-> {}, left |-> {}, todo |-> {}, notified |-> {}]
NoReader == [phase |-> "gone", log |-> None]

Init ==
  /\ state = EmptyState /\ marker = {}
  /\ fatal = FALSE /\ expired = FALSE
  /\ pc = "down" /\ to = 0 /\ range = NoRange /\ reconnect = FALSE
  /\ conn = FALSE /\ reader = NoReader /\ queue = << >> /\ lost = FALSE /\ running = {}
  /\ entered = << >> /\ refused = FALSE /\ connects = 0 /\ starts = 0

Terminal == state.stop # "none" \/ state.draining

-----------------------------------------------------------------------------
(* The journal, as its callers see it. *)

\* A guarded journal that is fatal refuses every row but STOP.
Refuses == Quiet /\ fatal

\* Halt: a STOP row, the latched reason and, with quiet coverage, the cancelled context.
Halt(reason) ==
  /\ state' = [state EXCEPT !.stop = IF @ = "none" THEN reason ELSE @]
  /\ fatal' = TRUE
  /\ expired' = (expired \/ Quiet)

NoHalt == UNCHANGED <<state, fatal, expired>>
JournalOnly == UNCHANGED <<fatal, expired>>

\* eventAdmissionReady
Ready == ~expired /\ ~fatal

\* c.mu: held by Observe until its Halt is done.
ControllerFree == reader.phase # "halting" /\ pc # "observeHalt"

-----------------------------------------------------------------------------
(* Observe: the reader's notifications and CompleteRange's own logs. *)

Cases == {b \in Blocks : state.cases[b] # "none"}
Fresh(l) == state.lock = None /\ Height(l) > 0 /\ l \notin state.seen
Forked(l) == \E k \in state.seen : Height(k) = Height(l) /\ Block[k] # Block[l]
OverBudget(l) == Block[l] \notin Cases /\ Cardinality(Cases) >= Captures
Late(l) == state.lock # None /\ l \notin state.seen /\ Height(l) <= Number[state.lock]

\* altered: the log differs from the one of the same identity seen before.
ObserveError(l, altered) ==
  \/ Refuses \/ Terminal
  \/ l \in state.seen /\ altered
  \/ Late(l)
  \/ Fresh(l) /\ (Height(l) <= state.cursor \/ Forked(l) \/ OverBudget(l))

\* A fresh log is recorded; the first one of its block starts the capture.
Record(l) ==
  LET b == Block[l] IN
  IF Fresh(l)
  THEN /\ state' = [state EXCEPT !.seen = @ \cup {l},
                                 !.cases[b] = IF @ = "none" THEN "PENDING" ELSE @]
       /\ running' = IF state.cases[b] = "none" THEN running \cup {b} ELSE running
  ELSE UNCHANGED <<state, running>>

CaptureLeftOpen(b) ==
  /\ b \in running
  /\ IF Refuses
     THEN Halt("HALTED") /\ UNCHANGED running
     ELSE /\ \E status \in {"CAPTURED", "FAILED"} : state' = [state EXCEPT !.cases[b] = status]
          /\ running' = running \ {b}
          /\ JournalOnly
  /\ UNCHANGED <<marker, pc, mainVars, conn, reader, queue, lost, history>>

\* A capture ends well or with an error; either way its row precedes close(done).
CaptureFinishes(b) ==
  /\ b \in running
  /\ running' = running \ {b}
  /\ IF Refuses
     THEN Halt("HALTED")                        \* CAPTURE_JOURNAL_WRITE
     ELSE /\ \E status \in {"CAPTURED", "FAILED"} : state' = [state EXCEPT !.cases[b] = status]
          /\ JournalOnly
  /\ UNCHANGED <<marker, pc, mainVars, conn, reader, queue, lost, history>>

-----------------------------------------------------------------------------
(* The reader goroutine. *)

ReaderTo(phase) == reader' = [reader EXCEPT !.phase = phase]
ReaderOnly == UNCHANGED <<marker, pc, mainVars, conn, entered, connects, starts>>

\* A frame was read; the socket may be closed before it is observed.
ReaderReads ==
  /\ reader.phase = "reading" /\ conn
  /\ \E l \in Logs : reader' = [phase |-> "read", log |-> l]
  /\ UNCHANGED <<state, fatal, expired, queue, lost, running, refused>> /\ ReaderOnly

ReaderObserves(altered) ==
  /\ reader.phase = "read" /\ ControllerFree
  /\ IF ObserveError(reader.log, altered)
     THEN /\ ReaderTo("halting")
          /\ refused' = (refused \/ ~state.consumed)
          /\ UNCHANGED <<state, running>>
     ELSE /\ ReaderTo("queueing")
          /\ Record(reader.log)
          /\ UNCHANGED refused
  /\ UNCHANGED <<fatal, expired, queue, lost>> /\ ReaderOnly

\* Observe's own Halt, c.mu still held.
ReaderObserveHalts ==
  /\ reader.phase = "halting"
  /\ IF state.draining THEN NoHalt ELSE Halt("HALTED")
  /\ ReaderTo("failed")
  /\ UNCHANGED <<queue, lost, running, refused>> /\ ReaderOnly

\* REORG_NOTIFICATION: a removed log halts without c.mu, and even during a drain.
ReaderObservesRemoved ==
  /\ reader.phase = "read"
  /\ Halt("HALTED")
  /\ refused' = (refused \/ ~state.consumed)
  /\ ReaderTo("failed")
  /\ UNCHANGED <<queue, lost, running>> /\ ReaderOnly

\* Anything else wrong with a frame, its evidence or its budget.
ReaderFails ==
  /\ reader.phase \in {"reading", "read"}
  /\ ReaderTo("failed")
  /\ UNCHANGED <<state, fatal, expired, queue, lost, running, refused>> /\ ReaderOnly

\* WSS_DISCONNECTED: the peer went away or the main goroutine closed the socket.
ReaderDisconnected ==
  /\ reader.phase = "reading"
  /\ ReaderTo("dropped")
  /\ UNCHANGED <<state, fatal, expired, queue, lost, running, refused>> /\ ReaderOnly

\* DISCONNECTED row; its error is ignored.
ReaderRecordsLoss ==
  /\ reader.phase \in {"failed", "dropped"}
  /\ state' = IF Refuses THEN state ELSE [state EXCEPT !.connected = FALSE]
  /\ ReaderTo(IF reader.phase = "failed" THEN "haltLeave" ELSE "leave")
  /\ UNCHANGED <<fatal, expired, queue, lost, running, refused>> /\ ReaderOnly

ReaderLeaves ==
  /\ reader.phase \in {"haltLeave", "leave"}
  /\ IF reader.phase = "haltLeave" /\ ~expired /\ ~state.draining
     THEN Halt("HALTED") ELSE NoHalt
  /\ lost' = TRUE
  /\ reader' = NoReader
  /\ UNCHANGED <<queue, running, refused>> /\ ReaderOnly

\* The block number goes to the main goroutine; a full channel halts the operation.
ReaderQueues ==
  /\ reader.phase = "queueing"
  /\ IF Len(queue) < QueueCap
     THEN /\ queue' = Append(queue, Height(reader.log))
          /\ reader' = [phase |-> "reading", log |-> None]
          /\ NoHalt /\ UNCHANGED lost
     ELSE /\ Halt("HALTED")                     \* WSS_EVENT_QUEUE_OVERFLOW
          /\ lost' = TRUE /\ reader' = NoReader
          /\ UNCHANGED queue
  /\ UNCHANGED <<running, refused>> /\ ReaderOnly

Reader ==
  \/ ReaderReads \/ (\E altered \in BOOLEAN : ReaderObserves(altered))
  \/ ReaderObservesRemoved \/ ReaderObserveHalts \/ ReaderFails \/ ReaderDisconnected
  \/ ReaderRecordsLoss \/ ReaderLeaves \/ ReaderQueues

-----------------------------------------------------------------------------
(* The main goroutine: opening, connecting, ending. *)

Live == pc \notin {"down", "check", "exit"}
Goes(where) == pc' = where
\* e # nil: the loop ends and the operation is closed.
Errs == pc' = "error" /\ reconnect' = FALSE
MainOnly == UNCHANGED <<conn, reader, queue, lost, running, history>>

\* CheckMarkers and EventResumeCheck; BEGIN_ACQUISITION if they pass.
Untouched ==
  /\ marker = {}
  /\ ~state.draining /\ state.stop = "none"
  /\ state.lock = None /\ ~state.consumed
  /\ ~(state.began /\ ~state.activated)
  /\ \A b \in Blocks : state.cases[b] # "PENDING"
  /\ ~(Quiet /\ state.began)

Start ==
  /\ pc = "down" /\ starts < MaxStarts
  /\ starts' = starts + 1 /\ refused' = FALSE
  /\ fatal' = FALSE /\ expired' = FALSE
  /\ pc' = "check"
  /\ UNCHANGED <<state, marker, mainVars, conn, reader, queue, lost, running, entered, connects>>

ResumeRefilled ==
  /\ pc = "check"
  /\ IF Untouched
     THEN /\ state' = [state EXCEPT !.began = TRUE, !.reconnects = 0]
          /\ Goes("generation") /\ JournalOnly
     ELSE Halt("HALTED") /\ Goes("exit")
  /\ UNCHANGED <<marker, mainVars>> /\ MainOnly

Resume ==
  /\ pc = "check"
  /\ IF Untouched
     THEN /\ state' = [state EXCEPT !.began = TRUE]
          /\ Goes("generation") /\ JournalOnly
     ELSE Halt("HALTED") /\ Goes("exit")
  /\ UNCHANGED <<marker, mainVars>> /\ MainOnly

\* CONNECTION_GENERATION counts a connection against the budget before it is made.
Generation ==
  /\ pc = "generation"
  /\ IF ~Refuses /\ state.reconnects < Reconnects + 1
     THEN /\ state' = [state EXCEPT !.reconnects = @ + 1]
          /\ Goes("activate") /\ JournalOnly
     ELSE Halt("HALTED") /\ Goes("exit")
  /\ UNCHANGED <<marker, mainVars>> /\ MainOnly

\* The anchor header is fetched only once; a failed call halts at once.
Activate ==
  /\ pc = "activate"
  /\ \/ /\ ~Refuses
        /\ state' = [state EXCEPT !.activated = TRUE]
        /\ Goes("subscribe") /\ JournalOnly
     \/ Halt("HALTED") /\ Goes("exit")
  /\ UNCHANGED <<marker, mainVars>> /\ MainOnly

\* A new socket, the SUBSCRIBED row and the reader.
Subscribe ==
  /\ pc = "subscribe"
  /\ \/ /\ ~Refuses
        /\ state' = [state EXCEPT !.connected = TRUE]
        /\ conn' = TRUE /\ reader' = [phase |-> "reading", log |-> None]
        /\ connects' = connects + 1
        /\ Goes("head")
     \/ /\ Goes("fail")                       \* before or after the dial
        /\ connects' \in {connects, connects + 1}
        /\ UNCHANGED <<state, conn, reader>>
  /\ JournalOnly
  /\ UNCHANGED <<marker, mainVars, queue, lost, running, entered, refused, starts>>

\* BeginDrain waits for c.mu; a row that is refused cancels the context.
BeginDrain ==
  IF state.draining THEN NoHalt
  ELSE IF state.stop # "none" \/ state.consumed \/ Refuses
  THEN expired' = TRUE /\ UNCHANGED <<state, fatal>>
  ELSE state' = [state EXCEPT !.draining = TRUE] /\ JournalOnly

\* The loop ended with an error.
ErrorDrains ==
  /\ pc = "error" /\ ControllerFree
  /\ IF Quiet /\ ~reconnect /\ state.stop = "none" /\ ~state.consumed
     THEN BeginDrain ELSE NoHalt
  /\ Goes("closing")
  /\ UNCHANGED <<marker, mainVars>> /\ MainOnly

Closing ==
  /\ pc = "closing" /\ conn
  /\ conn' = FALSE
  /\ UNCHANGED <<state, marker, fatal, expired, pc, mainVars, reader, queue, lost, running, history>>

\* reader.Wait(), then reconnect, end of window or failure.
Closed ==
  /\ pc = "closing" /\ ~conn /\ reader = NoReader
  /\ IF reconnect /\ ~expired /\ state.lock = None /\ state.stop = "none"
     THEN IF ~Refuses /\ state.reconnects < Reconnects + 1
          THEN /\ state' = [state EXCEPT !.reconnects = @ + 1]
               /\ Goes("subscribe") /\ JournalOnly
          ELSE Goes("fail") /\ NoHalt
     ELSE IF expired /\ state.lock = None
     THEN /\ Goes("deferred")
          /\ IF state.stop # "none" \/ fatal THEN NoHalt ELSE Halt("WINDOW_ENDED")
     ELSE Goes("fail") /\ NoHalt
  /\ UNCHANGED <<marker, mainVars>> /\ MainOnly

Fail ==
  /\ pc = "fail" /\ ControllerFree
  /\ IF Quiet /\ ~state.consumed /\ state.stop = "none" THEN BeginDrain ELSE Halt("HALTED")
  /\ Goes("deferred")
  /\ UNCHANGED <<marker, mainVars>> /\ MainOnly

DeferredWithoutWait ==
  /\ pc = "deferred"
  /\ IF Quiet /\ state.draining /\ state.stop = "none"
     THEN Halt("DRAINED") /\ Goes("waiting")
     ELSE expired' = TRUE /\ UNCHANGED <<state, fatal>> /\ Goes("waiting")
  /\ UNCHANGED <<marker, mainVars>> /\ MainOnly

\* The deferred function: captures are waited for; a drain is halted after them,
\* anything else cancels them first.
Deferred ==
  /\ pc = "deferred"
  /\ IF Quiet /\ state.draining /\ state.stop = "none"
     THEN running = {} /\ Halt("DRAINED") /\ Goes("exit")
     ELSE expired' = TRUE /\ UNCHANGED <<state, fatal>> /\ Goes("waiting")
  /\ UNCHANGED <<marker, mainVars>> /\ MainOnly

CapturesAbandoned ==
  /\ pc = "waiting"
  /\ Goes("exit")
  /\ NoHalt /\ UNCHANGED <<marker, mainVars>> /\ MainOnly

CapturesWaited ==
  /\ pc = "waiting" /\ running = {}
  /\ Goes("exit")
  /\ NoHalt /\ UNCHANGED <<marker, mainVars>> /\ MainOnly

-----------------------------------------------------------------------------
(* The main goroutine: covering a range of blocks (CompleteRange). *)

Min2(m, n) == IF m <= n THEN m ELSE n
InRange(l, r) == Height(l) \in r.from .. r.end

\* The head after subscribing, a tick's head, or a notified block: reconcile up to it.
Reconciles(n) == to' = n /\ Goes("range") /\ UNCHANGED <<range, reconnect>>

FirstHead ==
  /\ pc = "head"
  /\ \/ \E n \in 0 .. Tip : Reconciles(n)
     \/ Errs /\ UNCHANGED <<to, range>>
  /\ NoHalt /\ UNCHANGED marker /\ MainOnly

\* The top of the reconcile loop.
RangeBegins ==
  /\ pc = "range"
  /\ IF state.stop # "none" \/ (Quiet /\ state.draining)
     THEN Errs /\ UNCHANGED range
     ELSE IF state.lock # None \/ state.cursor >= to
     THEN Goes("loop") /\ UNCHANGED <<range, reconnect>>
     ELSE /\ Goes("fetch") /\ UNCHANGED reconnect
          /\ range' = [NoRange EXCEPT !.from = state.cursor + 1,
                                      !.end = Min2(to, state.cursor + RangeBlocks)]
  /\ NoHalt /\ UNCHANGED <<marker, to>> /\ MainOnly

\* The provider's answer, and CompleteRange's own snapshot of what was notified.
Fetch ==
  /\ pc = "fetch"
  /\ \/ /\ ~Terminal /\ ~expired
        /\ \E logs \in SUBSET {l \in Logs : InRange(l, range)} :
             range' = [range EXCEPT !.logs = logs, !.left = logs, !.notified = state.seen]
        /\ Goes("observe") /\ UNCHANGED reconnect
     \/ Errs /\ range' = NoRange
  /\ NoHalt /\ UNCHANGED <<marker, to>> /\ MainOnly

Lowest(logs) == {l \in logs : \A k \in logs : Height(l) <= Height(k)}
Reorged(l) == \E k \in range.logs \ range.left : Height(k) = Height(l) /\ Block[k] # Block[l]

\* Each log of the answer is observed like a notification, in block order.
MainObserves ==
  /\ pc = "observe" /\ range.left # {}
  /\ \E l \in Lowest(range.left), altered \in BOOLEAN :
       IF Reorged(l)
       THEN Errs /\ range' = NoRange /\ UNCHANGED <<state, running, refused>>
       ELSE /\ ControllerFree
            /\ IF ObserveError(l, altered)
               THEN /\ Goes("observeHalt") /\ range' = NoRange
                    /\ refused' = TRUE
                    /\ UNCHANGED <<state, running, reconnect>>
               ELSE /\ Record(l)
                    /\ range' = [range EXCEPT !.left = @ \ {l}]
                    /\ UNCHANGED <<pc, reconnect, refused>>
  /\ UNCHANGED <<marker, fatal, expired, to, conn, reader, queue, lost, entered, connects, starts>>

MainObserveHalts ==
  /\ pc = "observeHalt"
  /\ IF state.draining THEN NoHalt ELSE Halt("HALTED")
  /\ Errs
  /\ UNCHANGED <<marker, to, range>> /\ MainOnly

\* COVERAGE_OMITS_NOTIFIED_LOG, against the snapshot.
RangeObserved ==
  /\ pc = "observe" /\ range.left = {}
  /\ IF \E l \in range.notified : InRange(l, range) /\ l \notin range.logs
     THEN Errs /\ range' = NoRange
     ELSE /\ Goes("judge") /\ UNCHANGED reconnect
          /\ range' = [range EXCEPT !.todo = {Block[l] : l \in range.logs}]
  /\ NoHalt /\ UNCHANGED <<marker, to>> /\ MainOnly

AgreesWithSnapshot ==
  /\ ~Refuses /\ ~Terminal /\ state.lock = None /\ state.connected
  /\ state.cursor + 1 = range.from

\* The checks both closing rows repeat under j.mu.
Agrees ==
  /\ ~Refuses /\ ~Terminal /\ state.lock = None /\ state.connected
  /\ state.cursor + 1 = range.from
  /\ \A l \in state.seen : InRange(l, range) => l \in range.logs

AnyBlock == range.todo   \* mutant: as the captures finish

LowestBlocks == {b \in range.todo : \A c \in range.todo : Number[b] <= Number[c]}

\* load wants a finished capture that no earlier range rejected.
Loadable(b) == state.cases[b] \in {"CAPTURED", "FAILED"}

\* The blocks are judged in order, each after its capture is done or the window over.
\* Any check of the loaded package may fail; the two outcomes that go on need their case.
Judge ==
  /\ pc = "judge" /\ ControllerFree
  /\ \E b \in LowestBlocks :
       /\ b \notin running \/ expired
       /\ \/ /\ Errs /\ range' = NoRange
             /\ UNCHANGED state
          \/ /\ b \notin running /\ Loadable(b) /\ b \notin Eligible /\ ~Refuses
             /\ state' = [state EXCEPT !.cases[b] = "INELIGIBLE"]
             /\ range' = [range EXCEPT !.todo = @ \ {b}]
             /\ UNCHANGED <<pc, reconnect>>
          \/ /\ b \notin running /\ state.cases[b] = "CAPTURED" /\ b \in Eligible
             /\ Goes("lockMarker")
             /\ UNCHANGED <<state, range, reconnect>>
  /\ JournalOnly /\ UNCHANGED <<marker, to>> /\ MainOnly

\* Marker: O_EXCL, synced; an error latches the journal, and may leave the file.
MarkerCreated(name) == marker' = marker \cup {name} /\ JournalOnly
MarkerFails(name) ==
  /\ marker' \in {marker, marker \cup {name}}
  /\ fatal' = TRUE /\ expired' = (expired \/ Quiet)

\* SELECTION_LOGS, whose failure latches only with quiet coverage, then the marker.
LockMarker ==
  /\ pc = "lockMarker"
  /\ \/ /\ ~Refuses /\ "lock" \notin marker
        /\ MarkerCreated("lock")
        /\ Goes("lockRow") /\ UNCHANGED <<range, reconnect>>
     \/ Errs /\ range' = NoRange /\ ~Quiet /\ UNCHANGED marker /\ JournalOnly
     \/ Errs /\ range' = NoRange /\ MarkerFails("lock")
  /\ UNCHANGED <<state, to>> /\ MainOnly

\* FIRST_ELIGIBLE_LOCK: the cursor stops at the locked block.
LockRow ==
  /\ pc = "lockRow"
  /\ range' = NoRange
  /\ IF Agrees
     THEN /\ \E b \in LowestBlocks : state' = [state EXCEPT !.lock = b, !.cursor = Number[b]]
          /\ Goes("range") /\ UNCHANGED reconnect
     ELSE Errs /\ UNCHANGED state
  /\ JournalOnly /\ UNCHANGED <<marker, to>> /\ MainOnly

\* COVERAGE_COMPLETE: nothing in the range was eligible.
CoverageComplete ==
  /\ pc = "judge" /\ range.todo = {}
  /\ range' = NoRange
  /\ IF Agrees
     THEN state' = [state EXCEPT !.cursor = range.end] /\ Goes("range") /\ UNCHANGED reconnect
     ELSE Errs /\ UNCHANGED state
  /\ JournalOnly /\ UNCHANGED <<marker, to>> /\ MainOnly

-----------------------------------------------------------------------------
(* The main goroutine: its loop, the consumption and native entry. *)

LoopUnconsumed ==
  /\ pc = "loop"
  /\ IF ~Ready \/ Terminal THEN Errs
     ELSE IF state.lock = None THEN Goes("select") /\ UNCHANGED reconnect
     ELSE Goes("load") /\ UNCHANGED reconnect
  /\ NoHalt /\ UNCHANGED <<marker, to, range>> /\ MainOnly

\* The top of the loop: admission, stop, lock.
Loop ==
  /\ pc = "loop"
  /\ IF ~Ready \/ Terminal THEN Errs
     ELSE IF state.lock = None THEN Goes("select") /\ UNCHANGED reconnect
     ELSE IF ~Science THEN Goes("disabled") /\ UNCHANGED reconnect
     ELSE Goes("consumeMarker") /\ UNCHANGED reconnect
  /\ NoHalt /\ UNCHANGED <<marker, to, range>> /\ MainOnly

\* A tick with its head header, a notified block, the reader's error, the window.
Select ==
  /\ pc = "select"
  /\ \/ /\ Quiet
        /\ \/ \E n \in state.cursor .. Tip : Reconciles(n)
           \/ Errs /\ UNCHANGED <<to, range>>
        /\ UNCHANGED <<queue, lost>>
     \/ /\ queue # << >>
        /\ Reconciles(queue[1]) /\ queue' = Tail(queue)
        /\ UNCHANGED lost
     \/ /\ lost /\ lost' = FALSE
        /\ pc' = "error" /\ reconnect' = TRUE
        /\ UNCHANGED <<to, range, queue>>
     \/ /\ expired /\ Errs
        /\ UNCHANGED <<to, range, queue, lost>>
  /\ NoHalt /\ UNCHANGED <<marker, conn, reader, running, history>>

\* No authority: the result is the lock.
NativeDisabled ==
  /\ pc = "disabled"
  /\ IF conn THEN conn' = FALSE /\ UNCHANGED pc
     ELSE reader = NoReader /\ Goes("deferred") /\ UNCHANGED conn
  /\ NoHalt /\ UNCHANGED <<marker, mainVars, reader, queue, lost, running, history>>

\* An expired authority or a missing host gate end the loop instead.
ConsumeMarker ==
  /\ pc = "consumeMarker"
  /\ \/ /\ ~Refuses /\ "consumed" \notin marker
        /\ MarkerCreated("consumed")
        /\ Goes("consumeRow") /\ UNCHANGED reconnect
     \/ Errs /\ UNCHANGED marker /\ JournalOnly
     \/ Errs /\ MarkerFails("consumed")
  /\ UNCHANGED <<state, to, range>> /\ MainOnly

\* SCIENTIFIC_AUTHORITY_CONSUMED
ConsumeRow ==
  /\ pc = "consumeRow"
  /\ IF ~Refuses /\ ~state.consumed /\ state.lock # None /\ state.connected /\ ~Terminal
     THEN /\ state' = [state EXCEPT !.consumed = TRUE]
          /\ Goes("load") /\ UNCHANGED reconnect
     ELSE Errs /\ UNCHANGED state
  /\ JournalOnly /\ UNCHANGED <<marker, to, range>> /\ MainOnly

LoadUnlocked ==
  /\ pc = "load"
  /\ (Goes("admit") /\ UNCHANGED reconnect) \/ Errs
  /\ NoHalt /\ UNCHANGED <<marker, to, range>> /\ MainOnly

\* load takes c.mu before the locked package is read back.
LoadLocked ==
  /\ pc = "load"
  /\ \/ ControllerFree /\ Goes("admit") /\ UNCHANGED reconnect
     \/ Errs
  /\ NoHalt /\ UNCHANGED <<marker, to, range>> /\ MainOnly

\* STOP_BEFORE_HOST, the host gate and the header of the locked block.
Admit ==
  /\ pc = "admit"
  /\ \/ Ready /\ ~Terminal /\ Goes("revalidate") /\ UNCHANGED reconnect
     \/ Errs
  /\ NoHalt /\ UNCHANGED <<marker, to, range>> /\ MainOnly

\* CONTINUITY_LOST_BEFORE_NATIVE
Revalidate ==
  /\ pc = "revalidate"
  /\ IF Ready /\ ~Terminal /\ state.connected
     THEN Goes("native") /\ UNCHANGED reconnect
     ELSE Errs
  /\ NoHalt /\ UNCHANGED <<marker, to, range>> /\ MainOnly

EnterNative ==
  /\ pc = "native"
  /\ entered' = Append(entered, state.lock)
  /\ Goes("paired")
  /\ NoHalt
  /\ UNCHANGED <<marker, mainVars, conn, reader, queue, lost, running, refused, connects, starts>>

\* The pair is done: the socket is closed, the reader waited for, the result halted.
Paired ==
  /\ pc = "paired"
  /\ IF conn THEN conn' = FALSE /\ NoHalt /\ UNCHANGED pc
     ELSE reader = NoReader /\ Halt("HALTED") /\ Goes("deferred") /\ UNCHANGED conn
  /\ UNCHANGED <<marker, mainVars, reader, queue, lost, running, history>>

-----------------------------------------------------------------------------
(* The environment. *)

\* The acquisition window of the authority ends.
WindowEnds ==
  /\ Live /\ ~expired
  /\ expired' = TRUE
  /\ UNCHANGED <<state, marker, fatal, pc, mainVars, conn, reader, queue, lost, running, history>>

\* A row or an evidence file of any goroutine fails: the reason is latched.
HardFailure ==
  /\ Live /\ ~fatal
  /\ fatal' = TRUE /\ expired' = (expired \/ Quiet)
  /\ UNCHANGED <<state, marker, pc, mainVars, conn, reader, queue, lost, running, history>>

\* EventWriter of any goroutine halts after it latched its failure.
EvidenceHalts ==
  /\ Live /\ Quiet /\ fatal /\ state.stop = "none"
  /\ Halt("HALTED")
  /\ UNCHANGED <<marker, pc, mainVars, conn, reader, queue, lost, running, history>>

Dies ==
  /\ pc' = "down"
  /\ to' = 0 /\ range' = NoRange /\ reconnect' = FALSE
  /\ conn' = FALSE /\ reader' = NoReader /\ queue' = << >> /\ lost' = FALSE /\ running' = {}
  /\ UNCHANGED <<state, marker, fatal, expired, history>>

Exit == pc = "exit" /\ Dies
Killed == pc \notin {"down", "exit"} /\ Dies

Main ==
  \/ Resume \/ Generation \/ Activate \/ Subscribe \/ FirstHead
  \/ RangeBegins \/ Fetch \/ MainObserves \/ MainObserveHalts \/ RangeObserved
  \/ Judge \/ LockMarker \/ LockRow \/ CoverageComplete
  \/ Loop \/ Select \/ NativeDisabled
  \/ ConsumeMarker \/ ConsumeRow \/ LoadLocked \/ Admit \/ Revalidate \/ EnterNative \/ Paired
  \/ ErrorDrains \/ Closing \/ Closed \/ Fail \/ Deferred \/ CapturesWaited \/ Exit

Next ==
  \/ Start \/ Main \/ Reader \/ (\E b \in Blocks : CaptureFinishes(b))
  \/ WindowEnds \/ HardFailure \/ EvidenceHalts \/ Killed

Spec == Init /\ [][Next]_vars

\* The scheduler runs every goroutine, captures and calls end by their timeouts and
\* time passes; a silent socket owes nothing until it is closed.
ReaderRuns == Reader /\ (reader.phase # "reading" \/ ~conn)
Fairness ==
  /\ WF_vars(Main) /\ WF_vars(ReaderRuns) /\ WF_vars(WindowEnds)
  /\ \A b \in Blocks : WF_vars(CaptureFinishes(b))

FairSpec == Spec /\ Fairness

-----------------------------------------------------------------------------
(* Properties. *)

Phases == {"gone", "reading", "read", "halting", "queueing", "failed", "dropped", "haltLeave",
           "leave"}
Steps == {"down", "check", "generation", "activate", "subscribe", "head", "range", "fetch",
          "observe", "observeHalt", "judge", "lockMarker", "lockRow", "loop", "select", "disabled",
          "consumeMarker", "consumeRow", "load", "admit", "revalidate", "native", "paired",
          "error", "closing", "fail", "deferred", "waiting", "exit"}

TypeOK ==
  /\ state \in EventState
  /\ marker \subseteq {"lock", "consumed"}
  /\ fatal \in BOOLEAN /\ expired \in BOOLEAN /\ reconnect \in BOOLEAN
  /\ conn \in BOOLEAN /\ lost \in BOOLEAN /\ refused \in BOOLEAN
  /\ pc \in Steps
  /\ to \in 0 .. Tip
  /\ range \in [from : Nat, end : 0 .. Tip, logs : SUBSET Logs, left : SUBSET Logs,
                todo : SUBSET Blocks, notified : SUBSET Logs]
  /\ reader \in [phase : Phases, log : Logs \cup {None}]
  /\ queue \in Seq(0 .. Tip) /\ Len(queue) <= QueueCap
  /\ running \subseteq Cases
  /\ entered \in Seq(Blocks) /\ connects \in Nat /\ starts \in 0 .. MaxStarts

\* Coverage never passes a log it did not judge: whatever the provider notifies or
\* leaves out, every notified block at or below the cursor is the lock or was found
\* ineligible.  So the lock is the first eligible block of all that were notified.
NothingPassedUnjudged ==
  \A l \in state.seen : Height(l) <= state.cursor =>
    Block[l] = state.lock \/ state.cases[Block[l]] = "INELIGIBLE"

\* A notification refused before the consumption (a late earlier log, another fork,
\* an altered duplicate) stops the operation before native execution, although the
\* main goroutine runs on while the reader halts.
RefusedNeverNative == refused => entered = << >>

\* The reconnect budget is the operation's: restarts do not refill it.
ConnectionsBounded == connects <= Reconnects + 1

\* When a drain ends in its STOP row, no case is left PENDING.
DrainCompletesCaptures == state.stop = "DRAINED" => \A b \in Blocks : state.cases[b] # "PENDING"

\* A drain lets admitted captures finish before its STOP row; and when the main
\* goroutine is done no goroutine of the run is left, and a drain has ended in a
\* STOP row unless the journal failed.
NothingLeftBehind ==
  /\ DrainCompletesCaptures
  /\ pc = "exit" =>
       /\ reader = NoReader /\ running = {}
       /\ state.draining => state.stop # "none" \/ fatal

\* The window always ends the operation: the main goroutine never waits forever for
\* the reader, a capture or the controller's mutex.
Terminates == pc # "down" ~> pc = "down"

Authority == INSTANCE OneShotAuthority
               WITH Selections <- Blocks, chosen <- state.lock, spent <- state.consumed
\* The watcher implements the one-shot authority.
ImplementsOneShot == Authority!Spec
=============================================================================
