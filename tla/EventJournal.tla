---------------------------- MODULE EventJournal ----------------------------
(***************************************************************************)
(* The durable journal of the event watcher (event_journal.go) and the     *)
(* one-shot protocol RunEventWatcher (event_watch.go) runs through it:     *)
(* begin, activate, lock the first eligible block, consume the scientific  *)
(* authority, enter native execution, stop.  Each row of journal.jsonl     *)
(* carries the whole EventState; two O_EXCL marker files precede the lock  *)
(* row and the consumption row.  Any write, fsync or directory fsync may   *)
(* fail, the process may be killed at any step, and a power loss may drop  *)
(* whatever was not yet fsynced.                                           *)
(*                                                                         *)
(* Abstractions.  A row's hash chain is its sequence number: every row is  *)
(* written by this code, so a row is out of the chain exactly when its     *)
(* sequence is out of order, or when it is glued to a partial row (Glued). *)
(* Policy and operation identities never change between starts.  The rows  *)
(* of the other goroutines (captures, RPC reservations, the reader) leave  *)
(* the fields kept here alone, except STOP; so do CONNECTION_GENERATION,   *)
(* SUBSCRIBED, RECONNECT and the drain row.  Which goroutine writes them   *)
(* when, and what they carry, is modelled in EventWatch.                   *)
(*                                                                         *)
(* Bounds: MaxRows is the code's 64 MiB limit in rows, MaxStarts bounds    *)
(* how often an operator starts the process again.                         *)
(***************************************************************************)
EXTENDS Integers, Sequences

CONSTANTS Selections,  \* blocks that may turn out to be the first eligible one
          None,        \* no selection; an absent marker
          Torn,        \* content of a marker file that was not fully written
          MaxRows, MaxStarts

ASSUME DistinctContents == None # Torn /\ {None, Torn} \cap Selections = {}
ASSUME BoundsAreNat == MaxRows \in Nat /\ MaxStarts \in Nat

VARIABLES
  file,     \* the rows of journal.jsonl, in the order of their lines
  torn,     \* the file ends in a partial row
  synced,   \* this many rows survive a power loss
  marker,   \* the marker files: content and whether they survive a power loss
  seq,      \* j.seq of the running process
  state,    \* j.state of the running process
  fatal,    \* j.fatalReason # ""
  update,   \* the Update that holds j.mu
  pc,       \* where RunEventWatcher is; "down" when no process owns the flock
  pick,     \* the selection CompleteRange is about to lock
  entered,  \* history: the selections native execution was entered for
  starts,   \* how many times the process was started
  guarded   \* guardFatal: the policy of the operation has quiet coverage; never changes

disk == <<file, torn, synced, marker>>
vars == <<file, torn, synced, marker, seq, state, fatal, update, pc, pick, entered, starts, guarded>>

LockMarker == "FIRST_ELIGIBLE_LOCK"
ConsumedMarker == "SCIENTIFIC_CONSUMED"
Markers == {LockMarker, ConsumedMarker}

EventState == [began : BOOLEAN, activated : BOOLEAN, lock : Selections \cup {None},
               consumed : BOOLEAN, stop : BOOLEAN]
EmptyState == [began |-> FALSE, activated |-> FALSE, lock |-> None,
               consumed |-> FALSE, stop |-> FALSE]

Glued == 0   \* the sequence of a row written behind a partial row: unreadable

Kinds == {"BEGIN_ACQUISITION", "ACTIVATION", "FIRST_ELIGIBLE_LOCK",
          "SCIENTIFIC_AUTHORITY_CONSUMED", "CAPTURE_DRAIN_BEGIN", "STOP", "OTHER"}
Idle == [phase |-> "free", by |-> "main", kind |-> "OTHER", next |-> EmptyState]

-----------------------------------------------------------------------------
(* The changes handed to Update, and the conditions they return an error on. *)

Allowed(kind, s) ==
  CASE kind = "FIRST_ELIGIBLE_LOCK" -> s.lock = None /\ ~s.consumed /\ ~s.stop
    [] kind = "SCIENTIFIC_AUTHORITY_CONSUMED" -> ~s.consumed /\ s.lock # None /\ ~s.stop
    [] kind = "CAPTURE_DRAIN_BEGIN" -> ~s.stop /\ ~s.consumed
    [] OTHER -> TRUE

Changed(kind, s) ==
  CASE kind = "BEGIN_ACQUISITION" -> [s EXCEPT !.began = TRUE]
    [] kind = "ACTIVATION" -> [s EXCEPT !.activated = TRUE]
    [] kind = "FIRST_ELIGIBLE_LOCK" -> [s EXCEPT !.lock = pick]
    [] kind = "SCIENTIFIC_AUTHORITY_CONSUMED" -> [s EXCEPT !.consumed = TRUE]
    [] kind = "STOP" -> [s EXCEPT !.stop = TRUE]
    [] OTHER -> s

RefusedByStateOnly(kind) == ~Allowed(kind, state)

Refused(kind) == (guarded /\ fatal /\ kind # "STOP") \/ ~Allowed(kind, state)

\* The step of RunEventWatcher that issues an Update, and where it goes on.
Issues == [begin |-> "BEGIN_ACQUISITION", activate |-> "ACTIVATION",
           lockRow |-> "FIRST_ELIGIBLE_LOCK",
           consumeRow |-> "SCIENTIFIC_AUTHORITY_CONSUMED",
           drain |-> "CAPTURE_DRAIN_BEGIN", refuse |-> "STOP", finish |-> "STOP"]
OnSuccess == [begin |-> "activate", activate |-> "run", lockRow |-> "locked",
              consumeRow |-> "consumed", drain |-> "finish",
              refuse |-> "exit", finish |-> "exit"]
OnError == [begin |-> "exit", activate |-> "refuse", lockRow |-> "fail",
            consumeRow |-> "fail", drain |-> "exit", refuse |-> "exit", finish |-> "exit"]

Steps == {"down", "check", "run", "lockMarker", "lockSync", "locked", "consumeMarker",
          "consumeSync", "consumed", "native", "fail", "exit"} \cup DOMAIN Issues

\* The watcher has started its goroutines: captures, the reader, the meters.
Sequential == {"down", "check", "begin", "activate", "refuse", "exit"}
Concurrent == pc \notin Sequential

TypeOK ==
  /\ file \in Seq([sequence : Nat, state : EventState])
  /\ torn \in BOOLEAN
  /\ synced \in 0 .. Len(file)
  /\ marker \in [Markers -> [content : Selections \cup {None, Torn}, durable : BOOLEAN]]
  /\ seq \in Nat
  /\ state \in EventState
  /\ fatal \in BOOLEAN
  /\ update \in [phase : {"free", "write", "sync"}, by : {"main", "other"},
                 kind : Kinds, next : EventState]
  /\ pc \in Steps
  /\ pick \in Selections \cup {None}
  /\ entered \in Seq(Selections \cup {None})
  /\ starts \in 0 .. MaxStarts
  /\ guarded \in BOOLEAN

Init ==
  /\ file = << >> /\ torn = FALSE /\ synced = 0
  /\ marker = [m \in Markers |-> [content |-> None, durable |-> FALSE]]
  /\ seq = 0 /\ state = EmptyState /\ fatal = FALSE /\ update = Idle
  /\ pc = "down" /\ pick = None /\ entered = << >> /\ starts = 0
  /\ guarded \in BOOLEAN

-----------------------------------------------------------------------------
(* Opening the journal and deciding whether to go on. *)

ReplayableUnchained == ~torn

Replayable == ~torn /\ \A i \in 1 .. Len(file) : file[i].sequence = i
Replayed == IF file = << >> THEN EmptyState ELSE file[Len(file)].state

\* OpenEventJournal takes the flock, replays every row and refuses a corrupt one.
OpenEventJournal ==
  /\ pc = "down" /\ starts < MaxStarts
  /\ Replayable
  /\ seq' = Len(file) /\ state' = Replayed
  /\ fatal' = FALSE /\ update' = Idle /\ pick' = None
  /\ pc' = "check" /\ starts' = starts + 1
  /\ UNCHANGED <<file, torn, synced, marker, entered, guarded>>

CheckMarkers ==
  \A m \in Markers :
    IF marker[m].content = None
    THEN ~(m = LockMarker /\ state.lock # None) /\ ~(m = ConsumedMarker /\ state.consumed)
    ELSE /\ state.lock # None
         /\ marker[m].content = state.lock
         /\ m = ConsumedMarker => state.consumed

EventResumeCheck ==
  /\ ~state.stop
  /\ state.lock = None /\ ~state.consumed
  /\ ~(state.began /\ ~state.activated)

\* The checks before the first Update.  A refusal is halted: a STOP row.
ResumeOrRefuse ==
  /\ pc = "check"
  /\ pc' = IF CheckMarkers /\ EventResumeCheck /\ ~(guarded /\ state.began)
           THEN IF state.began THEN "run" ELSE "begin"
           ELSE "refuse"
  /\ UNCHANGED <<disk, seq, state, fatal, update, pick, entered, starts, guarded>>

-----------------------------------------------------------------------------
(* Update: one journal transaction, under j.mu from the check to the        *)
(* acknowledgement.                                                         *)

\* Update returns to its caller; a caller other than the main goroutine goes its own way.
Returns(by, where) == pc' = IF by = "main" THEN where[pc] ELSE pc

\* Halt: whatever became of the STOP row, signalHardFailure latches a fatal reason.
Latched(kind) == kind = "STOP"

UpdateBegins(by, kind) ==
  /\ update.phase = "free"
  /\ IF Refused(kind)
     THEN /\ by = "main"
          /\ fatal' = (fatal \/ Latched(kind))
          /\ Returns(by, OnError)
          /\ UNCHANGED update
     ELSE IF Len(file) >= MaxRows
     THEN /\ fatal' = TRUE                     \* JOURNAL_SIZE
          /\ Returns(by, OnError)
          /\ UNCHANGED update
     ELSE /\ update' = [phase |-> "write", by |-> by, kind |-> kind,
                        next |-> Changed(kind, state)]
          /\ UNCHANGED <<fatal, pc>>
  /\ UNCHANGED <<disk, seq, state, pick, entered, starts, guarded>>

MainUpdate == pc \in DOMAIN Issues /\ UpdateBegins("main", Issues[pc])
OtherUpdate == Concurrent /\ \E kind \in {"OTHER", "STOP"} : UpdateBegins("other", kind)

WriteRow ==
  /\ update.phase = "write"
  /\ file' = Append(file, [sequence |-> IF torn THEN Glued ELSE seq + 1,
                           state |-> update.next])
  /\ torn' = FALSE
  /\ update' = [update EXCEPT !.phase = "sync"]
  /\ UNCHANGED <<synced, marker, seq, state, fatal, pc, pick, entered, starts, guarded>>

\* A failed write leaves nothing or a partial row behind.
WriteFails ==
  /\ update.phase = "write"
  /\ torn' \in {torn, TRUE}
  /\ fatal' = TRUE
  /\ update' = Idle
  /\ Returns(update.by, OnError)
  /\ UNCHANGED <<file, synced, marker, seq, state, pick, entered, starts, guarded>>

\* File and directory are synced: only now do j.seq and j.state move.
RowAcknowledged ==
  /\ update.phase = "sync"
  /\ synced' = Len(file)
  /\ seq' = seq + 1
  /\ state' = update.next
  /\ fatal' = (fatal \/ Latched(update.kind))
  /\ update' = Idle
  /\ Returns(update.by, OnSuccess)
  /\ UNCHANGED <<file, torn, marker, pick, entered, starts, guarded>>

SyncErrorIgnored ==
  /\ update.phase = "sync"
  /\ synced' \in {synced, Len(file)}
  /\ seq' = seq + 1
  /\ state' = update.next
  /\ fatal' = (fatal \/ Latched(update.kind))
  /\ update' = Idle
  /\ Returns(update.by, OnSuccess)
  /\ UNCHANGED <<file, torn, marker, pick, entered, starts, guarded>>

\* The row is in the file and may even be durable, but is not acknowledged.
SyncFails ==
  /\ update.phase = "sync"
  /\ synced' \in {synced, Len(file)}
  /\ fatal' = TRUE
  /\ update' = Idle
  /\ Returns(update.by, OnError)
  /\ UNCHANGED <<file, torn, marker, seq, state, pick, entered, starts, guarded>>

\* EventWriter of another goroutine fails: a guarded journal is latched.
EvidenceWriteFails ==
  /\ Concurrent /\ guarded /\ update.phase = "free"
  /\ fatal' = TRUE
  /\ UNCHANGED <<disk, seq, state, update, pc, pick, entered, starts, guarded>>

-----------------------------------------------------------------------------
(* The markers: O_EXCL, written and synced before the row they announce.    *)

MarkerOf == [lockMarker |-> LockMarker, lockSync |-> LockMarker,
             consumeMarker |-> ConsumedMarker, consumeSync |-> ConsumedMarker]

MarkerContent == IF pc = "lockSync" THEN pick ELSE state.lock

MarkerCreate ==
  /\ pc \in {"lockMarker", "consumeMarker"}
  /\ update.phase = "free"                      \* FatalReason takes j.mu
  /\ LET name == MarkerOf[pc] IN
     IF (guarded /\ fatal) \/ marker[name].content # None
     THEN /\ fatal' = TRUE /\ pc' = "fail"
          /\ UNCHANGED marker
     ELSE /\ marker' = [marker EXCEPT ![name] = [content |-> Torn, durable |-> FALSE]]
          /\ pc' = IF pc = "lockMarker" THEN "lockSync" ELSE "consumeSync"
          /\ UNCHANGED fatal
  /\ UNCHANGED <<file, torn, synced, seq, state, update, pick, entered, starts, guarded>>

MarkerSynced ==
  /\ pc \in {"lockSync", "consumeSync"}
  /\ marker' = [marker EXCEPT ![MarkerOf[pc]] = [content |-> MarkerContent, durable |-> TRUE]]
  /\ pc' = IF pc = "lockSync" THEN "lockRow" ELSE "consumeRow"
  /\ UNCHANGED <<file, torn, synced, seq, state, fatal, update, pick, entered, starts, guarded>>

MarkerFails ==
  /\ pc \in {"lockSync", "consumeSync"}
  /\ update.phase = "free"                      \* signalHardFailure takes j.mu
  /\ \E content \in {Torn, MarkerContent}, durable \in BOOLEAN :
       marker' = [marker EXCEPT ![MarkerOf[pc]] = [content |-> content, durable |-> durable]]
  /\ fatal' = TRUE /\ pc' = "fail"
  /\ UNCHANGED <<file, torn, synced, seq, state, update, pick, entered, starts, guarded>>

-----------------------------------------------------------------------------
(* The main goroutine between its journal operations. *)

FirstEligibleWithoutMarker ==
  /\ pc = "run"
  /\ pick' \in Selections
  /\ pc' = IF state.lock = None THEN "lockRow" ELSE "locked"
  /\ UNCHANGED <<disk, seq, state, fatal, update, entered, starts, guarded>>

\* CompleteRange found its first eligible block; an existing lock needs no range.
FirstEligible ==
  /\ pc = "run"
  /\ pick' \in Selections
  /\ pc' = IF state.lock = None THEN "lockMarker" ELSE "locked"
  /\ UNCHANGED <<disk, seq, state, fatal, update, entered, starts, guarded>>

\* Any error of the acquisition (RPC, coverage, window, reader) fails the run;
\* before the controller exists it is halted at once.
AcquisitionFails ==
  /\ \/ pc \in {"run", "locked", "consumed"} /\ pc' = "fail"
     \/ pc = "activate" /\ update.phase = "free" /\ pc' = "refuse"
  /\ UNCHANGED <<disk, seq, state, fatal, update, pick, entered, starts, guarded>>

\* fail: a guarded operation that is not consumed drains first, and leaves without
\* a STOP row when the drain row cannot be written (DRAIN_JOURNAL_UNCERTAIN).
Fail ==
  /\ pc = "fail" /\ update.phase = "free"
  /\ pc' = IF guarded /\ ~state.consumed /\ ~state.stop THEN "drain" ELSE "finish"
  /\ UNCHANGED <<disk, seq, state, fatal, update, pick, entered, starts, guarded>>

AdmitUnconsumed ==
  /\ pc \in {"locked", "consumed"}
  /\ update.phase = "free"
  /\ pc' = IF fatal \/ state.stop THEN "fail" ELSE "native"
  /\ UNCHANGED <<disk, seq, state, fatal, update, pick, entered, starts, guarded>>

\* eventAdmissionReady and the Stop snapshot, before the authority is consumed
\* and again before native execution; both take j.mu.
Admit ==
  /\ pc \in {"locked", "consumed"}
  /\ update.phase = "free"
  /\ pc' = IF fatal \/ state.stop THEN "fail"
           ELSE IF pc = "locked" THEN "consumeMarker" ELSE "native"
  /\ UNCHANGED <<disk, seq, state, fatal, update, pick, entered, starts, guarded>>

\* Without a scientific authority the watcher returns with the lock only.
NativeDisabled ==
  /\ pc = "locked"
  /\ pc' = "exit"
  /\ UNCHANGED <<disk, seq, state, fatal, update, pick, entered, starts, guarded>>

EnterNative ==
  /\ pc = "native"
  /\ entered' = Append(entered, state.lock)
  /\ pc' = "finish"
  /\ UNCHANGED <<disk, seq, state, fatal, update, pick, starts, guarded>>

Exit ==
  /\ pc = "exit" /\ update.phase = "free"
  /\ pc' = "down"
  /\ UNCHANGED <<disk, seq, state, fatal, update, pick, entered, starts, guarded>>

-----------------------------------------------------------------------------
(* Failures of the host. *)

\* SIGKILL, os.Exit(124), os.Exit(125): the page cache keeps what was written.
Killed ==
  /\ pc # "down"
  /\ pc' = "down" /\ update' = Idle
  /\ UNCHANGED <<disk, seq, state, fatal, pick, entered, starts, guarded>>

\* Unsynced rows are lost from the end, the first lost one perhaps in part;
\* an unsynced marker is lost, kept or left without its content.
PowerLoss ==
  /\ pc' = "down" /\ update' = Idle
  /\ \E n \in synced .. Len(file) :
       /\ file' = SubSeq(file, 1, n)
       /\ torn' \in IF n = Len(file) /\ ~torn THEN {FALSE} ELSE BOOLEAN
  /\ \E lost \in SUBSET {m \in Markers : ~marker[m].durable}, content \in {None, Torn} :
       marker' = [m \in Markers |->
                    IF m \in lost
                    THEN [content |-> IF marker[m].content = None THEN None ELSE content,
                          durable |-> FALSE]
                    ELSE marker[m]]
  /\ UNCHANGED <<synced, seq, state, fatal, pick, entered, starts, guarded>>

Next ==
  \/ OpenEventJournal \/ ResumeOrRefuse
  \/ MainUpdate \/ OtherUpdate
  \/ WriteRow \/ WriteFails \/ RowAcknowledged \/ SyncFails \/ EvidenceWriteFails
  \/ MarkerCreate \/ MarkerSynced \/ MarkerFails
  \/ FirstEligible \/ AcquisitionFails \/ Fail \/ Admit \/ NativeDisabled \/ EnterNative \/ Exit
  \/ Killed \/ PowerLoss

Spec == Init /\ [][Next]_vars

-----------------------------------------------------------------------------
(* Properties. *)

Rows == 1 .. Len(file)
OnDisk(i, field) == file[i].state[field]

\* A lock row or a consumption row never exists, acknowledged or not, without
\* its marker durable and naming the same selection: after any crash
\* JOURNAL_MARKER_MISSING and the two mismatch errors of CheckMarkers are unreachable.
MarkersPrecedeRows ==
  \A i \in Rows :
    /\ OnDisk(i, "lock") # None =>
         marker[LockMarker] = [content |-> OnDisk(i, "lock"), durable |-> TRUE]
    /\ OnDisk(i, "consumed") =>
         /\ OnDisk(i, "lock") # None
         /\ marker[ConsumedMarker] = [content |-> OnDisk(i, "lock"), durable |-> TRUE]

\* Native execution is entered only for a selection whose consumption survives
\* any later power loss: a synced row and both markers say so, forever.
DurableBeforeNative ==
  \A n \in 1 .. Len(entered) :
    /\ \E i \in 1 .. synced : OnDisk(i, "consumed") /\ OnDisk(i, "lock") = entered[n]
    /\ \A m \in Markers : marker[m] = [content |-> entered[n], durable |-> TRUE]

\* "No waiting transaction may slip between a failed physical write and its hard
\* cancellation": once a guarded journal is fatal, whichever goroutine waited for
\* j.mu, no row but STOP is written or acknowledged, and STOP changes nothing else.
NothingAfterFatal ==
  [][guarded /\ fatal /\ pc # "down" =>
       /\ seq' # seq \/ Len(file') > Len(file) => update.kind = "STOP"
       /\ state' \in {state, [state EXCEPT !.stop = TRUE]}]_vars

\* A started process goes on only when no row of any earlier process, acknowledged
\* or not, locked, consumed or stopped: there is no automatic native resume.
ResumesOnlyUntouched ==
  [][pc = "check" /\ pc' \in {"begin", "run"} =>
       \A i \in Rows : OnDisk(i, "lock") = None /\ ~OnDisk(i, "consumed")
                       /\ ~OnDisk(i, "stop")]_vars

\* The journal implements the one-shot authority.  What is chosen or spent is what
\* the rows that survive a power loss say.
DurableLock ==
  IF \E i \in 1 .. synced : OnDisk(i, "lock") # None
  THEN OnDisk(CHOOSE i \in 1 .. synced : OnDisk(i, "lock") # None, "lock")
  ELSE None
DurablyConsumed == \E i \in 1 .. synced : OnDisk(i, "consumed")

Authority == INSTANCE OneShotAuthority WITH chosen <- DurableLock, spent <- DurablyConsumed
ImplementsOneShot == Authority!Spec
=============================================================================
