------------------------- MODULE EventJournalProofs -------------------------
(***************************************************************************)
(* The inductive invariant of EventJournal and the theorems it gives.      *)
(***************************************************************************)
EXTENDS EventJournal, SequenceTheorems, TLAPS

Holds(m, v) == marker[m] = [content |-> v, durable |-> TRUE]

\* What a state says of the authority, the durable markers say too.
Recorded(s) ==
  /\ s.lock # None => Holds(LockMarker, s.lock)
  /\ s.consumed => s.lock # None /\ Holds(ConsumedMarker, s.lock)

RowsRecorded == \A i \in Rows : Recorded(file[i].state)
DurablyConsumedAs(v) == \E i \in 1 .. synced : file[i].state.consumed /\ file[i].state.lock = v
EnteredRecorded ==
  \/ entered = << >>
  \/ \E v \in Selections :
       /\ entered = <<v>>
       /\ \A m \in Markers : Holds(m, v)
       /\ DurablyConsumedAs(v)

\* A consumption row is written only over a lock that is already durable.
DurablyLocked == \E i \in 1 .. synced : file[i].state.lock # None
ConsumedAfterLock == \A i \in Rows : file[i].state.consumed => DurablyLocked
StateRecorded == pc # "down" => Recorded(state) /\ (state.consumed => DurablyLocked)

\* The update in flight is the one its issuer asked for.
InFlight ==
  update.phase # "free" =>
    /\ update.next = Changed(update.kind, state)
    /\ Allowed(update.kind, state)
    /\ update.by = "main" => pc \in DOMAIN Issues /\ update.kind = Issues[pc]
    /\ update.by = "other" => /\ update.kind \in {"OTHER", "STOP"}
                              /\ pc \in Steps \ {"down", "check", "begin", "activate"}
    /\ update.phase = "sync" => file # << >> /\ file[Len(file)].state = update.next

Unlocked == {"begin", "activate", "run", "lockMarker", "lockSync", "lockRow"}
Locked == {"locked", "consumeMarker", "consumeSync", "consumeRow"}

\* What the main goroutine knows at each of its steps.
Control ==
  /\ pc \in {"down", "check"} => update.phase = "free"
  /\ pc \in Unlocked => /\ state.lock = None /\ ~state.consumed
                         /\ entered = << >>
                         /\ marker[ConsumedMarker].content = None
  /\ pc \in Locked => /\ state.lock # None /\ ~state.consumed
                       /\ entered = << >> /\ DurablyLocked
  /\ pc \in {"begin", "activate", "run", "lockMarker"} => marker[LockMarker].content = None
  /\ pc \in {"lockMarker", "lockSync", "lockRow"} => pick # None
  /\ pc = "lockSync" => marker[LockMarker].content = Torn
  /\ pc = "lockRow" => Holds(LockMarker, pick)
  /\ pc \in {"locked", "consumeMarker"} => marker[ConsumedMarker].content = None
  /\ pc = "consumeSync" => marker[ConsumedMarker].content = Torn
  /\ pc = "consumeRow" => Holds(ConsumedMarker, state.lock)
  /\ pc \in {"consumed", "native"} =>
       /\ entered = << >> /\ state.consumed /\ state.lock # None
       /\ DurablyConsumedAs(state.lock)

IInv ==
  /\ TypeOK
  /\ RowsRecorded /\ StateRecorded /\ EnteredRecorded
  /\ ConsumedAfterLock /\ InFlight /\ Control

-----------------------------------------------------------------------------
(* Type correctness. *)

LEMMA ChangedType ==
  ASSUME NEW kind \in Kinds, NEW s \in EventState, pick \in Selections \cup {None}
  PROVE  Changed(kind, s) \in EventState
BY DEF Changed, EventState, Kinds

LEMMA ReturnsType ==
  ASSUME NEW by, NEW where, pc \in Steps, Returns(by, where),
         where \in {OnSuccess, OnError}, by = "main" => pc \in DOMAIN Issues
  PROVE  pc' \in Steps
BY DEF Returns, OnSuccess, OnError, Issues, Steps

\* Only the main goroutine's own requests are answered to it.
MainAsked == update.phase # "free" /\ update.by = "main" => pc \in DOMAIN Issues

LEMMA TypeInit == Init => TypeOK /\ MainAsked
<1> SUFFICES ASSUME Init PROVE TypeOK /\ MainAsked
  OBVIOUS
<1>1. EmptyState \in EventState
  BY DEF EmptyState, EventState
<1>2. update \in [phase : {"free", "write", "sync"}, by : {"main", "other"},
                  kind : Kinds, next : EventState]
  BY <1>1 DEF Init, Idle, Kinds
<1>3. file \in Seq([sequence : Nat, state : EventState]) /\ synced \in 0 .. Len(file)
  BY EmptySeq DEF Init
<1>4. entered \in Seq(Selections \cup {None})
  BY DEF Init
<1>5. pc \in Steps /\ starts \in 0 .. MaxStarts
  BY BoundsAreNat DEF Init, Steps
<1>6. marker \in [Markers -> [content : Selections \cup {None, Torn}, durable : BOOLEAN]]
  BY DEF Init
<1>7. MainAsked
  BY DEF Init, Idle, MainAsked
<1> QED
  BY <1>1, <1>2, <1>3, <1>4, <1>5, <1>6, <1>7 DEF Init, TypeOK

LEMMA TypeStep == TypeOK /\ MainAsked /\ [Next]_vars => TypeOK' /\ MainAsked'
<1> SUFFICES ASSUME TypeOK, MainAsked, [Next]_vars PROVE TypeOK' /\ MainAsked'
  OBVIOUS
<1> DEFINE Row == [sequence : Nat, state : EventState]
           Mark == [content : Selections \cup {None, Torn}, durable : BOOLEAN]
           Upd == [phase : {"free", "write", "sync"}, by : {"main", "other"},
                   kind : Kinds, next : EventState]
<1>0. Idle \in Upd /\ EmptyState \in EventState
  BY DEF Idle, EmptyState, EventState, Kinds
<1>a. Len(file) \in Nat /\ synced \in 0 .. Len(file) /\ file \in Seq(Row)
  BY LenProperties DEF TypeOK
<1>1. CASE OpenEventJournal
  <2>1. Replayed \in EventState
    <3>1. CASE file = << >>
      BY <1>0, <3>1 DEF Replayed
    <3>2. CASE file # << >>
      <4>1. file \in Seq(Row)
        BY DEF TypeOK
      <4>2. Len(file) \in 1 .. Len(file)
        BY <3>2, <4>1, EmptySeq, LenProperties
      <4>3. file[Len(file)] \in Row
        BY <4>1, <4>2, ElementOfSeq
      <4> QED
        BY <3>2, <4>3 DEF Replayed
    <3> QED
      BY <3>1, <3>2
  <2>2. starts' \in 0 .. MaxStarts
    BY <1>1, BoundsAreNat DEF OpenEventJournal, TypeOK
  <2>3. seq' \in Nat
    BY <1>1, LenProperties DEF OpenEventJournal, TypeOK
  <2>4. update' \in Upd /\ MainAsked'
    BY <1>0, <1>1 DEF OpenEventJournal, MainAsked, Idle
  <2> QED
    BY <1>1, <2>1, <2>2, <2>3, <2>4 DEF OpenEventJournal, TypeOK, Steps
<1>2. CASE ResumeOrRefuse
  BY <1>2 DEF ResumeOrRefuse, TypeOK, MainAsked, Steps, disk, Issues
<1>3. ASSUME NEW by \in {"main", "other"}, NEW kind \in Kinds, UpdateBegins(by, kind),
             by = "main" => pc \in DOMAIN Issues
      PROVE  TypeOK' /\ MainAsked'
  <2>1. Changed(kind, state) \in EventState
    BY ChangedType DEF TypeOK
  <2>2. pc' \in Steps
    <3>1. CASE pc' = pc
      BY <3>1 DEF TypeOK
    <3>2. CASE Returns(by, OnError)
      BY <1>3, <3>2, ReturnsType DEF TypeOK
    <3> QED
      BY <1>3, <3>1, <3>2 DEF UpdateBegins
  <2>3. update' \in Upd
    BY <1>3, <2>1 DEF UpdateBegins, TypeOK
  <2>4. MainAsked'
    BY <1>3 DEF UpdateBegins, MainAsked
  <2>5. fatal' \in BOOLEAN
    BY <1>3 DEF UpdateBegins, TypeOK, Latched
  <2> QED
    BY <1>3, <2>2, <2>3, <2>4, <2>5 DEF UpdateBegins, TypeOK, disk
<1>4. CASE MainUpdate
  BY <1>3, <1>4 DEF MainUpdate, Issues, Kinds
<1>5. CASE OtherUpdate
  BY <1>3, <1>5 DEF OtherUpdate, Kinds
<1>6. CASE WriteRow
  <2>1. [sequence |-> IF torn THEN Glued ELSE seq + 1, state |-> update.next] \in Row
    BY DEF TypeOK, Glued
  <2>2. file' \in Seq(Row) /\ Len(file') = Len(file) + 1
    BY <1>6, <2>1 DEF WriteRow, TypeOK
  <2>3. update' \in Upd /\ MainAsked'
    BY <1>6 DEF WriteRow, TypeOK, MainAsked
  <2> QED
    <3>1. synced' \in 0 .. Len(file')
      BY <1>6, <1>a, <2>2 DEF WriteRow
    <3> QED
      BY <1>6, <2>2, <2>3, <3>1 DEF WriteRow, TypeOK
<1>7. CASE WriteFails
  <2>1. pc' \in Steps
    BY <1>7, ReturnsType DEF WriteFails, TypeOK, MainAsked
  <2> QED
    BY <1>0, <1>7, <2>1 DEF WriteFails, TypeOK, MainAsked, Idle
<1>8. CASE RowAcknowledged
  <2>1. pc' \in Steps
    BY <1>8, ReturnsType DEF RowAcknowledged, TypeOK, MainAsked
  <2>2. fatal' \in BOOLEAN
    BY <1>8 DEF RowAcknowledged, TypeOK, Latched
  <2>3. synced' \in 0 .. Len(file') /\ seq' \in Nat /\ state' \in EventState
    BY <1>8 DEF RowAcknowledged, TypeOK
  <2> QED
    BY <1>0, <1>8, <2>1, <2>2, <2>3 DEF RowAcknowledged, TypeOK, MainAsked, Idle
<1>9. CASE SyncFails
  <2>1. pc' \in Steps
    BY <1>9, ReturnsType DEF SyncFails, TypeOK, MainAsked
  <2>2. synced' \in 0 .. Len(file')
    BY <1>9 DEF SyncFails, TypeOK
  <2> QED
    BY <1>0, <1>9, <2>1, <2>2 DEF SyncFails, TypeOK, MainAsked, Idle
<1>10. CASE EvidenceWriteFails
  BY <1>10 DEF EvidenceWriteFails, TypeOK, MainAsked, disk
<1>11. CASE MarkerCreate
  <2>1. marker' \in [Markers -> Mark]
    <3>1. MarkerOf[pc] \in Markers
      BY <1>11 DEF MarkerCreate, MarkerOf, Markers
    <3>2. CASE UNCHANGED marker
      BY <3>2 DEF TypeOK
    <3>3. CASE marker' = [marker EXCEPT ![MarkerOf[pc]] = [content |-> Torn, durable |-> FALSE]]
      BY <3>1, <3>3 DEF TypeOK
    <3> QED
      BY <1>11, <3>2, <3>3 DEF MarkerCreate
  <2>2. pc' \in Steps /\ MainAsked' /\ fatal' \in BOOLEAN
    BY <1>11 DEF MarkerCreate, TypeOK, MainAsked, Steps, Issues
  <2> QED
    BY <1>11, <2>1, <2>2 DEF MarkerCreate, TypeOK
<1>12. CASE MarkerSynced
  <2>1. MarkerContent \in Selections \cup {None, Torn}
    BY DEF MarkerContent, TypeOK, EventState
  <2>2. marker' \in [Markers -> Mark]
    BY <1>12, <2>1 DEF MarkerSynced, TypeOK
  <2>3. pc' \in Steps /\ MainAsked'
    BY <1>12 DEF MarkerSynced, TypeOK, MainAsked, Steps, Issues
  <2> QED
    BY <1>12, <2>2, <2>3 DEF MarkerSynced, TypeOK
<1>13. CASE MarkerFails
  <2>1. MarkerContent \in Selections \cup {None, Torn}
    BY DEF MarkerContent, TypeOK, EventState
  <2>2. marker' \in [Markers -> Mark]
    <3>1. MarkerOf[pc] \in Markers
      BY <1>13 DEF MarkerFails, MarkerOf, Markers
    <3>2. PICK content \in {Torn, MarkerContent}, durable \in BOOLEAN :
            marker' = [marker EXCEPT ![MarkerOf[pc]] =
                         [content |-> content, durable |-> durable]]
      BY <1>13 DEF MarkerFails
    <3> QED
      BY <2>1, <3>1, <3>2 DEF TypeOK
  <2>3. pc' \in Steps /\ MainAsked'
    BY <1>13 DEF MarkerFails, TypeOK, MainAsked, Steps, Issues
  <2> QED
    BY <1>13, <2>2, <2>3 DEF MarkerFails, TypeOK
<1>14. CASE FirstEligible
  BY <1>14 DEF FirstEligible, TypeOK, MainAsked, Steps, Issues, disk
<1>15. CASE AcquisitionFails \/ Fail
  BY <1>15 DEF AcquisitionFails, Fail, TypeOK, MainAsked, Steps, Issues, disk
<1>16. CASE Admit
  BY <1>16 DEF Admit, TypeOK, MainAsked, Steps, Issues, disk
<1>17. CASE NativeDisabled
  BY <1>17 DEF NativeDisabled, TypeOK, MainAsked, Steps, Issues, disk
<1>18. CASE EnterNative
  <2>1. entered' \in Seq(Selections \cup {None})
    BY <1>18 DEF EnterNative, TypeOK, EventState
  <2> QED
    BY <1>18, <2>1 DEF EnterNative, TypeOK, MainAsked, Steps, Issues, disk
<1>19. CASE Exit
  BY <1>19 DEF Exit, TypeOK, MainAsked, Steps, disk
<1>20. CASE Killed
  BY <1>0, <1>20 DEF Killed, TypeOK, MainAsked, Steps, disk, Idle
<1>21. CASE PowerLoss
  <2>1. PICK n \in synced .. Len(file) :
          /\ file' = SubSeq(file, 1, n)
          /\ torn' \in IF n = Len(file) /\ ~torn THEN {FALSE} ELSE BOOLEAN
    BY <1>21 DEF PowerLoss
  <2>2. file' \in Seq(Row) /\ Len(file') = n
    <3>1. n \in Nat /\ n \in Int /\ 1 \in Int
      BY <1>a
    <3>2. ASSUME NEW i \in 1 .. n PROVE file[i] \in Row
      <4>1. i \in 1 .. Len(file)
        BY <1>a, <3>1
      <4> QED
        BY <1>a, <4>1, ElementOfSeq
    <3>3. /\ SubSeq(file, 1, n) \in Seq(Row)
          /\ Len(SubSeq(file, 1, n)) = IF 1 <= n THEN n - 1 + 1 ELSE 0
      BY <3>1, <3>2, SubSeqProperties
    <3> QED
      BY <2>1, <3>1, <3>3
  <2>3. marker' \in [Markers -> Mark]
    BY <1>21 DEF PowerLoss, TypeOK
  <2> QED
    <3>1. synced' \in 0 .. Len(file')
      BY <1>21, <1>a, <2>2 DEF PowerLoss
    <3>2. torn' \in BOOLEAN
      BY <2>1
    <3>3. pc' \in Steps /\ update' \in Upd /\ MainAsked'
      BY <1>0, <1>21 DEF PowerLoss, Steps, MainAsked, Idle
    <3> QED
      BY <1>21, <2>2, <2>3, <3>1, <3>2, <3>3 DEF PowerLoss, TypeOK
<1>22. CASE UNCHANGED vars
  BY <1>22 DEF vars, TypeOK, MainAsked
<1> QED
  BY <1>1, <1>2, <1>4, <1>5, <1>6, <1>7, <1>8, <1>9, <1>10, <1>11, <1>12, <1>13, <1>14,
     <1>15, <1>16, <1>17, <1>18, <1>19, <1>20, <1>21, <1>22 DEF Next

\* Every variable keeps its type: in particular the synced prefix never
\* outgrows the file, whatever fails.
THEOREM TypeCorrect == Spec => []TypeOK
<1>1. Spec => [](TypeOK /\ MainAsked)
  BY TypeInit, TypeStep, PTL DEF Spec
<1> QED
  BY <1>1, PTL

-----------------------------------------------------------------------------
(* What one step may do to the disk. *)

MarkersKept == \A m \in Markers, v \in Selections : Holds(m, v) => Holds(m, v)'
PrefixKept ==
  /\ synced' \in Nat /\ synced <= synced' /\ synced \in Nat
  /\ \A i \in 1 .. synced : file'[i] = file[i]
RowsFrom ==
  \A i \in 1 .. Len(file') :
    \/ i \in 1 .. Len(file) /\ file'[i] = file[i]
    \/ update.phase = "write" /\ file'[i].state = update.next

LEMMA MarkersStep == IInv /\ [Next]_vars => MarkersKept
<1> SUFFICES ASSUME IInv, [Next]_vars, NEW m \in Markers, NEW v \in Selections, Holds(m, v)
             PROVE  Holds(m, v)'
  BY DEF MarkersKept
<1> USE DEF Holds
<1>t. marker \in [Markers -> [content : Selections \cup {None, Torn}, durable : BOOLEAN]]
  BY DEF IInv, TypeOK
<1>v. v # None /\ v # Torn
  BY DistinctContents
<1>1. CASE UNCHANGED marker
  BY <1>1
\* Only the file of an absent or torn marker is ever written.
<1>w. ASSUME NEW n \in Markers, NEW new, marker' = [marker EXCEPT ![n] = new],
             marker[n].content \in {None, Torn}
      PROVE  Holds(m, v)'
  <2>1. m # n
    BY <1>v, <1>w
  <2> QED
    BY <1>t, <1>w, <2>1
<1>2. CASE MarkerCreate
  <2>1. MarkerOf[pc] \in Markers
    BY <1>2 DEF MarkerCreate, MarkerOf, Markers
  <2>2. CASE marker' # marker
    <3>1. /\ marker[MarkerOf[pc]].content = None
          /\ marker' = [marker EXCEPT ![MarkerOf[pc]] = [content |-> Torn, durable |-> FALSE]]
      BY <1>2, <2>2 DEF MarkerCreate
    <3> QED
      BY <1>w, <2>1, <3>1
  <2> QED
    BY <1>1, <2>2
<1>s. ASSUME pc \in {"lockSync", "consumeSync"}
      PROVE  MarkerOf[pc] \in Markers /\ marker[MarkerOf[pc]].content = Torn
  BY <1>s DEF MarkerOf, Markers, IInv, Control
<1>3. CASE MarkerSynced
  BY <1>3, <1>s, <1>w DEF MarkerSynced
<1>4. CASE MarkerFails
  <2>1. PICK new : marker' = [marker EXCEPT ![MarkerOf[pc]] = new]
    BY <1>4 DEF MarkerFails
  <2>2. pc \in {"lockSync", "consumeSync"}
    BY <1>4 DEF MarkerFails
  <2> QED
    BY <1>s, <1>w, <2>1, <2>2
<1>5. CASE PowerLoss
  <2>1. marker[m].durable /\ marker[m] = [content |-> v, durable |-> TRUE]
    OBVIOUS
  <2>2. marker'[m] = marker[m]
    BY <1>5, <2>1 DEF PowerLoss
  <2> QED
    BY <2>1, <2>2
<1> QED
  BY <1>1, <1>2, <1>3, <1>4, <1>5
  DEF Next, vars, disk, OpenEventJournal, ResumeOrRefuse, MainUpdate, OtherUpdate, UpdateBegins,
      WriteRow, WriteFails, RowAcknowledged, SyncFails, EvidenceWriteFails, FirstEligible,
      AcquisitionFails, Fail, Admit, NativeDisabled, EnterNative, Exit, Killed

LEMMA FileStep == IInv /\ [Next]_vars => PrefixKept /\ RowsFrom
<1> SUFFICES ASSUME IInv, [Next]_vars PROVE PrefixKept /\ RowsFrom
  OBVIOUS
<1> DEFINE Row == [sequence : Nat, state : EventState]
<1>t. file \in Seq(Row) /\ Len(file) \in Nat /\ synced \in 0 .. Len(file)
  BY LenProperties DEF IInv, TypeOK
<1>1. CASE UNCHANGED <<file, synced>>
  BY <1>1, <1>t DEF PrefixKept, RowsFrom
<1>2. CASE WriteRow
  <2> DEFINE row == [sequence |-> IF torn THEN Glued ELSE seq + 1, state |-> update.next]
  <2>1. file' = Append(file, row) /\ synced' = synced /\ update.phase = "write"
    BY <1>2 DEF WriteRow
  <2>2. row \in Row /\ row.state = update.next
    BY DEF IInv, TypeOK, Glued
  <2>3. /\ Len(file') = Len(file) + 1
        /\ \A i \in 1 .. Len(file) : file'[i] = file[i]
        /\ file'[Len(file) + 1] = row
    BY <1>t, <2>1, <2>2
  <2>4. PrefixKept
    BY <1>t, <2>1, <2>3 DEF PrefixKept
  <2>5. ASSUME NEW i \in 1 .. Len(file')
        PROVE  \/ i \in 1 .. Len(file) /\ file'[i] = file[i]
               \/ update.phase = "write" /\ file'[i].state = update.next
    BY <1>t, <2>1, <2>2, <2>3
  <2> QED
    BY <2>4, <2>5 DEF RowsFrom
<1>3. CASE RowAcknowledged \/ SyncFails
  BY <1>3, <1>t DEF RowAcknowledged, SyncFails, PrefixKept, RowsFrom
<1>4. CASE PowerLoss
  <2>1. PICK n \in synced .. Len(file) : file' = SubSeq(file, 1, n)
    BY <1>4 DEF PowerLoss
  <2>2. n \in Nat /\ n \in Int /\ 1 \in Int /\ n <= Len(file) /\ synced <= n
    BY <1>t, <2>1
  <2>3. ASSUME NEW i \in 1 .. n PROVE file[i] \in Row
    <3>1. i \in 1 .. Len(file)
      BY <1>t, <2>2
    <3> QED
      BY <1>t, <3>1, ElementOfSeq
  <2>4. /\ Len(SubSeq(file, 1, n)) = IF 1 <= n THEN n - 1 + 1 ELSE 0
        /\ \A i \in 1 .. n - 1 + 1 : SubSeq(file, 1, n)[i] = file[1 + i - 1]
    BY <2>2, <2>3, SubSeqProperties
  <2>5. Len(file') = n /\ \A i \in 1 .. n : file'[i] = file[i]
    BY <2>1, <2>2, <2>4
  <2>6. PrefixKept
    BY <1>4, <1>t, <2>2, <2>5 DEF PowerLoss, PrefixKept
  <2> QED
    BY <1>t, <2>2, <2>5, <2>6 DEF RowsFrom
<1> QED
  BY <1>1, <1>2, <1>3, <1>4
  DEF Next, vars, disk, OpenEventJournal, ResumeOrRefuse, MainUpdate, OtherUpdate, UpdateBegins,
      WriteFails, EvidenceWriteFails, MarkerCreate, MarkerSynced, MarkerFails, FirstEligible,
      AcquisitionFails, Fail, Admit, NativeDisabled, EnterNative, Exit, Killed

LEMMA DurableKept ==
  PrefixKept => /\ DurablyLocked => DurablyLocked'
                /\ \A v : DurablyConsumedAs(v) => DurablyConsumedAs(v)'
BY DEF PrefixKept, DurablyLocked, DurablyConsumedAs

-----------------------------------------------------------------------------
(* The row in flight, and what becomes of it. *)

LEMMA NextRecorded ==
  IInv /\ update.phase # "free" => Recorded(update.next) /\ (update.next.consumed => DurablyLocked)
<1> SUFFICES ASSUME IInv, update.phase # "free"
             PROVE  Recorded(update.next) /\ (update.next.consumed => DurablyLocked)
  OBVIOUS
<1>t. state \in EventState /\ update.kind \in Kinds /\ update.by \in {"main", "other"}
  BY DEF IInv, TypeOK
<1>n. update.next = Changed(update.kind, state) /\ pc # "down"
  BY DEF IInv, InFlight, Control
<1>s. Recorded(state) /\ (state.consumed => DurablyLocked)
  BY <1>n DEF IInv, StateRecorded
<1>1. CASE update.kind = "FIRST_ELIGIBLE_LOCK"
  <2>1. pc = "lockRow"
    BY <1>1, <1>t DEF IInv, InFlight, Issues
  <2>2. Holds(LockMarker, pick) /\ ~state.consumed
    BY <2>1 DEF IInv, Control, Unlocked
  <2>3. update.next = [state EXCEPT !.lock = pick]
    BY <1>1, <1>n DEF Changed
  <2> QED
    BY <1>t, <2>2, <2>3 DEF Recorded, EventState
<1>2. CASE update.kind = "SCIENTIFIC_AUTHORITY_CONSUMED"
  <2>1. pc = "consumeRow"
    BY <1>2, <1>t DEF IInv, InFlight, Issues
  <2>2. Holds(ConsumedMarker, state.lock) /\ state.lock # None /\ DurablyLocked
    BY <2>1 DEF IInv, Control, Locked
  <2>3. update.next = [state EXCEPT !.consumed = TRUE]
    BY <1>2, <1>n DEF Changed
  <2> QED
    BY <1>s, <1>t, <2>2, <2>3 DEF Recorded, EventState
<1>3. CASE update.kind \in {"BEGIN_ACQUISITION", "ACTIVATION", "CAPTURE_DRAIN_BEGIN", "STOP",
                             "OTHER"}
  <2>1. update.next.lock = state.lock /\ update.next.consumed = state.consumed
    BY <1>3, <1>n, <1>t DEF Changed, EventState
  <2> QED
    BY <1>s, <2>1 DEF Recorded
<1> QED
  BY <1>1, <1>2, <1>3, <1>t DEF Kinds

LEMMA RecordedKept ==
  ASSUME MarkersKept, NEW s \in EventState, Recorded(s)
  PROVE  Recorded(s)'
BY DEF MarkersKept, Recorded, EventState, Markers

LEMMA RowsStep == IInv /\ [Next]_vars => RowsRecorded' /\ ConsumedAfterLock'
<1> SUFFICES ASSUME IInv, [Next]_vars, NEW i \in 1 .. Len(file')
             PROVE  /\ Recorded(file[i].state)'
                    /\ file[i].state.consumed' => DurablyLocked'
  BY DEF RowsRecorded, ConsumedAfterLock, Rows
<1> DEFINE Row == [sequence : Nat, state : EventState]
<1>1. MarkersKept /\ PrefixKept /\ RowsFrom
  BY MarkersStep, FileStep
<1>2. PICK s \in EventState : /\ s = file'[i].state
                              /\ Recorded(s) /\ (s.consumed => DurablyLocked)
  <2>1. CASE i \in 1 .. Len(file) /\ file'[i] = file[i]
    <3>1. file[i] \in Row
      BY <2>1, ElementOfSeq DEF IInv, TypeOK
    <3> QED
      BY <2>1, <3>1 DEF IInv, RowsRecorded, ConsumedAfterLock, Rows
  <2>2. CASE update.phase = "write" /\ file'[i].state = update.next
    BY <2>2, NextRecorded DEF IInv, TypeOK
  <2> QED
    BY <1>1, <2>1, <2>2 DEF RowsFrom
<1>3. Recorded(s)'
  BY <1>1, <1>2, RecordedKept
<1> QED
  BY <1>1, <1>2, <1>3, DurableKept DEF Recorded, Holds

LEMMA StateFrom ==
  ASSUME IInv, [Next]_vars, pc' # "down"
  PROVE  \/ pc # "down" /\ state' = state
         \/ update.phase # "free" /\ state' = update.next
         \/ state' = Replayed
BY DEF Next, vars, disk, OpenEventJournal, ResumeOrRefuse, MainUpdate, OtherUpdate, UpdateBegins,
       WriteRow, WriteFails, RowAcknowledged, SyncFails, EvidenceWriteFails, MarkerCreate,
       MarkerSynced, MarkerFails, FirstEligible, AcquisitionFails, Fail, Admit, NativeDisabled,
       EnterNative, Exit, Killed, PowerLoss, IInv, InFlight, Concurrent, Sequential, Issues,
       Returns

LEMMA ReplayedRecorded ==
  IInv => /\ Replayed \in EventState /\ Recorded(Replayed)
          /\ Replayed.consumed => DurablyLocked
<1> SUFFICES ASSUME IInv
             PROVE  /\ Replayed \in EventState /\ Recorded(Replayed)
                    /\ Replayed.consumed => DurablyLocked
  OBVIOUS
<1> DEFINE Row == [sequence : Nat, state : EventState]
<1>1. CASE file = << >>
  BY <1>1 DEF Replayed, EmptyState, EventState, Recorded
<1>2. CASE file # << >>
  <2>1. file \in Seq(Row)
    BY DEF IInv, TypeOK
  <2>2. Len(file) \in 1 .. Len(file)
    BY <1>2, <2>1, EmptySeq, LenProperties
  <2>3. file[Len(file)] \in Row
    BY <2>1, <2>2, ElementOfSeq
  <2> QED
    BY <1>2, <2>2, <2>3 DEF Replayed, IInv, RowsRecorded, ConsumedAfterLock, Rows
<1> QED
  BY <1>1, <1>2

LEMMA StateStep == IInv /\ [Next]_vars => StateRecorded'
<1> SUFFICES ASSUME IInv, [Next]_vars, pc' # "down"
             PROVE  Recorded(state)' /\ (state.consumed' => DurablyLocked')
  BY DEF StateRecorded
<1>1. PICK s \in EventState : s = state' /\ Recorded(s) /\ (s.consumed => DurablyLocked)
  <2>1. CASE pc # "down" /\ state' = state
    BY <2>1 DEF IInv, StateRecorded, TypeOK
  <2>2. CASE update.phase # "free" /\ state' = update.next
    BY <2>2, NextRecorded DEF IInv, TypeOK
  <2>3. CASE state' = Replayed
    BY <2>3, ReplayedRecorded
  <2> QED
    BY <2>1, <2>2, <2>3, StateFrom
<1>2. Recorded(s)'
  BY <1>1, MarkersStep, RecordedKept
<1> QED
  BY <1>1, <1>2, FileStep, DurableKept DEF Recorded, Holds

LEMMA EnteredStep == IInv /\ [Next]_vars => EnteredRecorded'
<1> SUFFICES ASSUME IInv, [Next]_vars PROVE EnteredRecorded'
  OBVIOUS
<1>0. MarkersKept /\ PrefixKept
  BY MarkersStep, FileStep
<1>1. CASE entered' = entered
  <2>1. CASE entered = << >>
    BY <1>1, <2>1 DEF EnteredRecorded
  <2>2. CASE entered # << >>
    <3>1. PICK v \in Selections : /\ entered = <<v>>
                                  /\ \A m \in Markers : Holds(m, v)
                                  /\ DurablyConsumedAs(v)
      BY <2>2 DEF IInv, EnteredRecorded
    <3>2. \A m \in Markers : Holds(m, v)'
      BY <1>0, <3>1 DEF MarkersKept
    <3>3. DurablyConsumedAs(v)'
      BY <1>0, <3>1, DurableKept
    <3> QED
      BY <1>1, <3>1, <3>2, <3>3 DEF EnteredRecorded
  <2> QED
    BY <2>1, <2>2
<1>2. CASE EnterNative
  <2> DEFINE v == state.lock
  <2>1. entered = << >> /\ state.consumed /\ v # None /\ DurablyConsumedAs(v)
    BY <1>2 DEF EnterNative, IInv, Control
  <2>2. Recorded(state) /\ v \in Selections
    BY <1>2, <2>1 DEF EnterNative, IInv, StateRecorded, TypeOK, EventState
  <2>3. entered' = <<v>>
    BY <1>2, <2>1 DEF EnterNative
  <2>4. \A m \in Markers : Holds(m, v)
    BY <2>1, <2>2 DEF Recorded, Markers
  <2>5. PICK w \in Selections : w = v
    BY <2>2
  <2>6. DurablyConsumedAs(w)' /\ \A m \in Markers : Holds(m, w)'
    BY <1>0, <2>1, <2>4, <2>5, DurableKept DEF MarkersKept
  <2> QED
    BY <2>3, <2>5, <2>6 DEF EnteredRecorded
<1> QED
  BY <1>1, <1>2
  DEF Next, vars, disk, OpenEventJournal, ResumeOrRefuse, MainUpdate, OtherUpdate, UpdateBegins,
      WriteRow, WriteFails, RowAcknowledged, SyncFails, EvidenceWriteFails, MarkerCreate,
      MarkerSynced, MarkerFails, FirstEligible, AcquisitionFails, Fail, Admit, NativeDisabled,
      Exit, Killed, PowerLoss

-----------------------------------------------------------------------------
(* The control part of the invariant, one step per action. *)

LEMMA InFlightStep == IInv /\ [Next]_vars => InFlight'
<1> SUFFICES ASSUME IInv, [Next]_vars PROVE InFlight'
  OBVIOUS
<1> USE DEF IInv
<1>t. update \in [phase : {"free", "write", "sync"}, by : {"main", "other"},
                  kind : Kinds, next : EventState]
  BY DEF TypeOK
<1>1. CASE update' = Idle
  BY <1>1 DEF InFlight, Idle
<1>2. ASSUME NEW by \in {"main", "other"}, NEW kind \in Kinds, UpdateBegins(by, kind),
             by = "main" => pc \in DOMAIN Issues /\ kind = Issues[pc],
             by = "other" => kind \in {"OTHER", "STOP"} /\ Concurrent
      PROVE  InFlight'
  <2>1. CASE UNCHANGED update
    BY <1>2, <2>1 DEF UpdateBegins, InFlight
  <2>2. CASE ~ UNCHANGED update
    <3>1. /\ update' = [phase |-> "write", by |-> by, kind |-> kind,
                        next |-> Changed(kind, state)]
          /\ pc' = pc /\ state' = state /\ pick' = pick /\ Allowed(kind, state)
      BY <1>2, <2>2 DEF UpdateBegins, Refused
    <3>2. Changed(kind, state)' = Changed(kind, state)
      BY <3>1 DEF Changed
    <3>3. by = "other" => pc \in Steps \ {"down", "check", "begin", "activate"}
      BY <1>2 DEF Concurrent, Sequential, TypeOK
    <3> QED
      BY <1>2, <3>1, <3>2, <3>3 DEF InFlight, Allowed
  <2> QED
    BY <2>1, <2>2
<1>3. CASE MainUpdate
  BY <1>2, <1>3 DEF MainUpdate, Issues, Kinds
<1>4. CASE OtherUpdate
  BY <1>2, <1>4 DEF OtherUpdate, Kinds
<1>5. CASE WriteRow
  <2> DEFINE Row == [sequence : Nat, state : EventState]
             row == [sequence |-> IF torn THEN Glued ELSE seq + 1, state |-> update.next]
  <2>1. file \in Seq(Row) /\ row \in Row /\ file' = Append(file, row)
    BY <1>5 DEF WriteRow, TypeOK, Glued
  <2>2. file' # << >> /\ file'[Len(file')].state = update.next
    BY <2>1
  <2>3. update' = [update EXCEPT !.phase = "sync"] /\ UNCHANGED <<pc, state, pick>>
    BY <1>5 DEF WriteRow
  <2>4. update.phase # "free"
    BY <1>5 DEF WriteRow
  <2> QED
    BY <1>t, <2>2, <2>3, <2>4 DEF InFlight, Changed, Allowed
<1>6. CASE EvidenceWriteFails \/ MarkerCreate \/ MarkerFails \/ Fail \/ Admit \/ Exit
  BY <1>6 DEF EvidenceWriteFails, MarkerCreate, MarkerFails, Fail, Admit, Exit, InFlight, disk
<1>7. CASE ResumeOrRefuse
  BY <1>7 DEF ResumeOrRefuse, Control, InFlight
<1>8. CASE MarkerSynced \/ AcquisitionFails \/ NativeDisabled \/ EnterNative
  <2>1. UNCHANGED <<file, update, state, pick>>
    BY <1>8 DEF MarkerSynced, AcquisitionFails, NativeDisabled, EnterNative, disk
  <2>2. CASE update.phase = "free"
    BY <2>1, <2>2 DEF InFlight
  <2>3. CASE update.phase # "free"
    <3>1. /\ pc \in Steps \ DOMAIN Issues
          /\ pc' \in Steps \ {"down", "check", "begin", "activate"}
      BY <1>8, <1>t, <2>3
      DEF MarkerSynced, AcquisitionFails, NativeDisabled, EnterNative, Issues, Steps
    <3> QED
      BY <2>1, <3>1 DEF InFlight, Changed, Allowed
  <2> QED
    BY <2>2, <2>3
<1>9. CASE FirstEligible
  <2>1. UNCHANGED <<file, update, state>> /\ pc = "run" /\ pc' \in {"lockMarker", "locked"}
    BY <1>9 DEF FirstEligible, disk
  <2>2. update.phase # "free" => update.kind \in {"OTHER", "STOP"} /\ update.by = "other"
    BY <1>t, <2>1 DEF InFlight, Issues
  <2> QED
    BY <2>1, <2>2 DEF InFlight, Changed, Allowed, Steps
<1>10. CASE UNCHANGED vars
  BY <1>10 DEF vars, InFlight, Changed, Allowed
<1> QED
  BY <1>1, <1>3, <1>4, <1>5, <1>6, <1>7, <1>8, <1>9, <1>10
  DEF Next, OpenEventJournal, WriteFails, RowAcknowledged, SyncFails, Killed, PowerLoss

LEMMA ControlStep == IInv /\ [Next]_vars => Control'
<1> SUFFICES ASSUME IInv, [Next]_vars PROVE Control'
  OBVIOUS
<1> USE DEF IInv, Unlocked, Locked
<1>t. /\ TypeOK /\ state \in EventState /\ pc \in Steps
      /\ update \in [phase : {"free", "write", "sync"}, by : {"main", "other"},
                      kind : Kinds, next : EventState]
      /\ marker \in [Markers -> [content : Selections \cup {None, Torn}, durable : BOOLEAN]]
  BY DEF TypeOK
<1>k. /\ MarkersKept /\ (DurablyLocked => DurablyLocked')
      /\ \A v : DurablyConsumedAs(v) => DurablyConsumedAs(v)'
  BY MarkersStep, FileStep, DurableKept
\* Steps that end with the main goroutine where nothing is claimed of it.
<1>1. CASE /\ pc' \in {"down", "check", "fail", "drain", "refuse", "finish", "exit"}
           /\ pc' \in {"down", "check"} => update'.phase = "free"
  BY <1>1 DEF Control
\* Steps of others that leave what Control reads alone.
<1>2. CASE /\ UNCHANGED <<pc, state, entered, pick, marker>>
           /\ pc \in {"down", "check"} => update'.phase = "free"
  BY <1>2, <1>k DEF Control, Holds
<1>3. CASE ResumeOrRefuse
  <2>1. CASE pc' = "refuse"
    BY <1>1, <2>1
  <2>2. CASE pc' # "refuse"
    <3>1. /\ CheckMarkers /\ state.lock = None /\ ~state.consumed
          /\ pc' \in {"run", "begin"}
          /\ UNCHANGED <<marker, state, entered>>
      BY <1>3, <2>2 DEF ResumeOrRefuse, EventResumeCheck, disk
    <3>2. \A m \in Markers : marker[m].content = None
      BY <3>1 DEF CheckMarkers
    <3>3. entered = << >>
      <4>1. ASSUME NEW v \in Selections, Holds(LockMarker, v) PROVE FALSE
        BY <3>2, <4>1, DistinctContents DEF Holds, Markers
      <4> QED
        BY <4>1 DEF EnteredRecorded, Markers
    <3> QED
      BY <3>1, <3>2, <3>3 DEF Control, Markers
  <2> QED
    BY <2>1, <2>2
<1>4. ASSUME NEW by \in {"main", "other"}, NEW kind \in Kinds, UpdateBegins(by, kind),
             by = "main" => pc \in DOMAIN Issues,
             by = "other" => Concurrent
      PROVE  Control'
  <2>1. UNCHANGED <<state, entered, pick, marker>>
    BY <1>4 DEF UpdateBegins, disk
  <2>2. CASE pc' = pc
    BY <1>2, <1>4, <2>1, <2>2 DEF Concurrent, Sequential, Issues
  <2>3. CASE pc' # pc
    BY <1>1, <1>4, <2>3 DEF UpdateBegins, Returns, OnError, Issues
  <2> QED
    BY <2>2, <2>3
<1>5. CASE MainUpdate
  BY <1>4, <1>5 DEF MainUpdate, Issues, Kinds
<1>6. CASE OtherUpdate
  BY <1>4, <1>6 DEF OtherUpdate, Kinds
<1>7. CASE WriteFails \/ SyncFails
  <2>0. /\ update.phase # "free" /\ update'.phase = "free" /\ Returns(update.by, OnError)
        /\ UNCHANGED <<state, entered, pick, marker>>
    <3>1. CASE WriteFails
      BY <3>1 DEF WriteFails, Idle
    <3>2. CASE SyncFails
      BY <3>2 DEF SyncFails, Idle
    <3> QED
      BY <1>7, <3>1, <3>2
  <2>1. CASE update.by = "other"
    <3>1. pc' = pc
      BY <2>0, <2>1 DEF Returns
    <3> QED
      BY <1>2, <2>0, <3>1
  <2>2. CASE update.by = "main"
    <3>1. pc \in DOMAIN Issues /\ pc' = OnError[pc]
      BY <2>0, <2>2 DEF Returns, InFlight
    <3>2. pc' \in {"fail", "refuse", "exit"}
      BY <3>1 DEF OnError, Issues
    <3> QED
      BY <1>1, <3>2
  <2> QED
    BY <1>t, <2>1, <2>2
<1>8. CASE RowAcknowledged
  <2>0. /\ update.phase = "sync" /\ state' = update.next /\ update' = Idle
        /\ UNCHANGED <<file, marker, pick, entered>> /\ synced' = Len(file)
        /\ update.next = Changed(update.kind, state)
        /\ Allowed(update.kind, state)
        /\ Len(file) \in 1 .. Len(file) /\ file[Len(file)].state = update.next
    <3>1. file \in Seq([sequence : Nat, state : EventState]) /\ file # << >>
      BY <1>8 DEF RowAcknowledged, InFlight, TypeOK
    <3>2. Len(file) \in 1 .. Len(file)
      BY <3>1, EmptySeq, LenProperties
    <3> QED
      BY <1>8, <3>2 DEF RowAcknowledged, InFlight
  <2>1. CASE update.by = "other"
    <3>1. /\ pc' = pc /\ update.kind \in {"OTHER", "STOP"} /\ pc \notin {"down", "check"}
          /\ state'.lock = state.lock /\ state'.consumed = state.consumed
      BY <1>8, <1>t, <2>0, <2>1 DEF RowAcknowledged, Returns, InFlight, Changed, EventState
    <3> QED
      BY <1>k, <2>0, <3>1 DEF Control, Holds
  <2>2. CASE update.by = "main"
    <3>0. pc' = OnSuccess[pc] /\ pc \in DOMAIN Issues /\ update.kind = Issues[pc]
      BY <1>8, <2>2 DEF RowAcknowledged, Returns, InFlight
    <3>1. CASE pc \in {"begin", "activate"}
      <4>1. state'.lock = state.lock /\ state'.consumed = state.consumed
        <5>1. update.kind \in {"BEGIN_ACQUISITION", "ACTIVATION"}
          BY <3>0, <3>1 DEF Issues
        <5>2. state' = [state EXCEPT !.began = TRUE] \/ state' = [state EXCEPT !.activated = TRUE]
          BY <2>0, <5>1 DEF Changed
        <5> QED
          BY <1>t, <5>2 DEF EventState
      <4> QED
        BY <2>0, <3>0, <3>1, <4>1 DEF Control, OnSuccess
    <3>2. CASE pc = "lockRow"
      <4>1. state'.lock = pick /\ state'.consumed = state.consumed /\ pc' = "locked"
        BY <1>t, <2>0, <3>0, <3>2 DEF Changed, Issues, EventState, OnSuccess
      <4>2. pick # None /\ ~state.consumed /\ entered = << >>
            /\ marker[ConsumedMarker].content = None
        BY <3>2 DEF Control
      <4>3. DurablyLocked'
        BY <2>0, <4>1, <4>2 DEF DurablyLocked
      <4> QED
        BY <2>0, <4>1, <4>2, <4>3 DEF Control
    <3>3. CASE pc = "consumeRow"
      <4>1. state'.lock = state.lock /\ state'.consumed = TRUE /\ pc' = "consumed"
        BY <1>t, <2>0, <3>0, <3>3 DEF Changed, Issues, EventState, OnSuccess
      <4>2. entered = << >> /\ state.lock # None
        BY <3>3 DEF Control
      <4>3. DurablyConsumedAs(state.lock)'
        BY <2>0, <4>1 DEF DurablyConsumedAs
      <4> QED
        BY <2>0, <4>1, <4>2, <4>3 DEF Control
    <3>4. CASE pc \in {"drain", "refuse", "finish"}
      BY <1>1, <3>0, <3>4 DEF OnSuccess
    <3> QED
      BY <3>0, <3>1, <3>2, <3>3, <3>4 DEF Issues
  <2> QED
    BY <1>t, <2>1, <2>2
<1>9. CASE MarkerCreate
  <2>1. CASE pc' = "fail"
    BY <1>1, <2>1
  <2>2. CASE pc' # "fail" /\ pc = "lockMarker"
    <3>1. /\ marker' = [marker EXCEPT ![LockMarker] = [content |-> Torn, durable |-> FALSE]]
          /\ pc' = "lockSync" /\ UNCHANGED <<state, entered, pick>>
      BY <1>9, <2>2 DEF MarkerCreate, MarkerOf
    <3>2. pick # None
      BY <2>2 DEF Control
    <3> QED
      BY <1>t, <2>2, <3>1, <3>2 DEF Control, Markers, LockMarker, ConsumedMarker
  <2>3. CASE pc' # "fail" /\ pc = "consumeMarker"
    <3>1. /\ marker' = [marker EXCEPT ![ConsumedMarker] = [content |-> Torn, durable |-> FALSE]]
          /\ pc' = "consumeSync" /\ UNCHANGED <<state, entered, pick>>
      BY <1>9, <2>3 DEF MarkerCreate, MarkerOf
    <3> QED
      BY <1>k, <1>t, <2>3, <3>1 DEF Control, Markers, LockMarker, ConsumedMarker
  <2> QED
    BY <1>9, <2>1, <2>2, <2>3 DEF MarkerCreate
<1>10. CASE MarkerSynced
  <2>1. CASE pc = "lockSync"
    BY <1>10, <1>t, <2>1
    DEF MarkerSynced, MarkerOf, MarkerContent, Control, Markers, LockMarker, ConsumedMarker, Holds
  <2>2. CASE pc = "consumeSync"
    BY <1>10, <1>k, <1>t, <2>2
    DEF MarkerSynced, MarkerOf, MarkerContent, Control, Markers, LockMarker, ConsumedMarker, Holds
  <2> QED
    BY <1>10, <2>1, <2>2 DEF MarkerSynced
<1>11. CASE MarkerFails
  BY <1>1, <1>11 DEF MarkerFails
<1>12. CASE FirstEligible
  BY <1>12, <1>k, DistinctContents DEF FirstEligible, Control, disk
<1>13. CASE Admit
  <2>1. CASE pc' = "fail"
    BY <1>1, <2>1
  <2>2. CASE pc' # "fail"
    BY <1>13, <1>k, <2>2 DEF Admit, Control, disk
  <2> QED
    BY <2>1, <2>2
<1>14. CASE AcquisitionFails \/ Fail \/ NativeDisabled \/ EnterNative \/ Exit \/ Killed \/ PowerLoss
  <2>1. CASE AcquisitionFails \/ Fail \/ NativeDisabled \/ EnterNative
    BY <1>1, <2>1 DEF AcquisitionFails, Fail, NativeDisabled, EnterNative
  <2>2. CASE Exit
    BY <1>1, <2>2 DEF Exit
  <2>3. CASE Killed \/ PowerLoss
    <3>1. pc' = "down" /\ update' = Idle
      BY <2>3 DEF Killed, PowerLoss
    <3> QED
      BY <1>1, <3>1 DEF Idle
  <2> QED
    BY <1>14, <2>1, <2>2, <2>3
<1>15. CASE OpenEventJournal
  BY <1>1, <1>15 DEF OpenEventJournal, Idle
<1>16. CASE WriteRow
  BY <1>2, <1>16 DEF WriteRow, Control
<1>17. CASE EvidenceWriteFails
  BY <1>2, <1>17 DEF EvidenceWriteFails, disk, Control
<1>18. CASE UNCHANGED vars
  BY <1>2, <1>18 DEF vars, Control
<1> QED
  BY <1>3, <1>5, <1>6, <1>7, <1>8, <1>9, <1>10, <1>11, <1>12, <1>13, <1>14, <1>15, <1>16,
     <1>17, <1>18 DEF Next

-----------------------------------------------------------------------------
(* The theorems. *)

LEMMA InvInit == Init => IInv
<1> SUFFICES ASSUME Init PROVE IInv
  OBVIOUS
<1>1. TypeOK
  BY TypeInit
<1>2. RowsRecorded /\ ConsumedAfterLock /\ Len(file) = 0
  BY DEF Init, RowsRecorded, ConsumedAfterLock, Rows
<1>3. StateRecorded /\ EnteredRecorded /\ InFlight
  BY DEF Init, StateRecorded, EnteredRecorded, InFlight, Idle
<1>4. Control
  BY DEF Init, Control, Unlocked, Locked, Idle
<1> QED
  BY <1>1, <1>2, <1>3, <1>4 DEF IInv

LEMMA InvStep == IInv /\ [Next]_vars => IInv'
<1> SUFFICES ASSUME IInv, [Next]_vars PROVE IInv'
  OBVIOUS
<1>1. MainAsked
  BY DEF IInv, InFlight, MainAsked
<1>2. TypeOK'
  BY <1>1, TypeStep DEF IInv
<1> QED
  BY <1>2, RowsStep, StateStep, EnteredStep, InFlightStep, ControlStep DEF IInv

THEOREM Inductive == Spec => []IInv
BY InvInit, InvStep, PTL DEF Spec

\* Whatever write, fsync, crash or power loss happens, a lock row or a consumption
\* row is never on disk without its durable marker naming the same selection.
THEOREM MarkersFirst == Spec => []MarkersPrecedeRows
<1>1. IInv => MarkersPrecedeRows
  BY DEF IInv, RowsRecorded, Recorded, Holds, MarkersPrecedeRows, OnDisk
<1> QED
  BY <1>1, Inductive, PTL

\* Native execution is entered only for a selection whose consumption no later
\* power loss can undo.
THEOREM ConsumptionIsDurable == Spec => []DurableBeforeNative
<1>1. IInv => DurableBeforeNative
  <2> SUFFICES ASSUME IInv, NEW n \in 1 .. Len(entered)
               PROVE  /\ \E i \in 1 .. synced : OnDisk(i, "consumed")
                                               /\ OnDisk(i, "lock") = entered[n]
                      /\ \A m \in Markers :
                           marker[m] = [content |-> entered[n], durable |-> TRUE]
    BY DEF DurableBeforeNative
  <2>1. entered # << >>
    OBVIOUS
  <2>2. PICK v \in Selections : /\ entered = <<v>>
                                /\ \A m \in Markers : Holds(m, v)
                                /\ DurablyConsumedAs(v)
    BY <2>1 DEF IInv, EnteredRecorded
  <2>3. entered[n] = v
    BY <2>2
  <2> QED
    BY <2>2, <2>3 DEF Holds, DurablyConsumedAs, OnDisk
<1> QED
  BY <1>1, Inductive, PTL

\* What the refinement mapping chooses is what the lock marker says.
LockIsMarked ==
  /\ DurableLock = IF DurablyLocked THEN marker[LockMarker].content ELSE None
  /\ DurablyLocked => DurableLock \in Selections
  /\ DurablyConsumed => DurablyLocked

LEMMA DurableLockIsMarked == IInv => LockIsMarked
<1> SUFFICES ASSUME IInv PROVE LockIsMarked
  OBVIOUS
<1> USE DEF LockIsMarked
<1>0. /\ \A i \in 1 .. synced : i \in Rows /\ i \in 1 .. Len(file)
      /\ file \in Seq([sequence : Nat, state : EventState])
  BY LenProperties DEF IInv, TypeOK, Rows
<1>1. ASSUME NEW i \in 1 .. synced, file[i].state.lock # None
      PROVE  /\ file[i].state.lock = marker[LockMarker].content
             /\ file[i].state.lock \in Selections
  <2>1. Recorded(file[i].state)
    BY <1>0 DEF IInv, RowsRecorded
  <2>2. file[i] \in [sequence : Nat, state : EventState]
    BY <1>0, ElementOfSeq
  <2> QED
    BY <1>1, <2>1, <2>2 DEF Recorded, Holds, EventState
<1>2. DurablyConsumed => DurablyLocked
  BY <1>0 DEF DurablyConsumed, OnDisk, IInv, ConsumedAfterLock
<1>3. CASE DurablyLocked
  <2> DEFINE c == CHOOSE i \in 1 .. synced : file[i].state.lock # None
  <2>1. c \in 1 .. synced /\ file[c].state.lock # None
    BY <1>3 DEF DurablyLocked
  <2>2. DurableLock = file[c].state.lock
    BY <1>3 DEF DurableLock, DurablyLocked, OnDisk
  <2>3. file[c].state.lock = marker[LockMarker].content /\ file[c].state.lock \in Selections
    BY <1>1, <2>1
  <2> QED
    BY <1>2, <1>3, <2>2, <2>3
<1>4. CASE ~DurablyLocked
  BY <1>2, <1>4 DEF DurableLock, DurablyLocked, OnDisk
<1> QED
  BY <1>3, <1>4

LEMMA DurableLockIsMarkedNext == IInv' => LockIsMarked'
BY DurableLockIsMarked, PTL

\* The journal implements the one-shot authority: one selection chosen, spent
\* once, native entered at most once, across every crash and restart.
THEOREM JournalIsOneShot == Spec => ImplementsOneShot
<1>1. Init => Authority!Init
  BY DEF Init, Authority!Init, DurableLock, DurablyConsumed
<1>2. ASSUME IInv, IInv', [Next]_vars PROVE [Authority!Next]_(Authority!vars)
  <2>0. PrefixKept /\ (DurablyLocked => DurablyLocked') /\ (DurablyConsumed => DurablyConsumed')
    BY <1>2, FileStep DEF PrefixKept, DurablyLocked, DurablyConsumed, OnDisk
  <2>1. DurablyLocked => DurableLock' = DurableLock
    <3>1. ASSUME DurablyLocked PROVE DurableLock' = DurableLock
      <4>1. PICK i \in 1 .. synced : file[i].state.lock # None
        BY <3>1 DEF DurablyLocked
      <4>2. i \in Rows /\ file[i].state \in EventState
        <5>1. i \in 1 .. Len(file) /\ file \in Seq([sequence : Nat, state : EventState])
          BY <1>2, LenProperties DEF IInv, TypeOK
        <5>2. file[i] \in [sequence : Nat, state : EventState]
          BY <5>1, ElementOfSeq
        <5> QED
          BY <5>1, <5>2 DEF Rows
      <4>3. PICK v \in Selections : Holds(LockMarker, v)
        BY <1>2, <4>1, <4>2 DEF IInv, RowsRecorded, Recorded, EventState
      <4>4. Holds(LockMarker, v)'
        BY <1>2, <4>3, MarkersStep DEF MarkersKept, Markers
      <4>5. marker[LockMarker].content = v /\ (marker[LockMarker].content)' = v
        BY <4>3, <4>4 DEF Holds
      <4>6. LockIsMarked /\ LockIsMarked' /\ DurablyLocked'
        BY <1>2, <2>0, <3>1, DurableLockIsMarked, DurableLockIsMarkedNext
      <4> QED
        BY <3>1, <4>5, <4>6 DEF LockIsMarked
    <3> QED
      BY <3>1
  <2>2. ~DurablyLocked => DurableLock = None /\ ~DurablyConsumed
    BY <1>2, DurableLockIsMarked DEF LockIsMarked
  <2>3. DurablyLocked => DurableLock # None
    BY <1>2, DurableLockIsMarked, DistinctContents DEF LockIsMarked
  <2>4. DurableLock' = None \/ DurableLock' \in Selections
    BY <1>2, DurableLockIsMarkedNext DEF LockIsMarked
  <2>5. CASE EnterNative
    <3>1. /\ entered = << >> /\ state.lock # None
          /\ DurablyConsumedAs(state.lock) /\ UNCHANGED <<file, synced>>
      BY <1>2, <2>5 DEF EnterNative, IInv, Control, disk
    <3>2. entered' = <<state.lock>>
      BY <2>5, <3>1 DEF EnterNative
    <3>3. PICK i \in 1 .. synced : file[i].state.consumed /\ file[i].state.lock = state.lock
      BY <3>1 DEF DurablyConsumedAs
    <3>4. DurablyConsumed /\ DurablyLocked
      BY <3>1, <3>3 DEF DurablyConsumed, DurablyLocked, OnDisk
    <3>5. state.lock = marker[LockMarker].content
      BY <1>2, <2>5, <3>1 DEF EnterNative, IInv, StateRecorded, Recorded, Holds
    <3>6. DurableLock = state.lock
      BY <1>2, <3>4, <3>5, DurableLockIsMarked DEF LockIsMarked
    <3>7. DurableLock' = DurableLock /\ DurablyConsumed' = DurablyConsumed
      BY <2>0, <2>1, <3>4
    <3> QED
      BY <3>1, <3>2, <3>4, <3>6, <3>7 DEF Authority!Next, Authority!Enter
  <2>6. CASE entered' = entered
    <3>1. ~DurablyLocked /\ DurablyConsumed' => FALSE
      <4> SUFFICES ASSUME ~DurablyLocked, DurablyConsumed' PROVE FALSE
        OBVIOUS
      <4>1. PICK i \in 1 .. synced' : file'[i].state.consumed
        BY DEF DurablyConsumed, OnDisk
      <4>2. i \in 1 .. Len(file')
        BY <1>2 DEF IInv, TypeOK
      <4>3. CASE i \in 1 .. Len(file) /\ file'[i] = file[i]
        BY <1>2, <4>1, <4>3 DEF IInv, ConsumedAfterLock, Rows
      <4>4. CASE update.phase = "write" /\ file'[i].state = update.next
        BY <1>2, <4>1, <4>4, NextRecorded
      <4> QED
        BY <1>2, <4>2, <4>3, <4>4, FileStep DEF RowsFrom
    <3>2. CASE ~DurablyLocked
      <4>1. /\ DurableLock = None /\ ~DurablyConsumed /\ ~DurablyConsumed'
            /\ DurablyConsumed \in BOOLEAN /\ DurablyConsumed' \in BOOLEAN
        BY <2>2, <3>1, <3>2 DEF DurablyConsumed
      <4>2. CASE DurableLock' = None
        BY <2>6, <4>1, <4>2 DEF Authority!vars
      <4>3. CASE DurableLock' \in Selections
        BY <2>6, <4>1, <4>3, DistinctContents DEF Authority!Next, Authority!Choose
      <4> QED
        BY <2>4, <4>2, <4>3
    <3>3. CASE DurablyLocked
      <4>1. CASE DurablyConsumed' = DurablyConsumed
        BY <2>1, <2>6, <3>3, <4>1 DEF Authority!vars
      <4>2. CASE DurablyConsumed' # DurablyConsumed
        BY <2>0, <2>1, <2>3, <2>6, <3>3, <4>2 DEF Authority!Next, Authority!Spend, DurablyConsumed
      <4> QED
        BY <4>1, <4>2
    <3> QED
      BY <3>2, <3>3
  <2> QED
    BY <1>2, <2>5, <2>6
    DEF Next, vars, disk, OpenEventJournal, ResumeOrRefuse, MainUpdate, OtherUpdate, UpdateBegins,
        WriteRow, WriteFails, RowAcknowledged, SyncFails, EvidenceWriteFails, MarkerCreate,
        MarkerSynced, MarkerFails, FirstEligible, AcquisitionFails, Fail, Admit, NativeDisabled,
        Exit, Killed, PowerLoss
<1> QED
  BY <1>1, <1>2, Inductive, PTL DEF Spec, ImplementsOneShot, Authority!Spec

-----------------------------------------------------------------------------
(* A fatal journal, and the next process. *)

\* A guarded journal that is fatal has at most a STOP row in flight.
OnlyStopAfterFatal == guarded /\ fatal /\ update.phase # "free" => update.kind = "STOP"

Touched(s) == s.lock # None \/ s.consumed \/ s.stop
Chained(j) == \A k \in 1 .. j : file[k].sequence = k

\* In a chain of rows each one keeps what the earlier ones said.
RowsKeepTouched ==
  \A j \in Rows : Chained(j) =>
    \A i \in 1 .. j : Touched(file[i].state) => Touched(file[j].state)

\* A process whose j.seq is the last row's is in the last row's state; a row that was
\* not acknowledged leaves j.seq behind for ever, and breaks the chain.
InStep ==
  pc # "down" =>
    /\ seq <= Len(file)
    /\ update.phase = "sync" => seq < Len(file)
    /\ update.phase # "sync" /\ seq = Len(file) => state = Replayed
Opened == pc = "check" => Replayable /\ state = Replayed

ChainInv == IInv /\ OnlyStopAfterFatal /\ RowsKeepTouched /\ InStep /\ Opened

LEMMA ChangedTouched ==
  ASSUME NEW s \in EventState, NEW kind \in Kinds, Allowed(kind, s), Touched(s)
  PROVE  Touched(Changed(kind, s))
BY DEF Allowed, Changed, Touched, EventState, Kinds

LEMMA FileMoves ==
  ASSUME IInv, [Next]_vars
  PROVE  \/ file' = file
         \/ /\ WriteRow /\ Len(file') = Len(file) + 1
            /\ \A i \in 1 .. Len(file) : file'[i] = file[i]
            /\ file'[Len(file) + 1] = [sequence |-> IF torn THEN Glued ELSE seq + 1,
                                       state |-> update.next]
         \/ /\ pc' = "down" /\ Len(file') \in 0 .. Len(file)
            /\ \A i \in 1 .. Len(file') : file'[i] = file[i]
<1> DEFINE Row == [sequence : Nat, state : EventState]
<1>t. file \in Seq(Row) /\ Len(file) \in Nat /\ synced \in 0 .. Len(file)
  BY LenProperties DEF IInv, TypeOK
<1>1. CASE WriteRow
  <2> DEFINE row == [sequence |-> IF torn THEN Glued ELSE seq + 1, state |-> update.next]
  <2>1. row \in Row /\ file' = Append(file, row)
    BY <1>1 DEF WriteRow, IInv, TypeOK, Glued
  <2> QED
    BY <1>t, <1>1, <2>1
<1>2. CASE PowerLoss
  <2>1. PICK n \in synced .. Len(file) : file' = SubSeq(file, 1, n)
    BY <1>2 DEF PowerLoss
  <2>2. n \in Nat /\ n \in Int /\ 1 \in Int /\ n <= Len(file)
    BY <1>t, <2>1
  <2>3. ASSUME NEW i \in 1 .. n PROVE file[i] \in Row
    <3>1. i \in 1 .. Len(file)
      BY <1>t, <2>2
    <3> QED
      BY <1>t, <3>1, ElementOfSeq
  <2>4. /\ Len(SubSeq(file, 1, n)) = IF 1 <= n THEN n - 1 + 1 ELSE 0
        /\ \A i \in 1 .. n - 1 + 1 : SubSeq(file, 1, n)[i] = file[1 + i - 1]
    BY <2>2, <2>3, SubSeqProperties
  <2>5. Len(file') = n /\ \A i \in 1 .. n : file'[i] = file[i]
    BY <2>1, <2>2, <2>4
  <2> QED
    BY <1>2, <2>2, <2>5 DEF PowerLoss
<1> QED
  BY <1>1, <1>2
  DEF Next, vars, disk, OpenEventJournal, ResumeOrRefuse, MainUpdate, OtherUpdate, UpdateBegins,
      WriteFails, RowAcknowledged, SyncFails, EvidenceWriteFails, MarkerCreate, MarkerSynced,
      MarkerFails, FirstEligible, AcquisitionFails, Fail, Admit, NativeDisabled, EnterNative, Exit,
      Killed

LEMMA TouchedStep ==
  ASSUME ChainInv, [Next]_vars
  PROVE  RowsKeepTouched'
<1>t. file \in Seq([sequence : Nat, state : EventState]) /\ Len(file) \in Nat /\ seq \in Nat
  BY LenProperties DEF ChainInv, IInv, TypeOK
<1>1. CASE file' = file
  BY <1>1 DEF ChainInv, RowsKeepTouched, Rows, Chained
<1>2. CASE /\ Len(file') \in 0 .. Len(file)
           /\ \A i \in 1 .. Len(file') : file'[i] = file[i]
  <2> SUFFICES ASSUME NEW j \in Rows', Chained(j)', NEW i \in 1 .. j, Touched(file'[i].state)
               PROVE  Touched(file'[j].state)
    BY DEF RowsKeepTouched, Touched
  <2>1. j \in Rows /\ \A k \in 1 .. j : file'[k] = file[k]
    BY <1>t, <1>2 DEF Rows
  <2>2. Chained(j)
    BY <2>1 DEF Chained
  <2>3. file'[i] = file[i] /\ file'[j] = file[j]
    BY <1>t, <2>1 DEF Rows
  <2> QED
    BY <2>1, <2>2, <2>3 DEF ChainInv, RowsKeepTouched
<1>3. CASE /\ WriteRow /\ Len(file') = Len(file) + 1
           /\ \A i \in 1 .. Len(file) : file'[i] = file[i]
           /\ file'[Len(file) + 1] = [sequence |-> IF torn THEN Glued ELSE seq + 1,
                                      state |-> update.next]
  <2> SUFFICES ASSUME NEW j \in Rows', Chained(j)', NEW i \in 1 .. j, Touched(file'[i].state)
               PROVE  Touched(file'[j].state)
    BY DEF RowsKeepTouched, Touched
  <2>1. j \in Nat /\ j \in 1 .. Len(file) + 1 /\ i \in Nat /\ i <= j /\ i >= 1
    BY <1>t, <1>3 DEF Rows
  <2>2. CASE j <= Len(file)
    <3>1. j \in Rows /\ file'[i] = file[i] /\ file'[j] = file[j]
      BY <1>t, <1>3, <2>1, <2>2 DEF Rows
    <3>2. Chained(j)
      BY <1>t, <1>3, <2>1, <2>2 DEF Chained
    <3> QED
      BY <3>1, <3>2 DEF ChainInv, RowsKeepTouched
  <2>3. CASE j = Len(file) + 1 /\ i = j
    BY <2>3
  <2>4. CASE j = Len(file) + 1 /\ i <= Len(file)
    <3>1. file'[j].sequence = j /\ \A k \in 1 .. Len(file) : file[k].sequence = k
      BY <1>t, <1>3, <2>1, <2>4 DEF Chained
    <3>2. seq = Len(file)
      BY <1>t, <1>3, <2>4, <3>1 DEF Glued
    <3>3. pc # "down" /\ update.phase = "write"
      BY <1>3 DEF WriteRow, ChainInv, IInv, Control
    <3>4. state = file[Len(file)].state /\ Len(file) \in Rows
      BY <1>t, <2>1, <2>4, <3>2, <3>3 DEF ChainInv, InStep, Replayed, Rows
    <3>5. Touched(state)
      <4>1. Chained(Len(file)) /\ file'[i] = file[i] /\ i \in 1 .. Len(file)
        BY <1>t, <1>3, <2>1, <2>4, <3>1 DEF Chained
      <4> QED
        BY <3>4, <4>1 DEF ChainInv, RowsKeepTouched
    <3>6. update.next = Changed(update.kind, state) /\ Allowed(update.kind, state)
      BY <3>3 DEF ChainInv, IInv, InFlight
    <3>7. Touched(update.next)
      BY <3>5, <3>6, ChangedTouched DEF ChainInv, IInv, TypeOK
    <3> QED
      BY <1>3, <2>4, <3>7
  <2> QED
    BY <1>t, <2>1, <2>2, <2>3, <2>4
<1> QED
  BY <1>1, <1>2, <1>3, FileMoves DEF ChainInv

LEMMA InStepStep ==
  ASSUME ChainInv, [Next]_vars
  PROVE  InStep'
<1>t. seq \in Nat /\ Len(file) \in Nat
  BY LenProperties DEF ChainInv, IInv, TypeOK
<1>1. CASE OpenEventJournal
  BY <1>t, <1>1 DEF OpenEventJournal, InStep, Replayed, Idle
<1>2. CASE WriteRow
  <2>1. Len(file') = Len(file) + 1 /\ update'.phase = "sync" /\ seq' = seq
    BY <1>2 DEF WriteRow, ChainInv, IInv, TypeOK
  <2>2. pc # "down"
    BY <1>2 DEF WriteRow, ChainInv, IInv, Control
  <2> QED
    BY <1>t, <2>1, <2>2 DEF InStep, ChainInv
<1>3. CASE RowAcknowledged
  <2>1. /\ update.phase = "sync" /\ file # << >> /\ file[Len(file)].state = update.next
        /\ file' = file /\ seq' = seq + 1 /\ state' = update.next /\ update'.phase = "free"
    BY <1>3 DEF RowAcknowledged, ChainInv, IInv, InFlight, Idle
  <2>2. pc # "down"
    BY <2>1 DEF ChainInv, IInv, Control
  <2> QED
    BY <1>t, <2>1, <2>2 DEF ChainInv, InStep, Replayed
<1>4. CASE SyncFails
  <2>1. update.phase = "sync" /\ file' = file /\ seq' = seq /\ update'.phase = "free"
    BY <1>4 DEF SyncFails, Idle
  <2>2. pc # "down"
    BY <2>1 DEF ChainInv, IInv, Control
  <2> QED
    BY <1>t, <2>1, <2>2 DEF ChainInv, InStep
<1>5. CASE WriteFails
  <2>1. update.phase = "write" /\ UNCHANGED <<file, seq, state>> /\ update'.phase = "free"
    BY <1>5 DEF WriteFails, Idle
  <2>2. pc # "down"
    BY <2>1 DEF ChainInv, IInv, Control
  <2> QED
    BY <1>t, <2>1, <2>2 DEF ChainInv, InStep, Replayed
<1>6. CASE Exit \/ Killed \/ PowerLoss
  BY <1>6 DEF Exit, Killed, PowerLoss, InStep
<1>7. ASSUME NEW by, NEW kind, UpdateBegins(by, kind), pc # "down" PROVE InStep'
  <2>1. UNCHANGED <<file, seq, state>> /\ update.phase = "free" /\ update'.phase # "sync"
    BY <1>7 DEF UpdateBegins, disk
  <2> QED
    BY <1>7, <2>1 DEF ChainInv, InStep, Replayed
<1>8. CASE pc # "down" /\ UNCHANGED <<file, seq, state, update>>
  BY <1>8 DEF ChainInv, InStep, Replayed
<1>9. CASE ResumeOrRefuse \/ EvidenceWriteFails \/ MarkerCreate \/ MarkerSynced \/ MarkerFails
           \/ FirstEligible \/ AcquisitionFails \/ Fail \/ Admit \/ NativeDisabled \/ EnterNative
  BY <1>8, <1>9
     DEF ResumeOrRefuse, EvidenceWriteFails, MarkerCreate, MarkerSynced, MarkerFails, FirstEligible,
         AcquisitionFails, Fail, Admit, NativeDisabled, EnterNative, disk, Concurrent, Sequential
<1>10. CASE MainUpdate \/ OtherUpdate
  BY <1>7, <1>10 DEF MainUpdate, OtherUpdate, Concurrent, Sequential, Issues
<1>11. CASE UNCHANGED vars
  BY <1>11 DEF vars, ChainInv, InStep, Replayed
<1> QED
  BY <1>1, <1>2, <1>3, <1>4, <1>5, <1>6, <1>9, <1>10, <1>11 DEF Next

LEMMA OpenedStep ==
  ASSUME ChainInv, [Next]_vars
  PROVE  Opened'
<1> SUFFICES ASSUME pc' = "check" PROVE Replayable' /\ state' = Replayed'
  BY DEF Opened
<1>1. CASE OpenEventJournal
  BY <1>1 DEF OpenEventJournal, Replayable, Replayed
<1>2. CASE pc = "check"
  <2>1. update.phase = "free"
    BY <1>2 DEF ChainInv, IInv, Control
  <2>2. UNCHANGED <<file, torn, state>>
    BY <1>2, <2>1
       DEF Next, vars, disk, OpenEventJournal, ResumeOrRefuse, MainUpdate, OtherUpdate,
           UpdateBegins, WriteRow, WriteFails, RowAcknowledged, SyncFails, EvidenceWriteFails,
           MarkerCreate, MarkerSynced, MarkerFails, FirstEligible, AcquisitionFails, Fail, Admit,
           NativeDisabled, EnterNative, Exit, Killed, PowerLoss
  <2> QED
    BY <1>2, <2>2 DEF ChainInv, Opened, Replayable, Replayed
<1>3. CASE pc # "check" /\ ~OpenEventJournal
  <2>1. ASSUME NEW by, NEW where, Returns(by, where), where \in {OnSuccess, OnError},
               by = "main" => pc \in DOMAIN Issues
        PROVE  FALSE
    BY <1>3, <2>1 DEF Returns, OnSuccess, OnError, Issues
  <2>2. update.phase # "free" /\ update.by = "main" => pc \in DOMAIN Issues
    BY DEF ChainInv, IInv, InFlight
  <2>3. ASSUME NEW by, NEW kind, UpdateBegins(by, kind), by = "main" => pc \in DOMAIN Issues
        PROVE  FALSE
    BY <1>3, <2>1, <2>3 DEF UpdateBegins
  <2>4. CASE MainUpdate \/ OtherUpdate
    BY <2>3, <2>4 DEF MainUpdate, OtherUpdate
  <2>5. CASE WriteFails \/ RowAcknowledged \/ SyncFails
    BY <2>1, <2>2, <2>5 DEF WriteFails, RowAcknowledged, SyncFails
  <2> QED
    BY <1>3, <2>4, <2>5
       DEF Next, vars, ResumeOrRefuse, WriteRow, EvidenceWriteFails, MarkerCreate, MarkerSynced,
           MarkerFails, FirstEligible, AcquisitionFails, Fail, Admit, NativeDisabled, EnterNative,
           Exit, Killed, PowerLoss
<1> QED
  BY <1>1, <1>2, <1>3

LEMMA OnlyStopStep ==
  ASSUME ChainInv, [Next]_vars
  PROVE  OnlyStopAfterFatal'
<1>g. guarded' = guarded
  BY DEF Next, vars, disk, OpenEventJournal, ResumeOrRefuse, MainUpdate, OtherUpdate, UpdateBegins,
         WriteRow, WriteFails, RowAcknowledged, SyncFails, EvidenceWriteFails, MarkerCreate,
         MarkerSynced, MarkerFails, FirstEligible, AcquisitionFails, Fail, Admit, NativeDisabled,
         EnterNative, Exit, Killed, PowerLoss
<1>1. CASE update'.phase = "free"
  BY <1>1 DEF OnlyStopAfterFatal
<1>2. CASE UNCHANGED <<fatal, update>>
  BY <1>2, <1>g DEF ChainInv, OnlyStopAfterFatal
<1>3. CASE WriteRow
  BY <1>3, <1>g DEF WriteRow, ChainInv, OnlyStopAfterFatal, IInv, TypeOK
<1>4. ASSUME NEW by, NEW kind, UpdateBegins(by, kind) PROVE OnlyStopAfterFatal'
  <2>1. CASE UNCHANGED update
    BY <1>1, <1>4, <2>1 DEF UpdateBegins
  <2>2. CASE /\ ~Refused(kind) /\ fatal' = fatal
             /\ update' = [phase |-> "write", by |-> by, kind |-> kind,
                           next |-> Changed(kind, state)]
    <3>1. update'.kind = kind /\ ~(guarded /\ fatal /\ kind # "STOP")
      BY <2>2 DEF Refused
    <3> QED
      BY <2>2, <3>1, <1>g DEF OnlyStopAfterFatal
  <2> QED
    BY <1>4, <2>1, <2>2 DEF UpdateBegins
<1>5. CASE MainUpdate \/ OtherUpdate
  BY <1>4, <1>5 DEF MainUpdate, OtherUpdate
<1>6. CASE EvidenceWriteFails \/ MarkerCreate \/ MarkerFails
  BY <1>1, <1>6 DEF EvidenceWriteFails, MarkerCreate, MarkerFails
<1>7. CASE OpenEventJournal \/ WriteFails \/ RowAcknowledged \/ SyncFails \/ Killed \/ PowerLoss
  <2>1. update' = Idle
    BY <1>7 DEF OpenEventJournal, WriteFails, RowAcknowledged, SyncFails, Killed, PowerLoss
  <2> QED
    BY <1>1, <2>1 DEF Idle
<1>8. CASE \/ ResumeOrRefuse \/ MarkerSynced \/ FirstEligible \/ AcquisitionFails \/ Fail
           \/ Admit \/ NativeDisabled \/ EnterNative \/ Exit
  BY <1>2, <1>8
     DEF ResumeOrRefuse, MarkerSynced, FirstEligible, AcquisitionFails, Fail, Admit,
         NativeDisabled, EnterNative, Exit
<1>9. CASE UNCHANGED vars
  BY <1>2, <1>9 DEF vars
<1> QED
  BY <1>3, <1>5, <1>6, <1>7, <1>8, <1>9 DEF Next

LEMMA ChainInvariant == Spec => []ChainInv
<1>1. Init => ChainInv
  <2> SUFFICES ASSUME Init PROVE ChainInv
    OBVIOUS
  <2>1. IInv
    BY InvInit
  <2>2. file = << >> /\ Len(file) = 0 /\ pc = "down" /\ update.phase = "free"
    BY EmptySeq DEF Init, Idle
  <2> QED
    BY <2>1, <2>2 DEF ChainInv, OnlyStopAfterFatal, RowsKeepTouched, Rows, InStep, Opened
<1>2. ChainInv /\ [Next]_vars => ChainInv'
  <2> SUFFICES ASSUME ChainInv, [Next]_vars PROVE ChainInv'
    OBVIOUS
  <2>1. IInv'
    BY InvStep DEF ChainInv
  <2> QED
    BY <2>1, OnlyStopStep, TouchedStep, InStepStep, OpenedStep DEF ChainInv
<1> QED
  BY <1>1, <1>2, PTL DEF Spec

\* A guarded journal that failed once writes and acknowledges nothing but a STOP row,
\* whoever was waiting for the lock and with whatever row, also one that leaves the
\* state alone: no row slips between a failed write and the cancellation.
THEOREM NothingSlipsThrough == Spec => NothingAfterFatal
<1>1. ChainInv /\ [Next]_vars =>
        [guarded /\ fatal /\ pc # "down" =>
           /\ seq' # seq \/ Len(file') > Len(file) => update.kind = "STOP"
           /\ state' \in {state, [state EXCEPT !.stop = TRUE]}]_vars
  <2> SUFFICES ASSUME ChainInv, Next, guarded, fatal, pc # "down"
               PROVE  /\ seq' # seq \/ Len(file') > Len(file) => update.kind = "STOP"
                      /\ state' \in {state, [state EXCEPT !.stop = TRUE]}
    OBVIOUS
  <2>t. file \in Seq([sequence : Nat, state : EventState]) /\ Len(file) \in Nat
    BY LenProperties DEF ChainInv, IInv, TypeOK
  <2>1. CASE RowAcknowledged
    <3>1. update.kind = "STOP" /\ update.next = Changed(update.kind, state)
      BY <2>1 DEF RowAcknowledged, ChainInv, OnlyStopAfterFatal, IInv, InFlight
    <3>2. update.next = [state EXCEPT !.stop = TRUE]
      BY <3>1 DEF Changed
    <3> QED
      BY <2>1, <3>1, <3>2 DEF RowAcknowledged
  <2>2. CASE WriteRow
    <3>1. update.kind = "STOP"
      BY <2>2 DEF WriteRow, ChainInv, OnlyStopAfterFatal
    <3> QED
      BY <2>2, <3>1 DEF WriteRow
  <2>3. CASE PowerLoss
    <3>1. PICK n \in synced .. Len(file) : file' = SubSeq(file, 1, n)
      BY <2>3 DEF PowerLoss
    <3>2. synced \in Nat /\ n \in 0 .. Len(file)
      BY <2>t, <3>1 DEF ChainInv, IInv, TypeOK
    <3>3. Len(file') = n
      BY <2>t, <3>1, <3>2
    <3> QED
      BY <2>3, <2>t, <3>2, <3>3 DEF PowerLoss
  <2>4. CASE state' = state /\ seq' = seq /\ file' = file
    BY <2>4, <2>t
  <2> QED
    BY <2>1, <2>2, <2>3, <2>4
       DEF Next, disk, OpenEventJournal, ResumeOrRefuse, MainUpdate, OtherUpdate, UpdateBegins,
           WriteFails, SyncFails, EvidenceWriteFails, MarkerCreate, MarkerSynced, MarkerFails,
           FirstEligible, AcquisitionFails, Fail, Admit, NativeDisabled, EnterNative, Exit, Killed
<1> QED
  BY <1>1, ChainInvariant, PTL DEF Spec, NothingAfterFatal

\* A process that goes on after its start found no row, of any process before it and
\* acknowledged or not, that locked, consumed or stopped: nothing resumes by itself.
THEOREM NoResume == Spec => ResumesOnlyUntouched
<1>1. ChainInv /\ [Next]_vars =>
        [pc = "check" /\ pc' \in {"begin", "run"} =>
           \A i \in Rows : OnDisk(i, "lock") = None /\ ~OnDisk(i, "consumed")
                           /\ ~OnDisk(i, "stop")]_vars
  <2> SUFFICES ASSUME ChainInv, Next, pc = "check", pc' \in {"begin", "run"}, NEW i \in Rows
               PROVE  ~Touched(file[i].state)
    BY DEF Touched, OnDisk
  <2>t. Len(file) \in Nat /\ file \in Seq([sequence : Nat, state : EventState])
    BY LenProperties DEF ChainInv, IInv, TypeOK
  <2>1. update.phase = "free"
    BY DEF ChainInv, IInv, Control
  <2>2. ResumeOrRefuse
    BY <2>1
       DEF Next, OpenEventJournal, MainUpdate, OtherUpdate, Issues, Concurrent, Sequential,
           WriteRow, WriteFails, RowAcknowledged, SyncFails, EvidenceWriteFails, MarkerCreate,
           MarkerSynced, MarkerFails, FirstEligible, AcquisitionFails, Fail, Admit, NativeDisabled,
           EnterNative, Exit, Killed, PowerLoss
  <2>3. ~Touched(state)
    BY <2>2 DEF ResumeOrRefuse, EventResumeCheck, Touched
  <2>4. /\ Len(file) \in Rows /\ i \in 1 .. Len(file)
        /\ state = file[Len(file)].state /\ Chained(Len(file))
    BY <2>t DEF ChainInv, Opened, Replayable, Replayed, Rows, Chained
  <2> QED
    BY <2>3, <2>4 DEF ChainInv, RowsKeepTouched
<1> QED
  BY <1>1, ChainInvariant, PTL DEF Spec, ResumesOnlyUntouched
=============================================================================
