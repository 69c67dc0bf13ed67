---------------------------- MODULE DeveloperWorkflow ----------------------------
(***************************************************************************)
(* The developer's way through one session (session/plan.py and            *)
(* session/workflow.py): plan a variant, make it ready, run the reviewed   *)
(* operation once, read the result.  Several processes make these calls on *)
(* one SDK home, each call looks at the files and acts on them later, and  *)
(* a process may die between two steps.  Beside them other users of the    *)
(* same home execute under another host profile (OtherRun), attach a run   *)
(* (OtherAttach), edit a retained run or delete it.                        *)
(*                                                                         *)
(* Abstractions.  A variant's files are its stage and its record, as in    *)
(* VariantLedger, which CounterfactualSession implements.  One attempt at  *)
(* an operation is its marker, the consumed grant of its plan and the run  *)
(* directory of its plan, as OneShotExecution has them in detail; a child  *)
(* is the steps Enters, ChildEnds and ChildStops.  An operation is what    *)
(* its commitment covers: the plan of a variant, the registered runtime    *)
(* and the registered sensor.  _recorded_run is three steps: is the run    *)
(* there, does it match its manifest, and only then the loads of what the  *)
(* card shows.  Limits, coverage, the worker's identity and the doctor's   *)
(* probes only decide whether a step goes on or stops.                     *)
(*                                                                         *)
(* Bounds: MaxDeaths processes die.                                        *)
(***************************************************************************)
EXTENDS Naturals, FiniteSets

CONSTANTS Procs, Variants,
          Runtimes,   \* reviewed runtime manifests somebody may register
          Sensors,    \* reviewed host sensors somebody may register
          None, MaxDeaths

Hosts == {"v4", "other"}
Operations == [variant : Variants, runtime : Runtimes, sensor : Sensors \cup {None}, host : Hosts]

ASSUME NothingIsNone == None \notin Variants \cup Runtimes \cup Sensors \cup Operations
ASSUME DeathsAreNat == MaxDeaths \in Nat

VARIABLES
  stage,      \* of each variant: unknown, declared, preparing, prepared
  record,     \* the operation of the run that VERIFICATION.json of a variant names
  home,       \* RUNTIME.json, .consent.key and the host record
  marker,     \* operations with a file in execution-attempts
  consumed,   \* variants whose plan's grant was consumed
  dir,        \* the run directory of each variant's plan
  call,       \* what each process is in the middle of
  planned,    \* the variants some call answered PLAN_READY... for
  ready,      \* the operations some call answered RUN_READY for
  verified,   \* the operations some call answered RUN_VERIFIED for, as consented to
  cards,      \* the result cards that were returned
  deaths,
  abandoned   \* a process died between RUNTIME.json and .consent.key

files == <<stage, record, home, marker, consumed, dir>>
answers == <<planned, ready, verified, cards>>
vars == <<stage, record, home, marker, consumed, dir, call,
          planned, ready, verified, cards, deaths, abandoned>>

Idle == [at |-> "idle", variant |-> None, operation |-> None, runtime |-> None, sensor |-> None]
Doing(at, v) == [Idle EXCEPT !.at = at, !.variant = v]
NoRun == [state |-> "absent", operation |-> None, edited |-> FALSE, past |-> {}]

CallStates == [at : {"idle", "prepare", "preparing", "view", "register", "key", "sensor", "host",
                     "bind", "answer", "doctor", "admit", "mark", "child", "judge", "verify",
                     "attach", "save", "card", "cardCheck", "cardLoad",
                     "result", "resultCheck", "resultLoad"},
               variant : Variants \cup {None}, operation : Operations \cup {None},
               runtime : Runtimes \cup {None}, sensor : Sensors \cup {None}]
\* past: the calls that had checked the manifest already when the run was edited
RunStates == [state : {"absent", "open", "stopped", "sealed", "removed"},
              operation : Operations \cup {None}, edited : BOOLEAN, past : SUBSET Procs]
Cards == [variant : Variants, operation : Operations,
          run : Operations \cup {None}, edited : BOOLEAN, late : BOOLEAN]

TypeOK ==
  /\ stage \in [Variants -> {"unknown", "declared", "preparing", "prepared"}]
  /\ record \in [Variants -> Operations \cup {None}]
  /\ home \in [runtime : Runtimes \cup {None}, key : BOOLEAN, sensor : Sensors \cup {None}]
  /\ marker \subseteq Operations /\ consumed \subseteq Variants
  /\ dir \in [Variants -> RunStates]
  /\ call \in [Procs -> CallStates]
  /\ planned \subseteq Variants /\ ready \subseteq Operations /\ verified \subseteq Operations
  /\ cards \subseteq Cards
  /\ deaths \in 0 .. MaxDeaths /\ abandoned \in BOOLEAN

Init ==
  /\ stage = [v \in Variants |-> "unknown"] /\ record = [v \in Variants |-> None]
  /\ home = [runtime |-> None, key |-> FALSE, sensor |-> None]
  /\ marker = {} /\ consumed = {} /\ dir = [v \in Variants |-> NoRun]
  /\ call = [p \in Procs |-> Idle]
  /\ planned = {} /\ ready = {} /\ verified = {} /\ cards = {}
  /\ deaths = 0 /\ abandoned = FALSE

-----------------------------------------------------------------------------
(* Calls.                                                                  *)

At(p, at) == call[p].at = at
Becomes(p, c) == call' = [call EXCEPT ![p] = c]
Goes(p, at) == Becomes(p, [call[p] EXCEPT !.at = at])

\* The call ends: with an answer that is not kept here, or by raising.
Ends(p) == Becomes(p, Idle)

NoDeath == UNCHANGED <<deaths, abandoned>>
Silent == UNCHANGED answers /\ NoDeath
FilesUnchanged == UNCHANGED files

-----------------------------------------------------------------------------
(* session-plan (_plan): add the variant, prepare it, look at it again.    *)

PlanRegisters(p, v) ==
  /\ At(p, "idle")
  /\ stage' = [stage EXCEPT ![v] = IF @ = "unknown" THEN "declared" ELSE @]
  /\ Becomes(p, Doing("prepare", v))
  /\ UNCHANGED <<record, home, marker, consumed, dir>> /\ Silent

\* Coverage or the preconditions stop the plan, or prepare_variant finds no
\* directory and creates it: mkdir is exclusive, so one process prepares.
PlanPrepares(p) ==
  LET v == call[p].variant IN
  /\ At(p, "prepare")
  /\ \/ /\ stage[v] = "declared"
        /\ stage' = [stage EXCEPT ![v] = "preparing"] /\ Goes(p, "preparing")
     \/ stage[v] # "declared" /\ Goes(p, "view") /\ UNCHANGED stage
     \/ Ends(p) /\ UNCHANGED stage
  /\ UNCHANGED <<record, home, marker, consumed, dir>> /\ Silent

PlanSaves(p) ==
  /\ At(p, "preparing")
  /\ stage' = [stage EXCEPT ![call[p].variant] = "prepared"] /\ Goes(p, "view")
  /\ UNCHANGED <<record, home, marker, consumed, dir>> /\ Silent

\* Stops, or an incomplete preparation of another process: PLAN_STOP.
PlanAnswers(p) ==
  LET v == call[p].variant IN
  /\ At(p, "view")
  /\ planned' = IF stage[v] = "prepared" /\ record[v] = None THEN planned \cup {v} ELSE planned
  /\ Ends(p)
  /\ FilesUnchanged /\ UNCHANGED <<ready, verified, cards>> /\ NoDeath

-----------------------------------------------------------------------------
(* session-ready (ready): use or make the registration, bind, answer.      *)

\* _variant, _runnable and _prepared
Runnable(v) == stage[v] = "prepared" /\ record[v] = None

ReadyLooks(p, v, r, s) ==
  /\ At(p, "idle") /\ Runnable(v)
  /\ IF home.runtime # None
     THEN /\ r \in {None, home.runtime}          \* RUNTIME_REGISTRATION_DIFFERS
          /\ Becomes(p, [Doing("sensor", v) EXCEPT !.sensor = s])
     ELSE /\ r # None                            \* NATIVE_RUNTIME_MISSING
          /\ Becomes(p, [Doing("register", v) EXCEPT !.runtime = r, !.sensor = s])
  /\ FilesUnchanged /\ Silent

\* register: RUNTIME.json is created exclusively, then the key of the home.
RegistersRuntimeAgain(p) ==
  /\ At(p, "register")
  /\ home' = [home EXCEPT !.runtime = call[p].runtime]
  /\ Becomes(p, [call[p] EXCEPT !.at = IF home.key THEN "sensor" ELSE "key", !.runtime = None])
  /\ UNCHANGED <<stage, record, marker, consumed, dir>> /\ Silent

RegistersRuntime(p) ==
  /\ At(p, "register")
  /\ IF home.runtime = None
     THEN /\ home' = [home EXCEPT !.runtime = call[p].runtime]
          /\ Becomes(p, [call[p] EXCEPT !.at = "key", !.runtime = None])
     ELSE Ends(p) /\ UNCHANGED home
  /\ UNCHANGED <<stage, record, marker, consumed, dir>> /\ Silent

CreatesKey(p) ==
  /\ At(p, "key")
  /\ home' = [home EXCEPT !.key = TRUE] /\ Goes(p, "sensor")
  /\ UNCHANGED <<stage, record, marker, consumed, dir>> /\ Silent

\* The host record: used as it is, or created exclusively from the given sensor.
SensorExists(p) ==
  /\ At(p, "sensor") /\ home.sensor # None
  /\ IF call[p].sensor \in {None, home.sensor}   \* HOST_REGISTRATION_DIFFERS
     THEN Becomes(p, [call[p] EXCEPT !.at = "bind", !.sensor = None])
     ELSE Ends(p)
  /\ FilesUnchanged /\ Silent

SensorMissing(p) ==
  /\ At(p, "sensor") /\ home.sensor = None
  /\ IF call[p].sensor # None THEN Goes(p, "host") ELSE Ends(p)
  /\ FilesUnchanged /\ Silent

RegistersHost(p) ==
  /\ At(p, "host")
  /\ IF home.sensor = None
     THEN /\ home' = [home EXCEPT !.sensor = call[p].sensor]
          /\ Becomes(p, [call[p] EXCEPT !.at = "bind", !.sensor = None])
     ELSE Ends(p) /\ UNCHANGED home
  /\ UNCHANGED <<stage, record, marker, consumed, dir>> /\ Silent

\* operation_binding for the workflow's host profile
Operation(v) == [variant |-> v, runtime |-> home.runtime, sensor |-> home.sensor, host |-> "v4"]

\* A registered home binds exactly this operation for the variant.
Binds(v, o) == home.sensor # None /\ o = Operation(v)

Present(v) == dir[v].state \notin {"absent", "removed"}
Closed(o) == o \in marker \/ Present(o.variant)

\* authenticate may refuse the input; operation binds it; _closed looks at the
\* marker and the output path.
ReadyBinds(p) ==
  LET o == Operation(call[p].variant) IN
  /\ At(p, "bind")
  /\ \/ ~ Closed(o) /\ Becomes(p, [Doing("answer", o.variant) EXCEPT !.operation = o])
     \/ Ends(p)
  /\ FilesUnchanged /\ Silent

\* The doctor decides between RUN_READY and RUN_READY_ENVIRONMENT_BLOCKED.
ReadyAnswers(p) ==
  /\ At(p, "answer")
  /\ \/ ready' = ready \cup {call[p].operation}
     \/ UNCHANGED ready
  /\ Ends(p)
  /\ FilesUnchanged /\ UNCHANGED <<planned, verified, cards>> /\ NoDeath

-----------------------------------------------------------------------------
(* session-run (run): consent to one reviewed operation, execute, verify.  *)

\* The caller may name any operation, also one of another variant or home.
RunLooks(p, v, o) ==
  /\ At(p, "idle") /\ Runnable(v)
  /\ Becomes(p, [Doing("doctor", v) EXCEPT !.operation = o])
  /\ FilesUnchanged /\ Silent

\* Only READY goes on; RUN_STOP_ENVIRONMENT_NOT_READY consumes nothing.
RunDoctor(p) ==
  /\ At(p, "doctor")
  /\ Goes(p, "admit") \/ Ends(p)
  /\ FilesUnchanged /\ Silent

\* ExecutionSDK.run binds again and compares, then looks at marker and output.
RunAdmits(p) ==
  LET o == call[p].operation IN
  /\ At(p, "admit")
  /\ IF Binds(call[p].variant, o) /\ ~ Closed(o) THEN Goes(p, "mark") ELSE Ends(p)
  /\ FilesUnchanged /\ Silent

\* The marker is created exclusively; creating the evidence directory may raise.
RunMarks(p) ==
  LET o == call[p].operation IN
  /\ At(p, "mark")
  /\ IF o \in marker
     THEN Ends(p) /\ UNCHANGED marker
     ELSE marker' = marker \cup {o} /\ (Goes(p, "child") \/ Ends(p))
  /\ UNCHANGED <<stage, record, home, consumed, dir>> /\ Silent

\* The child binds the operation a third time, needs the key, and consumes the
\* grant of the plan; the run directory is created exclusively.
MayEnter(v) == home.key /\ v \notin consumed /\ ~ Present(v)

ChildEnters(p) ==
  LET o == call[p].operation IN
  /\ At(p, "child") /\ dir[o.variant].operation # o
  /\ Binds(o.variant, o) /\ MayEnter(o.variant)
  /\ consumed' = consumed \cup {o.variant}
  /\ dir' = [dir EXCEPT ![o.variant] = [NoRun EXCEPT !.state = "open", !.operation = o]]
  /\ UNCHANGED <<stage, record, home, marker, call>> /\ Silent

\* Refused before the run directory exists: nothing the launcher could link.
ChildStops(p) ==
  /\ At(p, "child") /\ dir[call[p].variant].operation # call[p].operation
  /\ Goes(p, "judge")
  /\ FilesUnchanged /\ Silent

ChildEnds(p) ==
  LET v == call[p].variant IN
  /\ At(p, "child") /\ dir[v].operation = call[p].operation /\ dir[v].state = "open"
  /\ \E s \in {"sealed", "stopped"} : dir' = [dir EXCEPT ![v].state = s]
  /\ Goes(p, "judge")
  /\ UNCHANGED <<stage, record, home, marker, consumed>> /\ Silent

\* Linked: RESULT.json and BINDING.json of the run directory name this operation.
LinkedToAny(v, o) == dir[v].state = "sealed" /\ dir[v].operation \in Operations

Linked(v, o) == dir[v].state = "sealed" /\ dir[v].operation = o

\* EXECUTION_COMPLETED, or RUN_STOP for any of the launcher's other reasons.
RunJudges(p) ==
  /\ At(p, "judge")
  /\ \/ Linked(call[p].variant, call[p].operation) /\ Goes(p, "verify")
     \/ Ends(p)
  /\ FilesUnchanged /\ Silent

\* The manifest of a run directory is the one its files give.
Unedited(v) == dir[v].state = "sealed" /\ ~ dir[v].edited

\* backend.verify; a stop here and in the next steps is RUN_COMPLETED_VERIFICATION_STOP.
RunVerifies(p) ==
  /\ At(p, "verify")
  /\ \/ Unedited(call[p].variant) /\ Goes(p, "attach")
     \/ Ends(p)
  /\ FilesUnchanged /\ Silent

\* verify_selected: an existing record must name this run; else verify again.
RunAttaches(p) ==
  LET v == call[p].variant IN
  /\ At(p, "attach")
  /\ \/ record[v] = dir[v].operation /\ Goes(p, "card")
     \/ record[v] = None /\ Unedited(v) /\ Goes(p, "save")
     \/ Ends(p)
  /\ FilesUnchanged /\ Silent

\* VERIFICATION.json is created exclusively, from the run verified before.
RunSaves(p) ==
  LET v == call[p].variant IN
  /\ At(p, "save")
  /\ IF record[v] = None
     THEN record' = [record EXCEPT ![v] = dir[v].operation] /\ Goes(p, "card")
     ELSE Ends(p) /\ UNCHANGED record
  /\ UNCHANGED <<stage, home, marker, consumed, dir>> /\ Silent

-----------------------------------------------------------------------------
(* result: the rows of the record beside the roots of the retained run.    *)

\* session-run reads its card in these steps, session-result in three of its own.
CardReads == {"card", "cardCheck", "cardLoad"}
Loading == {"cardLoad", "resultLoad"}

\* The record of the card: session-run reads it now, session-result read it before.
Recorded(p) == IF call[p].at \in CardReads THEN record[call[p].variant] ELSE call[p].operation

\* The card is returned; with it session-run answers RUN_VERIFIED.
Answers(p, run, edited) ==
  /\ cards' = cards \cup {[variant |-> call[p].variant, operation |-> Recorded(p), run |-> run,
                           edited |-> edited, late |-> p \in dir[call[p].variant].past]}
  /\ verified' = IF call[p].at \in CardReads THEN verified \cup {call[p].operation} ELSE verified
  /\ Ends(p)

\* No card: session-result raises, session-run stops over a record that is kept.
Raises(p) == Ends(p) /\ UNCHANGED <<verified, cards>>

\* Looks for the directory: a card without roots, or the manifest next.
CardLooks(p) ==
  /\ call[p].at \in {"card", "result"}
  /\ IF dir[call[p].variant].state = "removed"
     THEN Answers(p, None, FALSE)
     ELSE /\ Goes(p, IF At(p, "card") THEN "cardCheck" ELSE "resultCheck")
          /\ UNCHANGED <<verified, cards>>
  /\ FilesUnchanged /\ UNCHANGED <<planned, ready>> /\ NoDeath

\* The files must give the manifest: RUN_RECORD_DRIFT, or nothing left to read.
CardChecksPresence(p) ==
  /\ call[p].at \in {"cardCheck", "resultCheck"}
  /\ IF dir[call[p].variant].state = "sealed"
     THEN Goes(p, IF At(p, "cardCheck") THEN "cardLoad" ELSE "resultLoad")
     ELSE Ends(p)
  /\ FilesUnchanged /\ Silent

CardChecks(p) ==
  /\ call[p].at \in {"cardCheck", "resultCheck"}
  /\ IF Unedited(call[p].variant)
     THEN Goes(p, IF At(p, "cardCheck") THEN "cardLoad" ELSE "resultLoad")
     ELSE Ends(p)
  /\ FilesUnchanged /\ Silent

\* The files are loaded after the check; the run must still be there and name the
\* record's operation.  An edit in between may spare what is compared, or not.
CardLoads(p) ==
  LET v == call[p].variant IN
  /\ call[p].at \in Loading
  /\ \/ /\ dir[v].state = "sealed" /\ dir[v].operation = Recorded(p)
        /\ Answers(p, dir[v].operation, dir[v].edited)
     \/ /\ Unedited(v) => dir[v].operation # Recorded(p)
        /\ Raises(p)
  /\ FilesUnchanged /\ UNCHANGED <<planned, ready>> /\ NoDeath

\* session-result reads the record first and the run directory later.
ResultBegins(p, v) ==
  /\ At(p, "idle") /\ record[v] # None
  /\ Becomes(p, [Doing("result", v) EXCEPT !.operation = record[v]])
  /\ FilesUnchanged /\ Silent

-----------------------------------------------------------------------------
(* Other users of the home, and deaths.                                    *)

\* execution-run of the same prepared input under another host profile: another
\* operation, the same plan, hence the same grant and the same run directory.
OtherOperation(v) == [Operation(v) EXCEPT !.sensor = None, !.host = "other"]

OtherRun(v) ==
  LET o == OtherOperation(v) IN
  /\ stage[v] = "prepared" /\ home.runtime # None /\ o \notin marker
  /\ marker' = marker \cup {o}
  /\ IF MayEnter(v)
     THEN /\ consumed' = consumed \cup {v}
          /\ \E s \in {"sealed", "stopped"} :
               dir' = [dir EXCEPT ![v] = [NoRun EXCEPT !.state = s, !.operation = o]]
     ELSE UNCHANGED <<consumed, dir>>
  /\ UNCHANGED <<stage, record, home, call>> /\ Silent

\* verify_selected by another user of the session
OtherAttach(v) ==
  /\ record[v] = None /\ stage[v] = "prepared" /\ Unedited(v)
  /\ record' = [record EXCEPT ![v] = dir[v].operation]
  /\ UNCHANGED <<stage, home, marker, consumed, dir, call>> /\ Silent

\* A retained run is edited or deleted by hand.
EditRun(v) ==
  /\ dir[v].state = "sealed" /\ ~ dir[v].edited
  /\ dir' = [dir EXCEPT ![v].edited = TRUE,
                        ![v].past = {p \in Procs : call[p].variant = v /\ call[p].at \in Loading}]
  /\ UNCHANGED <<stage, record, home, marker, consumed, call>> /\ Silent

RemoveRun(v) ==
  /\ dir[v].state \in {"sealed", "stopped"}
  /\ dir' = [dir EXCEPT ![v].state = "removed"]
  /\ UNCHANGED <<stage, record, home, marker, consumed, call>> /\ Silent

\* A process dies inside a call; its child goes on to an end of its own.
Dies(p) ==
  LET v == call[p].variant IN
  /\ ~ At(p, "idle") /\ deaths < MaxDeaths
  /\ deaths' = deaths + 1
  /\ abandoned' = (abandoned \/ At(p, "key"))
  /\ IF At(p, "child") /\ dir[v].operation = call[p].operation
     THEN \E s \in {"open", "sealed", "stopped"} : dir' = [dir EXCEPT ![v].state = s]
     ELSE UNCHANGED dir
  /\ Ends(p)
  /\ UNCHANGED <<stage, record, home, marker, consumed>> /\ UNCHANGED answers

Plan(p) == (\E v \in Variants : PlanRegisters(p, v)) \/ PlanPrepares(p) \/ PlanSaves(p) \/ PlanAnswers(p)
Ready(p) ==
  \/ \E v \in Variants, r \in Runtimes \cup {None}, s \in Sensors \cup {None} : ReadyLooks(p, v, r, s)
  \/ RegistersRuntime(p) \/ CreatesKey(p)
  \/ SensorExists(p) \/ SensorMissing(p) \/ RegistersHost(p)
  \/ ReadyBinds(p) \/ ReadyAnswers(p)
Run(p) ==
  \/ \E v \in Variants, o \in Operations : RunLooks(p, v, o)
  \/ RunDoctor(p) \/ RunAdmits(p) \/ RunMarks(p)
  \/ ChildEnters(p) \/ ChildStops(p) \/ ChildEnds(p)
  \/ RunJudges(p) \/ RunVerifies(p) \/ RunAttaches(p) \/ RunSaves(p)
Result(p) ==
  \/ \E v \in Variants : ResultBegins(p, v)
  \/ CardLooks(p) \/ CardChecks(p) \/ CardLoads(p)
Others(v) == OtherRun(v) \/ OtherAttach(v) \/ EditRun(v) \/ RemoveRun(v)

Next ==
  \/ \E p \in Procs : Plan(p) \/ Ready(p) \/ Run(p) \/ Result(p) \/ Dies(p)
  \/ \E v \in Variants : Others(v)

Spec == Init /\ [][Next]_vars

-----------------------------------------------------------------------------
(* Properties. *)

\* What a call answered stays true for every later call: a variant planned as
\* ready is prepared, and an operation reviewed as RUN_READY is the one the home
\* still binds, whoever registered at the same time.  The home can also run it,
\* except while RUNTIME.json waits for its key, or for good after a death there.
ReadyStands ==
  /\ \A v \in planned : stage[v] = "prepared"
  /\ \A o \in ready :
       /\ o = Operation(o.variant) /\ stage[o.variant] = "prepared"
       /\ home.key \/ abandoned \/ \E p \in Procs : At(p, "key")

\* RUN_VERIFIED is said of the operation the developer consented to and of no
\* other: its marker is there, its plan's grant went to it, and the record of its
\* variant names it for good, whoever else ran or attached a run meanwhile.
VerifiedIsConsented ==
  \A o \in verified : /\ o = Operation(o.variant) /\ o \in marker
                      /\ record[o.variant] = o /\ o.variant \in consumed
                      /\ dir[o.variant].operation = o

\* A card joins the rows of one record with the roots of one run, the recorded one,
\* and all cards of a variant are of the same record.  Roots of an edited run reach a
\* card only if the edit came between that very call's check of the manifest and its
\* loads: whatever was edited before is refused, however the calls overlap.
CardIsOneRun ==
  \A c \in cards : /\ c.run \in {None, c.operation} /\ (c.edited => c.late)
                   /\ record[c.variant] = c.operation /\ c.operation.variant = c.variant
=============================================================================
