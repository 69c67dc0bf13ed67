----------------------------- MODULE OwnerReplay -----------------------------
(***************************************************************************)
(* What the SDK puts around the case launcher of EngineLaunchers: the      *)
(* owner's consent (rhook_alpha/consent.py and api.py) and the controlled  *)
(* interface (developer/cli.py), which latches the plan, starts the        *)
(* engine's CLI as a child in a session of its own, hears what it printed  *)
(* and reports it.  Three processes deep, three records of one run: the    *)
(* launcher's FINAL_RESULT, `latch.result`, `consent.result`.              *)
(*                                                                         *)
(* An owner is one process.  As in EngineLaunchers any check may fail at   *)
(* any time, deadlines and windows included; a child that outlives its     *)
(* owner goes on.  Launcher calls that no owner made still happen: the     *)
(* engine's CLI can be called directly with an approval.                   *)
(***************************************************************************)
EXTENDS EngineLaunchers

CONSTANT Owners

ASSUME OwnerAssumption == None \notin Owners

VARIABLES
  consent,     \* local-consents/<plan>: GRANT, CONSUMED, ENGINE_AUTHORITY, RESULT
  latch,       \* workflows/<plan>: DISPATCH_INTENT, PROCESS, RESULT
  owner,       \* each owner's progress
  children     \* history: launcher calls started by an owner

ownerVars == <<consent, latch, owner, children>>
allVars == <<vars, ownerVars>>

NoConsent == [made |-> FALSE, granted |-> FALSE, consumed |-> FALSE, authority |-> FALSE, result |-> NoAnswer]
NoLatch == [made |-> FALSE, intent |-> FALSE, result |-> NoAnswer]
NoOwner == [at |-> "idle", consented |-> FALSE, child |-> None, heard |-> NoAnswer]

OInit ==
  /\ Init
  /\ consent = NoConsent /\ latch = NoLatch /\ children = {}
  /\ owner = [w \in Owners |-> NoOwner]

\* A process that has authenticated installation, runtime and plan, and has derived the
\* plan's binding again.
Resolved(w) == kind = "case" /\ owner[w].at = "idle"

OwnerActive(w) == owner[w].at \notin {"idle", "done"}
GoesOn(w, at) == owner' = [owner EXCEPT ![w].at = at]
Leaves(w) == owner' = [owner EXCEPT ![w] = [NoOwner EXCEPT !.at = "done"]]

-----------------------------------------------------------------------------
(* Consent. *)

\* The plan's directory of consents is made once; a death before GRANT.json leaves it.
Issues(w) ==
  /\ Resolved(w) /\ ~consent.made
  /\ consent' = [consent EXCEPT !.made = TRUE]
  /\ GoesOn(w, "grant")
  /\ UNCHANGED <<vars, latch, children>>

Grants(w) ==
  /\ owner[w].at = "grant"
  /\ consent' = [consent EXCEPT !.granted = TRUE]
  /\ owner' = [owner EXCEPT ![w] = NoOwner]
  /\ UNCHANGED <<vars, latch, children>>

\* The grant is of the resolved binding; its consumption is exclusive and precedes any
\* dispatch.
Consumes(w) ==
  /\ Resolved(w)
  /\ consent.granted /\ ~consent.consumed
  /\ consent' = [consent EXCEPT !.consumed = TRUE]
  /\ GoesOn(w, "authority")
  /\ UNCHANGED <<vars, latch, children>>

\* ENGINE_AUTHORITY.json, the approval in the engine's own schema.
WritesAuthority(w) ==
  /\ owner[w].at = "authority" /\ ~consent.authority
  /\ consent' = [consent EXCEPT !.authority = TRUE]
  /\ owner' = [owner EXCEPT ![w].at = "latch", ![w].consented = TRUE]
  /\ UNCHANGED <<vars, latch, children>>

-----------------------------------------------------------------------------
(* The outer workflow. *)

\* `replay` of developer/cli.py, called by SDK.replay with the consent's authority or
\* from its command line with an approval of the caller's.
Authorized(w) == Resolved(w) \/ owner[w].at = "latch"

LatchesAgain(w) ==
  /\ Authorized(w)
  /\ latch' = [latch EXCEPT !.made = TRUE]
  /\ GoesOn(w, "intent")
  /\ UNCHANGED <<vars, consent, children>>

\* Binding and approval are checked again; then the durable latch of the plan.
Latches(w) ==
  /\ Authorized(w) /\ ~latch.made
  /\ latch' = [latch EXCEPT !.made = TRUE]
  /\ GoesOn(w, "intent")
  /\ UNCHANGED <<vars, consent, children>>

\* AUTHORITY.json and DISPATCH_INTENT.json.
RecordsDispatch(w) ==
  /\ owner[w].at = "intent"
  /\ latch' = [latch EXCEPT !.intent = TRUE]
  /\ GoesOn(w, "spawn")
  /\ UNCHANGED <<vars, consent, children>>

\* The child: a launcher that begins, or one that finds itself not authorised.
Spawns(w) ==
  /\ owner[w].at = "spawn"
  /\ \E c \in Calls :
       /\ \/ Begins(c, bound)
          \/ call[c].at = "idle" /\ Ends(c) /\ UNCHANGED <<kind, bound, proposed, out, worker, entered>>
       /\ owner' = [owner EXCEPT ![w].at = "wait", ![w].child = c]
       /\ children' = children \cup {c}
  /\ UNCHANGED <<consent, latch>>

SpawnFails(w) ==
  /\ owner[w].at = "spawn"
  /\ owner' = [owner EXCEPT ![w].at = "report", ![w].heard = Interrupted]
  /\ UNCHANGED <<vars, consent, latch, children>>

PrintedZero(c) ==
  {Interrupted, IF call[c].at = "done" THEN out.final ELSE Answer("HOST_STOP", {0})}

\* main of case_sdk/cli.py prints what `execute` returned, or a stop without counts; a
\* child that died prints nothing that can be read.
Printed(c) ==
  {Interrupted, IF call[c].at = "done" THEN out.final ELSE Answer("HOST_STOP", AnyCount)}

\* The child ended in time.  An exit code that is not zero demotes a success.
Hears(w) ==
  /\ owner[w].at = "wait" /\ ~Active(owner[w].child)
  /\ \E a \in Printed(owner[w].child) :
       owner' = [owner EXCEPT ![w].at = "report", ![w].heard = a]
  /\ UNCHANGED <<vars, consent, latch, children>>

\* The deadline, a signal to the owner, or PROCESS.json could not be written.
Interrupts(w) ==
  /\ owner[w].at = "wait"
  /\ GoesOn(w, "cleanup")
  /\ UNCHANGED <<vars, consent, latch, children>>

\* After a failure what the child printed is only kept as raw; the child may have ended
\* by now, be killed, or outlive both waits.
StopsChild(w) ==
  /\ owner[w].at = "cleanup"
  /\ owner' = [owner EXCEPT ![w].at = "report", ![w].heard = Interrupted]
  /\ Killed(owner[w].child) \/ UNCHANGED vars
  /\ UNCHANGED <<consent, latch, children>>

\* RESULT.json of the workflow.
Reports(w) ==
  /\ owner[w].at = "report"
  /\ latch' = [latch EXCEPT !.result = owner[w].heard]
  /\ IF owner[w].consented THEN GoesOn(w, "record") ELSE Leaves(w)
  /\ UNCHANGED <<vars, consent, children>>

\* RESULT.json of the consent: the same value.
Records(w) ==
  /\ owner[w].at = "record"
  /\ consent' = [consent EXCEPT !.result = owner[w].heard]
  /\ Leaves(w)
  /\ UNCHANGED <<vars, latch, children>>

\* An error escapes: whatever it is, a consented replay records that nothing is known.
Raises(w) ==
  /\ owner[w].consented
  /\ owner[w].at \in {"latch", "intent", "spawn", "wait", "cleanup", "report"}
  /\ consent' = [consent EXCEPT !.result = Interrupted]
  /\ Leaves(w)
  /\ UNCHANGED <<vars, latch, children>>

\* Refused before the consumption or without one, killed, or a record could not be written.
OwnerDies(w) ==
  /\ OwnerActive(w)
  /\ Leaves(w)
  /\ UNCHANGED <<vars, consent, latch, children>>

OwnerStep(w) ==
  \/ Issues(w) \/ Grants(w) \/ Consumes(w) \/ WritesAuthority(w) \/ Latches(w)
  \/ RecordsDispatch(w) \/ Spawns(w) \/ SpawnFails(w) \/ Hears(w) \/ Interrupts(w)
  \/ StopsChild(w) \/ Reports(w) \/ Records(w) \/ Raises(w) \/ OwnerDies(w)

LauncherStep == Next /\ UNCHANGED ownerVars

ONext ==
  \/ \E w \in Owners : OwnerStep(w)
  \/ LauncherStep

OSpec == OInit /\ [][ONext]_allVars

\* `recorded` of developer/cli.py and verify_run of case_sdk/workspace.py: the manifest
\* still lists the tree, and the verifier asks completion and process records again.
RecordedVerifies ==
  /\ out.sealed
  /\ worker.record = "go" /\ worker.worlds = 2
  /\ Reliable(out.measured) /\ worker.exit = "zero"

-----------------------------------------------------------------------------
(* Properties. *)

\* What the workflow reports and what the consent keeps are both true of the worker,
\* and call a run complete only if the launcher they started did so and sealed it, so
\* that verify and compare can follow; the two differ only where the consent says that
\* it knows nothing.  A plan's latch lets one child be started, after the intent; and
\* with a consent, the consumption precedes that and any result.
OuterAnswersAreTrue ==
  /\ \A a \in {latch.result, consent.result} :
       /\ worker.worlds \in a.counts
       /\ a.counts # AnyCount => worker.state # "running" \/ worker.record # "none"
       /\ a.terminal = "PASS" => out.by \in children /\ out.final.terminal = "PASS" /\ out.sealed
  /\ consent.result \in {NoAnswer, Interrupted, latch.result}
  /\ \A c, d \in children : c = d
  /\ children # {} => latch.intent
  /\ \A w \in Owners : owner[w].consented => consent.consumed /\ consent.authority
  /\ consent.result # NoAnswer => consent.consumed /\ consent.authority

\* A run that was sealed as a pass verifies from its records alone.
PassVerifies == kind = "case" /\ out.sealed /\ out.final.terminal = "PASS" => RecordedVerifies

\* Every answer of the three records is true of what the worker did.
EveryAnswerIsTrue == AnswersAreTrue /\ OuterAnswersAreTrue /\ PassVerifies
=============================================================================
