------------------------ MODULE ScenarioPreparation ------------------------
(***************************************************************************)
(* From a pinned source to a prepared input, a bound operation and the two *)
(* initial worlds.  Four families prepare inputs: the LP rewards SDK       *)
(* (execution.py), Dynamic Fee off (dynamic_fee.py), the config overlay    *)
(* (config_overlay.py) and the descriptor overlay (profile_overlay.py).    *)
(* They share the plan, the prepared directory and the operation binding   *)
(* of cases/scenario/api.py.                                               *)
(*                                                                         *)
(* What can happen between two steps: another preparation of the same      *)
(* output, the source file replaced, the installed descriptor or catalogue *)
(* replaced, a prepared file edited, and the preparation simply stopping.  *)
(*                                                                         *)
(* Abstractions.  A file holds a value or NoFile and is created only if    *)
(* absent (save); its SHA-256 and every commitment of a value is the value *)
(* itself.  A source is the record of what its witness answers: the target *)
(* words (NoWord when absent), whether the pinned code is there, whether   *)
(* its static dependencies are covered.  Proof checking itself (Node, the  *)
(* worker) is external: it answers what the source holds.  The worker's    *)
(* admission is that of its Python mirror.  A refusal leaves no file, so   *)
(* it is a step that is not taken.  Bounds: Starts lists the situations    *)
(* that are explored, each with the environment steps it allows.           *)
(***************************************************************************)
EXTENDS ConfigOverlay

CONSTANTS Jobs,          \* preparations
          Dirs,          \* output directories
          Documents,     \* descriptor bytes by their hash
          Sources,       \* contents the source file may have
          Installs,      \* contents of the descriptor directory
          Shipped,       \* the install named by PROFILE_ENGINE_RECORD
          Engines, AcceptedEngine,   \* worker identities; the reviewed one of a family
          Starts,        \* initial situations
          NoFile

Families == {"LP", "DYNAMIC", "OVERLAY", "DESCRIPTOR"}

ASSUME PreparationAssumption ==
    /\ Shipped \in Installs
    /\ \A i \in Installs : {i.bytes, i.entry.descriptor} \subseteq DOMAIN Documents
    /\ AcceptedEngine \in [Families -> Engines]
    /\ \A s \in Starts :
          /\ s.installed \in Installs
          /\ s.witness \in Sources
          /\ s.left \in Nat
          /\ \A j \in Jobs : s.requests[j] # NoFile =>
                /\ s.requests[j].profile \in Families
                /\ s.requests[j].out \in Dirs
                /\ s.requests[j].items \in Seq(Items(s.requests[j].items))

-----------------------------------------------------------------------------
(* What the shipped descriptor hookr-1 says of the two kinds that are also   *)
(* compiled.                                                                 *)

Setting(n) == [form |-> "field", ref |-> n]
Number(v) == [form |-> "const", ref |-> v]
Parameter(n) == [form |-> "param", ref |-> n]
Comparison(l, op, r) == [form |-> "compare", left |-> l, op |-> op, right |-> r]

SamePlace(f, g) == f.target = g.target /\ f.word = g.word /\ f.offset = g.offset /\ f.width = g.width

(* The mode byte from its lowest bit: Dynamic Fee, recapture, reserved.      *)
ShippedFields(d) ==
    LET mode == Layout.rootMode
        at == [maxFeePips |-> Layout.maxFeePips, dynamicFeeSens |-> Layout.dynamicFeeSens,
               lpBps |-> Layout.lpBps, rootBaseLpFeePips |-> BaseFee,
               rootDynamicFeeFlag |-> [mode EXCEPT !.width = 1],
               rootRecaptureFlag |-> [mode EXCEPT !.offset = @ + 1, !.width = 1],
               rootFlagsReserved |-> [mode EXCEPT !.offset = @ + 2, !.width = @ - 2]]
    IN  \A n \in DOMAIN at : n \in Names(d.fields) /\ SamePlace(ByName(d.fields, n), at[n])

ShippedLp(k) ==
    /\ Items(k.params) = {[name |-> "lpBps", type |-> "uint", min |-> 0, max |-> LpOriginal - 1]}
    /\ Items(k.requires) = {Comparison(Setting("lpBps"), "eq", Number(LpOriginal))}
    /\ Items(k.assign) = {[field |-> "lpBps", value |-> Parameter("lpBps")]}

ShippedDynamic(k) ==
    /\ Items(k.params) = {[name |-> "dynamicFee", type |-> "enum", values |-> {"OFF"}]}
    /\ Items(k.requires) = {Comparison(Setting("maxFeePips"), "gt", Setting("rootBaseLpFeePips")),
                            Comparison(Setting("dynamicFeeSens"), "gt", Number(0)),
                            Comparison(Setting("rootDynamicFeeFlag"), "eq", Number(1)),
                            Comparison(Setting("rootRecaptureFlag"), "eq", Number(1)),
                            Comparison(Setting("rootFlagsReserved"), "eq", Number(0))}
    /\ Items(k.assign) = {[field |-> "maxFeePips", value |-> Setting("rootBaseLpFeePips")],
                          [field |-> "dynamicFeeSens", value |-> Number(0)],
                          [field |-> "rootDynamicFeeFlag", value |-> Number(0)]}

ASSUME ShippedAssumption ==
    LET d == Documents[Shipped.bytes]
    IN  /\ ModeOn = 3
        /\ ModeOff = 2
        /\ GetField(PinnedWords, Layout.lpBps) = LpOriginal
        /\ GetField(PinnedWords, Layout.rootMode) = ModeOn
        /\ ShippedFields(d)
        /\ Registered \subseteq Kinds(d)
        /\ \A n \in Registered : KindOf(d, n).ensures = <<>> /\ KindOf(d, n).conflicts \cap Registered = {}
        /\ ShippedLp(KindOf(d, "LP_REWARDS_BPS"))
        /\ ShippedDynamic(KindOf(d, "DYNAMIC_FEE"))

VARIABLES installed,   \* the descriptor directory: catalogue entry and descriptor bytes
          witness,     \* the source file
          runtime,     \* RUNTIME.json
          job,         \* progress of every preparation
          plans,       \* PLAN.json of every preparation
          dir,         \* prepared directories
          bound,       \* the last operation binding
          worlds,      \* the two initial worlds a worker derived
          left,        \* environment steps still allowed
          edited       \* whether a prepared file was changed from outside

pvars == <<installed, witness, runtime, job, plans, dir, bound, worlds, left, edited>>

-----------------------------------------------------------------------------
(* The catalogue *)

KindReview(status) ==
    CASE status = "LEGACY_EQUIVALENT_SDK04" -> {"OFFLINE_PREPARATION", "NATIVE_EXECUTION"}
      [] status = "OFFLINE_PROBE_BIND_RULES_ONLY" -> {"OFFLINE_PREPARATION"}
      [] OTHER -> {}

(* A descriptor that validate accepts.                                       *)
Loadable == {h \in DOMAIN Documents : Valid(Documents[h])}

(* load_accepted: the entry, its exact bytes, and a review for the purpose.  *)
Accepted(inst, purpose) ==
    /\ inst.bytes = inst.entry.descriptor
    /\ inst.bytes \in Loadable
    /\ purpose \in inst.entry.admits
    /\ DOMAIN inst.entry.kinds = Kinds(Documents[inst.bytes])

KindsReviewed(inst, items, purpose) ==
    \A x \in Items(items) : purpose \in KindReview(inst.entry.kinds[x.kind])

(* The reviewed engine identity embeds exactly these bytes and catalogue.    *)
EngineRecord(inst) == inst = Shipped

(* The bounds compiled into the worker: it fixes targets, root fields and    *)
(* the original words.                                                       *)
WorkerBounds(h) ==
    LET d == Documents[h]
        shipped == Documents[Shipped.bytes]
        fixed(x) == {<<t.name, t.contract, t.words>> : t \in Items(x.targets)}
    IN  /\ fixed(d) = fixed(shipped)
        /\ d.configurationTarget = shipped.configurationTarget
        /\ OriginalWords(d) = PinnedWords
        /\ \E f \in Items(d.fields) : \A x \in DOMAIN BaseFee : f[x] = BaseFee[x]

-----------------------------------------------------------------------------
(* What an input is, for every family *)

(* The words of the variant, or NoFile when the family refuses.              *)
WordsOf(c) == IF c.code = "OK" THEN c.words ELSE NoFile
Derivation(profile, items, h, words) ==
    WordsOf(CASE profile \in {"LP", "DYNAMIC"} -> SingleWrites(items[1], words)
              [] profile = "OVERLAY" -> ComposeOverlay(Canonical(items), words)
              [] profile = "DESCRIPTOR" -> Compose(Documents[h], items, words))

(* The reviewed originals a family writes on.                                *)
Originals(profile, h) == IF profile = "DESCRIPTOR" THEN OriginalWords(Documents[h]) ELSE PinnedWords

(* The kinds and the list form each family takes.                            *)
LpRequest(items) == Len(items) = 1 /\ items[1].kind = "LP_REWARDS_BPS" /\ RegistryParameterOk(items[1])
DynamicRequest(items) == Len(items) = 1 /\ items[1].kind = "DYNAMIC_FEE" /\ RegistryParameterOk(items[1])
OverlayRequest(items) == OverlayRefusal(items) = "OK" /\ items = Canonical(items)
DescriptorRequest(items, h) == SetRefusal(Documents[h], items) = "OK" /\ items = Canonical(items)

RequestOk(profile, items, h) ==
    CASE profile = "LP" -> LpRequest(items)
      [] profile = "DYNAMIC" -> DynamicRequest(items)
      [] profile = "OVERLAY" -> OverlayRequest(items)
      [] profile = "DESCRIPTOR" -> DescriptorRequest(items, h)

Input(profile, items, h, source, engine) ==
    [profile |-> profile, items |-> items,
     desc |-> IF profile = "DESCRIPTOR" THEN h ELSE NoFile,
     source |-> source, engine |-> engine,
     baseline |-> Originals(profile, h),
     variant |-> Derivation(profile, items, h, Originals(profile, h))]

(* The input checks every family has: the LP shape, in which only the LP     *)
(* field may differ from the pinned words.                                   *)
LpShape(spec) ==
    /\ spec.baseline = PinnedWords
    /\ LpRequest(spec.items)
    /\ spec.variant = SetField(PinnedWords, Layout.lpBps, spec.items[1].parameters.lpBps)

(* validate_spec of the other families: the input is exactly its own          *)
(* derivation.                                                               *)
DynamicShape(spec) == spec.baseline = PinnedWords /\ DynamicRequest(spec.items)
OverlayShape(spec) == spec.baseline = PinnedWords /\ OverlayRequest(spec.items)
DescriptorShape(spec, h) == spec.desc = h /\ WorkerBounds(h) /\ DescriptorRequest(spec.items, h)

ValidInput(spec, h) ==
    /\ CASE spec.profile = "LP" -> LpShape(spec)
         [] spec.profile = "DYNAMIC" -> DynamicShape(spec)
         [] spec.profile = "OVERLAY" -> OverlayShape(spec)
         [] spec.profile = "DESCRIPTOR" -> DescriptorShape(spec, h)
    /\ spec.variant # NoFile
    /\ spec = Input(spec.profile, spec.items, h, spec.source, spec.engine)

-----------------------------------------------------------------------------
NoDir == [made |-> FALSE, scenario |-> NoFile, result |-> NoFile, intervention |-> NoFile, preparation |-> NoFile]
Idle(r) == [pc |-> IF r = NoFile THEN "absent" ELSE "new", request |-> r, source |-> NoFile, desc |-> NoFile, spec |-> NoFile]

PInit ==
    \E s \in Starts :
        /\ installed = s.installed
        /\ witness = s.witness
        /\ runtime = s.runtime
        /\ job = [j \in Jobs |-> Idle(s.requests[j])]
        /\ plans = [j \in Jobs |-> NoFile]
        /\ dir = [o \in Dirs |-> NoDir]
        /\ bound = NoFile
        /\ worlds = NoFile
        /\ left = s.left
        /\ edited = FALSE

Profile(j) == job[j].request.profile
Wanted(j) == job[j].request.items
Out(j) == job[j].request.out
Proceeds(j, pc) == job' = [job EXCEPT ![j].pc = pc]

-----------------------------------------------------------------------------
(* Preparing *)

(* What the witness must prove before anything is derived; the LP family      *)
(* leaves that to the native admission.                                      *)
ProjectionAuthentic(source) ==
    source.code /\ NoWord \notin UNION {Items(source.words[t]) : t \in DOMAIN source.words}
OriginalsPinned(source) == source.words = PinnedWords
TargetsAuthentic(source, h) == source.code /\ source.words = OriginalWords(Documents[h])
StaticallyCovered(source) == source.covered

Authenticated(profile, source, h) ==
    CASE profile = "LP" -> TRUE
      [] profile \in {"DYNAMIC", "OVERLAY"} -> ProjectionAuthentic(source) /\ OriginalsPinned(source)
      [] profile = "DESCRIPTOR" -> StaticallyCovered(source) /\ TargetsAuthentic(source, h)

(* What the descriptor family asks of the installed descriptor first.        *)
DescriptorReviewed(items) ==
    /\ Accepted(installed, "NATIVE_EXECUTION")
    /\ WorkerBounds(installed.bytes)
    /\ EngineRecord(installed)
    /\ KindsReviewed(installed, items, "NATIVE_EXECUTION")

(* First reads: the pinned source, the accepted descriptor, the fresh output.*)
Begin(j) ==
    /\ job[j].pc = "new"
    /\ witness = job[j].request.pin
    /\ ~dir[Out(j)].made
    /\ Profile(j) = "DESCRIPTOR" => DescriptorReviewed(Wanted(j))
    /\ RequestOk(Profile(j), Wanted(j), installed.bytes)
    /\ Authenticated(Profile(j), witness, installed.bytes)
    /\ job' = [job EXCEPT ![j].pc = "read", ![j].source = witness,
                          ![j].desc = IF Profile(j) = "DESCRIPTOR" THEN installed.bytes ELSE NoFile]
    /\ UNCHANGED <<installed, witness, runtime, plans, dir, bound, worlds, left, edited>>

(* Mutant of SourceAgain: the second read is not compared with the pin.      *)
SourceUnpinned(j) == IF Profile(j) \in {"DYNAMIC", "OVERLAY"} THEN {witness} ELSE {job[j].source}

(* The derivative and overlay families read the source again after they      *)
(* authenticated it; the others keep the bytes they read.                    *)
SourceAgain(j) ==
    IF Profile(j) \in {"DYNAMIC", "OVERLAY"}
    THEN IF witness = job[j].request.pin THEN {witness} ELSE {}
    ELSE {job[j].source}

(* The engine an input binds: the source's own (LP), the reviewed one, or    *)
(* the registered one.                                                       *)
EngineFor(j) ==
    CASE Profile(j) = "LP" -> {job[j].source.engine}
      [] Profile(j) = "DESCRIPTOR" -> {AcceptedEngine["DESCRIPTOR"]}
      [] OTHER -> {AcceptedEngine[Profile(j)]} \cup
                  {r.engine : r \in {x \in {runtime} : x # NoFile /\ x.profile = Profile(j)}}

Build(j) ==
    /\ job[j].pc = "read"
    /\ \E source \in SourceAgain(j), engine \in EngineFor(j) :
          /\ job' = [job EXCEPT ![j].pc = "built",
                                ![j].spec = Input(Profile(j), Wanted(j), job[j].desc, source, engine)]
          /\ job'[j].spec.variant # NoFile
    /\ UNCHANGED <<installed, witness, runtime, plans, dir, bound, worlds, left, edited>>

(* configure: the plan names the descriptor that is installed now.           *)
SavePlan(j) ==
    /\ job[j].pc = "built"
    /\ Profile(j) = "DESCRIPTOR" =>
          /\ Accepted(installed, "OFFLINE_PREPARATION")
          /\ WorkerBounds(installed.bytes)
          /\ RequestOk("DESCRIPTOR", Wanted(j), installed.bytes)
    /\ plans' = [plans EXCEPT ![j] = [profile |-> Profile(j), items |-> Wanted(j),
                                      desc |-> IF Profile(j) = "DESCRIPTOR" THEN installed.bytes ELSE NoFile]]
    /\ Proceeds(j, "planned")
    /\ UNCHANGED <<installed, witness, runtime, dir, bound, worlds, left, edited>>

(* mkdir is the exclusive step: a second preparation of this output raises.  *)
MakeDir(j) ==
    /\ job[j].pc = "planned"
    /\ IF dir[Out(j)].made
       THEN Proceeds(j, "stopped") /\ UNCHANGED dir
       ELSE Proceeds(j, "made") /\ dir' = [dir EXCEPT ![Out(j)].made = TRUE]
    /\ UNCHANGED <<installed, witness, runtime, plans, bound, worlds, left, edited>>

SaveScenario(j) ==
    /\ job[j].pc = "made"
    /\ dir[Out(j)].scenario = NoFile
    /\ dir' = [dir EXCEPT ![Out(j)].scenario = job[j].spec,
                          ![Out(j)].intervention =
                              IF Profile(j) \in {"DYNAMIC", "OVERLAY"}
                              THEN [items |-> Wanted(j), source |-> job[j].source] ELSE NoFile]
    /\ Proceeds(j, "written")
    /\ UNCHANGED <<installed, witness, runtime, plans, bound, worlds, left, edited>>

(* SDK_RESULT.json pins the plan and the bytes of the scenario file as they  *)
(* are now, and the commitment that was derived.                             *)
SaveResult(j) ==
    /\ job[j].pc = "written"
    /\ dir[Out(j)].result = NoFile
    /\ dir' = [dir EXCEPT ![Out(j)].result = [plan |-> j, pinned |-> plans[j],
                                              bytes |-> dir[Out(j)].scenario, spec |-> job[j].spec]]
    /\ Proceeds(j, "sealed")
    /\ UNCHANGED <<installed, witness, runtime, plans, bound, worlds, left, edited>>

-----------------------------------------------------------------------------
(* Reading a prepared directory back *)

(* describe: the plan is unchanged and of a known profile; a descriptor plan *)
(* must still name the installed, accepted descriptor.                       *)
PlanOk(plan) ==
    /\ plan # NoFile
    /\ plan.profile = "DESCRIPTOR" =>
          /\ Accepted(installed, "OFFLINE_PREPARATION")
          /\ installed.bytes = plan.desc
          /\ WorkerBounds(installed.bytes)
          /\ RequestOk("DESCRIPTOR", plan.items, installed.bytes)
          /\ KindsReviewed(installed, plan.items, "OFFLINE_PREPARATION")

(* The LP setting a plan states; a plan without the LP kind keeps LP100.     *)
PlannedLp(items) ==
    IF \E x \in Items(items) : x.kind = "LP_REWARDS_BPS"
    THEN (CHOOSE x \in Items(items) : x.kind = "LP_REWARDS_BPS").parameters.lpBps
    ELSE LpOriginal

(* _input of the scenario API.                                               *)
InputOk(o) ==
    LET v == dir[o].result
        spec == dir[o].scenario
    IN  /\ v # NoFile
        /\ spec # NoFile
        /\ PlanOk(plans[v.plan])
        /\ v.pinned = plans[v.plan]
        /\ spec = v.bytes
        /\ spec = v.spec
        /\ spec.profile = plans[v.plan].profile
        /\ spec.profile # "LP" => ValidInput(spec, installed.bytes)
        /\ spec.profile \in {"OVERLAY", "DESCRIPTOR"} => spec.items = plans[v.plan].items
        /\ IF spec.profile = "DESCRIPTOR" THEN spec.desc = plans[v.plan].desc
           ELSE GetField(spec.variant, Layout.lpBps) = PlannedLp(plans[v.plan].items)

(* The descriptor family re-reads what it saved before it calls it prepared. *)
SavePreparation(j) ==
    /\ job[j].pc = "sealed"
    /\ dir[Out(j)].preparation = NoFile
    /\ Profile(j) = "DESCRIPTOR" => InputOk(Out(j))
    /\ dir' = [dir EXCEPT ![Out(j)].preparation =
                  [profile |-> Profile(j), plan |-> j, items |-> Wanted(j), source |-> job[j].source,
                   engine |-> job[j].spec.engine, bytes |-> dir[Out(j)].scenario, spec |-> job[j].spec]]
    /\ Proceeds(j, "prepared")
    /\ UNCHANGED <<installed, witness, runtime, plans, bound, worlds, left, edited>>

(* _prepared of each family, past the _input it calls first.                 *)
LpPrepared(o) == ValidInput(dir[o].scenario, NoFile)

(* INTERVENTION.json, the plan the derivative or overlay was made from.      *)
PlannedFrom(o) ==
    LET d == dir[o].intervention
    IN  /\ d # NoFile
        /\ d.items = dir[o].scenario.items
        /\ d.source = dir[o].scenario.source
        /\ dir[o].preparation.source = d.source
DynamicPrepared(o) == PlannedFrom(o) /\ dir[o].intervention.items[1].kind = "DYNAMIC_FEE"
OverlayPrepared(o) == PlannedFrom(o) /\ dir[o].preparation.items = dir[o].scenario.items

DescriptorPrepared(o) ==
    /\ dir[o].preparation.items = plans[dir[o].preparation.plan].items
    /\ dir[o].preparation.engine = dir[o].scenario.engine
    /\ dir[o].scenario.desc = Shipped.bytes

PreparedOk(o) ==
    LET meta == dir[o].preparation
        spec == dir[o].scenario
    IN  /\ meta # NoFile
        /\ meta.profile = spec.profile
        /\ meta.plan = dir[o].result.plan
        /\ meta.bytes = dir[o].result.bytes
        /\ meta.spec = spec
        /\ CASE spec.profile = "LP" -> LpPrepared(o)
             [] spec.profile = "DYNAMIC" -> DynamicPrepared(o)
             [] spec.profile = "OVERLAY" -> OverlayPrepared(o)
             [] spec.profile = "DESCRIPTOR" -> DescriptorPrepared(o)

(* operation_binding: what the operation commits to is the registered worker.*)
NativeReviewed(plan) ==
    plan.profile = "DESCRIPTOR" =>
        /\ Accepted(installed, "NATIVE_EXECUTION")
        /\ KindsReviewed(installed, plan.items, "NATIVE_EXECUTION")
        /\ runtime.engine = AcceptedEngine["DESCRIPTOR"]
        /\ EngineRecord(installed)

(* The SDK call goes through _prepared; the scenario command goes straight   *)
(* to the API and needs no PREPARATION.json.                                 *)
Bind(o) ==
    /\ bound = NoFile
    /\ InputOk(o)
    /\ runtime # NoFile
    /\ runtime.profile = dir[o].scenario.profile
    /\ NativeReviewed(plans[dir[o].result.plan])
    /\ \E sdk \in {TRUE, FALSE} :
          /\ sdk => PreparedOk(o)
          /\ bound' = [spec |-> dir[o].scenario, plan |-> plans[dir[o].result.plan], engine |-> runtime.engine,
                       install |-> installed, sdk |-> sdk]
    /\ UNCHANGED <<installed, witness, runtime, job, plans, dir, worlds, left, edited>>

-----------------------------------------------------------------------------
(* The worker's admission and the two initial worlds *)

(* Mutant of Admitted: the commitment of the input is believed.              *)
AdmittedAsCommitted(spec) ==
    /\ spec.engine = bound.engine
    /\ spec.source.code
    /\ spec.source.words = spec.baseline

(* check: the input's engine is the registered one and the worker finds      *)
(* every contract and target word in the witness.                            *)
Admitted(spec) ==
    /\ spec.engine = bound.engine
    /\ spec.source.code
    /\ NoWord \notin UNION {Items(spec.source.words[t]) : t \in DOMAIN spec.source.words}
    /\ spec.source.words = spec.baseline
    /\ spec.variant # NoFile
    /\ spec.variant = Derivation(spec.profile, spec.items, Shipped.bytes, spec.source.words)

(* apply_writes, in both worlds: every original word is compared first, and  *)
(* only the variant is written.                                              *)
ApplyWrites ==
    /\ bound # NoFile
    /\ worlds = NoFile
    /\ Admitted(bound.spec)
    /\ worlds' = [baseline |-> bound.spec.source.words, variant |-> bound.spec.variant]
    /\ UNCHANGED <<installed, witness, runtime, job, plans, dir, bound, left, edited>>

-----------------------------------------------------------------------------
(* The environment *)

Change == left > 0 /\ left' = left - 1

ReplaceInstall ==
    /\ Change
    /\ installed' \in Installs \ {installed}
    /\ UNCHANGED <<witness, runtime, job, plans, dir, bound, worlds, edited>>

ReplaceSource ==
    /\ Change
    /\ witness' \in Sources \ {witness}
    /\ UNCHANGED <<installed, runtime, job, plans, dir, bound, worlds, edited>>

(* A prepared file is put in the place of another directory's, or the        *)
(* scenario is edited and its commitments recomputed, here and in the        *)
(* records beside it.                                                        *)
ForgedInputs(spec) ==
    {[spec EXCEPT !.variant = spec.baseline],
     [spec EXCEPT !.variant = SetField(@, Layout.dynamicFeeSens, 0)],
     [spec EXCEPT !.engine = CHOOSE e \in Engines : e # spec.engine]}

EditPrepared ==
    /\ Change
    /\ \E o, from \in Dirs, file \in {"scenario", "result", "intervention", "preparation"} :
          /\ dir[o].preparation # NoFile
          /\ dir[from].preparation # NoFile
          /\ o # from
          /\ dir' = [dir EXCEPT ![o][file] = dir[from][file]]
    /\ edited' = TRUE
    /\ UNCHANGED <<installed, witness, runtime, job, plans, bound, worlds>>

Recommit ==
    /\ Change
    /\ \E o \in Dirs :
          /\ dir[o].preparation # NoFile
          /\ \E spec \in ForgedInputs(dir[o].scenario) :
                dir' = [dir EXCEPT ![o].scenario = spec,
                                   ![o].result.bytes = spec, ![o].result.spec = spec,
                                   ![o].preparation.bytes = spec, ![o].preparation.spec = spec,
                                   ![o].preparation.engine = spec.engine]
    /\ edited' = TRUE
    /\ UNCHANGED <<installed, witness, runtime, job, plans, bound, worlds>>

PNext ==
    \/ \E j \in Jobs : Begin(j) \/ Build(j) \/ SavePlan(j) \/ MakeDir(j) \/ SaveScenario(j) \/ SaveResult(j) \/ SavePreparation(j)
    \/ \E o \in Dirs : Bind(o)
    \/ ApplyWrites
    \/ ReplaceInstall
    \/ ReplaceSource
    \/ EditPrepared
    \/ Recommit

PSpec == PInit /\ [][PNext]_pvars

-----------------------------------------------------------------------------
(* Properties *)

Assigned(d, items) ==
    UNION {{[field |-> a.field, value |-> a.value, params |-> x.parameters] : a \in Items(KindOf(d, x.kind).assign)}
              : x \in Items(items)}

(* What compose must compute, stated without its loops: every assigned field *)
(* has the value of its operand on the ORIGINAL words, every other field and *)
(* every bit outside the fields keep theirs.                                 *)
IsParallelAssignment(d, items, original, result) ==
    LET assigned == Assigned(d, items)
        bits == UNION {BitsOf(ByName(d.fields, a.field)) : a \in assigned}
    IN  /\ \A f \in Items(d.fields) :
              IF \E a \in assigned : a.field = f.name
              THEN \E a \in assigned : a.field = f.name /\ GetField(result, f) = Value(d, a.value, original, a.params)
              ELSE GetField(result, f) = GetField(original, f)
        /\ Changed(result, original) \subseteq bits

ComposesInParallel(d, items, c) ==
    /\ c.code \notin {"NON_TARGET_BITS", "FIELD_VALUE"}
    /\ c.code = "OK" => IsParallelAssignment(d, items, OriginalWords(d), c.words)
    /\ Compose(d, Reverse(items), OriginalWords(d)) = c

(* A descriptor that validate accepts composes any request as a parallel     *)
(* assignment, whatever the order of the items, and the two checks compose   *)
(* makes on its own result (non-target bits, field values) never fail: what  *)
(* validate and the mask check admit is enough                               *)
(* (profile_descriptor.py 606-652).                                          *)
ParallelAssignment ==
    \A j \in Jobs :
        job[j].pc = "new" /\ installed.bytes \in Loadable =>
            LET d == Documents[installed.bytes]
            IN  ComposesInParallel(d, Wanted(j), Compose(d, Wanted(j), OriginalWords(d)))

(* The interpreter's answer c, the registry's o and that of SDK 0.4, s.      *)
SameWords(c, o, s, single, pinned) ==
    /\ c.code = "OK" <=> o.code = "OK"
    /\ c.code = "OK" => c.words = o.words
    /\ single /\ s.code = "OK" => c.code = "OK" /\ s.words = c.words
    /\ single /\ pinned => (s.code = "OK" <=> c.code = "OK")

(* The registry writes the base fee of the pinned profile, the interpreter   *)
(* that of the original: original_words lets in only originals that have it. *)
LegacyShape(d) ==
    /\ d.fields = Documents[Shipped.bytes].fields
    /\ d.kinds = Documents[Shipped.bytes].kinds
    /\ GetField(OriginalWords(d), BaseFee) = ProfileBase

(* On a descriptor with the shipped layout and kinds, and whatever settings  *)
(* the original words hold beside the pinned base fee, the interpreter and   *)
(* the compiled registry of the config-overlay worker accept the same sets   *)
(* of LP and Dynamic Fee interventions and produce the same words; what SDK  *)
(* 0.4 wrote for a single intervention are those words, and on the pinned    *)
(* originals it accepts the same ones (config_overlay.py 86-118,             *)
(* interventions.py 40-76).                                                  *)
LegacyParity ==
    \A j \in Jobs :
        /\ job[j].pc = "new"
        /\ installed.bytes \in Loadable
        /\ LegacyShape(Documents[installed.bytes])
        /\ Len(Wanted(j)) > 0
        /\ {x.kind : x \in Items(Wanted(j))} \subseteq Registered
        => LET d == Documents[installed.bytes]
               words == OriginalWords(d)
           IN  SameWords(Compose(d, Wanted(j), words), ComposeOverlay(Wanted(j), words), SingleWrites(Wanted(j)[1], words),
                         Len(Wanted(j)) = 1, words = PinnedWords)

(* As long as nobody edits prepared files, a directory with a                *)
(* PREPARATION.json holds one preparation: its input is the derivation of    *)
(* the pinned source that was authenticated, under the plan its records      *)
(* name, whatever other preparations of the directory and replacements of    *)
(* the source, the catalogue or the descriptor came between the steps        *)
(* (profile_overlay.py 74-123, config_overlay.py 321-359).                   *)
PreparedIsOneDerivation ==
    ~edited =>
        \A o \in Dirs :
            LET meta == dir[o].preparation
                spec == dir[o].scenario
            IN  meta # NoFile =>
                    /\ spec = meta.spec
                    /\ dir[o].result.plan = meta.plan
                    /\ spec.items = plans[meta.plan].items
                    /\ spec.desc = plans[meta.plan].desc
                    /\ spec.source = job[meta.plan].request.pin
                    /\ Authenticated(spec.profile, spec.source, spec.desc)
                    /\ ValidInput(spec, spec.desc)

(* The baseline world holds the words the witness authenticates, and the     *)
(* variant world differs from it only in the fields of the planned items:    *)
(* nothing is written on words that are absent or not the reviewed originals *)
(* (profile_descriptor.py 669-714).                                          *)
WorldsAsPlanned ==
    worlds # NoFile =>
        /\ worlds.baseline = bound.spec.source.words
        /\ worlds.baseline = Originals(bound.plan.profile, Shipped.bytes)
        /\ worlds.variant = Derivation(bound.plan.profile, bound.plan.items, Shipped.bytes, worlds.baseline)
=============================================================================
