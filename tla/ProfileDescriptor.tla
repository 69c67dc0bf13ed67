------------------------- MODULE ProfileDescriptor -------------------------
(***************************************************************************)
(* Hook profiles as data (src/sdk/rhook_alpha/profile_descriptor.py): what *)
(* a descriptor must satisfy to be loadable (validate), how a set of typed *)
(* interventions is brought into canonical order, and how it is composed   *)
(* into masked writes on the authenticated original words.                 *)
(*                                                                         *)
(* Abstractions.  A descriptor is a record; JSON encoding, patterns of     *)
(* names and key sets are left out.  A SHA-256 is injective, so the value  *)
(* itself stands for its hash.  A 256-bit word is a natural below          *)
(* 2^WordBits, a mask the set of its bit positions.  Keccak[<<namespace,   *)
(* pool id>>] stands for the ERC-7201 mapping base of that pool.           *)
(* KindOrder lists the kind names in alphabetical order.  Every loop of    *)
(* the code is a left fold, in the code's order.                           *)
(***************************************************************************)
EXTENDS Integers, Sequences, FiniteSets, SequencesExt

CONSTANTS WordBits,    \* bits of a storage word (256 in the code)
          SlotSpace,   \* number of storage slots (2^256 in the code)
          Keccak,      \* base slot of <<namespace, pool id>>
          KindOrder,   \* every kind name, alphabetically
          MaxFactors,  \* MAX_FACTORS
          NoWord       \* what a reader answers when the witness lacks the word

ASSUME DescriptorAssumption ==
    /\ WordBits \in Nat \ {0}
    /\ SlotSpace \in Nat \ {0}
    /\ MaxFactors \in Nat \ {0}
    /\ KindOrder \in Seq(STRING)
    /\ NoWord \notin Nat

Items(s) == {s[i] : i \in DOMAIN s}
Names(s) == {r.name : r \in Items(s)}
DistinctNames(s) == Cardinality(Names(s)) = Len(s)
ByName(s, n) == CHOOSE r \in Items(s) : r.name = n
Before(k, l) == SelectInSeq(KindOrder, LAMBDA x : x = k) < SelectInSeq(KindOrder, LAMBDA x : x = l)
Ascending(s) == \A i, j \in DOMAIN s : i < j => Before(s[i], s[j])

-----------------------------------------------------------------------------
(* Bit fields *)

Mask(f) == f.offset .. (f.offset + f.width - 1)
GetField(words, f) == (words[f.target][f.word] \div 2 ^ f.offset) % 2 ^ f.width
PutField(w, f, value) == w - ((w \div 2 ^ f.offset) % 2 ^ f.width) * 2 ^ f.offset + value * 2 ^ f.offset
Bit(w, b) == (w \div 2 ^ b) % 2

(* The bits in which two states of the words differ.                          *)
Changed(words, original) ==
    {x \in UNION {{t} \X (DOMAIN words[t]) \X (0 .. (WordBits - 1)) : t \in DOMAIN words} :
        Bit(words[x[1]][x[2]], x[3]) # Bit(original[x[1]][x[2]], x[3])}

DecodeFields(d, words) == [n \in Names(d.fields) |-> GetField(words, ByName(d.fields, n))]

-----------------------------------------------------------------------------
(* Validation of a descriptor *)

PoolId(p, hooksAddress) == <<p.currency0, p.currency1, p.fee, hooksAddress>>
DeriveSlot(t, poolId) == (Keccak[<<t.namespace, poolId>>] + t.fieldOffset) % SlotSpace

Pinned(d, n) == n \in Names(d.contracts) /\ ByName(d.contracts, n).pinned

ChainValid(d) ==
    /\ d.revision >= 1
    /\ d.chain.engineFamily = "NITRO"
    /\ d.release.commitment = d.release.manifest

(* What validate asks of the JSON itself: the lists are lists, the position   *)
(* of a field is given by two naturals, and an original word has 256 bits.    *)
Shaped(d) ==
    /\ \A s \in {d.targets, d.fields, d.kinds} : s \in Seq(Items(s))
    /\ \A f \in Items(d.fields) : f.offset \in Nat /\ f.width \in Nat
    /\ \A w \in Items(d.originals) : w.value \in 0 .. (2 ^ WordBits - 1)
    /\ \A k \in Items(d.kinds) : \A s \in {k.requires, k.assign} : s \in Seq(Items(s))

ContractsValid(d) ==
    /\ Len(d.contracts) > 0
    /\ DistinctNames(d.contracts)
    /\ Cardinality({c.address : c \in Items(d.contracts)}) = Len(d.contracts)
    /\ \A c \in Items(d.contracts) :
          c.pinned => [role |-> c.role, address |-> c.address, hash |-> c.hash] \in d.release.manifest

PoolValid(d) ==
    /\ Pinned(d, d.pool.hooks)
    /\ d.pool.poolId = PoolId(d.pool, ByName(d.contracts, d.pool.hooks).address)

(* The words a descriptor declares, as <<target, index>>, and where they    *)
(* live, as <<contract, slot>>.                                             *)
TargetWords(d) == UNION {{<<t.name, i>> : i \in 1 .. t.words} : t \in Items(d.targets)}
SlotOf(d, w) == <<ByName(d.targets, w[1]).contract, ByName(d.targets, w[1]).slot + w[2] - 1>>

TargetsValid(d) ==
    /\ Len(d.targets) > 0
    /\ DistinctNames(d.targets)
    /\ \A t \in Items(d.targets) :
          /\ Pinned(d, t.contract)
          /\ t.words \in 1 .. 8
          /\ t.derived => DeriveSlot(t, d.pool.poolId) = t.slot
          /\ t.slot + t.words <= SlotSpace
    /\ \A v, w \in TargetWords(d) : SlotOf(d, v) = SlotOf(d, w) => v = w
    /\ d.configurationTarget \in Names(d.targets)

(* Mutant of FieldsValid: overlapping fields are accepted.                  *)
FieldsMayOverlap(d) ==
    /\ Len(d.fields) > 0
    /\ DistinctNames(d.fields)
    /\ \A f \in Items(d.fields) :
          /\ <<f.target, f.word>> \in TargetWords(d)
          /\ f.width >= 1
          /\ f.offset + f.width <= WordBits

FieldsValid(d) ==
    /\ Len(d.fields) > 0
    /\ DistinctNames(d.fields)
    /\ \A f \in Items(d.fields) :
          /\ <<f.target, f.word>> \in TargetWords(d)
          /\ f.type \in {"uint", "flag", "address"}
          /\ f.width >= 1
          /\ f.offset + f.width <= WordBits
          /\ f.type = "flag" => f.width = 1
    /\ \A f, g \in Items(d.fields) :
          /\ f # g
          /\ f.target = g.target
          /\ f.word = g.word
          => Mask(f) \cap Mask(g) = {}

OriginalsValid(d) ==
    /\ {<<w.target, w.word>> : w \in Items(d.originals)} = TargetWords(d)
    /\ Len(d.originals) = Cardinality(TargetWords(d))

OperandValid(d, params, o) ==
    \/ o.form = "const"
    \/ o.form = "field" /\ o.ref \in Names(d.fields)
    \/ o.form = "param" /\ \E p \in Items(params) : p.name = o.ref /\ p.type = "uint"

FactorFields(x) == IF x.form = "diff" THEN {x.ref, x.other} ELSE {x.ref}

PredicateValid(d, params, p) ==
    \/ /\ p.form = "compare"
       /\ p.op \in {"eq", "ne", "lt", "le", "gt", "ge"}
       /\ OperandValid(d, params, p.left)
       /\ OperandValid(d, params, p.right)
    \/ /\ p.form = "productBound"
       /\ p.op \in {"lt", "le"}
       /\ Len(p.factors) \in 1 .. MaxFactors
       /\ \A x \in Items(p.factors) : FactorFields(x) \subseteq Names(d.fields)

Kinds(d) == {k.kind : k \in Items(d.kinds)}
KindOf(d, n) == CHOOSE k \in Items(d.kinds) : k.kind = n

KindValid(d, k) ==
    /\ Len(k.params) > 0
    /\ DistinctNames(k.params)
    /\ \A p \in Items(k.params) : p.type = "uint" => p.min <= p.max
    /\ \A p \in Items(k.requires) \cup Items(k.ensures) : PredicateValid(d, k.params, p)
    /\ Len(k.assign) > 0
    /\ Cardinality({a.field : a \in Items(k.assign)}) = Len(k.assign)
    /\ \A a \in Items(k.assign) :
          /\ a.field \in Names(d.fields)
          /\ ByName(d.fields, a.field).type # "address"
          /\ OperandValid(d, k.params, a.value)

KindsValid(d) ==
    /\ Len(d.kinds) > 0
    /\ Ascending([i \in DOMAIN d.kinds |-> d.kinds[i].kind])
    /\ \A k \in Items(d.kinds) :
          /\ KindValid(d, k)
          /\ k.kind \notin k.conflicts
          /\ \A n \in k.conflicts : n \in Kinds(d) /\ k.kind \in KindOf(d, n).conflicts

(* The fixed action, setup, measures and witness declaration.               *)
ActionValid(d) ==
    /\ Pinned(d, d.action.router)
    /\ d.action.count = 1
    /\ Len(d.action.gas) > 0
    /\ \A i, j \in DOMAIN d.action.gas : i < j => d.action.gas[i] < d.action.gas[j]
SetupValid(d) == d.setup.nonce = 0 /\ d.setup.requireOriginalAbsence
MeasuresValid(d) ==
    /\ Len(d.measures) > 0
    /\ DistinctNames(d.measures)
    /\ \A m \in Items(d.measures) : m.emitter # "" => m.emitter \in Names(d.contracts)

Valid(d) ==
    /\ Shaped(d)
    /\ ChainValid(d)
    /\ ContractsValid(d)
    /\ PoolValid(d)
    /\ TargetsValid(d)
    /\ FieldsValid(d)
    /\ OriginalsValid(d)
    /\ KindsValid(d)
    /\ ActionValid(d)
    /\ SetupValid(d)
    /\ MeasuresValid(d)

-----------------------------------------------------------------------------
(* Predicates and operands on words *)

Value(d, o, words, params) ==
    CASE o.form = "const" -> o.ref
      [] o.form = "field" -> GetField(words, ByName(d.fields, o.ref))
      [] o.form = "param" -> params[o.ref]

Compare(op, a, b) ==
    CASE op = "eq" -> a = b
      [] op = "ne" -> a # b
      [] op = "lt" -> a < b
      [] op = "le" -> a <= b
      [] op = "gt" -> a > b
      [] op = "ge" -> a >= b

Factor(d, x, words) ==
    LET v(n) == GetField(words, ByName(d.fields, n))
    IN  CASE x.form = "field" -> v(x.ref)
          [] x.form = "square" -> v(x.ref) * v(x.ref)
          [] x.form = "diff" -> v(x.ref) - v(x.other)
          [] x.form = "constMinusSquare" -> x.const - v(x.ref) * v(x.ref)

(* "negative" is the refusal of a product with a negative factor: no value  *)
(* of the product would decide the bound.                                   *)
Verdict(d, p, words, params) ==
    IF p.form = "compare"
    THEN IF Compare(p.op, Value(d, p.left, words, params), Value(d, p.right, words, params))
         THEN "holds" ELSE "fails"
    ELSE LET v == [i \in DOMAIN p.factors |-> Factor(d, p.factors[i], words)]
         IN  IF \E i \in DOMAIN v : v[i] < 0 THEN "negative"
             ELSE IF Compare(p.op, FoldLeft(LAMBDA a, b : a * b, 1, v), p.bound) THEN "holds"
             ELSE "fails"

-----------------------------------------------------------------------------
(* Canonical interventions: refusal code of a list, and its sorted form *)

ParameterOk(p, value) ==
    IF p.type = "uint" THEN value \in p.min .. p.max ELSE value \in p.values

ParametersOk(d, item) ==
    LET params == KindOf(d, item.kind).params
    IN  /\ DOMAIN item.parameters = Names(params)
        /\ \A p \in Items(params) : ParameterOk(p, item.parameters[p.name])

SetRefusal(d, items) ==
    LET kinds == {x.kind : x \in Items(items)}
    IN  IF Len(items) \notin 1 .. Len(d.kinds) THEN "COUNT"
        ELSE IF ~(kinds \subseteq Kinds(d)) THEN "UNKNOWN_INTERVENTION"
        ELSE IF Cardinality(kinds) # Len(items) THEN "DUPLICATE_KIND"
        ELSE IF \E k \in kinds : KindOf(d, k).conflicts \cap kinds # {} THEN "KIND_CONFLICT"
        ELSE IF \E x \in Items(items) : ~ParametersOk(d, x) THEN "PARAMETER"
        ELSE "OK"

(* The items by kind; only a list with no kind twice is brought into order.   *)
Canonical(items) ==
    CHOOSE s \in [DOMAIN items -> Items(items)] : Ascending([i \in DOMAIN s |-> s[i].kind])

-----------------------------------------------------------------------------
(* Composition *)

OriginalWords(d) ==
    [n \in Names(d.targets) |->
        [i \in 1 .. ByName(d.targets, n).words |->
            (CHOOSE w \in Items(d.originals) : w.target = n /\ w.word = i).value]]

Refused(code) == [code |-> code]

(* Every requires predicate and every assignment, as compose reaches them:  *)
(* kind by kind, the predicates before the assignments.                      *)
Steps(d, canon) ==
    LET steps(x, what, rules) == [i \in DOMAIN rules |-> [what |-> what, item |-> x, rule |-> rules[i]]]
        of(x) == steps(x, "require", KindOf(d, x.kind).requires) \o steps(x, "assign", KindOf(d, x.kind).assign)
    IN  FoldLeft(LAMBDA a, x : a \o of(x), <<>>, canon)

Require(d, acc, original, step) ==
    LET v == Verdict(d, step.rule, original, step.item.parameters)
    IN  [acc EXCEPT !.code = CASE v = "holds" -> "OK"
                               [] v = "fails" -> "ORIGINAL_PRECONDITION"
                               [] v = "negative" -> "NEGATIVE_FACTOR"]

Assign(d, acc, original, step) ==
    LET f == ByName(d.fields, step.rule.field)
        value == Value(d, step.rule.value, original, step.item.parameters)
        bits == {<<f.target, f.word, b>> : b \in Mask(f)}
    IN  IF value \notin 0 .. (2 ^ f.width - 1) THEN [acc EXCEPT !.code = "VALUE_WIDTH"]
        ELSE IF acc.used \cap bits # {} THEN [acc EXCEPT !.code = "MASK_CONFLICT"]
        ELSE [acc EXCEPT !.used = @ \cup bits,
                         !.words[f.target][f.word] = PutField(@, f, value),
                         !.applied = @ \cup {[field |-> f, value |-> value]}]

Walk(d, canon, original) ==
    FoldLeft(LAMBDA acc, step : IF acc.code # "OK" THEN acc
                                ELSE IF step.what = "require" THEN Require(d, acc, original, step)
                                ELSE Assign(d, acc, original, step),
             [code |-> "OK", words |-> original, used |-> {}, applied |-> {}],
             Steps(d, canon))

(* The result invariants of every kind, on the combined result.             *)
EnsuresVerdicts(d, canon, result) ==
    FoldLeft(LAMBDA a, x : a \o [i \in DOMAIN KindOf(d, x.kind).ensures |->
                                     Verdict(d, KindOf(d, x.kind).ensures[i], result, x.parameters)],
             <<>>, canon)
FirstRefusal(verdicts) ==
    LET i == SelectInSeq(verdicts, LAMBDA v : v # "holds")
    IN  IF i = 0 THEN "OK" ELSE IF verdicts[i] = "negative" THEN "NEGATIVE_FACTOR" ELSE "INVARIANT"

UsedWords(used) == {<<b[1], b[2]>> : b \in used}
WriteOf(d, original, result, w) ==
    [target |-> w[1], word |-> w[2], at |-> SlotOf(d, w),
     before |-> original[w[1]][w[2]], after |-> result[w[1]][w[2]]]

(* The checks on the composed words w, before they become writes.           *)
Written(d, canon, original, w, ensured) ==
    IF w.code # "OK" THEN Refused(w.code)
    ELSE IF ensured # "OK" THEN Refused(ensured)
    ELSE IF ~(Changed(w.words, original) \subseteq w.used) THEN Refused("NON_TARGET_BITS")
    ELSE IF \E a \in w.applied : GetField(w.words, a.field) # a.value THEN Refused("FIELD_VALUE")
    ELSE IF \E t \in UsedWords(w.used) : w.words[t[1]][t[2]] = original[t[1]][t[2]] THEN Refused("NO_EFFECT")
    ELSE [code |-> "OK", interventions |-> canon, words |-> w.words,
          writes |-> {WriteOf(d, original, w.words, t) : t \in UsedWords(w.used)}]

Composed(d, canon, original, w) ==
    Written(d, canon, original, w, FirstRefusal(EnsuresVerdicts(d, canon, w.words)))

Compose(d, items, originals) ==
    IF \E w \in TargetWords(d) : originals[w[1]][w[2]] = NoWord THEN Refused("ORIGINAL_STATE_UNAVAILABLE")
    ELSE IF originals # OriginalWords(d) THEN Refused("ORIGINAL_WORD")
    ELSE IF SetRefusal(d, items) # "OK" THEN Refused(SetRefusal(d, items))
    ELSE Composed(d, Canonical(items), originals, Walk(d, Canonical(items), originals))
=============================================================================
