------------------------------ MODULE MCAdmission ------------------------------
(***************************************************************************)
(* TLC instance of both halves of a scenario's admission.  The requests    *)
(* have the shape of the shipped profile hookr-1: a rules target of two    *)
(* words and a root record of one, its three kinds with their predicates,  *)
(* and numbers small enough to enumerate.  Catalogues and descriptors are  *)
(* the shipped ones or differ from them in one respect.                    *)
(*                                                                         *)
(* The start chooses a half: with nothing to prepare only the host and its *)
(* sensors move, else only the preparations and what is changed under them.*)
(* The two share no state, and so no behaviour is lost; in the code the    *)
(* host is sampled when the prepared input is bound already.               *)
(***************************************************************************)
EXTENDS ScenarioPreparation, HostAdmission

CONSTANTS j1, j2, o1, o2, Absent

MCKeccak == [x \in {<<"hookr.rules", <<"eth", "token", 3, "aRoot">> >>, <<"hookr.root", <<"eth", "token", 3, "aRoot">> >>} |->
                IF x[1] = "hookr.rules" THEN 9 ELSE 20]

F(n, t, w, o, b, ty) == [name |-> n, target |-> t, word |-> w, offset |-> o, width |-> b, type |-> ty]
Bound(fs, b) == [form |-> "productBound", factors |-> fs, op |-> "le", bound |-> b]
U(n, lo, hi) == [name |-> n, type |-> "uint", min |-> lo, max |-> hi]

MCFields ==
    << F("maxFeePips", "rulesConfig", 1, 0, 2, "uint"), F("dynamicFeeSens", "rulesConfig", 1, 2, 2, "uint"),
       F("lpBps", "rulesConfig", 1, 4, 2, "uint"), F("royaltyTo", "rulesConfig", 2, 0, 3, "address"),
       F("protocolShareBps", "rulesConfig", 2, 3, 2, "uint"), F("rootBaseLpFeePips", "rootRecord", 1, 0, 2, "uint"),
       F("rootDynamicFeeFlag", "rootRecord", 1, 2, 1, "flag"), F("rootRecaptureFlag", "rootRecord", 1, 3, 1, "flag"),
       F("rootFlagsReserved", "rootRecord", 1, 4, 1, "uint") >>

DynamicFee ==
    [kind |-> "DYNAMIC_FEE", conflicts |-> {"DYNAMIC_FEE_TUNING"}, ensures |-> <<>>,
     params |-> << [name |-> "dynamicFee", type |-> "enum", values |-> {"OFF"}] >>,
     requires |-> << Comparison(Setting("maxFeePips"), "gt", Setting("rootBaseLpFeePips")), Comparison(Setting("dynamicFeeSens"), "gt", Number(0)),
                     Comparison(Setting("rootDynamicFeeFlag"), "eq", Number(1)), Comparison(Setting("rootRecaptureFlag"), "eq", Number(1)),
                     Comparison(Setting("rootFlagsReserved"), "eq", Number(0)) >>,
     assign |-> << [field |-> "maxFeePips", value |-> Setting("rootBaseLpFeePips")], [field |-> "dynamicFeeSens", value |-> Number(0)],
                   [field |-> "rootDynamicFeeFlag", value |-> Number(0)] >>]
Tuning ==
    [kind |-> "DYNAMIC_FEE_TUNING", conflicts |-> {"DYNAMIC_FEE"},
     params |-> << U("dynamicFeeSens", 1, 3), U("maxFeePips", 1, 4) >>,
     requires |-> << Comparison(Setting("dynamicFeeSens"), "ge", Number(1)), Comparison(Setting("maxFeePips"), "gt", Setting("rootBaseLpFeePips")) >>,
     ensures |-> << Comparison(Setting("maxFeePips"), "gt", Setting("rootBaseLpFeePips")),
                    Bound(<< [form |-> "diff", ref |-> "maxFeePips", other |-> "rootBaseLpFeePips"],
                             [form |-> "square", ref |-> "dynamicFeeSens"] >>, 9),
                    Bound(<< [form |-> "diff", ref |-> "maxFeePips", other |-> "rootBaseLpFeePips"],
                             [form |-> "field", ref |-> "protocolShareBps"],
                             [form |-> "constMinusSquare", ref |-> "dynamicFeeSens", const |-> 5] >>, 4) >>,
     assign |-> << [field |-> "dynamicFeeSens", value |-> Parameter("dynamicFeeSens")],
                   [field |-> "maxFeePips", value |-> Parameter("maxFeePips")] >>]
LpRewards ==
    [kind |-> "LP_REWARDS_BPS", conflicts |-> {}, ensures |-> <<>>, params |-> << U("lpBps", 0, 2) >>,
     requires |-> << Comparison(Setting("lpBps"), "eq", Number(3)) >>, assign |-> << [field |-> "lpBps", value |-> Parameter("lpBps")] >>]

Contract(n, a, pin) == [name |-> n, address |-> a, pinned |-> pin, role |-> n, hash |-> n]
Originally(r, s, t) == << [target |-> "rulesConfig", word |-> 1, value |-> r], [target |-> "rulesConfig", word |-> 2, value |-> s],
                          [target |-> "rootRecord", word |-> 1, value |-> t] >>

D ==
    [revision |-> 2, chain |-> [engineFamily |-> "NITRO"],
     release |-> [manifest |-> {[role |-> "root", address |-> "aRoot", hash |-> "root"],
                                [role |-> "rules", address |-> "aRules", hash |-> "rules"]},
                  commitment |-> {[role |-> "root", address |-> "aRoot", hash |-> "root"],
                                  [role |-> "rules", address |-> "aRules", hash |-> "rules"]}],
     contracts |-> << Contract("root", "aRoot", TRUE), Contract("rules", "aRules", TRUE), Contract("targetToken", "token", FALSE) >>,
     pool |-> [currency0 |-> "eth", currency1 |-> "token", fee |-> 3, hooks |-> "root", poolId |-> <<"eth", "token", 3, "aRoot">>],
     targets |-> << [name |-> "rulesConfig", contract |-> "rules", slot |-> 10, words |-> 2, derived |-> TRUE,
                     namespace |-> "hookr.rules", fieldOffset |-> 1],
                    [name |-> "rootRecord", contract |-> "root", slot |-> 20, words |-> 1, derived |-> TRUE,
                     namespace |-> "hookr.root", fieldOffset |-> 0] >>,
     configurationTarget |-> "rulesConfig", fields |-> MCFields, originals |-> Originally(55, 8, 13),
     kinds |-> << DynamicFee, Tuning, LpRewards >>,
     action |-> [router |-> "root", count |-> 1, gas |-> <<5, 10>>], setup |-> [nonce |-> 0, requireOriginalAbsence |-> TRUE],
     measures |-> << [name |-> "gas", emitter |-> ""] >>]

(* One field moved onto another, kinds out of order, a one-sided conflict,   *)
(* an address assigned, an unpinned target, a word without an original; then *)
(* kinds that assign the same field without declaring a conflict, a swap of  *)
(* two fields, a narrower parameter, and other settings in the originals.    *)
WithOriginals(r, t) == [D EXCEPT !.originals = Originally(r, 8, t)]
MCDocuments ==
    [shipped  |-> D,
     overlap  |-> [D EXCEPT !.fields[3].offset = 3],
     unsorted |-> [D EXCEPT !.kinds = <<Tuning, DynamicFee, LpRewards>>],
     oneSided |-> [D EXCEPT !.kinds[1].conflicts = {}],
     payee    |-> [D EXCEPT !.kinds[3].assign[1].field = "royaltyTo"],
     unpinned |-> [D EXCEPT !.contracts[2].pinned = FALSE],
     partial  |-> [D EXCEPT !.originals = SubSeq(@, 1, 2)],
     rivals   |-> [D EXCEPT !.kinds[1].conflicts = {}, !.kinds[2].conflicts = {}],
     swap     |-> [D EXCEPT !.kinds[3].assign = << [field |-> "lpBps", value |-> Setting("protocolShareBps")],
                                                  [field |-> "protocolShareBps", value |-> Setting("lpBps")] >>],
     narrow   |-> [D EXCEPT !.kinds[3].params[1].max = 1],
     lowMax   |-> WithOriginals(53, 13), noSens |-> WithOriginals(51, 13), lp2 |-> WithOriginals(39, 13),
     mode2    |-> WithOriginals(55, 9), mode1 |-> WithOriginals(55, 5), mode2Low |-> WithOriginals(53, 9),
     base2    |-> WithOriginals(55, 14)]

Entry(h) == [descriptor |-> h, admits |-> {"OFFLINE_PREPARATION", "NATIVE_EXECUTION"},
             kinds |-> [k \in {"DYNAMIC_FEE", "DYNAMIC_FEE_TUNING", "LP_REWARDS_BPS"} |->
                           IF k = "DYNAMIC_FEE_TUNING" THEN "OFFLINE_PROBE_BIND_RULES_ONLY" ELSE "LEGACY_EQUIVALENT_SDK04"]]
Reviewed(h) == [entry |-> Entry(h), bytes |-> h]
MCShipped == Reviewed("shipped")
Pure == {Reviewed(h) : h \in DOMAIN MCDocuments}
Unmatched == [entry |-> Entry("shipped"), bytes |-> "narrow"]
OfflineOnly == [entry |-> [Entry("shipped") EXCEPT !.admits = {"OFFLINE_PREPARATION"}], bytes |-> "shipped"]
Promoted == [entry |-> [Entry("shipped") EXCEPT !.kinds["DYNAMIC_FEE_TUNING"] = "LEGACY_EQUIVALENT_SDK04"], bytes |-> "shipped"]
MCInstalls == Pure \cup {Unmatched, OfflineOnly, Promoted}

Lp(v) == [kind |-> "LP_REWARDS_BPS", parameters |-> [lpBps |-> v]]
Off == [kind |-> "DYNAMIC_FEE", parameters |-> [dynamicFee |-> "OFF"]]
Tune(s, m) == [kind |-> "DYNAMIC_FEE_TUNING", parameters |-> [dynamicFeeSens |-> s, maxFeePips |-> m]]
MCItems == {Lp(0), Lp(2), Lp(3), Off, Tune(1, 3), Tune(2, 2), Tune(3, 3), Tune(3, 2), Tune(1, 4),
            [kind |-> "RAW_WRITE", parameters |-> [word |-> 1]], [kind |-> "LP_REWARDS_BPS", parameters |-> [lp |-> 1]]}

MCPinnedWords == [rulesConfig |-> <<55, 8>>, rootRecord |-> <<13>>]
MCLayout == [maxFeePips |-> [target |-> "rulesConfig", word |-> 1, offset |-> 0, width |-> 2],
             dynamicFeeSens |-> [target |-> "rulesConfig", word |-> 1, offset |-> 2, width |-> 2],
             lpBps |-> [target |-> "rulesConfig", word |-> 1, offset |-> 4, width |-> 2],
             rootMode |-> [target |-> "rootRecord", word |-> 1, offset |-> 2, width |-> 3]]
MCBaseFee == [target |-> "rootRecord", word |-> 1, offset |-> 0, width |-> 2]

MCEngines == {"lp", "dynamic", "overlay", "descriptor"}
MCAcceptedEngine == [f \in Families |-> CASE f = "LP" -> "lp" [] f = "DYNAMIC" -> "dynamic" [] f = "OVERLAY" -> "overlay" [] OTHER -> "descriptor"]

Source(w, code, covered) == [words |-> w, code |-> code, covered |-> covered, engine |-> "lp"]
Good == Source(MCPinnedWords, TRUE, TRUE)
Drifted == Source([MCPinnedWords EXCEPT !.rulesConfig[2] = 9], TRUE, TRUE)
Partial == Source([MCPinnedWords EXCEPT !.rootRecord[1] = Absent], TRUE, TRUE)
MCSources == {Good, Drifted, Partial, Source(MCPinnedWords, FALSE, TRUE), Source(MCPinnedWords, TRUE, FALSE)}

Request(f, items, o, pin) == [profile |-> f, items |-> items, out |-> o, pin |-> pin]
Runtime(f) == [profile |-> f, engine |-> MCAcceptedEngine[f]]
Start(inst, w, rt, r1, r2, n) ==
    [installed |-> inst, witness |-> w, runtime |-> rt, requests |-> (j1 :> r1 @@ j2 :> r2), left |-> n]

(* Every list of at most two items on every descriptor, and a list of four.   *)
Lists == {<<>>, <<Off, Lp(0), Lp(2), Lp(2)>>} \cup {<<x>> : x \in MCItems} \cup {<<x, y>> : x, y \in MCItems}
PureStarts == {Start(i, Drifted, NoFile, Request("DESCRIPTOR", l, o1, Good), NoFile, 0) : i \in Pure, l \in Lists}

(* One preparation on every source and install, with two changes.             *)
Asked == {<<"LP", <<Lp(0)>> >>, <<"DYNAMIC", <<Off>> >>, <<"OVERLAY", <<Off, Lp(2)>> >>, <<"DESCRIPTOR", <<Off, Lp(2)>> >>,
          <<"DESCRIPTOR", <<Tune(1, 3)>> >>}
AloneStarts ==
    {Start(i, w, Runtime(a[1]), Request(a[1], a[2], o1, w), NoFile, 2) :
        i \in {MCShipped, OfflineOnly, Promoted, Reviewed("narrow")}, w \in MCSources, a \in Asked}
    \cup {Start(MCShipped, Good, [profile |-> f, engine |-> "lp"], Request(f, << Off >>, o1, Good), NoFile, 1) :
        f \in {"DYNAMIC", "OVERLAY", "DESCRIPTOR"}}

(* Two preparations, of one directory or of two, with one change.             *)
PairStarts ==
    {Start(MCShipped, Good, Runtime(f), Request(f, a, o1, Good), Request(f, b, o, Good), 1) :
        f \in {"OVERLAY", "DESCRIPTOR"}, a \in {<<Off>>}, b \in {<<Lp(0)>>, <<Off, Lp(2)>>}, o \in {o1, o2}}
    \cup {Start(MCShipped, Good, Runtime("LP"), Request("LP", <<Lp(0)>>, o1, Good), Request("LP", <<Lp(2)>>, o, Good), 1) : o \in {o1, o2}}

(* Nothing to prepare: the host alone.                                        *)
HostStart == Start(MCShipped, Good, NoFile, NoFile, NoFile, 0)

MCStarts == {HostStart} \cup PureStarts \cup AloneStarts \cup PairStarts
MCKindOrder == <<"DYNAMIC_FEE", "DYNAMIC_FEE_TUNING", "LP_REWARDS_BPS", "RAW_WRITE">>
-----------------------------------------------------------------------------
Nobody == \A j \in Jobs : job[j] = Idle(NoFile)

AInit == PInit /\ Init /\ (profile = "v4" \/ Nobody)

\* The host moves, or the preparations do.
ANext ==
  \/ Nobody /\ Next /\ UNCHANGED pvars
  \/ ~ Nobody /\ PNext /\ UNCHANGED vars

ASpec == AInit /\ [][ANext]_<<vars, pvars>>
=============================================================================
