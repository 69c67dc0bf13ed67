--------------------------- MODULE ConfigOverlay ---------------------------
(***************************************************************************)
(* The two compiled ways to change a Hookr configuration that the          *)
(* descriptor interpreter must reproduce: the fixed registry of the        *)
(* config-overlay worker (src/sdk/rhook_alpha/config_overlay.py) and the   *)
(* single interventions of SDK 0.4 (interventions.py).                     *)
(*                                                                         *)
(* Words and fields are those of ProfileDescriptor.  Layout gives the      *)
(* position of each registered field (FIELDS); BaseFee is the position of  *)
(* the base LP fee inside the Root record.  LpOriginal stands for LP100,   *)
(* ModeOn and ModeOff for the values 3 and 2 of the mode byte.             *)
(***************************************************************************)
EXTENDS ProfileDescriptor

CONSTANTS Layout,       \* field name -> [target, word, offset, width]
          BaseFee,      \* [target, word, offset, width]
          LpOriginal, ModeOn, ModeOff,
          PinnedWords   \* the reviewed original words

ASSUME OverlayAssumption ==
    /\ DOMAIN Layout = {"maxFeePips", "dynamicFeeSens", "lpBps", "rootMode"}
    /\ \A n \in DOMAIN Layout :
          /\ DOMAIN Layout[n] = {"target", "word", "offset", "width"}
          /\ Layout[n].offset \in Nat
          /\ Layout[n].width \in Nat
    /\ LpOriginal \in Nat
    /\ ModeOn \in Nat
    /\ ModeOff \in Nat

(* Where the LP setting lies: a natural word that is there, and a field wide  *)
(* enough for LP100.                                                          *)
ASSUME LayoutAssumption ==
    LET f == Layout.lpBps
    IN  /\ f.target \in DOMAIN PinnedWords
        /\ f.word \in DOMAIN PinnedWords[f.target]
        /\ PinnedWords[f.target][f.word] \in Nat
        /\ LpOriginal <= 2 ^ f.width

BitsOf(f) == {<<f.target, f.word, b>> : b \in Mask(f)}
SetField(words, f, v) == [words EXCEPT ![f.target][f.word] = PutField(@, f, v)]

ProfileBase == GetField(PinnedWords, BaseFee)

(* Mutant of Rule: the sensitivity of the original is not looked at.          *)
RuleWhateverSensitivity(item) ==
    CASE item.kind = "LP_REWARDS_BPS" ->
               << [field |-> "lpBps", from |-> {LpOriginal}, to |-> item.parameters.lpBps] >>
      [] item.kind = "DYNAMIC_FEE" ->
               << [field |-> "maxFeePips", from |-> (ProfileBase + 1) .. (2 ^ Layout.maxFeePips.width), to |-> ProfileBase],
                  [field |-> "dynamicFeeSens", from |-> Nat, to |-> 0],
                  [field |-> "rootMode", from |-> {ModeOn}, to |-> ModeOff] >>

(* What one registered intervention writes: the field, the settings its       *)
(* original may have and the value that replaces them.                        *)
Rule(item) ==
    CASE item.kind = "LP_REWARDS_BPS" ->
               << [field |-> "lpBps", from |-> {LpOriginal}, to |-> item.parameters.lpBps] >>
          [] item.kind = "DYNAMIC_FEE" ->
               << [field |-> "maxFeePips", from |-> (ProfileBase + 1) .. (2 ^ Layout.maxFeePips.width), to |-> ProfileBase],
                  [field |-> "dynamicFeeSens", from |-> 1 .. (2 ^ Layout.dynamicFeeSens.width), to |-> 0],
                  [field |-> "rootMode", from |-> {ModeOn}, to |-> ModeOff] >>

Registered == {"LP_REWARDS_BPS", "DYNAMIC_FEE"}

RegistryParameterOk(item) ==
    CASE item.kind = "LP_REWARDS_BPS" ->
            /\ DOMAIN item.parameters = {"lpBps"}
            /\ item.parameters.lpBps \in 0 .. (LpOriginal - 1)
      [] item.kind = "DYNAMIC_FEE" ->
            /\ DOMAIN item.parameters = {"dynamicFee"}
            /\ item.parameters.dynamicFee = "OFF"

OverlayRefusal(items) ==
    LET kinds == {x.kind : x \in Items(items)}
    IN  IF Len(items) \notin 1 .. Cardinality(Registered) THEN "COUNT"
        ELSE IF ~(kinds \subseteq Registered) THEN "UNKNOWN_INTERVENTION"
        ELSE IF Cardinality(kinds) # Len(items) THEN "DUPLICATE_KIND"
        ELSE "OK"

(* One row of a rule: the bits must be free, the original must have a         *)
(* setting the intervention replaces, the value must fit.                     *)
ApplyRow(acc, original, row) ==
    LET f == Layout[row.field]
    IN  IF acc.code # "OK" THEN acc
        ELSE IF acc.used \cap BitsOf(f) # {} THEN [acc EXCEPT !.code = "MASK_CONFLICT"]
        ELSE IF GetField(original, f) \notin row.from THEN [acc EXCEPT !.code = "ORIGINAL_PRECONDITION"]
        ELSE IF row.to \notin 0 .. (2 ^ f.width - 1) THEN [acc EXCEPT !.code = "VALUE_WIDTH"]
        ELSE [acc EXCEPT !.used = @ \cup BitsOf(f),
                         !.words = SetField(@, f, row.to),
                         !.applied = @ \cup {row}]

ApplyItem(acc, original, item) ==
    IF acc.code # "OK" THEN acc
    ELSE IF ~RegistryParameterOk(item) THEN [acc EXCEPT !.code = "PARAMETER"]
    ELSE FoldLeft(LAMBDA a, row : ApplyRow(a, original, row), acc, Rule(item))

Overlaid(original, w) ==
    IF w.code # "OK" THEN Refused(w.code)
    ELSE IF ~(Changed(w.words, original) \subseteq w.used) THEN Refused("NON_TARGET_BITS")
    ELSE IF \E r \in w.applied : GetField(w.words, Layout[r.field]) # r.to THEN Refused("FIELD_VALUE")
    ELSE IF \E b \in w.used : w.words[b[1]][b[2]] = original[b[1]][b[2]] THEN Refused("NO_EFFECT")
    ELSE [code |-> "OK", words |-> w.words]

(* The registry applies the items in the order it is given.                   *)
ComposeOverlay(items, original) ==
    IF OverlayRefusal(items) # "OK" THEN Refused(OverlayRefusal(items))
    ELSE Overlaid(original,
                  FoldLeft(LAMBDA a, x : ApplyItem(a, original, x),
                           [code |-> "OK", words |-> original, used |-> {}, applied |-> {}], items))

-----------------------------------------------------------------------------
(* The single interventions of SDK 0.4: the exact rewrite of each kind.        *)

ModeBit == [Layout.rootMode EXCEPT !.width = 1]

SingleWrites(item, original) ==
    IF ~RegistryParameterOk(item) THEN Refused("PARAMETER")
    ELSE IF \/ original[Layout.lpBps.target] # PinnedWords[Layout.lpBps.target]
            \/ GetField(original, BaseFee) # ProfileBase
            \/ GetField(original, Layout.rootMode) # ModeOn THEN Refused("TARGET_STATE")
    ELSE IF item.kind = "LP_REWARDS_BPS"
    THEN [code |-> "OK", words |-> SetField(original, Layout.lpBps, item.parameters.lpBps)]
    ELSE IF /\ GetField(original, Layout.maxFeePips) > ProfileBase
            /\ GetField(original, Layout.dynamicFeeSens) > 0
    THEN [code |-> "OK",
          words |-> SetField(SetField(SetField(original, Layout.maxFeePips, ProfileBase),
                                      Layout.dynamicFeeSens, 0),
                             ModeBit, 0)]
    ELSE Refused("HOOK_BLOCK_NOT_ACTIVE")
=============================================================================
