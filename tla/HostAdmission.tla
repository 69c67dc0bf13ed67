---------------------------- MODULE HostAdmission ----------------------------
(***************************************************************************)
(* Admission of the host and its supervision while a worker runs, in the   *)
(* four versions that are in use:                                          *)
(*   legacy  run_once.py assess_host over pilot-host.mjs, at admission only*)
(*   v2      sdk_alpha/resources.py over host_sensor.c                     *)
(*   v3, v4  cases/scenario/host_v3.py, host_v4.py over host_v3_sensor.c   *)
(* A sensor reads the host one value after the other, around its memory    *)
(* pressure, while the host goes on; two samples make an admission; each   *)
(* runtime sample is judged against the one accepted before it, also by    *)
(* the next guard of a closure, and v4 keeps a summary instead of stopping *)
(* on a warning or on swap movement.                                       *)
(*                                                                         *)
(* Swap counters only grow, as those of a running kernel do.  There is no  *)
(* clock: a packet may be refused at any time for its shape, plausibility, *)
(* identity or timing (Unusable).  Compression counters, estimates and the *)
(* raw captures are left out.  A guard is either called while its stage    *)
(* runs or not at all: a call within 0.25 s of the last one does nothing.  *)
(***************************************************************************)
EXTENDS Integers, Sequences, FiniteSets

CONSTANTS
  MaxMoves,       \* bound: pages swapped in, and out, while we look
  MaxUsed,        \* bound on swap in use
  MaxFree,        \* bound on free pages
  AdmissionFree,  \* minimumAdmissionFreeBytes, in pages
  RuntimeFree,    \* minimumRuntimeFreeBytes, in pages
  MaxSamples,     \* bound: accepted runtime samples of one guard
  MaxGuards,      \* bound: guards that follow each other
  None

ASSUME HostAssumption ==
  /\ MaxMoves \in Nat /\ MaxUsed \in Nat /\ MaxFree \in Nat
  /\ AdmissionFree \in Nat /\ RuntimeFree \in Nat
  /\ MaxSamples \in Nat /\ MaxGuards \in Nat
  /\ None \notin Int

VARIABLES
  profile,
  host,      \* what the kernel would answer now
  at,        \* what the supervisor is doing
  packet,    \* the values the sensor at work has read so far
  read,      \* how many values
  previous,  \* the sample that the next one is judged against
  first,     \* the last admission packet, as the guard at work got it
  guard,     \* the RuntimeGuard at work
  guards,    \* how many there have been
  summary,   \* v4: SUMMARY.json
  chain,     \* history: every accepted packet, oldest first
  served     \* history: the packets that the guard at work has accepted

vars == <<profile, host, at, packet, read, previous, first, guard, guards, summary, chain, served>>

Profiles == {"legacy", "v2", "v3", "v4"}
Normal   == 1
Warning  == 2
Critical == 4
Pressures == {Normal, Warning, Critical}

NoPacket == [pressureBefore |-> Normal, usedBefore |-> 0, insBefore |-> 0, outsBefore |-> 0,
             ins |-> 0, outs |-> 0, free |-> 0, used |-> 0, pressureAfter |-> Normal]
NewGuard == [count |-> 0, maximum |-> None, warnings |-> 0, stop |-> FALSE]

Init ==
  /\ profile \in Profiles
  /\ host = [pressure |-> Normal, ins |-> 0, outs |-> 0, used |-> MaxUsed, free |-> MaxFree]
  /\ at = "idle" /\ packet = NoPacket /\ read = 0
  /\ previous = NoPacket /\ first = NoPacket
  /\ guard = NewGuard /\ guards = 0 /\ summary = None
  /\ chain = << >> /\ served = << >>

Looking == at \notin {"refused", "over"}
Sampling == at \in {"first", "second", "runtime"}
Goes(stage) == at' = stage /\ packet' = NoPacket /\ read' = 0

-----------------------------------------------------------------------------
(* The host, which nobody stops for a sample.  Swap in use grows only as   *)
(* pages are swapped out.  What a profile does not look at stays as it is: *)
(* free pages except in v2, and swap in use in v4.  Outside v4 every       *)
(* abnormal pressure is refused, and Warning stands for both.              *)

Seen == IF profile = "v4" THEN Pressures ELSE {Normal, Warning}
Uses(d) == IF profile = "v4" THEN host.used ELSE host.used + d

HostMoves ==
  /\ Looking
  /\ \/ \E p \in Seen : host' = [host EXCEPT !.pressure = p]
     \/ /\ host.outs < MaxMoves /\ Uses(1) <= MaxUsed
        /\ host' = [host EXCEPT !.outs = @ + 1, !.used = Uses(1)]
     \/ /\ host.ins < MaxMoves /\ Uses(-1) >= 0
        /\ \E used \in {host.used, Uses(-1)} : host' = [host EXCEPT !.ins = @ + 1, !.used = used]
     \/ Uses(-1) >= 0 /\ host' = [host EXCEPT !.used = Uses(-1)]
     \/ profile = "v2" /\ \E f \in 0 .. MaxFree : host' = [host EXCEPT !.free = f]
  /\ UNCHANGED <<profile, at, packet, read, previous, first, guard, guards, summary, chain, served>>

\* The order in which a sensor reads.  pilot-host.mjs runs vm_stat twice.
Readings == IF profile = "legacy" THEN 6 ELSE 5
Counted(p) == [p EXCEPT !.ins = host.ins, !.outs = host.outs, !.free = host.free]

ReadNext ==
  LET n == read + 1 IN
  /\ Sampling /\ n <= Readings
  /\ read' = n
  /\ packet' = CASE n = 1 -> [packet EXCEPT !.pressureBefore = host.pressure]
                 [] n = 2 -> [packet EXCEPT !.usedBefore = host.used]
                 [] n = 3 -> [Counted(packet) EXCEPT !.insBefore = host.ins, !.outsBefore = host.outs]
                 [] n = 4 /\ n < Readings - 1 -> Counted(packet)
                 [] n = Readings - 1 -> [packet EXCEPT !.used = host.used]
                 [] n = Readings -> [packet EXCEPT !.pressureAfter = host.pressure]
  /\ UNCHANGED <<profile, host, at, previous, first, guard, guards, summary, chain, served>>

Taken(stage) == at = stage /\ read = Readings

-----------------------------------------------------------------------------
(* The rules.                                                              *)

AtRest(s) == s.pressureBefore = Normal /\ s.pressureAfter = Normal

AssessLegacy(x, y) ==
  /\ AtRest(x) /\ AtRest(y)
  /\ x.insBefore <= x.ins /\ x.ins <= y.insBefore /\ y.insBefore <= y.ins
  /\ y.outs = x.outsBefore
  /\ x.used <= x.usedBefore /\ y.usedBefore <= x.used /\ y.used <= y.usedBefore

ValidV2(s) == AtRest(s) /\ s.used <= s.usedBefore

AssessV2(x, y, runtime) ==
  LET threshold == IF runtime THEN RuntimeFree ELSE AdmissionFree IN
  /\ \A s \in {x, y} : ValidV2(s) /\ s.free >= threshold
  /\ y.outs = x.outs
  /\ y.usedBefore <= x.used

ValidV3(s) == AtRest(s) /\ s.used <= s.usedBefore

AssessV3Monotone(x, y) ==   \* mutant: swap counters may grow, as in v4
  /\ ValidV3(x) /\ ValidV3(y)
  /\ y.ins >= x.ins /\ y.outs >= x.outs
  /\ y.usedBefore <= x.used

AssessV3(x, y) ==
  /\ ValidV3(x) /\ ValidV3(y)
  /\ y.ins = x.ins /\ y.outs = x.outs
  /\ y.usedBefore <= x.used

ValidV4(s) == s.pressureBefore # Critical /\ s.pressureAfter # Critical

AssessV4(x, y) ==
  /\ ValidV4(x) /\ ValidV4(y)
  /\ y.ins >= x.ins /\ y.outs >= x.outs

\* What the capture of one sample already asks for; the legacy observer takes both.
Captured(s) ==
  CASE profile = "legacy" -> TRUE [] profile = "v2" -> ValidV2(s)
    [] profile = "v3" -> ValidV3(s) [] profile = "v4" -> ValidV4(s)

Accepts(x, y, runtime) ==
  CASE profile = "legacy" -> AssessLegacy(x, y) [] profile = "v2" -> AssessV2(x, y, runtime)
    [] profile = "v3" -> AssessV3(x, y) [] profile = "v4" -> AssessV4(x, y)

-----------------------------------------------------------------------------
(* admission: two samples, a second apart.                                 *)

BeginAdmission ==
  /\ at = "idle" /\ Goes("first")
  /\ UNCHANGED <<profile, host, previous, first, guard, guards, summary, chain, served>>

FirstSample ==
  /\ Taken("first")
  /\ IF Captured(packet)
     THEN previous' = packet /\ Goes("second")
     ELSE Goes("refused") /\ UNCHANGED previous
  /\ UNCHANGED <<profile, host, first, guard, guards, summary, chain, served>>

SecondSample ==
  /\ Taken("second")
  /\ IF Accepts(previous, packet, FALSE)
     THEN /\ Goes("admitted") /\ previous' = packet
          /\ chain' = <<previous, packet>>
     ELSE Goes("refused") /\ UNCHANGED <<previous, chain>>
  /\ UNCHANGED <<profile, host, first, guard, guards, summary, served>>

\* Nothing watches the host after a legacy admission.
LegacyRun ==
  /\ at = "admitted" /\ profile = "legacy" /\ at' = "over"
  /\ UNCHANGED <<profile, host, packet, read, previous, first, guard, guards, summary, chain, served>>

-----------------------------------------------------------------------------
(* RuntimeGuard, polled between the worker's own samples.                  *)

Guards ==
  /\ at' = "running"
  /\ guard' = NewGuard /\ guards' = guards + 1
  /\ first' = previous /\ served' = << >>
  /\ UNCHANGED <<profile, host, packet, read, previous, summary, chain>>

Supervise == at = "admitted" /\ profile # "legacy" /\ Guards

\* A closure's stage goes on from the guard that watched while its broker started.
HandOver == at = "running" /\ profile = "v3" /\ guards < MaxGuards /\ Guards

Poll ==
  /\ at = "running" /\ guard.count < MaxSamples /\ Goes("runtime")
  /\ UNCHANGED <<profile, host, previous, first, guard, guards, summary, chain, served>>

Higher(m, p) == IF m = None \/ m < p THEN p ELSE m
WarnedPacket(s) ==   \* mutant: packets are counted, not readings
  IF Warning \in {s.pressureBefore, s.pressureAfter} THEN 1 ELSE 0

Warnings(s) == (IF s.pressureBefore = Warning THEN 1 ELSE 0) + (IF s.pressureAfter = Warning THEN 1 ELSE 0)

\* v2 and v3 count only.
Counts(g, s) ==
  [g EXCEPT !.count = @ + 1,
            !.maximum = IF profile = "v4" THEN Higher(Higher(@, s.pressureBefore), s.pressureAfter) ELSE @,
            !.warnings = IF profile = "v4" THEN @ + Warnings(s) ELSE @]

Stops(g) == Goes("stopped") /\ guard' = [g EXCEPT !.stop = TRUE]

RuntimeSample ==
  /\ Taken("runtime")
  /\ IF Accepts(previous, packet, TRUE)
     THEN /\ Goes("running") /\ guard' = Counts(guard, packet)
          /\ previous' = packet
          /\ chain' = Append(chain, packet) /\ served' = Append(served, packet)
     ELSE Stops(guard) /\ UNCHANGED <<previous, chain, served>>
  /\ UNCHANGED <<profile, host, first, guards, summary>>

\* A sensor that fails, is slow or answers nonsense; and, at runtime, the stage's own
\* alarm, which the guard takes for a stop of the host.
Unusable ==
  /\ Sampling
  /\ IF at = "runtime" THEN Stops(guard) ELSE Goes("refused") /\ UNCHANGED guard
  /\ UNCHANGED <<profile, host, previous, first, guards, summary, chain, served>>

\* summary(): nothing is measured without a runtime packet.
Summary(g, x, y) ==
  [samples  |-> g.count,
   maximum  |-> g.maximum,
   warnings |-> IF g.count > 0 THEN g.warnings ELSE None,
   ins      |-> IF g.count > 0 THEN y.ins - x.ins ELSE None,
   outs     |-> IF g.count > 0 THEN y.outs - x.outs ELSE None,
   stopped  |-> g.stop]

StageEnds ==
  /\ at \in {"running", "stopped"} /\ at' = "over"
  /\ summary' = IF profile = "v4" THEN Summary(guard, first, previous) ELSE None
  /\ UNCHANGED <<profile, host, packet, read, previous, first, guard, guards, chain, served>>

Next ==
  \/ HostMoves \/ ReadNext
  \/ BeginAdmission \/ FirstSample \/ SecondSample \/ LegacyRun
  \/ Supervise \/ HandOver \/ Poll \/ RuntimeSample \/ Unusable \/ StageEnds

Spec == Init /\ [][Next]_vars

-----------------------------------------------------------------------------
(* Properties. *)

\* Unless v4 is in use, the host swapped nothing out from the first reading of the
\* admission to the last accepted reading, whichever guard took it, and under v3 it
\* swapped nothing in: that no two neighbours differ is asked of each pair alone.
\* Swap in use never grew from one reading to a later one.
StoodStill ==
  profile # "v4" =>
    \A m, n \in 1 .. Len(chain) : m <= n =>
      /\ AtRest(chain[n])
      /\ chain[n].outs = chain[m].outs
      /\ profile = "legacy" => chain[n].outs = chain[m].outsBefore
      /\ profile = "v3" => chain[n].ins = chain[m].ins
      /\ chain[n].used <= chain[m].usedBefore

\* The summary, which is kept packet by packet, tells what the accepted packets of
\* the stage say together: no refused packet counts, the movement is what the host
\* swapped since the last admission packet, and nothing is measured without one.
SummaryIsTrue ==
  summary # None =>
    LET taken    == 1 .. Len(served)
        readings == {<<n, k>> : n \in taken, k \in {"pressureBefore", "pressureAfter"}}
        Level(r) == served[r[1]][r[2]]
    IN /\ chain = <<chain[1], chain[2]>> \o served
       /\ summary.samples = Len(served)
       /\ Critical \notin {Level(r) : r \in readings}
       /\ taken = {} => {summary.maximum, summary.warnings, summary.ins, summary.outs} = {None}
       /\ taken # {} =>
            /\ \A r \in readings : Level(r) <= summary.maximum
            /\ \E r \in readings : Level(r) = summary.maximum
            /\ summary.warnings = Cardinality({r \in readings : Level(r) = Warning})
            /\ summary.outs = chain[Len(chain)].outs - chain[2].outs
            /\ summary.ins = chain[Len(chain)].ins - chain[2].ins
=============================================================================
