--------------------------- MODULE AdmissionProofs ---------------------------
(***************************************************************************)
(* What is admitted to a run.  Of the host: that a host accepted pair by   *)
(* pair stood still as a whole, for hosts of any size, any number of       *)
(* samples and any number of guards (HostAdmission).  Of the input: that a *)
(* prepared directory is one derivation and that both worlds are those of  *)
(* the plan, for any descriptors, sources, requests and replacements       *)
(* (ScenarioPreparation).  Of the words themselves: that a descriptor that *)
(* validate accepts composes any list as a parallel assignment             *)
(* (ProfileDescriptor), and that on the shipped layout the interpreter,    *)
(* the registry and SDK 0.4 write the same (ConfigOverlay).                *)
(***************************************************************************)
EXTENDS HostAdmission, ScenarioPreparation, SequenceTheorems, FiniteSetTheorems, WellFoundedInduction, TLAPS

-----------------------------------------------------------------------------
(* The host. *)

Stages == {"idle", "first", "second", "refused", "admitted", "running", "runtime", "stopped", "over"}
Packets == [pressureBefore : Pressures, usedBefore : Int, insBefore : Int, outsBefore : Int,
            ins : Int, outs : Int, free : Int, used : Int, pressureAfter : Pressures]
GuardStates == [count : Nat, maximum : Pressures \cup {None}, warnings : Nat, stop : BOOLEAN]

TypeOK ==
  /\ profile \in Profiles
  /\ host \in [pressure : Pressures, ins : Int, outs : Int, used : Int, free : Int]
  /\ at \in Stages
  /\ packet \in Packets /\ read \in Nat
  /\ previous \in Packets /\ first \in Packets
  /\ guard \in GuardStates /\ guards \in Nat
  /\ chain \in Seq(Packets) /\ served \in Seq(Packets)

\* The sensor's two readings of the swap counters, and those of two samples, are in the
\* order in which they were taken: the counters only grow.
CountersOnlyGrow ==
  /\ Sampling /\ read >= 3 => packet.outsBefore <= packet.outs /\ packet.outs <= host.outs
  /\ at = "second" => previous.outsBefore <= previous.outs /\ previous.outs <= host.outs
  /\ at = "second" /\ read >= 3 => previous.outs <= packet.outsBefore

\* What is judged next is judged against the last accepted packet.
ChainKnown ==
  /\ at \in {"idle", "first", "second", "refused"} => chain = << >>
  /\ at \in {"admitted", "running", "runtime", "stopped"} =>
       Len(chain) >= 2 /\ previous = chain[Len(chain)]
  /\ at \in {"running", "runtime"} => profile # "legacy"

IInv == TypeOK /\ CountersOnlyGrow /\ ChainKnown /\ StoodStill

-----------------------------------------------------------------------------
(* The rules on two packets. *)

\* What every profile but v4 asks of two packets that follow each other, and what the
\* observer of the legacy profile adds, given that counters only grow.
LEMMA PairStandsStill ==
  ASSUME NEW x \in Packets, NEW y \in Packets, NEW live \in BOOLEAN,
         profile \in Profiles \ {"v4"}, Accepts(x, y, live),
         profile = "legacy" =>
           /\ x.outsBefore <= x.outs /\ x.outs <= y.outsBefore /\ y.outsBefore <= y.outs
  PROVE  /\ AtRest(x) /\ AtRest(y)
         /\ x.outs = y.outs
         /\ x.used <= x.usedBefore /\ y.used <= y.usedBefore /\ y.usedBefore <= x.used
         /\ profile = "v3" => x.ins = y.ins
         /\ profile = "legacy" => x.outs = x.outsBefore /\ y.outs = y.outsBefore
<1>1. CASE profile = "legacy"
  <2>1. AssessLegacy(x, y)
    BY <1>1 DEF Accepts
  <2> QED BY <1>1, <2>1 DEF AssessLegacy, Packets
<1>2. CASE profile = "v2"
  <2>1. AssessV2(x, y, live)
    BY <1>2 DEF Accepts
  <2>2. AtRest(x) /\ AtRest(y) /\ x.used <= x.usedBefore /\ y.used <= y.usedBefore
    BY <2>1 DEF AssessV2, ValidV2
  <2> QED BY <1>2, <2>1, <2>2 DEF AssessV2
<1>3. CASE profile = "v3"
  <2>1. AssessV3(x, y)
    BY <1>3 DEF Accepts
  <2> QED BY <1>3, <2>1 DEF AssessV3, ValidV3
<1> QED BY <1>1, <1>2, <1>3 DEF Profiles

\* The v4 rules are weaker than the v3 rules: what v3 accepts, v4 accepts.
LEMMA V3ImpliesV4 ==
  ASSUME NEW x \in Packets, NEW y \in Packets, AssessV3(x, y)
  PROVE  AssessV4(x, y)
BY DEF AssessV3, ValidV3, AssessV4, ValidV4, AtRest, Normal, Critical, Packets

-----------------------------------------------------------------------------
(* Types. *)

LEMMA InitTyped == Init => TypeOK
BY HostAssumption DEF Init, TypeOK, Stages, Packets, GuardStates, NoPacket, NewGuard,
   Pressures, Normal, Warning, Critical

LEMMA ReadNextTyped ==
  ASSUME TypeOK, ReadNext
  PROVE  packet' \in Packets /\ read' \in Nat
<1> DEFINE n == read + 1
<1>1. n \in 1 .. 6 /\ Readings \in {5, 6} /\ n <= Readings /\ read' = n
  BY DEF TypeOK, ReadNext, Readings
<1>2. host.pressure \in Pressures /\ host.ins \in Int /\ host.outs \in Int
      /\ host.used \in Int /\ host.free \in Int
  BY DEF TypeOK
<1>3. packet \in Packets /\ Counted(packet) \in Packets
  BY <1>2 DEF TypeOK, Counted, Packets
<1>4. \/ packet' = [packet EXCEPT !.pressureBefore = host.pressure]
      \/ packet' = [packet EXCEPT !.usedBefore = host.used]
      \/ packet' = [Counted(packet) EXCEPT !.insBefore = host.ins, !.outsBefore = host.outs]
      \/ packet' = Counted(packet)
      \/ packet' = [packet EXCEPT !.used = host.used]
      \/ packet' = [packet EXCEPT !.pressureAfter = host.pressure]
  <2>1. n = 1 \/ n = 2 \/ n = 3 \/ (n = 4 /\ n < Readings - 1) \/ n = Readings - 1 \/ n = Readings
    BY <1>1
  <2> QED BY <2>1 DEF ReadNext
<1>5. [packet EXCEPT !.pressureBefore = host.pressure] \in Packets
  BY <1>2, <1>3 DEF Packets
<1>6. [packet EXCEPT !.usedBefore = host.used] \in Packets
  BY <1>2, <1>3 DEF Packets
<1>7. [Counted(packet) EXCEPT !.insBefore = host.ins, !.outsBefore = host.outs] \in Packets
  <2> DEFINE c == Counted(packet)
  <2>1. c \in Packets
    BY <1>3
  <2> HIDE DEF c
  <2>2. [c EXCEPT !.insBefore = host.ins, !.outsBefore = host.outs] \in Packets
    BY <1>2, <2>1 DEF Packets
  <2> QED BY <2>2 DEF c
<1>8. [packet EXCEPT !.used = host.used] \in Packets
  BY <1>2, <1>3 DEF Packets
<1>9. [packet EXCEPT !.pressureAfter = host.pressure] \in Packets
  BY <1>2, <1>3 DEF Packets
<1>10. read' \in Nat
  BY <1>1
<1> QED BY <1>3, <1>4, <1>5, <1>6, <1>7, <1>8, <1>9, <1>10

\* A guard that counts an accepted packet, or stops.
LEMMA GuardTyped ==
  ASSUME NEW g \in GuardStates, NEW p \in Packets, profile \in Profiles
  PROVE  Counts(g, p) \in GuardStates /\ [g EXCEPT !.stop = TRUE] \in GuardStates
<1>1. p.pressureBefore \in Pressures /\ p.pressureAfter \in Pressures
  BY DEF Packets
<1>2. g.count + 1 \in Nat /\ g.maximum \in Pressures \cup {None} /\ g.warnings + Warnings(p) \in Nat
  BY DEF GuardStates, Warnings
<1>3. Higher(Higher(g.maximum, p.pressureBefore), p.pressureAfter) \in Pressures \cup {None}
  BY <1>1, <1>2 DEF Higher
<1>4. [g EXCEPT !.stop = TRUE] \in GuardStates
  BY DEF GuardStates
<1> DEFINE max == IF profile = "v4" THEN Higher(Higher(g.maximum, p.pressureBefore), p.pressureAfter) ELSE g.maximum
           warn == IF profile = "v4" THEN g.warnings + Warnings(p) ELSE g.warnings
<1>5. max \in Pressures \cup {None} /\ warn \in Nat
  BY <1>2, <1>3 DEF GuardStates
<1>6. Counts(g, p) = [g EXCEPT !.count = g.count + 1, !.maximum = max, !.warnings = warn]
  BY DEF Counts, GuardStates
<1> HIDE DEF max, warn
<1>7. [g EXCEPT !.count = g.count + 1, !.maximum = max, !.warnings = warn] \in GuardStates
  BY <1>2, <1>5 DEF GuardStates
<1> QED BY <1>4, <1>6, <1>7

\* The host in itself: what the counters and the memory may do.
LEMMA HostTyped ==
  ASSUME TypeOK, HostMoves
  PROVE  /\ host' \in [pressure : Pressures, ins : Int, outs : Int, used : Int, free : Int]
         /\ host.outs <= host'.outs
<1> DEFINE Hosts == [pressure : Pressures, ins : Int, outs : Int, used : Int, free : Int]
<1>0. host \in Hosts /\ host.used \in Int /\ Uses(1) \in Int /\ Uses(-1) \in Int
  BY DEF TypeOK, Uses
<1>1. CASE \E p \in Seen : host' = [host EXCEPT !.pressure = p]
  BY <1>1 DEF TypeOK, Seen, Pressures
<1>2. CASE host' = [host EXCEPT !.outs = @ + 1, !.used = Uses(1)]
  <2> DEFINE u == Uses(1)
  <2>1. u \in Int /\ host' = [host EXCEPT !.outs = host.outs + 1, !.used = u]
    BY <1>0, <1>2
  <2> HIDE DEF u
  <2>2. host' = [pressure |-> host.pressure, ins |-> host.ins, outs |-> host.outs + 1, used |-> u, free |-> host.free]
    BY <1>0, <2>1
  <2>3. host.outs \in Int /\ host.outs + 1 \in Int
    BY <1>0
  <2> QED BY <1>0, <2>1, <2>2, <2>3
<1>3. CASE \E used \in {host.used, Uses(-1)} : host' = [host EXCEPT !.ins = @ + 1, !.used = used]
  <2>1. PICK u \in Int : host' = [host EXCEPT !.ins = host.ins + 1, !.used = u]
    BY <1>0, <1>3
  <2>2. host' = [pressure |-> host.pressure, ins |-> host.ins + 1, outs |-> host.outs, used |-> u, free |-> host.free]
    BY <1>0, <2>1
  <2>3. host.ins + 1 \in Int /\ host.outs <= host.outs
    BY <1>0
  <2> QED BY <1>0, <2>1, <2>2, <2>3
<1>4. CASE host' = [host EXCEPT !.used = Uses(-1)]
  <2> DEFINE u == Uses(-1)
  <2>1. u \in Int /\ host' = [host EXCEPT !.used = u]
    BY <1>0, <1>4
  <2> HIDE DEF u
  <2> QED BY <1>0, <2>1
<1>5. CASE \E f \in 0 .. MaxFree : host' = [host EXCEPT !.free = f]
  <2>1. PICK f \in 0 .. MaxFree : host' = [host EXCEPT !.free = f]
    BY <1>5
  <2>2. f \in Int
    OBVIOUS
  <2> QED BY <1>0, <2>1, <2>2
<1> QED BY <1>1, <1>2, <1>3, <1>4, <1>5 DEF HostMoves

LEMMA StepTyped == TypeOK /\ [Next]_vars => TypeOK'
<1> SUFFICES ASSUME TypeOK, [Next]_vars PROVE TypeOK'
  OBVIOUS
<1>0. NoPacket \in Packets /\ NewGuard \in GuardStates
  BY DEF NoPacket, Packets, NewGuard, GuardStates, Pressures, Normal
<1>1. CASE HostMoves
  BY <1>1, HostTyped DEF HostMoves, TypeOK
<1>2. CASE ReadNext
  <2>1. packet' \in Packets /\ read' \in Nat
    BY <1>2, ReadNextTyped
  <2> QED BY <1>2, <2>1 DEF ReadNext, TypeOK
<1>3. CASE BeginAdmission
  BY <1>3, <1>0 DEF BeginAdmission, TypeOK, Goes, Stages
<1>4. CASE FirstSample
  BY <1>4, <1>0 DEF FirstSample, TypeOK, Goes, Stages
<1>5. CASE SecondSample
  <2>1. CASE Accepts(previous, packet, FALSE)
    <3>1. <<previous, packet>> \in Seq(Packets)
      BY DEF TypeOK
    <3>2. chain' \in Seq(Packets) /\ previous' \in Packets /\ at' \in Stages
          /\ packet' \in Packets /\ read' \in Nat
      <4>1. chain' = <<previous, packet>> /\ previous' = packet /\ at' = "admitted"
            /\ packet' = NoPacket /\ read' = 0
        BY <1>5, <2>1 DEF SecondSample, Goes
      <4> QED BY <1>0, <3>1, <4>1 DEF TypeOK, Stages
    <3> QED BY <1>5, <3>2 DEF SecondSample, TypeOK
  <2>2. CASE ~Accepts(previous, packet, FALSE)
    BY <1>5, <1>0, <2>2 DEF SecondSample, TypeOK, Goes, Stages
  <2> QED BY <2>1, <2>2
<1>6. CASE LegacyRun
  BY <1>6 DEF LegacyRun, TypeOK, Stages
<1>7. CASE Supervise \/ HandOver
  <2>1. Guards
    BY <1>7 DEF Supervise, HandOver
  <2>2. << >> \in Seq(Packets)
    OBVIOUS
  <2>3. guards' \in Nat
    BY <2>1 DEF Guards, TypeOK
  <2> QED BY <1>0, <2>1, <2>2, <2>3 DEF Guards, TypeOK, Stages
<1>8. CASE Poll
  BY <1>8, <1>0 DEF Poll, TypeOK, Goes, Stages
<1>9. CASE RuntimeSample
  <2>1. Counts(guard, packet) \in GuardStates /\ [guard EXCEPT !.stop = TRUE] \in GuardStates
    BY GuardTyped DEF TypeOK
  <2>2. Append(chain, packet) \in Seq(Packets) /\ Append(served, packet) \in Seq(Packets)
    BY DEF TypeOK
  <2>3. CASE Accepts(previous, packet, TRUE)
    <3>1. at' = "running" /\ packet' = NoPacket /\ read' = 0 /\ guard' = Counts(guard, packet)
          /\ previous' = packet /\ chain' = Append(chain, packet) /\ served' = Append(served, packet)
          /\ UNCHANGED <<profile, host, first, guards>>
      BY <1>9, <2>3 DEF RuntimeSample, Goes
    <3>2. at' \in Stages /\ read' \in Nat
      BY <3>1 DEF Stages
    <3> QED BY <1>0, <2>1, <2>2, <3>1, <3>2 DEF TypeOK
  <2>4. CASE ~Accepts(previous, packet, TRUE)
    <3>1. at' = "stopped" /\ packet' = NoPacket /\ read' = 0 /\ guard' = [guard EXCEPT !.stop = TRUE]
          /\ UNCHANGED <<profile, host, previous, first, guards, chain, served>>
      BY <1>9, <2>4 DEF RuntimeSample, Stops, Goes
    <3>2. at' \in Stages /\ read' \in Nat
      BY <3>1 DEF Stages
    <3> QED BY <1>0, <2>1, <3>1, <3>2 DEF TypeOK
  <2> QED BY <2>3, <2>4
<1>10. CASE Unusable
  <2>1. [guard EXCEPT !.stop = TRUE] \in GuardStates
    BY GuardTyped DEF TypeOK
  <2>2. at' \in Stages /\ packet' = NoPacket /\ read' = 0 /\ guard' \in {guard, [guard EXCEPT !.stop = TRUE]}
    BY <1>10 DEF Unusable, Stops, Goes, Stages
  <2> QED BY <1>10, <1>0, <2>1, <2>2 DEF Unusable, TypeOK
<1>11. CASE StageEnds
  BY <1>11 DEF StageEnds, TypeOK, Stages
<1>12. CASE UNCHANGED vars
  BY <1>12 DEF vars, TypeOK
<1> QED BY <1>1, <1>2, <1>3, <1>4, <1>5, <1>6, <1>7, <1>8, <1>9, <1>10, <1>11, <1>12 DEF Next

-----------------------------------------------------------------------------
(* Counters and chain. *)

LEMMA CountersStep == TypeOK /\ CountersOnlyGrow /\ [Next]_vars => CountersOnlyGrow'
<1> SUFFICES ASSUME TypeOK, CountersOnlyGrow, [Next]_vars PROVE CountersOnlyGrow'
  OBVIOUS
<1> USE DEF CountersOnlyGrow, Sampling
<1>1. CASE HostMoves
  <2>1. host.outs \in Int /\ host'.outs \in Int /\ host.outs <= host'.outs
    BY <1>1, HostTyped DEF TypeOK
  <2>2. packet.outs \in Int /\ previous.outs \in Int
    BY DEF TypeOK, Packets
  <2>3. UNCHANGED <<at, packet, read, previous>>
    BY <1>1 DEF HostMoves
  <2> QED BY <2>1, <2>2, <2>3
<1>2. CASE ReadNext
  <2> DEFINE n == read + 1
  <2>1. n \in Nat /\ Readings \in {5, 6} /\ n <= Readings /\ read' = n /\ at' = at
        /\ UNCHANGED <<host, previous>> /\ Sampling
    BY <1>2 DEF TypeOK, ReadNext, Readings
  <2>2. packet.outs \in Int /\ packet.outsBefore \in Int /\ host.outs \in Int /\ previous.outs \in Int
    BY DEF TypeOK, Packets
  <2>3. CASE n = 3
    <3>1. packet' = [Counted(packet) EXCEPT !.insBefore = host.ins, !.outsBefore = host.outs]
      BY <1>2, <2>3, <2>1 DEF ReadNext
    <3>2. packet'.outs = host.outs /\ packet'.outsBefore = host.outs
      BY <3>1 DEF Counted, TypeOK, Packets
    <3> QED BY <3>2, <2>1, <2>2, <2>3
  <2>4. CASE n = 4 /\ n < Readings - 1
    <3>1. packet' = Counted(packet)
      BY <1>2, <2>4, <2>1 DEF ReadNext
    <3>2. packet'.outs = host.outs /\ packet'.outsBefore = packet.outsBefore
      BY <3>1 DEF Counted, TypeOK, Packets
    <3>3. read >= 3
      BY <2>4 DEF TypeOK
    <3>4. packet.outsBefore <= packet.outs /\ packet.outs <= host.outs
          /\ (at = "second" => previous.outs <= packet.outsBefore)
      BY <2>1, <3>3
    <3> HIDE DEF n
    <3> QED BY <3>2, <3>4, <2>1, <2>2
  <2>5. CASE n >= 4 /\ ~(n = 4 /\ n < Readings - 1)
    <3>1. \/ packet' = [packet EXCEPT !.used = host.used]
          \/ packet' = [packet EXCEPT !.pressureAfter = host.pressure]
      BY <1>2, <2>5, <2>1 DEF ReadNext
    <3>2. packet'.outs = packet.outs /\ packet'.outsBefore = packet.outsBefore
      BY <3>1 DEF TypeOK, Packets
    <3>3. read >= 3 /\ Sampling
      BY <2>1, <2>5 DEF TypeOK
    <3> QED BY <3>2, <3>3, <2>1, <2>2
  <2>6. CASE n < 3
    BY <2>6, <2>1
  <2> QED BY <2>1, <2>3, <2>4, <2>5, <2>6
<1>3. CASE FirstSample
  <2>1. packet.outsBefore <= packet.outs /\ packet.outs <= host.outs
    BY <1>3 DEF FirstSample, Taken, Readings
  <2> QED BY <1>3, <2>1 DEF FirstSample, Goes
<1>4. CASE BeginAdmission \/ Poll
  BY <1>4 DEF BeginAdmission, Poll, Goes
<1>5. CASE SecondSample \/ LegacyRun \/ Supervise \/ HandOver \/ RuntimeSample \/ StageEnds
  BY <1>5 DEF SecondSample, LegacyRun, Supervise, HandOver, Guards, RuntimeSample, StageEnds, Goes, Stops
<1>6. CASE Unusable
  BY <1>6 DEF Unusable, Goes, Stops
<1>7. CASE UNCHANGED vars
  BY <1>7 DEF vars
<1> QED BY <1>1, <1>2, <1>3, <1>4, <1>5, <1>6, <1>7 DEF Next

LEMMA ChainStep == TypeOK /\ ChainKnown /\ [Next]_vars => ChainKnown'
<1> SUFFICES ASSUME TypeOK, ChainKnown, [Next]_vars PROVE ChainKnown'
  OBVIOUS
<1> USE DEF ChainKnown
<1>1. CASE HostMoves \/ ReadNext \/ UNCHANGED vars
  BY <1>1 DEF HostMoves, ReadNext, vars
<1>2. CASE BeginAdmission \/ FirstSample
  BY <1>2 DEF BeginAdmission, FirstSample, Goes, Taken
<1>3. CASE SecondSample
  <2>1. CASE Accepts(previous, packet, FALSE)
    <3>1. chain' = <<previous, packet>> /\ previous' = packet /\ at' = "admitted"
      BY <1>3, <2>1 DEF SecondSample, Goes
    <3> QED BY <3>1
  <2>2. CASE ~Accepts(previous, packet, FALSE)
    <3>1. chain' = chain /\ at' = "refused" /\ at = "second"
      BY <1>3, <2>2 DEF SecondSample, Goes, Taken
    <3> QED BY <3>1
  <2> QED BY <2>1, <2>2
<1>4. CASE LegacyRun \/ StageEnds
  BY <1>4 DEF LegacyRun, StageEnds
<1>5. CASE Supervise \/ HandOver
  BY <1>5 DEF Supervise, HandOver, Guards
<1>6. CASE Poll
  BY <1>6 DEF Poll, Goes
<1>7. CASE RuntimeSample
  <2>1. CASE Accepts(previous, packet, TRUE)
    <3>1. chain' = Append(chain, packet) /\ previous' = packet /\ at' = "running"
      BY <1>7, <2>1 DEF RuntimeSample, Goes
    <3>2. Len(chain') = Len(chain) + 1 /\ chain'[Len(chain')] = packet
      BY <3>1 DEF TypeOK
    <3> QED BY <1>7, <3>1, <3>2 DEF RuntimeSample, Taken, TypeOK
  <2>2. CASE ~Accepts(previous, packet, TRUE)
    BY <1>7, <2>2 DEF RuntimeSample, Stops, Goes, Taken
  <2> QED BY <2>1, <2>2
<1>8. CASE Unusable
  BY <1>8 DEF Unusable, Stops, Goes, Sampling
<1> QED BY <1>1, <1>2, <1>3, <1>4, <1>5, <1>6, <1>7, <1>8 DEF Next

-----------------------------------------------------------------------------
(* The chain of accepted packets. *)

LEMMA StillStep == IInv /\ [Next]_vars => StoodStill'
<1> SUFFICES ASSUME IInv, [Next]_vars, profile' # "v4" PROVE StoodStill'
  BY DEF StoodStill
<1>0. profile' = profile /\ profile \in Profiles \ {"v4"}
  BY DEF IInv, TypeOK, Next, vars, HostMoves, ReadNext, BeginAdmission, FirstSample, SecondSample,
     LegacyRun, Supervise, HandOver, Guards, Poll, RuntimeSample, Unusable, StageEnds
<1>1. CASE chain' = chain
  BY <1>0, <1>1 DEF IInv, StoodStill
<1>2. CASE SecondSample /\ chain' # chain
  <2>1. /\ Accepts(previous, packet, FALSE) /\ chain' = <<previous, packet>>
        /\ at = "second" /\ read >= 3 /\ previous \in Packets /\ packet \in Packets
    <3>1. at = "second" /\ read = Readings
      BY <1>2 DEF SecondSample, Taken
    <3>2. read >= 3
      BY <3>1 DEF Readings
    <3> QED BY <1>2, <3>1, <3>2 DEF SecondSample, IInv, TypeOK
  <2>2. previous.outsBefore <= previous.outs /\ previous.outs <= packet.outsBefore
        /\ packet.outsBefore <= packet.outs
    BY <2>1 DEF IInv, CountersOnlyGrow, Sampling
  <2> HIDE DEF StoodStill
  <2>3. /\ AtRest(previous) /\ AtRest(packet) /\ previous.outs = packet.outs
        /\ previous.used <= previous.usedBefore /\ packet.used <= packet.usedBefore
        /\ packet.usedBefore <= previous.used
        /\ profile = "v3" => previous.ins = packet.ins
        /\ profile = "legacy" => previous.outs = previous.outsBefore /\ packet.outs = packet.outsBefore
    BY <1>0, <2>1, <2>2, PairStandsStill
  <2>4. packet.used <= previous.usedBefore
    BY <2>1, <2>3 DEF Packets
  <2>5. Len(chain') = 2 /\ chain'[1] = previous /\ chain'[2] = packet
    BY <2>1
  <2>6. ASSUME NEW m \in 1 .. 2, NEW n \in 1 .. 2, m <= n
        PROVE  /\ AtRest(chain'[n])
               /\ chain'[n].outs = chain'[m].outs
               /\ profile = "legacy" => chain'[n].outs = chain'[m].outsBefore
               /\ profile = "v3" => chain'[n].ins = chain'[m].ins
               /\ chain'[n].used <= chain'[m].usedBefore
    <3>1. (m = 1 /\ n = 1) \/ (m = 1 /\ n = 2) \/ (m = 2 /\ n = 2)
      BY <2>6
    <3> QED BY <3>1, <2>3, <2>4, <2>5
  <2> QED BY <1>0, <2>5, <2>6 DEF StoodStill
<1>3. CASE RuntimeSample /\ chain' # chain
  <2>1. /\ Accepts(previous, packet, TRUE) /\ chain' = Append(chain, packet)
        /\ at = "runtime" /\ previous \in Packets /\ packet \in Packets /\ chain \in Seq(Packets)
    BY <1>3 DEF RuntimeSample, Taken, IInv, TypeOK
  <2>2. profile # "legacy" /\ Len(chain) >= 2 /\ previous = chain[Len(chain)] /\ Len(chain) \in Nat
    BY <2>1 DEF IInv, ChainKnown
  <2>3. /\ AtRest(packet) /\ previous.outs = packet.outs
        /\ packet.used <= packet.usedBefore /\ packet.usedBefore <= previous.used
        /\ profile = "v3" => previous.ins = packet.ins
    BY <1>0, <2>1, <2>2, PairStandsStill
  <2>4. /\ Len(chain') = Len(chain) + 1 /\ chain'[Len(chain')] = packet
        /\ \A k \in 1 .. Len(chain) : chain'[k] = chain[k]
    BY <2>1
  <2>5. \A m \in 1 .. Len(chain) :
          /\ previous.outs = chain[m].outs
          /\ profile = "v3" => previous.ins = chain[m].ins
          /\ previous.used <= chain[m].usedBefore
    BY <1>0, <2>2 DEF IInv, StoodStill
  <2>6. ASSUME NEW m \in 1 .. Len(chain'), NEW n \in 1 .. Len(chain'), m <= n
        PROVE  /\ AtRest(chain'[n])
               /\ chain'[n].outs = chain'[m].outs
               /\ profile = "v3" => chain'[n].ins = chain'[m].ins
               /\ chain'[n].used <= chain'[m].usedBefore
    <3>1. CASE n \in 1 .. Len(chain)
      <4>1. m \in 1 .. Len(chain)
        BY <3>1, <2>2, <2>6
      <4> QED BY <1>0, <2>4, <2>6, <3>1, <4>1 DEF IInv, StoodStill
    <3>2. CASE n = Len(chain') /\ m \in 1 .. Len(chain)
      <4>1. packet.used \in Int /\ packet.usedBefore \in Int /\ previous.used \in Int
            /\ chain[m].usedBefore \in Int
        <5>1. chain[m] \in Packets
          BY <2>1, <3>2
        <5> QED BY <2>1, <5>1 DEF Packets
      <4>2. packet.used <= chain[m].usedBefore
        BY <2>3, <2>5, <3>2, <4>1
      <4> QED BY <2>3, <2>4, <2>5, <3>2, <4>2
    <3>3. CASE n = Len(chain') /\ m = Len(chain')
      BY <2>3, <2>4, <3>3
    <3> QED BY <2>2, <2>4, <2>6, <3>1, <3>2, <3>3
  <2> QED BY <1>0, <2>2, <2>6 DEF StoodStill
<1> QED BY <1>1, <1>2, <1>3
     DEF Next, vars, HostMoves, ReadNext, BeginAdmission, FirstSample,
     LegacyRun, Supervise, HandOver, Guards, Poll, Unusable, StageEnds

\* IInv holds in every state: types, the order of what was read, which packet is judged
\* next, and StoodStill itself; without the order, the first legacy packet could hide
\* a page swapped out between its two readings.
THEOREM HostInductive == Spec => []IInv
<1>1. Init => IInv
  BY InitTyped DEF Init, IInv, CountersOnlyGrow, Sampling, ChainKnown, StoodStill
<1>2. IInv /\ [Next]_vars => IInv'
  BY StepTyped, CountersStep, ChainStep, StillStep DEF IInv
<1> QED BY <1>1, <1>2, PTL DEF Spec

\* A host that an admission and its guards accepted pair by pair (assess of every
\* profile but v4) stood still from the first reading to the last.
THEOREM HostStoodStill == Spec => []StoodStill
<1>1. IInv => StoodStill
  BY DEF IInv
<1> QED BY <1>1, HostInductive, PTL

-----------------------------------------------------------------------------
(* The summary of v4. *)

Sides == {"pressureBefore", "pressureAfter"}
ReadingsOf(s) == {<<n, k>> : n \in 1 .. Len(s), k \in Sides}
LevelOf(s, r) == s[r[1]][r[2]]
NewBefore(s) == <<Len(s) + 1, "pressureBefore">>
NewAfter(s) == <<Len(s) + 1, "pressureAfter">>
WarnedIn(s) == {r \in ReadingsOf(s) : LevelOf(s, r) = Warning}

\* What the guard at work keeps is what the packets it has accepted say.
Tally(g, s) ==
  /\ g.count = Len(s)
  /\ \A r \in ReadingsOf(s) : LevelOf(s, r) # Critical /\ LevelOf(s, r) <= g.maximum
  /\ s = << >> => g.maximum = None
  /\ s # << >> => g.maximum \in Pressures /\ \E r \in ReadingsOf(s) : LevelOf(s, r) = g.maximum
  /\ IsFiniteSet(WarnedIn(s)) /\ g.warnings = Cardinality(WarnedIn(s))

\* There is one guard under v4, and it goes on from the two packets of the admission.
GuardKnown ==
  profile = "v4" =>
    /\ at = "admitted" => Len(chain) = 2
    /\ at \in {"running", "runtime", "stopped"} =>
         chain = <<chain[1], chain[2]>> \o served /\ first = chain[2] /\ Tally(guard, served)

SummaryKnown == summary # None => profile = "v4" /\ at = "over"

SummaryTells(told, all, mine) ==
  LET taken    == 1 .. Len(mine)
      readings == ReadingsOf(mine)
  IN /\ all = <<all[1], all[2]>> \o mine
     /\ told.samples = Len(mine)
     /\ Critical \notin {LevelOf(mine, r) : r \in readings}
     /\ taken = {} => {told.maximum, told.warnings, told.ins, told.outs} = {None}
     /\ taken # {} =>
          /\ \A r \in readings : LevelOf(mine, r) <= told.maximum
          /\ \E r \in readings : LevelOf(mine, r) = told.maximum
          /\ told.warnings = Cardinality(WarnedIn(mine))
          /\ told.outs = all[Len(all)].outs - all[2].outs
          /\ told.ins = all[Len(all)].ins - all[2].ins

SInv == IInv /\ GuardKnown /\ SummaryKnown /\ SummaryIsTrue

\* The readings of one more packet.
LEMMA OneMorePacket ==
  ASSUME NEW s \in Seq(Packets), NEW p \in Packets
  PROVE  /\ ReadingsOf(Append(s, p)) = ReadingsOf(s) \cup {NewBefore(s), NewAfter(s)}
         /\ NewBefore(s) \notin ReadingsOf(s) /\ NewAfter(s) \notin ReadingsOf(s)
         /\ NewAfter(s) # NewBefore(s)
         /\ \A r \in ReadingsOf(s) : LevelOf(Append(s, p), r) = LevelOf(s, r)
         /\ LevelOf(Append(s, p), NewBefore(s)) = p.pressureBefore
         /\ LevelOf(Append(s, p), NewAfter(s)) = p.pressureAfter
<1> DEFINE t == Append(s, p)
<1>1. Len(s) \in Nat /\ Len(t) = Len(s) + 1 /\ t[Len(s) + 1] = p
      /\ \A n \in 1 .. Len(s) : t[n] = s[n]
  OBVIOUS
<1> HIDE DEF t
<1>2. 1 .. Len(t) = 1 .. Len(s) \cup {Len(s) + 1}
  BY <1>1
<1>3. ReadingsOf(t) = ReadingsOf(s) \cup {NewBefore(s), NewAfter(s)}
  BY <1>2 DEF ReadingsOf, Sides, NewBefore, NewAfter
<1>4. NewBefore(s) \notin ReadingsOf(s) /\ NewAfter(s) \notin ReadingsOf(s) /\ NewAfter(s) # NewBefore(s)
  BY <1>1 DEF ReadingsOf, Sides, NewBefore, NewAfter
<1>5. \A r \in ReadingsOf(s) : LevelOf(t, r) = LevelOf(s, r)
  BY <1>1 DEF ReadingsOf, LevelOf
<1>6. LevelOf(t, NewBefore(s)) = p.pressureBefore /\ LevelOf(t, NewAfter(s)) = p.pressureAfter
  BY <1>1 DEF LevelOf, NewBefore, NewAfter
<1> QED BY <1>3, <1>4, <1>5, <1>6 DEF t

LEMMA NoPacketNoReading ==
  ASSUME NEW s, s = << >>
  PROVE  Tally(NewGuard, s)
<1>1. ReadingsOf(s) = {}
  BY DEF ReadingsOf
<1>2. WarnedIn(s) = {}
  BY <1>1 DEF WarnedIn
<1>3. IsFiniteSet(WarnedIn(s)) /\ Cardinality(WarnedIn(s)) = 0
  BY <1>2, FS_EmptySet
<1> QED BY <1>1, <1>3 DEF Tally, NewGuard

\* Counting one more packet keeps the tally.
LEMMA TallyCounts ==
  ASSUME NEW g \in GuardStates, NEW s \in Seq(Packets), NEW p \in Packets, NEW t, t = Append(s, p),
         profile = "v4", ValidV4(p), Tally(g, s)
  PROVE  Tally(Counts(g, p), t)
<1> DEFINE b == NewBefore(s)
           a == NewAfter(s)
           h == Counts(g, p)
<1> HIDE DEF a, b
<1>1. /\ ReadingsOf(t) = ReadingsOf(s) \cup {b, a}
      /\ b \notin ReadingsOf(s) /\ a \notin ReadingsOf(s) /\ a # b
      /\ \A r \in ReadingsOf(s) : LevelOf(t, r) = LevelOf(s, r)
      /\ LevelOf(t, b) = p.pressureBefore /\ LevelOf(t, a) = p.pressureAfter
  BY OneMorePacket DEF a, b
<1>2. /\ h.count = g.count + 1
      /\ h.maximum = Higher(Higher(g.maximum, p.pressureBefore), p.pressureAfter)
      /\ h.warnings = g.warnings + Warnings(p)
  BY DEF Counts, GuardStates
<1>3. p.pressureBefore \in {Normal, Warning} /\ p.pressureAfter \in {Normal, Warning}
  BY DEF ValidV4, Packets, Pressures
<1>4. t # << >> /\ Len(t) = Len(s) + 1 /\ Len(s) \in Nat
  OBVIOUS
<1> HIDE DEF h
<1>5. h.count = Len(t)
  BY <1>2, <1>4 DEF Tally
<1>6. \/ g.maximum = None /\ ReadingsOf(s) = {}
      \/ g.maximum \in Pressures /\ g.maximum \in Int /\ \E r \in ReadingsOf(s) : LevelOf(s, r) = g.maximum
  <2>1. s = << >> => ReadingsOf(s) = {}
    BY DEF ReadingsOf
  <2> QED BY <2>1 DEF Tally, Pressures, Normal, Warning, Critical
<1>7. /\ h.maximum \in Pressures
      /\ p.pressureBefore <= h.maximum /\ p.pressureAfter <= h.maximum
      /\ h.maximum \in {g.maximum, p.pressureBefore, p.pressureAfter}
      /\ g.maximum # None => g.maximum <= h.maximum
      /\ g.maximum = None => h.maximum \in {p.pressureBefore, p.pressureAfter}
  <2>1. None \notin Pressures
    BY HostAssumption DEF Pressures, Normal, Warning, Critical
  <2> QED BY <1>2, <1>3, <1>6, <2>1 DEF Higher, Pressures, Normal, Warning, Critical
<1>8. ASSUME NEW r \in ReadingsOf(t)
      PROVE  LevelOf(t, r) # Critical /\ LevelOf(t, r) <= h.maximum
  <2>1. CASE r \in {b, a}
    BY <1>1, <1>3, <1>7, <2>1 DEF Normal, Warning, Critical
  <2>2. CASE r \in ReadingsOf(s)
    <3>1. g.maximum \in Pressures /\ g.maximum # None
      BY <1>6, <2>2, HostAssumption DEF Pressures, Normal, Warning, Critical
    <3>2. LevelOf(t, r) = LevelOf(s, r) /\ LevelOf(s, r) # Critical /\ LevelOf(s, r) <= g.maximum
      BY <1>1, <2>2 DEF Tally
    <3>3. LevelOf(s, r) \in Int
      <4>1. PICK n \in 1 .. Len(s), k \in Sides : r = <<n, k>>
        BY <2>2 DEF ReadingsOf
      <4>2. s[n] \in Packets /\ LevelOf(s, r) = s[n][k]
        BY <4>1 DEF LevelOf
      <4>3. k = "pressureBefore" \/ k = "pressureAfter"
        BY DEF Sides
      <4>4. s[n].pressureBefore \in Pressures /\ s[n].pressureAfter \in Pressures
        BY <4>2 DEF Packets
      <4>5. LevelOf(s, r) \in Pressures
        BY <4>2, <4>3, <4>4
      <4> QED BY <4>5 DEF Pressures, Normal, Warning, Critical
    <3> QED BY <1>7, <3>1, <3>2, <3>3 DEF Pressures, Normal, Warning, Critical
  <2> QED BY <1>1, <2>1, <2>2
<1>9. \E r \in ReadingsOf(t) : LevelOf(t, r) = h.maximum
  <2>1. CASE h.maximum \in {p.pressureBefore, p.pressureAfter}
    BY <1>1, <2>1
  <2>2. CASE h.maximum = g.maximum /\ g.maximum # None
    BY <1>1, <1>6, <2>2
  <2> QED BY <1>7, <2>1, <2>2
<1>10. /\ IsFiniteSet(WarnedIn(t))
       /\ Cardinality(WarnedIn(t)) = Cardinality(WarnedIn(s)) + Warnings(p)
  <2> DEFINE W == WarnedIn(s)
             V == IF p.pressureBefore = Warning THEN W \cup {b} ELSE W
  <2>1. WarnedIn(t) = IF p.pressureAfter = Warning THEN V \cup {a} ELSE V
    BY <1>1 DEF WarnedIn
  <2>2. b \notin W /\ a \notin V /\ IsFiniteSet(W)
    BY <1>1 DEF WarnedIn, Tally
  <2>3. Cardinality(W) \in Nat
    BY <2>2, FS_CardinalityType
  <2> HIDE DEF W
  <2>4. /\ IsFiniteSet(V)
        /\ Cardinality(V) = Cardinality(W) + IF p.pressureBefore = Warning THEN 1 ELSE 0
    BY <2>2, <2>3, FS_AddElement
  <2>5. Cardinality(V) \in Nat
    BY <2>4, FS_CardinalityType
  <2> HIDE DEF V
  <2>6. /\ IsFiniteSet(WarnedIn(t))
        /\ Cardinality(WarnedIn(t)) = Cardinality(V) + IF p.pressureAfter = Warning THEN 1 ELSE 0
    <3>1. IsFiniteSet(V \cup {a}) /\ Cardinality(V \cup {a}) = Cardinality(V) + 1
      BY <2>2, <2>4, FS_AddElement
    <3> QED BY <2>1, <2>4, <2>5, <3>1
  <2> QED BY <2>3, <2>4, <2>6 DEF W, Warnings
<1>11. h.warnings = Cardinality(WarnedIn(t))
  BY <1>2, <1>10 DEF Tally
<1> QED BY <1>4, <1>5, <1>7, <1>8, <1>9, <1>10, <1>11 DEF Tally, h

LEMMA GuardStep == IInv /\ GuardKnown /\ [Next]_vars => GuardKnown'
<1> SUFFICES ASSUME IInv, GuardKnown, [Next]_vars, profile' = "v4" PROVE GuardKnown'
  BY DEF GuardKnown
<1>0. profile = "v4" /\ TypeOK /\ ChainKnown
  BY DEF IInv, Next, vars, HostMoves, ReadNext, BeginAdmission, FirstSample, SecondSample,
     LegacyRun, Supervise, HandOver, Guards, Poll, RuntimeSample, Unusable, StageEnds
<1>1. CASE HostMoves \/ ReadNext \/ UNCHANGED vars
  BY <1>0, <1>1 DEF HostMoves, ReadNext, vars, GuardKnown
<1>2. CASE BeginAdmission \/ FirstSample \/ LegacyRun \/ StageEnds
  BY <1>0, <1>2 DEF BeginAdmission, FirstSample, LegacyRun, StageEnds, Goes, GuardKnown
<1>3. CASE SecondSample
  <2>1. at' \in {"admitted", "refused"} /\ (at' = "admitted" => chain' = <<previous, packet>>)
    BY <1>3 DEF SecondSample, Goes
  <2> QED BY <2>1 DEF GuardKnown
<1>4. CASE Supervise \/ HandOver
  <2>1. at = "admitted" /\ at' = "running" /\ served' = << >> /\ chain' = chain
        /\ first' = previous /\ guard' = NewGuard
    BY <1>0, <1>4 DEF Supervise, HandOver, Guards
  <2>2. Len(chain) = 2 /\ previous = chain[2] /\ chain \in Seq(Packets)
    BY <1>0, <2>1 DEF GuardKnown, ChainKnown, TypeOK
  <2>3. chain = <<chain[1], chain[2]>> \o << >>
    BY <2>2
  <2>4. Tally(NewGuard, << >>)
    BY NoPacketNoReading
  <2> QED BY <2>1, <2>2, <2>3, <2>4 DEF GuardKnown
<1>5. CASE Poll
  BY <1>0, <1>5 DEF Poll, Goes, GuardKnown
<1>6. CASE RuntimeSample
  <2>0. at = "runtime"
    BY <1>6 DEF RuntimeSample, Taken
  <2>1. /\ chain = <<chain[1], chain[2]>> \o served /\ first = chain[2] /\ Tally(guard, served)
        /\ Len(chain) >= 2 /\ chain \in Seq(Packets) /\ served \in Seq(Packets) /\ packet \in Packets
        /\ guard \in GuardStates
    BY <1>0, <2>0 DEF GuardKnown, ChainKnown, TypeOK
  <2>2. CASE Accepts(previous, packet, TRUE)
    <3>1. at' = "running" /\ guard' = Counts(guard, packet) /\ chain' = Append(chain, packet)
          /\ served' = Append(served, packet) /\ first' = first
      BY <1>6, <2>2 DEF RuntimeSample, Goes
    <3>2. ValidV4(packet)
      BY <1>0, <2>2 DEF Accepts, AssessV4
    <3>3. Tally(guard', served')
      BY <1>0, <2>1, <3>1, <3>2, TallyCounts
    <3>4. chain'[1] = chain[1] /\ chain'[2] = chain[2]
      BY <2>1, <3>1
    <3>5. chain' = <<chain[1], chain[2]>> \o served'
      <4> DEFINE c == chain[1]
                 d == chain[2]
      <4>1. c \in Packets /\ d \in Packets
        BY <2>1
      <4> HIDE DEF c, d
      <4>2. Append(<<c, d>> \o served, packet) = <<c, d>> \o Append(served, packet)
        BY <2>1, <4>1
      <4> QED BY <2>1, <3>1, <4>2 DEF c, d
    <3> QED BY <2>1, <3>1, <3>3, <3>4, <3>5 DEF GuardKnown
  <2>3. CASE ~Accepts(previous, packet, TRUE)
    <3>1. at' = "stopped" /\ guard' = [guard EXCEPT !.stop = TRUE]
          /\ UNCHANGED <<chain, served, first>>
      BY <1>6, <2>3 DEF RuntimeSample, Stops, Goes
    <3>2. Tally(guard', served)
      BY <2>1, <3>1 DEF Tally, GuardStates
    <3> QED BY <2>1, <3>1, <3>2 DEF GuardKnown
  <2> QED BY <2>2, <2>3
<1>7. CASE Unusable
  <2>1. CASE at = "runtime"
    <3>1. at' = "stopped" /\ guard' = [guard EXCEPT !.stop = TRUE]
          /\ UNCHANGED <<chain, served, first>>
      BY <1>7, <2>1 DEF Unusable, Stops, Goes
    <3>2. Tally(guard, served) /\ guard \in GuardStates
      BY <1>0, <2>1 DEF GuardKnown, TypeOK
    <3>3. Tally(guard', served)
      BY <3>1, <3>2 DEF Tally, GuardStates
    <3> QED BY <1>0, <2>1, <3>1, <3>3 DEF GuardKnown
  <2>2. CASE at # "runtime"
    BY <1>7, <2>2 DEF Unusable, Goes, GuardKnown
  <2> QED BY <2>1, <2>2
<1> QED BY <1>1, <1>2, <1>3, <1>4, <1>5, <1>6, <1>7 DEF Next

LEMMA SummaryStep == IInv /\ GuardKnown /\ SummaryKnown /\ SummaryIsTrue /\ [Next]_vars => SummaryKnown' /\ SummaryIsTrue'
<1> SUFFICES ASSUME IInv, GuardKnown, SummaryKnown, SummaryIsTrue, [Next]_vars
             PROVE  SummaryKnown' /\ SummaryIsTrue'
  OBVIOUS
<1>0. /\ SummaryIsTrue <=> (summary # None => SummaryTells(summary, chain, served))
      /\ SummaryIsTrue' <=> (summary' # None => SummaryTells(summary', chain', served'))
  BY DEF SummaryIsTrue, SummaryTells, ReadingsOf, LevelOf, WarnedIn, Sides
<1>1. CASE StageEnds
  <2>1. at \in {"running", "stopped"} /\ at' = "over" /\ UNCHANGED <<profile, chain, served, guard, first,
                                                                     previous>>
        /\ summary' = IF profile = "v4" THEN Summary(guard, first, previous) ELSE None
    BY <1>1 DEF StageEnds
  <2>2. SummaryKnown'
    BY <2>1 DEF SummaryKnown
  <2>3. CASE profile # "v4"
    BY <1>0, <2>1, <2>2, <2>3
  <2>4. CASE profile = "v4"
    <3>1. /\ chain = <<chain[1], chain[2]>> \o served /\ first = chain[2] /\ Tally(guard, served)
          /\ Len(chain) >= 2 /\ previous = chain[Len(chain)] /\ served \in Seq(Packets)
      BY <2>1, <2>4 DEF IInv, GuardKnown, ChainKnown, TypeOK
    <3>2. /\ summary'.samples = guard.count /\ summary'.maximum = guard.maximum
          /\ summary'.warnings = IF guard.count > 0 THEN guard.warnings ELSE None
          /\ summary'.ins = IF guard.count > 0 THEN previous.ins - first.ins ELSE None
          /\ summary'.outs = IF guard.count > 0 THEN previous.outs - first.outs ELSE None
      BY <2>1, <2>4 DEF Summary
    <3>3. (served = << >> <=> Len(served) = 0) /\ Len(served) \in Nat
      BY <3>1
    <3>5. /\ \A r \in ReadingsOf(served) : LevelOf(served, r) # Critical /\ LevelOf(served, r) <= guard.maximum
          /\ served # << >> => \E r \in ReadingsOf(served) : LevelOf(served, r) = guard.maximum
          /\ guard.warnings = Cardinality(WarnedIn(served))
      BY <3>1 DEF Tally
    <3>6. 1 .. Len(served) = {} <=> Len(served) = 0
      BY <3>3
    <3>7. Critical \notin {LevelOf(served, r) : r \in ReadingsOf(served)}
      BY <3>5
    <3>8. Len(served) = 0 => {summary'.maximum, summary'.warnings, summary'.ins, summary'.outs} = {None}
      BY <3>1, <3>2, <3>3 DEF Tally
    <3>9. Len(served) # 0 =>
            /\ \A r \in ReadingsOf(served) : LevelOf(served, r) <= summary'.maximum
            /\ \E r \in ReadingsOf(served) : LevelOf(served, r) = summary'.maximum
            /\ summary'.warnings = Cardinality(WarnedIn(served))
            /\ summary'.outs = chain[Len(chain)].outs - chain[2].outs
            /\ summary'.ins = chain[Len(chain)].ins - chain[2].ins
      <4>1. Len(served) # 0 => guard.count > 0 /\ served # << >>
        BY <3>1, <3>3 DEF Tally
      <4> QED BY <3>1, <3>2, <3>5, <4>1
    <3>10. summary'.samples = Len(served)
      BY <3>1, <3>2 DEF Tally
    <3>11. SummaryTells(summary', chain, served)
      BY <3>1, <3>6, <3>7, <3>8, <3>9, <3>10 DEF SummaryTells
    <3> QED BY <1>0, <2>1, <2>2, <3>11
  <2> QED BY <2>3, <2>4
<1>2. CASE ~StageEnds
  <2>1. summary' = summary /\ (at = "over" => UNCHANGED <<profile, at, chain, served>>)
        /\ profile' = profile
    BY <1>2 DEF Next, vars, HostMoves, ReadNext, BeginAdmission, FirstSample, SecondSample,
       LegacyRun, Supervise, HandOver, Guards, Poll, RuntimeSample, Unusable, Looking, Sampling, Taken
  <2>2. CASE summary = None
    BY <1>0, <2>1, <2>2 DEF SummaryKnown
  <2>3. CASE summary # None
    <3>1. at = "over" /\ profile = "v4"
      BY <2>3 DEF SummaryKnown
    <3>2. UNCHANGED <<profile, at, chain, served, summary>>
      BY <2>1, <3>1
    <3> QED BY <1>0, <3>2 DEF SummaryKnown
  <2> QED BY <2>2, <2>3
<1> QED BY <1>1, <1>2

\* A guard's SUMMARY.json, kept packet by packet (RuntimeGuard.poll), says what all the
\* packets that were accepted in its stage say together, for any number of packets.
THEOREM HostSummary == Spec => []SummaryIsTrue
<1>1. Init => SInv
  BY InitTyped DEF Init, SInv, IInv, CountersOnlyGrow, Sampling, ChainKnown, StoodStill,
     GuardKnown, SummaryKnown, SummaryIsTrue
<1>2. IInv /\ [Next]_vars => IInv'
  BY StepTyped, CountersStep, ChainStep, StillStep DEF IInv
<1>3. SInv /\ [Next]_vars => SInv'
  BY <1>2, GuardStep, SummaryStep DEF SInv
<1>4. SInv => SummaryIsTrue
  BY DEF SInv
<1> QED BY <1>1, <1>3, <1>4, PTL DEF Spec

-----------------------------------------------------------------------------
(* The preparation. *)

Requests == {s.requests[j] : s \in Starts, j \in Jobs}
Stations == {"absent", "new", "read", "built", "planned", "stopped", "made", "written", "sealed", "prepared"}
Derived == {"built", "planned", "made", "written", "sealed", "prepared"}
Planned == Derived \ {"built"}
Owning == Planned \ {"planned"}

\* The records of jobs and directories, as far as they are records.
PrepTyped ==
  /\ DOMAIN job = Jobs /\ DOMAIN plans = Jobs /\ DOMAIN dir = Dirs
  /\ \A j \in Jobs :
       /\ DOMAIN job[j] = {"pc", "request", "source", "desc", "spec"}
       /\ job[j].pc \in Stations /\ job[j].request \in Requests
       /\ job[j].pc # "absent" => job[j].request # NoFile
  /\ \A o \in Dirs : DOMAIN dir[o] = {"made", "scenario", "result", "intervention", "preparation"}

\* What a preparation has authenticated of a source, under the descriptor h it read.
Examined(j, source, h) ==
  /\ source = job[j].request.pin
  /\ RequestOk(Profile(j), Wanted(j), h) /\ Authenticated(Profile(j), source, h)
  /\ IF Profile(j) = "DESCRIPTOR" THEN WorkerBounds(h) ELSE h = NoFile

\* A preparation's own memory: no other process writes it.
JobKnown(j) ==
  LET pc == job[j].pc
      spec == job[j].spec IN
  /\ pc \in Derived \cup {"read"} => Examined(j, job[j].source, job[j].desc)
  /\ pc \in Derived =>
       /\ spec = Input(Profile(j), Wanted(j), job[j].desc, job[j].source, spec.engine)
       /\ spec.variant # NoFile
  /\ pc \in Planned =>
       /\ plans[j].profile = Profile(j) /\ plans[j].items = Wanted(j)
       /\ Profile(j) # "DESCRIPTOR" => plans[j].desc = NoFile
  /\ pc \in Owning => dir[Out(j)].made

\* mkdir gives a directory to one preparation.
OneOwner ==
  \A i, j \in Jobs : job[i].pc \in Owning /\ job[j].pc \in Owning /\ Out(i) = Out(j) => i = j

\* What a preparation has written so far is what its directory holds.
Holds(j) ==
  LET d == dir[Out(j)] IN
  /\ job[j].pc \in {"written", "sealed", "prepared"} => d.scenario = job[j].spec
  /\ job[j].pc \in {"sealed", "prepared"} => d.result.plan = j /\ d.result.spec = job[j].spec
  /\ job[j].pc = "prepared" =>
       /\ d.preparation.plan = j /\ d.preparation.spec = job[j].spec
       /\ job[j].spec.desc = plans[j].desc

\* As long as nobody edits prepared files, a PREPARATION.json is its owner's last file.
Untouched ==
  /\ \A j \in Jobs : Holds(j)
  /\ \A o \in Dirs : dir[o].preparation # NoFile =>
       \E j \in Jobs : job[j].pc = "prepared" /\ Out(j) = o

\* What no edit of prepared files changes of an input: its family and the originals of
\* the LP family, which has no other check of them.
Kept(spec) ==
  /\ DOMAIN spec = {"profile", "items", "desc", "source", "engine", "baseline", "variant"}
  /\ spec.profile = "LP" => LpRequest(spec.items) /\ spec.baseline = PinnedWords

\* A plan that was saved is a request its family takes.
PlanKept(plan) ==
  /\ plan.profile \in Families
  /\ plan.profile = "LP" => LpRequest(plan.items)
  /\ plan.profile = "DYNAMIC" => DynamicRequest(plan.items)

ResultShape(v) == DOMAIN v = {"plan", "pinned", "bytes", "spec"} /\ v.plan \in Jobs

\* Whoever has edited what.
FilesKept ==
  /\ \A j \in Jobs : plans[j] = NoFile \/ PlanKept(plans[j])
  /\ \A o \in Dirs :
       /\ dir[o].scenario = NoFile \/ Kept(dir[o].scenario)
       /\ dir[o].result = NoFile \/ ResultShape(dir[o].result)
       /\ dir[o].preparation # NoFile => Kept(dir[o].scenario) /\ ResultShape(dir[o].result)
  /\ \A j \in Jobs :
       /\ job[j].pc \in {"written", "sealed", "prepared"} => Kept(dir[Out(j)].scenario)
       /\ job[j].pc \in {"sealed", "prepared"} => ResultShape(dir[Out(j)].result)

\* What the API has checked of an input and its plan before it binds them.
BoundKnown(b) ==
  LET spec == b.spec
      plan == b.plan IN
  /\ Kept(spec) /\ PlanKept(plan) /\ plan.profile = spec.profile
  /\ spec.profile # "LP" => ValidInput(spec, b.install.bytes)
  /\ spec.profile = "LP" => GetField(spec.variant, Layout.lpBps) = PlannedLp(plan.items)
  /\ spec.profile \in {"OVERLAY", "DESCRIPTOR"} => spec.items = plan.items
  /\ spec.profile = "DESCRIPTOR" => b.install = Shipped

\* An operation is bound once, and its worlds are derived from it once.
BindingKnown ==
  /\ bound = NoFile \/ BoundKnown(bound)
  /\ worlds # NoFile => bound # NoFile
  /\ WorldsAsPlanned

PInv ==
  /\ PrepTyped /\ OneOwner /\ FilesKept
  /\ \A j \in Jobs : JobKnown(j)
  /\ ~ edited => Untouched
  /\ BindingKnown

-----------------------------------------------------------------------------
(* Arithmetic of fields. *)

LEMMA Quotient ==
  ASSUME NEW a \in Nat \ {0}, NEW k \in Int, NEW r \in 0 .. (a - 1)
  PROVE  (k * a + r) \div a = k /\ (k * a + r) % a = r
OBVIOUS

\* What is put into a field of a word is what is read from it, whatever else the word holds.
LEMMA PutThenGet ==
  ASSUME NEW w \in Nat, NEW a \in Nat \ {0}, NEW b \in Nat \ {0}, NEW v \in 0 .. (b - 1)
  PROVE  ((w - ((w \div a) % b) * a + v * a) \div a) % b = v
<1> DEFINE q == w \div a
           r == w % a
           c == q \div b
           f == q % b
<1>1. /\ q \in Int /\ r \in 0 .. (a - 1) /\ w = q * a + r
  OBVIOUS
<1>2. c \in Int /\ f \in 0 .. (b - 1) /\ q = c * b + f
  BY <1>1
<1> HIDE DEF q, r, c, f
<1>3. w - f * a + v * a = (c * b + v) * a + r
  BY <1>1, <1>2
<1>4. ((c * b + v) * a + r) \div a = c * b + v
  BY <1>1, <1>2, Quotient
<1>5. (c * b + v) % b = v
  BY <1>2, Quotient
<1> QED BY <1>3, <1>4, <1>5 DEF q, f

-----------------------------------------------------------------------------
(* Powers of two.  The provers know nothing of ^; the cardinality of a set   *)
(* of subsets is what defines a power of two here.                           *)

LEMMA SubsetsOfInterval ==
  ASSUME NEW a \in Nat, NEW n \in Nat
  PROVE  /\ IsFiniteSet(SUBSET ((a + 1) .. (a + n)))
         /\ Cardinality(SUBSET ((a + 1) .. (a + n))) = 2 ^ n
<1> DEFINE I == (a + 1) .. (a + n)
<1>1. IsFiniteSet(I) /\ Cardinality(I) = IF a + 1 > a + n THEN 0 ELSE (a + n) - (a + 1) + 1
  BY FS_Interval
<1>2. Cardinality(I) = n
  BY <1>1
<1>3. IsFiniteSet(SUBSET I) /\ Cardinality(SUBSET I) = 2 ^ Cardinality(I)
  BY <1>1, FS_SUBSET
<1> QED BY <1>2, <1>3

\* A power of two is a positive natural.
LEMMA PowerIsPositive ==
  ASSUME NEW n \in Nat
  PROVE  2 ^ n \in Nat \ {0}
<1> DEFINE P == SUBSET ((0 + 1) .. (0 + n))
<1>1. IsFiniteSet(P) /\ Cardinality(P) = 2 ^ n
  BY SubsetsOfInterval, 0 \in Nat
<1>2. {} \in P
  OBVIOUS
<1> HIDE DEF P
<1>3. Cardinality(P) \in Nat
  BY <1>1, FS_CardinalityType
<1>4. Cardinality(P) # 0
  BY <1>1, <1>2, FS_EmptySet
<1> QED BY <1>1, <1>3, <1>4

\* The exponents of a product of powers add up.
LEMMA PowerOfSum ==
  ASSUME NEW m \in Nat, NEW n \in Nat
  PROVE  2 ^ (m + n) = 2 ^ m * 2 ^ n
<1> DEFINE A == 1 .. m
           B == (m + 1) .. (m + n)
           C == 1 .. (m + n)
           f == [x \in (SUBSET A) \X (SUBSET B) |-> x[1] \cup x[2]]
<1>1. IsFiniteSet(SUBSET A) /\ Cardinality(SUBSET A) = 2 ^ m
  <2>1. /\ IsFiniteSet(SUBSET ((0 + 1) .. (0 + m)))
        /\ Cardinality(SUBSET ((0 + 1) .. (0 + m))) = 2 ^ m
    BY SubsetsOfInterval, 0 \in Nat
  <2>2. (0 + 1) .. (0 + m) = A
    OBVIOUS
  <2> QED BY <2>1, <2>2
<1>2. IsFiniteSet(SUBSET B) /\ Cardinality(SUBSET B) = 2 ^ n
  BY SubsetsOfInterval
<1>3. Cardinality(SUBSET C) = 2 ^ (m + n)
  <2>1. Cardinality(SUBSET ((0 + 1) .. (0 + (m + n)))) = 2 ^ (m + n)
    BY SubsetsOfInterval, 0 \in Nat, m + n \in Nat
  <2>2. (0 + 1) .. (0 + (m + n)) = C
    OBVIOUS
  <2> QED BY <2>1, <2>2
<1>4. A \cap B = {} /\ A \cup B = C
  OBVIOUS
<1> HIDE DEF A, B, C
<1>5. f \in Bijection((SUBSET A) \X (SUBSET B), SUBSET C)
  <2>1. f \in [(SUBSET A) \X (SUBSET B) -> SUBSET C]
    BY <1>4
  <2>2. ASSUME NEW x \in (SUBSET A) \X (SUBSET B), NEW y \in (SUBSET A) \X (SUBSET B), f[x] = f[y]
        PROVE  x = y
    <3>1. x[1] \cup x[2] = y[1] \cup y[2]
      BY <2>2
    <3>2. x[1] = y[1]
      BY <3>1, <1>4
    <3>3. x[2] = y[2]
      BY <3>1, <1>4
    <3> QED BY <3>2, <3>3
  <2>3. ASSUME NEW s \in SUBSET C PROVE \E x \in (SUBSET A) \X (SUBSET B) : f[x] = s
    <3>1. <<s \cap A, s \cap B>> \in (SUBSET A) \X (SUBSET B)
      OBVIOUS
    <3>2. (s \cap A) \cup (s \cap B) = s
      BY <1>4
    <3>3. f[<<s \cap A, s \cap B>>] = s
      BY <3>1, <3>2
    <3> QED BY <3>1, <3>3
  <2>4. f \in Injection((SUBSET A) \X (SUBSET B), SUBSET C)
    <3> HIDE DEF f
    <3> QED BY <2>1, <2>2 DEF Injection, IsInjective
  <2>5. f \in Surjection((SUBSET A) \X (SUBSET B), SUBSET C)
    <3> HIDE DEF f
    <3> QED BY <2>1, <2>3 DEF Surjection
  <2> QED BY <2>4, <2>5 DEF Bijection
<1>6. /\ IsFiniteSet((SUBSET A) \X (SUBSET B))
      /\ Cardinality((SUBSET A) \X (SUBSET B)) = 2 ^ m * 2 ^ n
  BY <1>1, <1>2, FS_Product
<1>7. ExistsBijection((SUBSET A) \X (SUBSET B), SUBSET C)
  BY <1>5 DEF ExistsBijection
<1>8. Cardinality(SUBSET C) = Cardinality((SUBSET A) \X (SUBSET B))
  BY <1>6, <1>7, FS_Bijection
<1> QED BY <1>3, <1>6, <1>8

-----------------------------------------------------------------------------
(* What writing one bit field leaves of the others. *)

LEMMA QuotientOfSum ==
  ASSUME NEW b \in Nat \ {0}, NEW m \in Int, NEW r \in Nat
  PROVE  (m * b + r) \div b = m + (r \div b)
<1> DEFINE q == r \div b
           s == r % b
<1>1. q \in Int /\ s \in 0 .. (b - 1) /\ r = q * b + s
  OBVIOUS
<1> HIDE DEF q, s
<1>2. m * b + r = (m + q) * b + s
  BY <1>1
<1>3. ((m + q) * b + s) \div b = m + q
  BY <1>1, Quotient
<1> QED BY <1>2, <1>3 DEF q

LEMMA RemainderOfSum ==
  ASSUME NEW b \in Nat \ {0}, NEW m \in Int, NEW r \in Nat
  PROVE  (m * b + r) % b = r % b
<1> DEFINE q == r \div b
           s == r % b
<1>1. q \in Int /\ s \in 0 .. (b - 1) /\ r = q * b + s
  OBVIOUS
<1> HIDE DEF q, s
<1>2. m * b + r = (m + q) * b + s
  BY <1>1
<1>3. ((m + q) * b + s) % b = s
  BY <1>1, Quotient
<1> QED BY <1>2, <1>3 DEF s

LEMMA QuotientOfQuotient ==
  ASSUME NEW b \in Nat \ {0}, NEW e \in Nat \ {0}, NEW c \in Int, NEW s \in 0 .. (b - 1)
  PROVE  (c * b + s) \div (b * e) = c \div e
<1> DEFINE q == c \div e
           t == c % e
<1>1. q \in Int /\ t \in 0 .. (e - 1) /\ c = q * e + t
  OBVIOUS
<1> HIDE DEF q, t
<1>2. c * b + s = q * (b * e) + (t * b + s)
  BY <1>1
<1>3. t * b <= (e - 1) * b
  BY <1>1
<1>4. (e - 1) * b = b * e - b
  OBVIOUS
<1>5. t * b \in Nat /\ b * e \in Nat
  BY <1>1
<1>6. t * b + s \in 0 .. (b * e - 1)
  BY <1>3, <1>4, <1>5
<1>7. b * e \in Nat \ {0}
  BY <1>5, <1>6
<1> DEFINE x == t * b + s
           y == b * e
<1>8. x \in 0 .. (y - 1) /\ y \in Nat \ {0}
  BY <1>6, <1>7
<1> HIDE DEF x, y
<1>9. (q * y + x) \div y = q
  BY <1>1, <1>8, Quotient
<1> QED BY <1>2, <1>9 DEF q, x, y

(* Writing v into the field of b values that starts at a, a power of two.     *)
Put(w, a, b, v) == w - ((w \div a) % b) * a + v * a

(* Two words that read the same from z on, and in the u values at o.          *)
AgreeAbove(x, y, z) == x \div z = y \div z
AgreeAt(x, y, o, u) == (x \div o) % u = (y \div o) % u

\* What is written into a field leaves what lies above it.
LEMMA PutKeepsAbove ==
  ASSUME NEW w \in Nat, NEW a \in Nat \ {0}, NEW b \in Nat \ {0}, NEW e \in Nat \ {0}, NEW v \in 0 .. (b - 1),
         NEW z, z = a * b * e
  PROVE  AgreeAbove(Put(w, a, b, v), w, z)
<1> DEFINE q == w \div a
           r == w % a
           c == q \div b
           f == q % b
<1>1. /\ q \in Int /\ r \in 0 .. (a - 1) /\ w = q * a + r
  OBVIOUS
<1>2. c \in Int /\ f \in 0 .. (b - 1) /\ q = c * b + f
  BY <1>1
<1> HIDE DEF q, r, c, f
<1>3. /\ w = c * (a * b) + (f * a + r)
      /\ w - f * a + v * a = c * (a * b) + (v * a + r)
  BY <1>1, <1>2
<1>4. ASSUME NEW u \in 0 .. (b - 1) PROVE u * a + r \in 0 .. (a * b - 1)
  <2>1. u * a <= (b - 1) * a
    BY <1>4
  <2>2. (b - 1) * a = a * b - a
    OBVIOUS
  <2>3. u * a \in Nat /\ a * b \in Nat
    OBVIOUS
  <2> QED BY <1>1, <2>1, <2>2, <2>3
<1> DEFINE d == a * b
<1>5. d \in Nat \ {0}
  <2>1. d \in Nat
    OBVIOUS
  <2>2. f * a + r \in 0 .. (d - 1)
    BY <1>2, <1>4
  <2> HIDE DEF d
  <2> QED BY <2>1, <2>2
<1>6. f * a + r \in 0 .. (d - 1) /\ v * a + r \in 0 .. (d - 1)
  BY <1>2, <1>4
<1> DEFINE x == f * a + r
           y == v * a + r
<1>7. w = c * d + x /\ w - f * a + v * a = c * d + y
  BY <1>3
<1>8. x \in 0 .. (d - 1) /\ y \in 0 .. (d - 1)
  BY <1>6
<1> HIDE DEF d, x, y
<1>9. (c * d + x) \div (d * e) = c \div e /\ (c * d + y) \div (d * e) = c \div e
  BY <1>2, <1>5, <1>8, QuotientOfQuotient
<1>10. w \div (d * e) = c \div e
  BY <1>7, <1>9
<1>11. (w - f * a + v * a) \div (d * e) = c \div e
  BY <1>7, <1>9
<1>12. z = d * e /\ Put(w, a, b, v) = w - f * a + v * a
  BY DEF d, f, q, Put
<1> QED BY <1>10, <1>11, <1>12 DEF AgreeAbove

\* It leaves what lies below it.
LEMMA PutKeepsBelow ==
  ASSUME NEW w \in Nat, NEW o \in Nat \ {0}, NEW u \in Nat \ {0}, NEW e \in Nat \ {0},
         NEW b \in Nat \ {0}, NEW v \in Nat,
         NEW a \in Nat \ {0}, a = o * u * e
  PROVE  AgreeAt(Put(w, a, b, v), w, o, u)
<1> DEFINE q == w \div a
           r == w % a
           f == q % b
<1>1. q \in Int /\ r \in 0 .. (a - 1) /\ w = q * a + r
  OBVIOUS
<1>2. f \in Int
  BY <1>1
<1> HIDE DEF q, r, f
<1>3. ASSUME NEW k \in Int PROVE ((k * a + r) \div o) % u = (r \div o) % u
  <2>1. r \in Nat
    BY <1>1
  <2>2. k * a + r = (k * u * e) * o + r
    BY <2>1
  <2>3. k * u * e \in Int
    OBVIOUS
  <2> DEFINE m == k * u * e
  <2>4. (m * o + r) \div o = m + (r \div o)
    <3>1. m \in Int
      BY <2>3
    <3> HIDE DEF m
    <3> QED BY <2>1, <3>1, QuotientOfSum
  <2>5. m + (r \div o) = (k * e) * u + (r \div o)
    OBVIOUS
  <2>6. k * e \in Int /\ r \div o \in Nat
    BY <2>1
  <2>7. ((k * e) * u + (r \div o)) % u = (r \div o) % u
    BY <2>6, RemainderOfSum
  <2> QED BY <2>2, <2>4, <2>5, <2>7
<1>4. q - f + v \in Int /\ w - f * a + v * a = (q - f + v) * a + r
  BY <1>1, <1>2
<1>5. ((w - f * a + v * a) \div o) % u = (r \div o) % u
  <2> DEFINE k == q - f + v
  <2>1. k \in Int /\ w - f * a + v * a = k * a + r
    BY <1>4
  <2> HIDE DEF k
  <2>2. ((k * a + r) \div o) % u = (r \div o) % u
    BY <2>1, <1>3
  <2> QED BY <2>1, <2>2
<1>6. (w \div o) % u = (r \div o) % u
  BY <1>1, <1>3
<1>7. Put(w, a, b, v) = w - f * a + v * a
  BY DEF f, q, Put
<1> QED BY <1>5, <1>6, <1>7 DEF AgreeAt

\* What is written is again a natural.
LEMMA PutIsNatural ==
  ASSUME NEW w \in Nat, NEW a \in Nat \ {0}, NEW b \in Nat \ {0}, NEW v \in Nat
  PROVE  w - ((w \div a) % b) * a + v * a \in Nat
<1> DEFINE q == w \div a
           r == w % a
           c == q \div b
           f == q % b
<1>1. /\ q \in Nat /\ r \in 0 .. (a - 1) /\ w = q * a + r
  OBVIOUS
<1>2. c \in Nat /\ f \in 0 .. (b - 1) /\ q = c * b + f
  BY <1>1
<1> HIDE DEF q, r, c, f
<1>3. w - f * a + v * a = (c * b + v) * a + r
  BY <1>1, <1>2
<1>4. (c * b + v) * a + r \in Nat
  BY <1>1, <1>2
<1> QED BY <1>3, <1>4 DEF f, q

\* The LP setting that the LP family writes on the pinned words is the one read back.
LEMMA LpReadBack ==
  ASSUME NEW v \in 0 .. (LpOriginal - 1)
  PROVE  GetField(SetField(PinnedWords, Layout.lpBps, v), Layout.lpBps) = v
<1> DEFINE f == Layout.lpBps
           w == PinnedWords[f.target][f.word]
           a == 2 ^ f.offset
           b == 2 ^ f.width
<1>1. /\ f.target \in DOMAIN PinnedWords /\ f.word \in DOMAIN PinnedWords[f.target]
      /\ w \in Nat /\ a \in Nat \ {0} /\ b \in Nat \ {0} /\ v \in 0 .. (b - 1)
  BY LayoutAssumption, OverlayAssumption, PowerIsPositive
<1>2. SetField(PinnedWords, f, v)[f.target][f.word] = PutField(w, f, v)
  BY <1>1 DEF SetField
<1>3. PutField(w, f, v) = w - ((w \div a) % b) * a + v * a
  BY DEF PutField
<1>4. GetField(SetField(PinnedWords, f, v), f) = (PutField(w, f, v) \div a) % b
  BY <1>2 DEF GetField
<1> HIDE DEF w, a, b
<1>5. ((w - ((w \div a) % b) * a + v * a) \div a) % b = v
  BY <1>1, PutThenGet
<1> QED BY <1>3, <1>4, <1>5 DEF f

-----------------------------------------------------------------------------
(* Derivations. *)

LEMMA Answered ==
  ASSUME NEW c, WordsOf(c) # NoFile
  PROVE  c.code = "OK" /\ WordsOf(c) = c.words
BY DEF WordsOf

\* What an LP variant is, when its family does not refuse.
LEMMA LpVariant ==
  ASSUME NEW items, NEW h, NEW words, LpRequest(items), Derivation("LP", items, h, words) # NoFile
  PROVE  Derivation("LP", items, h, words) = SetField(words, Layout.lpBps, items[1].parameters.lpBps)
<1> DEFINE c == SingleWrites(items[1], words)
<1>1. Derivation("LP", items, h, words) = WordsOf(c)
  BY DEF Derivation
<1>2. c.code = "OK" /\ WordsOf(c) = c.words
  BY <1>1, Answered
<1>3. items[1].kind = "LP_REWARDS_BPS"
  BY DEF LpRequest
<1>4. c = [code |-> "OK", words |-> SetField(words, Layout.lpBps, items[1].parameters.lpBps)]
  BY <1>2, <1>3 DEF SingleWrites, Refused
<1> QED BY <1>1, <1>2, <1>4

\* Two LP requests for one setting, and any two requests to switch the dynamic fee off,
\* have one derivation.
LEMMA SameLp ==
  ASSUME NEW x, NEW y, NEW h, NEW words, LpRequest(x), LpRequest(y),
         x[1].parameters.lpBps = y[1].parameters.lpBps
  PROVE  Derivation("LP", x, h, words) = Derivation("LP", y, h, words)
<1>1. x[1].kind = "LP_REWARDS_BPS" /\ y[1].kind = "LP_REWARDS_BPS"
      /\ RegistryParameterOk(x[1]) /\ RegistryParameterOk(y[1])
  BY DEF LpRequest
<1>2. SingleWrites(x[1], words) = SingleWrites(y[1], words)
  BY <1>1 DEF SingleWrites
<1> QED BY <1>2 DEF Derivation

LEMMA SameDynamic ==
  ASSUME NEW x, NEW y, NEW h, NEW words, DynamicRequest(x), DynamicRequest(y)
  PROVE  Derivation("DYNAMIC", x, h, words) = Derivation("DYNAMIC", y, h, words)
<1>1. x[1].kind = "DYNAMIC_FEE" /\ y[1].kind = "DYNAMIC_FEE"
      /\ RegistryParameterOk(x[1]) /\ RegistryParameterOk(y[1])
  BY DEF DynamicRequest
<1>2. SingleWrites(x[1], words) = SingleWrites(y[1], words)
  BY <1>1 DEF SingleWrites
<1> QED BY <1>2 DEF Derivation

\* The descriptor matters to its own family only.
LEMMA DescriptorOnly ==
  ASSUME NEW family \in Families \ {"DESCRIPTOR"}, NEW items, NEW g, NEW h, NEW source, NEW engine
  PROVE  /\ RequestOk(family, items, g) = RequestOk(family, items, h)
         /\ Authenticated(family, source, g) = Authenticated(family, source, h)
         /\ \A words : Derivation(family, items, g, words) = Derivation(family, items, h, words)
         /\ Originals(family, g) = Originals(family, h)
         /\ Input(family, items, g, source, engine) = Input(family, items, h, source, engine)
<1>1. family \in {"LP", "DYNAMIC", "OVERLAY"}
  BY DEF Families
<1>2. \A words : Derivation(family, items, g, words) = Derivation(family, items, h, words)
  BY <1>1 DEF Derivation
<1>3. Originals(family, g) = Originals(family, h)
  BY <1>1 DEF Originals
<1>4. RequestOk(family, items, g) = RequestOk(family, items, h)
  BY <1>1 DEF RequestOk
<1>5. Authenticated(family, source, g) = Authenticated(family, source, h)
  BY <1>1 DEF Authenticated
<1> QED BY <1>1, <1>2, <1>3, <1>4, <1>5 DEF Input

-----------------------------------------------------------------------------
(* JobStep of a preparation. *)

LEMMA Requested ==
  ASSUME PrepTyped, NEW j \in Jobs, job[j].pc # "absent"
  PROVE  Profile(j) \in Families /\ Out(j) \in Dirs
<1>1. PICK s \in Starts, i \in Jobs : job[j].request = s.requests[i]
  BY DEF PrepTyped, Requests
<1>2. job[j].request # NoFile
  BY DEF PrepTyped
<1> QED BY <1>1, <1>2, PreparationAssumption DEF Profile, Out

JobStep(j) == Begin(j) \/ Build(j) \/ SavePlan(j) \/ MakeDir(j) \/ SaveScenario(j) \/ SaveResult(j) \/ SavePreparation(j)
Edits == EditPrepared \/ Recommit

\* Only a preparation's own steps change its memory and its plan.
LEMMA OthersStandStill ==
  ASSUME PrepTyped, NEW j \in Jobs, JobStep(j)
  PROVE  /\ DOMAIN job' = Jobs /\ DOMAIN plans' = Jobs
         /\ \A i \in Jobs \ {j} : job'[i] = job[i] /\ plans'[i] = plans[i]
         /\ DOMAIN job'[j] = DOMAIN job[j] /\ job'[j].request = job[j].request
         /\ job[j].pc # "absent" /\ job'[j].pc \in Stations \ {"absent"}
         /\ UNCHANGED <<bound, worlds, edited>>
<1>1. DOMAIN job = Jobs /\ DOMAIN plans = Jobs /\ DOMAIN job[j] = {"pc", "request", "source", "desc", "spec"}
  BY DEF PrepTyped
<1>2. CASE Begin(j)
  BY <1>1, <1>2 DEF Begin, Stations
<1>3. CASE Build(j)
  BY <1>1, <1>3 DEF Build, Stations
<1>4. CASE SavePlan(j)
  BY <1>1, <1>4 DEF SavePlan, Proceeds, Stations
<1>5. CASE MakeDir(j)
  BY <1>1, <1>5 DEF MakeDir, Proceeds, Stations
<1>6. CASE SaveScenario(j)
  BY <1>1, <1>6 DEF SaveScenario, Proceeds, Stations
<1>7. CASE SaveResult(j)
  BY <1>1, <1>7 DEF SaveResult, Proceeds, Stations
<1>8. CASE SavePreparation(j)
  BY <1>1, <1>8 DEF SavePreparation, Proceeds, Stations
<1> QED BY <1>2, <1>3, <1>4, <1>5, <1>6, <1>7, <1>8 DEF JobStep

\* What each step does to a preparation's memory.
LEMMA OwnStepOf ==
  ASSUME PrepTyped, NEW j \in Jobs, JobStep(j)
  PROVE  \/ job[j].pc = "new" /\ job'[j].pc = "read" /\ Begin(j)
         \/ job[j].pc = "read" /\ job'[j].pc = "built" /\ Build(j)
         \/ /\ job'[j].source = job[j].source /\ job'[j].desc = job[j].desc /\ job'[j].spec = job[j].spec
            /\ \/ job[j].pc = "built" /\ job'[j].pc = "planned" /\ SavePlan(j)
               \/ job[j].pc = "planned" /\ job'[j].pc \in {"made", "stopped"} /\ MakeDir(j)
               \/ job[j].pc = "made" /\ job'[j].pc = "written" /\ SaveScenario(j)
               \/ job[j].pc = "written" /\ job'[j].pc = "sealed" /\ SaveResult(j)
               \/ job[j].pc = "sealed" /\ job'[j].pc = "prepared" /\ SavePreparation(j)
<1>1. DOMAIN job = Jobs /\ DOMAIN job[j] = {"pc", "request", "source", "desc", "spec"}
  BY DEF PrepTyped
<1>2. CASE Begin(j)
  BY <1>1, <1>2 DEF Begin
<1>3. CASE Build(j)
  BY <1>1, <1>3 DEF Build
<1>4. CASE SavePlan(j)
  BY <1>1, <1>4 DEF SavePlan, Proceeds
<1>5. CASE MakeDir(j)
  BY <1>1, <1>5 DEF MakeDir, Proceeds
<1>6. CASE SaveScenario(j)
  BY <1>1, <1>6 DEF SaveScenario, Proceeds
<1>7. CASE SaveResult(j)
  BY <1>1, <1>7 DEF SaveResult, Proceeds
<1>8. CASE SavePreparation(j)
  BY <1>1, <1>8 DEF SavePreparation, Proceeds
<1> QED BY <1>2, <1>3, <1>4, <1>5, <1>6, <1>7, <1>8 DEF JobStep

\* Where a step writes: its own directory, and a directory that is made stays made.
LEMMA OwnDirectory ==
  ASSUME PrepTyped, NEW j \in Jobs, JobStep(j)
  PROVE  /\ DOMAIN dir' = Dirs
         /\ \A o \in Dirs \ {Out(j)} : dir'[o] = dir[o]
         /\ \A o \in Dirs : DOMAIN dir'[o] = DOMAIN dir[o] /\ (dir[o].made => dir'[o].made)
         /\ job[j].pc \in {"new", "read", "built"} => dir' = dir
<1>1. /\ DOMAIN dir = Dirs
      /\ \A o \in Dirs : DOMAIN dir[o] = {"made", "scenario", "result", "intervention", "preparation"}
  BY DEF PrepTyped
<1>2. CASE Begin(j) \/ Build(j) \/ SavePlan(j)
  BY <1>1, <1>2 DEF Begin, Build, SavePlan
<1>3. CASE MakeDir(j)
  BY <1>1, <1>3 DEF MakeDir
<1>4. CASE SaveScenario(j)
  BY <1>1, <1>4 DEF SaveScenario
<1>5. CASE SaveResult(j)
  BY <1>1, <1>5 DEF SaveResult
<1>6. CASE SavePreparation(j)
  BY <1>1, <1>6 DEF SavePreparation
<1> QED BY <1>2, <1>3, <1>4, <1>5, <1>6 DEF JobStep

\* An edit changes the four files of directories that have a PREPARATION.json, nothing else.
LEMMA EditsStay ==
  ASSUME PrepTyped, Edits
  PROVE  /\ UNCHANGED <<job, plans, bound, worlds>> /\ edited'
         /\ DOMAIN dir' = Dirs
         /\ \A o \in Dirs : DOMAIN dir'[o] = DOMAIN dir[o] /\ dir'[o].made = dir[o].made
<1>1. /\ DOMAIN dir = Dirs
      /\ \A o \in Dirs : DOMAIN dir[o] = {"made", "scenario", "result", "intervention", "preparation"}
  BY DEF PrepTyped
<1>2. CASE EditPrepared
  BY <1>1, <1>2 DEF EditPrepared
<1>3. CASE Recommit
  BY <1>1, <1>3 DEF Recommit
<1> QED BY <1>2, <1>3 DEF Edits

LEMMA StepsOfPreparation ==
  ASSUME PNext
  PROVE  \/ \E j \in Jobs : JobStep(j)
         \/ Edits
         \/ \E o \in Dirs : Bind(o)
         \/ ApplyWrites
         \/ UNCHANGED <<job, plans, dir, bound, worlds, edited>>
BY DEF PNext, JobStep, Edits, ReplaceInstall, ReplaceSource

LEMMA PrepTypedStep ==
  ASSUME PrepTyped, PNext \/ UNCHANGED pvars
  PROVE  PrepTyped'
<1>1. CASE \E j \in Jobs : JobStep(j)
  <2>1. PICK j \in Jobs : JobStep(j)
    BY <1>1
  <2>2. job'[j].request \in Requests /\ job'[j].request # NoFile /\ DOMAIN job'[j] = DOMAIN job[j]
        /\ job'[j].pc \in Stations
    BY <2>1, OthersStandStill DEF PrepTyped
  <2> QED BY <2>1, <2>2, OthersStandStill, OwnDirectory DEF PrepTyped
<1>2. CASE Edits
  BY <1>2, EditsStay DEF PrepTyped
<1>3. CASE UNCHANGED <<job, plans, dir>>
  BY <1>3 DEF PrepTyped
<1> QED BY <1>1, <1>2, <1>3, StepsOfPreparation DEF Bind, ApplyWrites, pvars

\* Nobody else's step touches what a preparation knows.
LEMMA JobStands ==
  ASSUME PrepTyped, NEW i \in Jobs, JobKnown(i), job'[i] = job[i], plans'[i] = plans[i],
         \A o \in Dirs : dir[o].made => dir'[o].made
  PROVE  JobKnown(i)'
<1>1. Profile(i)' = Profile(i) /\ Wanted(i)' = Wanted(i) /\ Out(i)' = Out(i)
  BY DEF Profile, Wanted, Out
<1>2. job[i].pc \in Owning => Out(i) \in Dirs
  BY Requested DEF Owning, Planned, Derived
<1>3. \A source, h : Examined(i, source, h)' = Examined(i, source, h)
  BY <1>1 DEF Examined
<1> HIDE DEF Examined
<1> QED BY <1>1, <1>2, <1>3 DEF JobKnown

\* Begin reads a source and a descriptor, and what it asks of them it asks for good.
LEMMA BeginKnows ==
  ASSUME PrepTyped, NEW j \in Jobs, Begin(j)
  PROVE  JobKnown(j)'
<1>1. /\ job'[j].pc = "read" /\ job'[j].source = witness
      /\ job'[j].desc = IF Profile(j) = "DESCRIPTOR" THEN installed.bytes ELSE NoFile
      /\ job'[j].request = job[j].request /\ job[j].pc = "new"
  BY DEF Begin, PrepTyped
<1>2. Profile(j)' = Profile(j) /\ Wanted(j)' = Wanted(j) /\ Profile(j) \in Families
  BY <1>1, Requested DEF Profile, Wanted
<1>3. /\ witness = job[j].request.pin
      /\ Profile(j) = "DESCRIPTOR" => WorkerBounds(installed.bytes)
      /\ RequestOk(Profile(j), Wanted(j), installed.bytes)
      /\ Authenticated(Profile(j), witness, installed.bytes)
  BY DEF Begin, DescriptorReviewed
<1>4. RequestOk(Profile(j), Wanted(j), job'[j].desc) /\ Authenticated(Profile(j), witness, job'[j].desc)
  <2>1. CASE Profile(j) = "DESCRIPTOR"
    BY <1>1, <1>3, <2>1
  <2>2. CASE Profile(j) # "DESCRIPTOR"
    BY <1>2, <1>3, <2>2, DescriptorOnly
  <2> QED BY <2>1, <2>2
<1>5. Examined(j, job[j].source, job[j].desc)'
  BY <1>1, <1>2, <1>3, <1>4 DEF Examined
<1> QED BY <1>1, <1>5 DEF JobKnown, Derived, Planned, Owning

\* The input is built of the source that was authenticated, although two families read it twice.
LEMMA BuildKnows ==
  ASSUME PrepTyped, NEW j \in Jobs, JobKnown(j), Build(j)
  PROVE  JobKnown(j)'
<1>1. Examined(j, job[j].source, job[j].desc) /\ job[j].pc = "read"
  BY DEF JobKnown, Build
<1>2. PICK source \in SourceAgain(j), engine \in EngineFor(j) :
        /\ job' = [job EXCEPT ![j].pc = "built",
                              ![j].spec = Input(Profile(j), Wanted(j), job[j].desc, source, engine)]
        /\ job'[j].spec.variant # NoFile
  BY DEF Build
<1>3. source = job[j].source
  BY <1>1, <1>2 DEF SourceAgain, Examined
<1>4. /\ job'[j].pc = "built" /\ job'[j].source = job[j].source /\ job'[j].desc = job[j].desc
      /\ job'[j].request = job[j].request
      /\ job'[j].spec = Input(Profile(j), Wanted(j), job[j].desc, source, engine)
  BY <1>2 DEF PrepTyped
<1>5. Profile(j)' = Profile(j) /\ Wanted(j)' = Wanted(j)
  BY <1>4 DEF Profile, Wanted
<1>6. job'[j].spec.engine = engine
  BY <1>4 DEF Input
<1>7. Examined(j, job[j].source, job[j].desc)'
  BY <1>1, <1>4, <1>5 DEF Examined
<1> HIDE DEF Examined
<1> QED BY <1>2, <1>3, <1>4, <1>5, <1>6, <1>7 DEF JobKnown, Derived, Planned, Owning

\* The later steps keep the input and add the plan and the directory.
LEMMA LaterKnows ==
  ASSUME PrepTyped, NEW j \in Jobs, JobKnown(j), JobStep(j), ~ Begin(j), ~ Build(j)
  PROVE  JobKnown(j)'
<1>1. /\ job[j].pc \in Derived /\ job'[j].source = job[j].source /\ job'[j].desc = job[j].desc
      /\ job'[j].spec = job[j].spec /\ job'[j].request = job[j].request
  BY OwnStepOf, OthersStandStill DEF Derived
<1>2. Profile(j)' = Profile(j) /\ Wanted(j)' = Wanted(j) /\ Out(j)' = Out(j)
  BY <1>1 DEF Profile, Wanted, Out
<1>3. Examined(j, job[j].source, job[j].desc)'
  BY <1>1, <1>2 DEF JobKnown, Examined
<1>4. Out(j) \in Dirs
  BY <1>1, Requested DEF Derived
<1>5. job'[j].pc \in Planned =>
        /\ plans'[j].profile = Profile(j) /\ plans'[j].items = Wanted(j)
        /\ Profile(j) # "DESCRIPTOR" => plans'[j].desc = NoFile
  <2>1. CASE SavePlan(j)
    <3>1. plans'[j] = [profile |-> Profile(j), items |-> Wanted(j),
                       desc |-> IF Profile(j) = "DESCRIPTOR" THEN installed.bytes ELSE NoFile]
      BY <2>1 DEF SavePlan, PrepTyped
    <3> QED BY <3>1
  <2>2. CASE ~ SavePlan(j)
    <3>1. plans' = plans /\ job[j].pc \in Planned
      BY <2>2, OwnStepOf DEF MakeDir, SaveScenario, SaveResult, SavePreparation, Planned, Derived
    <3> QED BY <3>1 DEF JobKnown
  <2> QED BY <2>1, <2>2
<1>6. job'[j].pc \in Owning => dir'[Out(j)].made
  <2>1. CASE MakeDir(j)
    BY <1>4, <2>1 DEF MakeDir, Proceeds, PrepTyped, Owning, Planned, Derived
  <2>2. CASE ~ MakeDir(j)
    <3>1. job'[j].pc \in Owning => job[j].pc \in Owning
      BY <2>2, OwnStepOf DEF Owning, Planned, Derived
    <3> QED BY <1>4, <3>1, OwnDirectory DEF JobKnown
  <2> QED BY <2>1, <2>2
<1>7. job'[j].spec = Input(Profile(j), Wanted(j), job'[j].desc, job'[j].source, job'[j].spec.engine)
      /\ job'[j].spec.variant # NoFile
  BY <1>1 DEF JobKnown
<1> HIDE DEF Examined
<1> QED BY <1>2, <1>3, <1>5, <1>6, <1>7 DEF JobKnown

LEMMA JobsStep ==
  ASSUME PrepTyped, \A i \in Jobs : JobKnown(i), PNext \/ UNCHANGED pvars
  PROVE  \A i \in Jobs : JobKnown(i)'
<1>1. ASSUME NEW j \in Jobs, JobStep(j), NEW i \in Jobs PROVE JobKnown(i)'
  <2>1. CASE i # j
    BY <1>1, <2>1, OthersStandStill, OwnDirectory, JobStands
  <2>2. CASE i = j
    BY <1>1, <2>2, BeginKnows, BuildKnows, LaterKnows
  <2> QED BY <2>1, <2>2
<1>2. ASSUME Edits, NEW i \in Jobs PROVE JobKnown(i)'
  BY <1>2, EditsStay, JobStands
<1>3. ASSUME UNCHANGED <<job, plans, dir>>, NEW i \in Jobs PROVE JobKnown(i)'
  BY <1>3, JobStands
<1> QED BY <1>1, <1>2, <1>3, StepsOfPreparation DEF Bind, ApplyWrites, pvars

LEMMA OneOwnerStep ==
  ASSUME PrepTyped, OneOwner, \A i \in Jobs : JobKnown(i), PNext \/ UNCHANGED pvars
  PROVE  OneOwner'
<1>1. ASSUME NEW j \in Jobs, JobStep(j) PROVE OneOwner'
  <2>1. \A i \in Jobs : Out(i)' = Out(i)
    BY <1>1, OthersStandStill DEF Out
  <2>2. CASE job'[j].pc \in Owning => job[j].pc \in Owning
    BY <1>1, <2>1, <2>2, OthersStandStill DEF OneOwner
  <2>3. CASE job'[j].pc \in Owning /\ job[j].pc \notin Owning
    <3>1. job[j].pc = "planned" /\ MakeDir(j)
      BY <1>1, <2>3, OwnStepOf DEF Owning, Planned, Derived
    <3>2. ~ dir[Out(j)].made
      <4>1. ASSUME dir[Out(j)].made PROVE job'[j].pc = "stopped"
        BY <3>1, <4>1 DEF MakeDir, Proceeds, PrepTyped
      <4> QED BY <2>3, <4>1 DEF Owning, Planned, Derived
    <3>3. \A i \in Jobs : job[i].pc \in Owning => Out(i) # Out(j)
      BY <3>2 DEF JobKnown
    <3> QED BY <1>1, <2>1, <3>3, OthersStandStill DEF OneOwner
  <2> QED BY <2>2, <2>3
<1>2. CASE UNCHANGED job
  BY <1>2 DEF OneOwner, Out
<1> QED BY <1>1, <1>2, StepsOfPreparation, EditsStay DEF Bind, ApplyWrites, pvars

\* A step of one preparation leaves the directories that others own alone.
LEMMA OwnersApart ==
  ASSUME PrepTyped, OneOwner, \A i \in Jobs : JobKnown(i), NEW j \in Jobs, JobStep(j),
         NEW i \in Jobs \ {j}, job[i].pc \in Owning
  PROVE  dir'[Out(i)] = dir[Out(i)]
<1>1. Out(i) \in Dirs
  BY Requested DEF Owning, Planned, Derived
<1>2. CASE Out(i) # Out(j)
  BY <1>1, <1>2, OwnDirectory
<1>3. CASE Out(i) = Out(j)
  <2>1. job[j].pc \notin Owning
    BY <1>3 DEF OneOwner
  <2>2. dir[Out(j)].made
    BY <1>3 DEF JobKnown
  <2>3. CASE job[j].pc = "planned"
    BY <2>2, <2>3, OwnStepOf DEF MakeDir
  <2>4. CASE job[j].pc # "planned"
    <3>1. job[j].pc \in {"new", "read", "built"}
      BY <2>1, <2>4, OwnStepOf DEF Owning, Planned, Derived
    <3> QED BY <3>1, OwnDirectory
  <2> QED BY <2>3, <2>4
<1> QED BY <1>2, <1>3

\* The descriptor family reads back what it saved, plan included, before it calls it
\* prepared: the installed descriptor may have changed since it was first read.
LEMMA PlanIsOfInput ==
  ASSUME PrepTyped, NEW j \in Jobs, JobKnown(j), Holds(j), SavePreparation(j)
  PROVE  job[j].spec.desc = plans[j].desc
<1>1. job[j].pc = "sealed"
  BY DEF SavePreparation
<1>2. /\ Examined(j, job[j].source, job[j].desc)
      /\ job[j].spec = Input(Profile(j), Wanted(j), job[j].desc, job[j].source, job[j].spec.engine)
      /\ Profile(j) # "DESCRIPTOR" => plans[j].desc = NoFile
  BY <1>1 DEF JobKnown, Derived, Planned
<1>3. CASE Profile(j) # "DESCRIPTOR"
  BY <1>2, <1>3 DEF Input
<1>4. CASE Profile(j) = "DESCRIPTOR"
  <2>1. InputOk(Out(j)) /\ dir[Out(j)].scenario = job[j].spec /\ dir[Out(j)].result.plan = j
    BY <1>1, <1>4 DEF SavePreparation, Holds
  <2>2. job[j].spec.profile = "DESCRIPTOR"
    BY <1>2, <1>4 DEF Input
  <2> QED BY <2>1, <2>2 DEF InputOk
<1> QED BY <1>3, <1>4

LEMMA HoldsOwn ==
  ASSUME PrepTyped, NEW j \in Jobs, JobKnown(j), Holds(j), JobStep(j)
  PROVE  Holds(j)'
<1>1. job'[j].request = job[j].request /\ Out(j)' = Out(j)
  BY OthersStandStill DEF Out
<1>2. job[j].pc # "absent" /\ Out(j) \in Dirs
  BY OthersStandStill, Requested
<1>3. DOMAIN dir = Dirs /\ DOMAIN dir[Out(j)] = {"made", "scenario", "result", "intervention", "preparation"}
  BY <1>2 DEF PrepTyped
<1>4. CASE job'[j].pc \notin {"written", "sealed", "prepared"}
  BY <1>4 DEF Holds
<1>5. CASE SaveScenario(j)
  <2>1. dir'[Out(j)].scenario = job[j].spec
    <3>1. dir' = [dir EXCEPT ![Out(j)].scenario = job[j].spec,
                             ![Out(j)].intervention =
                                 IF Profile(j) \in {"DYNAMIC", "OVERLAY"}
                                 THEN [items |-> Wanted(j), source |-> job[j].source] ELSE NoFile]
      BY <1>5 DEF SaveScenario
    <3> QED BY <1>2, <1>3, <3>1
  <2>2. job'[j].pc = "written" /\ job'[j].spec = job[j].spec
    BY <1>5, OwnStepOf DEF SaveScenario
  <2> QED BY <1>1, <2>1, <2>2 DEF Holds
<1>6. CASE SaveResult(j)
  <2>1. /\ dir'[Out(j)].scenario = dir[Out(j)].scenario
        /\ dir'[Out(j)].result.plan = j /\ dir'[Out(j)].result.spec = job[j].spec
    <3>1. dir' = [dir EXCEPT ![Out(j)].result = [plan |-> j, pinned |-> plans[j],
                                                 bytes |-> dir[Out(j)].scenario, spec |-> job[j].spec]]
      BY <1>6 DEF SaveResult
    <3> QED BY <1>2, <1>3, <3>1
  <2>2. job[j].pc = "written" /\ job'[j].pc = "sealed" /\ job'[j].spec = job[j].spec
    BY <1>6, OwnStepOf DEF SaveResult
  <2> QED BY <1>1, <2>1, <2>2 DEF Holds
<1>7. CASE SavePreparation(j)
  <2>1. /\ dir'[Out(j)].scenario = dir[Out(j)].scenario /\ dir'[Out(j)].result = dir[Out(j)].result
        /\ dir'[Out(j)].preparation.plan = j /\ dir'[Out(j)].preparation.spec = job[j].spec
        /\ plans' = plans
    <3>1. dir' = [dir EXCEPT ![Out(j)].preparation =
                     [profile |-> Profile(j), plan |-> j, items |-> Wanted(j), source |-> job[j].source,
                      engine |-> job[j].spec.engine, bytes |-> dir[Out(j)].scenario, spec |-> job[j].spec]]
          /\ plans' = plans
      BY <1>7 DEF SavePreparation
    <3> QED BY <1>2, <1>3, <3>1
  <2>2. job[j].pc = "sealed" /\ job'[j].pc = "prepared" /\ job'[j].spec = job[j].spec
    BY <1>7, OwnStepOf DEF SavePreparation
  <2>3. job[j].spec.desc = plans[j].desc
    BY <1>7, PlanIsOfInput
  <2> QED BY <1>1, <2>1, <2>2, <2>3 DEF Holds
<1> QED BY <1>4, <1>5, <1>6, <1>7, OwnStepOf

LEMMA UntouchedStep ==
  ASSUME PrepTyped, OneOwner, \A i \in Jobs : JobKnown(i), ~ edited => Untouched,
         PNext \/ UNCHANGED pvars, ~ edited'
  PROVE  Untouched'
<1>1. ASSUME NEW j \in Jobs, JobStep(j) PROVE Untouched'
  <2>1. ~ edited /\ Untouched
    BY <1>1, OthersStandStill
  <2>2. \A i \in Jobs : Holds(i)
    BY <2>1 DEF Untouched
  <2>3. ASSUME NEW i \in Jobs \ {j} PROVE Holds(i)'
    <3>1. job'[i] = job[i] /\ plans'[i] = plans[i] /\ Out(i)' = Out(i)
      BY <1>1, OthersStandStill DEF Out
    <3>2. job[i].pc \in Owning => dir'[Out(i)] = dir[Out(i)]
      BY <1>1, OwnersApart
    <3> QED BY <2>2, <3>1, <3>2 DEF Holds, Owning, Planned, Derived
  <2>4. Holds(j)'
    BY <1>1, <2>2, HoldsOwn
  <2>5. ASSUME NEW o \in Dirs, dir'[o].preparation # NoFile
        PROVE  \E i \in Jobs : job'[i].pc = "prepared" /\ Out(i)' = o
    <3>1. \A i \in Jobs : job[i].pc = "prepared" => job'[i].pc = "prepared" /\ Out(i)' = Out(i)
      <4>1. job[j].pc # "prepared"
        BY <1>1, OwnStepOf
      <4> QED BY <1>1, <4>1, OthersStandStill DEF Out
    <3>2. CASE dir[o].preparation # NoFile
      BY <2>1, <3>1, <3>2 DEF Untouched
    <3>3. CASE dir[o].preparation = NoFile
      <4>1. o = Out(j) /\ dir' # dir
        BY <1>1, <2>5, <3>3, OwnDirectory
      <4>2. SavePreparation(j)
        <5>1. DOMAIN dir = Dirs /\ DOMAIN dir[o] = {"made", "scenario", "result", "intervention", "preparation"}
          BY DEF PrepTyped
        <5>2. ~ Begin(j) /\ ~ Build(j) /\ ~ SavePlan(j)
          BY <4>1 DEF Begin, Build, SavePlan
        <5>3. ~ MakeDir(j)
          BY <2>5, <3>3, <4>1, <5>1 DEF MakeDir
        <5>4. ~ SaveScenario(j)
          BY <2>5, <3>3, <4>1, <5>1 DEF SaveScenario
        <5>5. ~ SaveResult(j)
          BY <2>5, <3>3, <4>1, <5>1 DEF SaveResult
        <5> QED BY <1>1, <5>2, <5>3, <5>4, <5>5 DEF JobStep
      <4>3. job'[j].pc = "prepared" /\ Out(j)' = o
        BY <1>1, <4>1, <4>2, OwnStepOf, OthersStandStill DEF SavePreparation, Out
      <4> QED BY <4>3
    <3> QED BY <3>2, <3>3
  <2>6. \A i \in Jobs : Holds(i)'
    BY <2>3, <2>4
  <2> QED BY <2>5, <2>6 DEF Untouched
<1>2. CASE UNCHANGED <<job, plans, dir, edited>>
  BY <1>2 DEF Untouched, Holds, Out
<1> QED BY <1>1, <1>2, StepsOfPreparation, EditsStay DEF Bind, ApplyWrites, pvars

\* What a preparation writes is an input of its family, with its reviewed originals.
LEMMA SpecIsKept ==
  ASSUME PrepTyped, NEW j \in Jobs, JobKnown(j), job[j].pc \in Derived
  PROVE  Kept(job[j].spec)
<1>1. /\ job[j].spec = Input(Profile(j), Wanted(j), job[j].desc, job[j].source, job[j].spec.engine)
      /\ RequestOk(Profile(j), Wanted(j), job[j].desc)
  BY DEF JobKnown, Examined
<1>2. CASE Profile(j) = "LP"
  BY <1>1, <1>2 DEF Kept, Input, RequestOk, Originals
<1>3. CASE Profile(j) # "LP"
  BY <1>1, <1>3 DEF Kept, Input
<1> QED BY <1>2, <1>3

LEMMA PlanIsKept ==
  ASSUME PrepTyped, NEW j \in Jobs, JobKnown(j), SavePlan(j)
  PROVE  PlanKept(plans'[j])
<1>1. plans'[j] = [profile |-> Profile(j), items |-> Wanted(j),
                   desc |-> IF Profile(j) = "DESCRIPTOR" THEN installed.bytes ELSE NoFile]
  BY DEF SavePlan, PrepTyped
<1>2. job[j].pc = "built" /\ RequestOk(Profile(j), Wanted(j), job[j].desc)
  BY DEF SavePlan, JobKnown, Derived, Examined
<1>3. Profile(j) \in Families
  BY <1>2, Requested
<1> DEFINE plan == plans'[j]
<1>4. plan.profile = Profile(j) /\ plan.items = Wanted(j)
  BY <1>1
<1> HIDE DEF plan
<1>5. /\ Profile(j) = "LP" => LpRequest(Wanted(j))
      /\ Profile(j) = "DYNAMIC" => DynamicRequest(Wanted(j))
  BY <1>2, <1>3 DEF RequestOk, Families
<1>6. PlanKept(plan)
  BY <1>3, <1>4, <1>5 DEF PlanKept
<1> QED BY <1>6 DEF plan

\* Inputs and results that are sound stay so, and only these appear.
Sound(o) == Kept(dir[o].scenario) /\ ResultShape(dir[o].result)

LEMMA OwnFilesKept ==
  ASSUME PrepTyped, \A i \in Jobs : JobKnown(i), NEW j \in Jobs, JobStep(j), NEW o \in Dirs
  PROVE  /\ \/ dir'[o].scenario = dir[o].scenario
            \/ Kept(dir'[o].scenario)
         /\ \/ dir'[o].result = dir[o].result
            \/ ResultShape(dir'[o].result)
         /\ dir'[o].preparation # dir[o].preparation => o = Out(j) /\ SavePreparation(j)
<1>1. DOMAIN dir = Dirs /\ DOMAIN dir[o] = {"made", "scenario", "result", "intervention", "preparation"}
  BY DEF PrepTyped
<1>2. CASE o # Out(j) \/ dir' = dir
  <2>1. dir'[o] = dir[o]
    BY <1>2, OwnDirectory
  <2> QED BY <2>1
<1>3. CASE o = Out(j) /\ dir' # dir
  <2>1. ~ Begin(j) /\ ~ Build(j) /\ ~ SavePlan(j)
    BY <1>3 DEF Begin, Build, SavePlan
  <2>2. CASE MakeDir(j)
    <3>1. dir' = [dir EXCEPT ![o].made = TRUE]
      BY <1>3, <2>2 DEF MakeDir
    <3>2. dir'[o] = [dir[o] EXCEPT !.made = TRUE]
      BY <1>1, <3>1
    <3>3. dir'[o].scenario = dir[o].scenario /\ dir'[o].result = dir[o].result
          /\ dir'[o].preparation = dir[o].preparation
      BY <1>1, <3>2
    <3> QED BY <3>3
  <2>3. CASE SaveScenario(j)
    <3>1. dir' = [dir EXCEPT ![Out(j)].scenario = job[j].spec,
                             ![Out(j)].intervention =
                                 IF Profile(j) \in {"DYNAMIC", "OVERLAY"}
                                 THEN [items |-> Wanted(j), source |-> job[j].source] ELSE NoFile]
      BY <2>3 DEF SaveScenario
    <3>2. Kept(job[j].spec)
      BY <2>3, SpecIsKept DEF SaveScenario, Derived
    <3>3. dir'[o].scenario = job[j].spec /\ dir'[o].result = dir[o].result
          /\ dir'[o].preparation = dir[o].preparation
      BY <1>1, <1>3, <3>1
    <3> QED BY <3>2, <3>3
  <2>4. CASE SaveResult(j)
    <3>1. dir' = [dir EXCEPT ![Out(j)].result = [plan |-> j, pinned |-> plans[j],
                                                 bytes |-> dir[Out(j)].scenario, spec |-> job[j].spec]]
      BY <2>4 DEF SaveResult
    <3>2. ResultShape([plan |-> j, pinned |-> plans[j], bytes |-> dir[Out(j)].scenario, spec |-> job[j].spec])
      BY DEF ResultShape
    <3>3. dir'[o].scenario = dir[o].scenario /\ dir'[o].preparation = dir[o].preparation
          /\ dir'[o].result = [plan |-> j, pinned |-> plans[j], bytes |-> dir[Out(j)].scenario, spec |-> job[j].spec]
      BY <1>1, <1>3, <3>1
    <3> QED BY <3>2, <3>3
  <2>5. CASE SavePreparation(j)
    <3>1. dir' = [dir EXCEPT ![Out(j)].preparation =
                     [profile |-> Profile(j), plan |-> j, items |-> Wanted(j), source |-> job[j].source,
                      engine |-> job[j].spec.engine, bytes |-> dir[Out(j)].scenario, spec |-> job[j].spec]]
      BY <2>5 DEF SavePreparation
    <3> QED BY <1>1, <1>3, <2>5, <3>1
  <2> QED BY <2>1, <2>2, <2>3, <2>4, <2>5 DEF JobStep
<1> QED BY <1>2, <1>3

LEMMA EditsKept ==
  ASSUME PrepTyped, FilesKept, Edits, NEW o \in Dirs
  PROVE  /\ \/ dir'[o].scenario = dir[o].scenario
            \/ Kept(dir'[o].scenario)
         /\ \/ dir'[o].result = dir[o].result
            \/ ResultShape(dir'[o].result)
         /\ dir'[o].preparation = dir[o].preparation \/ Sound(o)
<1>1. DOMAIN dir = Dirs /\ DOMAIN dir[o] = {"made", "scenario", "result", "intervention", "preparation"}
  BY DEF PrepTyped
<1>2. CASE EditPrepared
  <2>1. PICK p, from \in Dirs, file \in {"scenario", "result", "intervention", "preparation"} :
          /\ dir[p].preparation # NoFile /\ dir[from].preparation # NoFile
          /\ dir' = [dir EXCEPT ![p][file] = dir[from][file]]
    BY <1>2 DEF EditPrepared
  <2>2. Sound(from) /\ Sound(p)
    BY <2>1 DEF FilesKept, Sound
  <2>3. CASE o # p
    BY <1>1, <2>1, <2>3
  <2>4. CASE o = p
    <3>1. dir'[o] = [dir[o] EXCEPT ![file] = dir[from][file]]
      BY <1>1, <2>1, <2>4
    <3>2. \A f \in DOMAIN dir[o] : dir'[o][f] = IF f = file THEN dir[from][f] ELSE dir[o][f]
      BY <3>1
    <3>3. dir'[o].scenario \in {dir[o].scenario, dir[from].scenario}
          /\ dir'[o].result \in {dir[o].result, dir[from].result}
      BY <1>1, <3>2
    <3> QED BY <2>2, <2>4, <3>3 DEF Sound
  <2> QED BY <2>3, <2>4
<1>3. CASE Recommit
  <2>1. PICK p \in Dirs : dir[p].preparation # NoFile /\ \E spec \in ForgedInputs(dir[p].scenario) :
                dir' = [dir EXCEPT ![p].scenario = spec,
                                   ![p].result.bytes = spec, ![p].result.spec = spec,
                                   ![p].preparation.bytes = spec, ![p].preparation.spec = spec,
                                   ![p].preparation.engine = spec.engine]
    BY <1>3 DEF Recommit
  <2>2. PICK spec \in ForgedInputs(dir[p].scenario) :
                dir' = [dir EXCEPT ![p].scenario = spec,
                                   ![p].result.bytes = spec, ![p].result.spec = spec,
                                   ![p].preparation.bytes = spec, ![p].preparation.spec = spec,
                                   ![p].preparation.engine = spec.engine]
    BY <2>1
  <2>3. Sound(p)
    BY <2>1 DEF FilesKept, Sound
  <2>4. Kept(spec)
    BY <2>2, <2>3 DEF ForgedInputs, Kept, Sound
  <2>5. CASE o # p
    BY <1>1, <2>2, <2>5
  <2>6. CASE o = p
    <3>1. /\ dir'[o].scenario = spec
          /\ dir'[o].result = [[dir[o].result EXCEPT !.bytes = spec] EXCEPT !.spec = spec]
      BY <1>1, <2>2, <2>6
    <3>2. ResultShape(dir'[o].result)
      BY <2>3, <2>6, <3>1 DEF Sound, ResultShape
    <3> QED BY <2>3, <2>4, <2>6, <3>1, <3>2
  <2> QED BY <2>5, <2>6
<1> QED BY <1>2, <1>3 DEF Edits

LEMMA FilesStep ==
  ASSUME PrepTyped, FilesKept, \A i \in Jobs : JobKnown(i), PNext \/ UNCHANGED pvars
  PROVE  FilesKept'
<1>1. ASSUME NEW j \in Jobs, JobStep(j) PROVE FilesKept'
  <2>1. \A i \in Jobs : Out(i)' = Out(i)
    BY <1>1, OthersStandStill DEF Out
  <2>2. \A o \in Dirs : /\ dir'[o].scenario = NoFile \/ Kept(dir'[o].scenario)
                        /\ dir'[o].result = NoFile \/ ResultShape(dir'[o].result)
                        /\ Kept(dir[o].scenario) => Kept(dir'[o].scenario)
                        /\ ResultShape(dir[o].result) => ResultShape(dir'[o].result)
    BY <1>1, OwnFilesKept DEF FilesKept
  <2>3. ASSUME NEW i \in Jobs PROVE plans'[i] = NoFile \/ PlanKept(plans'[i])
    <3>1. CASE i = j /\ SavePlan(j)
      BY <3>1, PlanIsKept
    <3>2. CASE i # j \/ ~ SavePlan(j)
      <4>1. plans'[i] = plans[i]
        BY <1>1, <3>2, OthersStandStill DEF JobStep, Begin, Build, MakeDir, SaveScenario, SaveResult,
           SavePreparation
      <4> QED BY <4>1 DEF FilesKept
    <3> QED BY <3>1, <3>2
  <2>4. \A i \in Jobs : job[i].pc # "absent" => Out(i) \in Dirs
    BY Requested
  <2>5. Out(j) \in Dirs
    BY <1>1, <2>4, OthersStandStill
  <2>6. ASSUME NEW i \in Jobs
        PROVE  /\ job'[i].pc \in {"written", "sealed", "prepared"} => Kept(dir'[Out(i)].scenario)
               /\ job'[i].pc \in {"sealed", "prepared"} => ResultShape(dir'[Out(i)].result)
    <3>1. CASE i # j
      BY <1>1, <2>2, <2>4, <3>1, OthersStandStill DEF FilesKept
    <3>2. CASE i = j /\ SaveScenario(j)
      <4>1. job'[j].pc = "written" /\ job[j].pc = "made"
        BY <3>2, <1>1, OwnStepOf DEF SaveScenario
      <4>2. DOMAIN dir = Dirs /\ DOMAIN dir[Out(j)] = {"made", "scenario", "result", "intervention", "preparation"}
        BY <2>5 DEF PrepTyped
      <4>3. dir' = [dir EXCEPT ![Out(j)].scenario = job[j].spec,
                               ![Out(j)].intervention =
                                   IF Profile(j) \in {"DYNAMIC", "OVERLAY"}
                                   THEN [items |-> Wanted(j), source |-> job[j].source] ELSE NoFile]
        BY <3>2 DEF SaveScenario
      <4>4. dir'[Out(j)].scenario = job[j].spec
        BY <2>5, <4>2, <4>3
      <4>5. Kept(job[j].spec)
        BY <4>1, SpecIsKept DEF Derived
      <4> QED BY <3>2, <4>1, <4>4, <4>5
    <3>3. CASE i = j /\ SaveResult(j)
      <4>1. job'[j].pc = "sealed" /\ job[j].pc = "written"
        BY <3>3, <1>1, OwnStepOf DEF SaveResult
      <4>2. DOMAIN dir = Dirs /\ DOMAIN dir[Out(j)] = {"made", "scenario", "result", "intervention", "preparation"}
        BY <2>5 DEF PrepTyped
      <4>3. dir'[Out(j)].result = [plan |-> j, pinned |-> plans[j],
                                   bytes |-> dir[Out(j)].scenario, spec |-> job[j].spec]
        BY <2>5, <3>3, <4>2 DEF SaveResult
      <4>4. ResultShape(dir'[Out(j)].result)
        BY <4>3 DEF ResultShape
      <4> QED BY <2>2, <2>5, <3>3, <4>1, <4>4 DEF FilesKept
    <3>4. CASE i = j /\ ~ SaveScenario(j) /\ ~ SaveResult(j)
      <4>1. /\ job'[j].pc \in {"written", "sealed", "prepared"} => job[j].pc \in {"written", "sealed", "prepared"}
            /\ job'[j].pc \in {"sealed", "prepared"} => job[j].pc \in {"sealed", "prepared"}
        BY <1>1, <3>4, OwnStepOf
      <4> QED BY <2>2, <2>5, <3>4, <4>1 DEF FilesKept
    <3> QED BY <3>1, <3>2, <3>3, <3>4
  <2>7. ASSUME NEW o \in Dirs, dir'[o].preparation # NoFile
        PROVE  Kept(dir'[o].scenario) /\ ResultShape(dir'[o].result)
    <3>1. CASE dir[o].preparation # NoFile
      BY <2>2, <3>1 DEF FilesKept
    <3>2. CASE dir[o].preparation = NoFile
      <4>1. o = Out(j) /\ SavePreparation(j)
        BY <1>1, <2>7, <3>2, OwnFilesKept
      <4>2. Sound(o)
        BY <4>1 DEF SavePreparation, FilesKept, Sound
      <4> QED BY <2>2, <4>2 DEF Sound
    <3> QED BY <3>1, <3>2
  <2> QED BY <2>1, <2>2, <2>3, <2>6, <2>7 DEF FilesKept
<1>2. ASSUME Edits PROVE FilesKept'
  <2>1. \A o \in Dirs : /\ dir'[o].scenario = NoFile \/ Kept(dir'[o].scenario)
                        /\ dir'[o].result = NoFile \/ ResultShape(dir'[o].result)
                        /\ Kept(dir[o].scenario) => Kept(dir'[o].scenario)
                        /\ ResultShape(dir[o].result) => ResultShape(dir'[o].result)
                        /\ dir'[o].preparation # NoFile => Sound(o)
    BY <1>2, EditsKept DEF FilesKept, Sound
  <2>2. \A i \in Jobs : Out(i)' = Out(i) /\ (job[i].pc # "absent" => Out(i) \in Dirs)
    BY <1>2, EditsStay, Requested DEF Out
  <2>3. job' = job /\ plans' = plans
    BY <1>2, EditsStay
  <2> QED BY <2>1, <2>2, <2>3 DEF FilesKept, Sound
<1>3. CASE UNCHANGED <<job, plans, dir>>
  BY <1>3 DEF FilesKept, Out
<1> QED BY <1>1, <1>2, <1>3, StepsOfPreparation DEF Bind, ApplyWrites, pvars

\* What the API has checked when it binds: the plan of the result, and the input against it.
LEMMA BindKnows ==
  ASSUME PrepTyped, FilesKept, NEW o \in Dirs, Bind(o)
  PROVE  BoundKnown(bound')
<1> DEFINE v == dir[o].result
           spec == dir[o].scenario
           plan == plans[v.plan]
<1>1. /\ InputOk(o) /\ NativeReviewed(plan)
      /\ runtime # NoFile /\ runtime.profile = spec.profile
  BY DEF Bind
<1>2. /\ v # NoFile /\ spec # NoFile /\ PlanOk(plan) /\ spec.profile = plan.profile
      /\ spec.profile # "LP" => ValidInput(spec, installed.bytes)
      /\ spec.profile \in {"OVERLAY", "DESCRIPTOR"} => spec.items = plan.items
      /\ spec.profile # "DESCRIPTOR" => GetField(spec.variant, Layout.lpBps) = PlannedLp(plan.items)
  BY <1>1 DEF InputOk
<1>3. Kept(spec) /\ v.plan \in Jobs
  BY <1>2 DEF FilesKept, ResultShape
<1>4. PlanKept(plan)
  BY <1>2, <1>3 DEF FilesKept, PlanOk
<1>5. spec.profile = "DESCRIPTOR" => installed = Shipped
  BY <1>1, <1>2 DEF NativeReviewed, EngineRecord
<1>6. bound'.spec = spec /\ bound'.plan = plan /\ bound'.install = installed
  BY DEF Bind
<1> HIDE DEF v, spec, plan
<1> QED BY <1>2, <1>3, <1>4, <1>5, <1>6 DEF BoundKnown

\* The worlds of a bound operation are the plan's, although the worker sees the input only.
LEMMA WorldsAreThePlans ==
  ASSUME BoundKnown(bound), Admitted(bound.spec)
  PROVE  /\ bound.spec.source.words = Originals(bound.plan.profile, Shipped.bytes)
         /\ bound.spec.variant = Derivation(bound.plan.profile, bound.plan.items, Shipped.bytes, bound.spec.source.words)
<1> DEFINE spec == bound.spec
           plan == bound.plan
           words == spec.source.words
           h == Shipped.bytes
<1>1. /\ words = spec.baseline /\ spec.variant # NoFile
      /\ spec.variant = Derivation(spec.profile, spec.items, h, words)
  BY DEF Admitted
<1>2. /\ Kept(spec) /\ PlanKept(plan) /\ plan.profile = spec.profile
      /\ spec.profile # "LP" => ValidInput(spec, bound.install.bytes)
      /\ spec.profile = "LP" => GetField(spec.variant, Layout.lpBps) = PlannedLp(plan.items)
      /\ spec.profile \in {"OVERLAY", "DESCRIPTOR"} => spec.items = plan.items
      /\ spec.profile = "DESCRIPTOR" => bound.install = Shipped
  BY DEF BoundKnown
<1> HIDE DEF spec, plan, words, h
<1>3. plan.profile \in Families
  BY <1>2 DEF PlanKept
<1>4. CASE spec.profile = "LP"
  <2>1. /\ LpRequest(spec.items) /\ LpRequest(plan.items)
        /\ words = PinnedWords /\ words = Originals("LP", h)
    BY <1>1, <1>2, <1>4 DEF Kept, PlanKept, Originals
  <2>2. spec.items[1].parameters.lpBps \in 0 .. (LpOriginal - 1)
    BY <2>1 DEF LpRequest, RegistryParameterOk
  <2>3. spec.variant = SetField(PinnedWords, Layout.lpBps, spec.items[1].parameters.lpBps)
    BY <1>1, <1>4, <2>1, LpVariant
  <2>4. PlannedLp(plan.items) = spec.items[1].parameters.lpBps
    BY <1>2, <1>4, <2>2, <2>3, LpReadBack
  <2>5. PlannedLp(plan.items) = plan.items[1].parameters.lpBps
    <3>1. plan.items[1].kind = "LP_REWARDS_BPS" /\ Len(plan.items) = 1
      BY <2>1 DEF LpRequest
    <3> QED BY <3>1 DEF PlannedLp, Items
  <2>6. Derivation("LP", spec.items, h, words) = Derivation("LP", plan.items, h, words)
    <3>1. spec.items[1].parameters.lpBps = plan.items[1].parameters.lpBps
      BY <2>4, <2>5
    <3> QED BY <2>1, <3>1, SameLp
  <2> QED BY <1>1, <1>2, <1>4, <2>1, <2>6 DEF spec, plan, words, h
<1>5. CASE spec.profile = "DYNAMIC"
  <2>1. DynamicRequest(spec.items) /\ DynamicRequest(plan.items) /\ spec.baseline = PinnedWords
    BY <1>2, <1>5 DEF ValidInput, DynamicShape, PlanKept
  <2>2. Derivation("DYNAMIC", spec.items, h, words) = Derivation("DYNAMIC", plan.items, h, words)
    BY <2>1, SameDynamic
  <2>3. Originals("DYNAMIC", h) = PinnedWords
    BY DEF Originals
  <2> QED BY <1>1, <1>2, <1>5, <2>1, <2>2, <2>3 DEF spec, plan, words, h
<1>6. CASE spec.profile = "OVERLAY"
  <2>1. spec.items = plan.items /\ spec.baseline = PinnedWords
    BY <1>2, <1>6 DEF ValidInput, OverlayShape
  <2>2. Originals("OVERLAY", h) = PinnedWords
    BY DEF Originals
  <2> QED BY <1>1, <1>2, <1>6, <2>1, <2>2 DEF spec, plan, words, h
<1>7. CASE spec.profile = "DESCRIPTOR"
  <2>1. spec.items = plan.items /\ bound.install = Shipped
    BY <1>2, <1>7
  <2>2. spec = Input(spec.profile, spec.items, bound.install.bytes, spec.source, spec.engine)
    BY <1>2, <1>7 DEF ValidInput
  <2>3. spec.baseline = Originals("DESCRIPTOR", h)
    BY <1>7, <2>1, <2>2 DEF Input, h
  <2> QED BY <1>1, <1>2, <1>7, <2>1, <2>3 DEF spec, plan, words, h
<1> QED BY <1>2, <1>3, <1>4, <1>5, <1>6, <1>7 DEF Families

LEMMA BindingStep ==
  ASSUME PrepTyped, FilesKept, BindingKnown, PNext \/ UNCHANGED pvars
  PROVE  BindingKnown'
<1>1. CASE \E o \in Dirs : Bind(o)
  <2>1. BoundKnown(bound') /\ worlds' = worlds /\ bound = NoFile
    BY <1>1, BindKnows DEF Bind
  <2>2. worlds = NoFile
    BY <2>1 DEF BindingKnown
  <2>3. BoundKnown(bound)'
    BY <2>1 DEF BoundKnown, Kept, PlanKept
  <2> QED BY <2>1, <2>2, <2>3 DEF BindingKnown, WorldsAsPlanned
<1>2. CASE ApplyWrites
  <2>1. /\ bound # NoFile /\ BoundKnown(bound) /\ Admitted(bound.spec) /\ bound' = bound
        /\ worlds' = [baseline |-> bound.spec.source.words, variant |-> bound.spec.variant]
    BY <1>2 DEF ApplyWrites, BindingKnown
  <2>2. WorldsAsPlanned'
    BY <2>1, WorldsAreThePlans DEF WorldsAsPlanned
  <2>3. BoundKnown(bound)'
    BY <2>1 DEF BoundKnown, Kept, PlanKept
  <2> QED BY <2>1, <2>2, <2>3 DEF BindingKnown
<1>3. CASE UNCHANGED <<bound, worlds>>
  <2>1. bound = NoFile \/ BoundKnown(bound)'
    BY <1>3 DEF BindingKnown, BoundKnown, Kept, PlanKept
  <2> QED BY <1>3, <2>1 DEF BindingKnown, WorldsAsPlanned
<1> QED BY <1>1, <1>2, <1>3, StepsOfPreparation, OthersStandStill, EditsStay DEF pvars

-----------------------------------------------------------------------------

LEMMA InitPrepared == PInit => PInv
<1> SUFFICES ASSUME PInit PROVE PInv
  OBVIOUS
<1>1. PICK s \in Starts :
        /\ job = [j \in Jobs |-> Idle(s.requests[j])] /\ plans = [j \in Jobs |-> NoFile]
        /\ dir = [o \in Dirs |-> NoDir] /\ bound = NoFile /\ worlds = NoFile /\ edited = FALSE
  BY DEF PInit
<1>2. \A j \in Jobs : /\ job[j].pc = IF s.requests[j] = NoFile THEN "absent" ELSE "new"
                      /\ job[j].request = s.requests[j] /\ s.requests[j] \in Requests
                      /\ DOMAIN job[j] = {"pc", "request", "source", "desc", "spec"}
  BY <1>1 DEF Idle, Requests
<1>3. \A o \in Dirs : /\ dir[o].scenario = NoFile /\ dir[o].result = NoFile /\ dir[o].preparation = NoFile
                      /\ DOMAIN dir[o] = {"made", "scenario", "result", "intervention", "preparation"}
  BY <1>1 DEF NoDir
<1>4. PrepTyped
  BY <1>1, <1>2, <1>3 DEF PrepTyped, Stations
<1>5. \A j \in Jobs : job[j].pc \in {"absent", "new"}
  BY <1>2
<1>6. OneOwner /\ \A j \in Jobs : JobKnown(j) /\ Holds(j)
  BY <1>5 DEF OneOwner, JobKnown, Holds, Derived, Planned, Owning
<1>7. Untouched
  BY <1>3, <1>6 DEF Untouched
<1>8. FilesKept
  BY <1>1, <1>3, <1>5 DEF FilesKept
<1> QED BY <1>1, <1>4, <1>6, <1>7, <1>8 DEF PInv, BindingKnown, WorldsAsPlanned

\* PInv is inductive, for any descriptors, sources, catalogues, requests and edits.
THEOREM PreparationInductive == PSpec => []PInv
<1>1. ASSUME PInv, PNext \/ UNCHANGED pvars PROVE PInv'
  <2>1. PrepTyped' /\ OneOwner' /\ FilesKept' /\ (\A j \in Jobs : JobKnown(j)')
        /\ (~ edited' => Untouched')
    BY <1>1, PrepTypedStep, OneOwnerStep, FilesStep, JobsStep, UntouchedStep DEF PInv
  <2>2. BindingKnown'
    BY <1>1, BindingStep DEF PInv
  <2> QED BY <2>1, <2>2 DEF PInv
<1>2. PInv /\ [PNext]_pvars => PInv'
  BY <1>1
<1> QED BY <1>2, InitPrepared, PTL DEF PSpec

\* A prepared directory that nobody edited holds one preparation, of the pinned source that
\* was authenticated and under the plan its records name (profile_overlay.py 74-123).
THEOREM PreparedIsOneDerivationHolds == PSpec => []PreparedIsOneDerivation
<1>1. ASSUME PInv, ~ edited, NEW o \in Dirs, dir[o].preparation # NoFile
      PROVE  LET meta == dir[o].preparation
                 spec == dir[o].scenario
             IN  /\ spec = meta.spec
                 /\ dir[o].result.plan = meta.plan
                 /\ spec.items = plans[meta.plan].items
                 /\ spec.desc = plans[meta.plan].desc
                 /\ spec.source = job[meta.plan].request.pin
                 /\ Authenticated(spec.profile, spec.source, spec.desc)
                 /\ ValidInput(spec, spec.desc)
  <2>1. PICK j \in Jobs : job[j].pc = "prepared" /\ Out(j) = o
    BY <1>1 DEF PInv, Untouched
  <2> DEFINE spec == job[j].spec
  <2>2. /\ dir[o].scenario = spec /\ dir[o].result.plan = j
        /\ dir[o].preparation.plan = j /\ dir[o].preparation.spec = spec
        /\ spec.desc = plans[j].desc
    BY <1>1, <2>1 DEF PInv, Untouched, Holds
  <2>3. /\ Examined(j, job[j].source, job[j].desc)
        /\ spec = Input(Profile(j), Wanted(j), job[j].desc, job[j].source, spec.engine)
        /\ spec.variant # NoFile /\ plans[j].items = Wanted(j)
    BY <1>1, <2>1 DEF PInv, JobKnown, Derived, Planned
  <2>4. Profile(j) \in Families
    BY <1>1, <2>1, Requested DEF PInv
  <2> HIDE DEF spec
  <2>5. /\ spec.profile = Profile(j) /\ spec.items = Wanted(j) /\ spec.desc = job[j].desc
        /\ spec.source = job[j].source /\ spec.baseline = Originals(Profile(j), job[j].desc)
        /\ spec.variant = Derivation(Profile(j), Wanted(j), job[j].desc, spec.baseline)
    BY <2>3 DEF Input, Examined
  <2>6. /\ RequestOk(Profile(j), Wanted(j), spec.desc)
        /\ Profile(j) = "DESCRIPTOR" => WorkerBounds(spec.desc)
        /\ spec = Input(spec.profile, spec.items, spec.desc, spec.source, spec.engine)
    BY <2>3, <2>5 DEF Examined
  <2>7. ValidInput(spec, spec.desc)
    <3>1. CASE Profile(j) = "LP"
      <4>1. LpRequest(spec.items) /\ spec.baseline = PinnedWords
        BY <2>5, <2>6, <3>1 DEF RequestOk, Originals
      <4>2. spec.variant = SetField(PinnedWords, Layout.lpBps, spec.items[1].parameters.lpBps)
        BY <2>3, <2>5, <3>1, <4>1, LpVariant
      <4> QED BY <2>3, <2>5, <2>6, <3>1, <4>1, <4>2 DEF ValidInput, LpShape
    <3>2. CASE Profile(j) = "DYNAMIC"
      <4>1. DynamicRequest(spec.items) /\ spec.baseline = PinnedWords
        BY <2>5, <2>6, <3>2 DEF RequestOk, Originals
      <4> QED BY <2>3, <2>5, <2>6, <3>2, <4>1 DEF ValidInput, DynamicShape
    <3>3. CASE Profile(j) = "OVERLAY"
      <4>1. OverlayRequest(spec.items) /\ spec.baseline = PinnedWords
        BY <2>5, <2>6, <3>3 DEF RequestOk, Originals
      <4> QED BY <2>3, <2>5, <2>6, <3>3, <4>1 DEF ValidInput, OverlayShape
    <3>4. CASE Profile(j) = "DESCRIPTOR"
      <4>1. DescriptorRequest(spec.items, spec.desc)
        BY <2>5, <2>6, <3>4 DEF RequestOk
      <4> QED BY <2>3, <2>5, <2>6, <3>4, <4>1 DEF ValidInput, DescriptorShape
    <3> QED BY <2>4, <3>1, <3>2, <3>3, <3>4 DEF Families
  <2> QED BY <2>2, <2>3, <2>5, <2>7 DEF Examined
<1>2. PInv => PreparedIsOneDerivation
  BY <1>1 DEF PInv, PreparedIsOneDerivation
<1> QED BY <1>2, PreparationInductive, PTL

\* Both worlds are the plan's: the baseline holds the reviewed originals and the variant
\* their derivation under the plan's items, also when prepared files were edited and
\* their commitments recomputed (profile_descriptor.py 669-714, api.py 170-193).
THEOREM WorldsAsPlannedHolds == PSpec => []WorldsAsPlanned
<1>1. PInv => WorldsAsPlanned
  BY DEF PInv, BindingKnown
<1> QED BY <1>1, PreparationInductive, PTL

\* What is prepared is left alone: no preparation changes a directory that has a
\* PREPARATION.json, whichever others wanted it, and a bound operation and its worlds
\* stay what they are.
PreparedStands ==
  /\ \A o \in Dirs : ~ edited' /\ dir[o].preparation # NoFile => dir'[o] = dir[o]
  /\ bound # NoFile => bound' = bound
  /\ worlds # NoFile => worlds' = worlds

\* Over every step of preparations, bindings and replacements (mkdir without exist_ok and
\* save of profile_overlay.py 104-123).
THEOREM PreparedStandsHolds == PSpec => [][PreparedStands]_pvars
<1>1. ASSUME PInv, NEW j \in Jobs, JobStep(j), ~ edited', NEW o \in Dirs, dir[o].preparation # NoFile
      PROVE  dir'[o] = dir[o]
  <2>1. ~ edited
    BY <1>1, OthersStandStill DEF PInv
  <2>2. PICK i \in Jobs : job[i].pc = "prepared" /\ Out(i) = o
    BY <1>1, <2>1 DEF PInv, Untouched
  <2>3. i # j
    BY <1>1, <2>2, OwnStepOf DEF PInv
  <2> QED BY <1>1, <2>2, <2>3, OwnersApart DEF PInv, Owning, Planned, Derived
<1>2. ASSUME PInv, PNext, ~ edited', NEW o \in Dirs, dir[o].preparation # NoFile
      PROVE  dir'[o] = dir[o]
  BY <1>1, <1>2, StepsOfPreparation, EditsStay DEF PInv, Bind, ApplyWrites
<1>3. ASSUME PInv, PNext PROVE (bound # NoFile => bound' = bound) /\ (worlds # NoFile => worlds' = worlds)
  BY <1>3, StepsOfPreparation, OthersStandStill, EditsStay DEF PInv, Bind, ApplyWrites
<1>4. PInv /\ [PNext]_pvars => [PreparedStands]_pvars
  BY <1>2, <1>3 DEF PreparedStands
<1> QED BY <1>4, PreparationInductive, PTL DEF PSpec

-----------------------------------------------------------------------------
(* Induction on the numbers up to a bound, as a fact about a set: the        *)
(* provers instantiate a set but not an operator.                            *)

LEMMA LeastNumber ==
  ASSUME NEW S \in SUBSET Nat, S # {}
  PROVE  \E x \in S : \A y \in S : x <= y
<1>1. PICK x \in S : \A y \in S : <<y, x>> \notin OpToRel(<, Nat)
  BY NatLessThanWellFounded, WFMin
<1>2. OpToRel(<, Nat) = {p \in Nat \X Nat : p[1] < p[2]}
  BY DEF OpToRel
<1>3. ASSUME NEW y \in S PROVE x <= y
  <2>1. x \in Nat /\ y \in Nat
    OBVIOUS
  <2>2. <<y, x>> \notin {p \in Nat \X Nat : p[1] < p[2]}
    BY <1>1, <1>2
  <2>3. ~(y < x)
    BY <2>1, <2>2
  <2> QED BY <2>1, <2>3
<1> QED BY <1>3

LEMMA InductionUpTo ==
  ASSUME NEW N \in Nat, NEW S, 0 \in S, \A n \in 0 .. (N - 1) : n \in S => n + 1 \in S
  PROVE  \A n \in 0 .. N : n \in S
<1> DEFINE T == {n \in 0 .. N : n \notin S}
<1> SUFFICES ASSUME T # {} PROVE FALSE
  OBVIOUS
<1>1. PICK x \in T : \A y \in T : x <= y
  <2>1. T \in SUBSET Nat
    OBVIOUS
  <2> HIDE DEF T
  <2> QED BY <2>1, LeastNumber
<1>2. x # 0 /\ x \in 1 .. N
  BY <1>1
<1>3. x - 1 \in 0 .. (N - 1) /\ x - 1 \in S
  BY <1>1, <1>2
<1> QED BY <1>1, <1>2, <1>3

-----------------------------------------------------------------------------
(* Lists without repetition. *)

LEMMA DistinctValues ==
  ASSUME NEW n \in Nat, NEW v, DOMAIN v = 1 .. n, Cardinality({v[i] : i \in 1 .. n}) = n
  PROVE  \A i, j \in 1 .. n : v[i] = v[j] => i = j
<1> DEFINE T == {v[i] : i \in 1 .. n}
           g == [i \in 1 .. n |-> v[i]]
<1>1. g \in Surjection(1 .. n, T)
  BY DEF Surjection
<1>2. IsFiniteSet(1 .. n) /\ Cardinality(1 .. n) = n
  BY FS_Interval
<1> HIDE DEF g, T
<1>3. g \in Injection(1 .. n, T)
  BY <1>1, <1>2, FS_SurjSameCardinalityImpliesInj DEF T
<1> QED BY <1>3 DEF Injection, IsInjective, g

LEMMA NamesAreUnique ==
  ASSUME NEW s, s \in Seq(Items(s)), DistinctNames(s)
  PROVE  \A x \in Items(s) : /\ ByName(s, x.name) = x
                             /\ \A y \in Items(s) : x.name = y.name => x = y
<1> DEFINE v == [i \in 1 .. Len(s) |-> s[i].name]
<1>1. Len(s) \in Nat /\ DOMAIN s = 1 .. Len(s)
  OBVIOUS
<1>2. Names(s) = {v[i] : i \in 1 .. Len(s)}
  BY <1>1 DEF Names, Items
<1>3. DOMAIN v = 1 .. Len(s) /\ Cardinality({v[i] : i \in 1 .. Len(s)}) = Len(s)
  BY <1>2 DEF DistinctNames
<1> HIDE DEF v
<1>4. \A i, j \in 1 .. Len(s) : v[i] = v[j] => i = j
  BY <1>1, <1>3, DistinctValues
<1>5. ASSUME NEW x \in Items(s), NEW y \in Items(s), x.name = y.name PROVE x = y
  <2>1. PICK i \in 1 .. Len(s) : x = s[i]
    BY <1>1 DEF Items
  <2>2. PICK j \in 1 .. Len(s) : y = s[j]
    BY <1>1 DEF Items
  <2>3. i = j
    BY <1>4, <1>5, <2>1, <2>2 DEF v
  <2> QED BY <2>1, <2>2, <2>3
<1>6. ASSUME NEW x \in Items(s) PROVE ByName(s, x.name) = x
  <2>1. ByName(s, x.name) \in Items(s) /\ ByName(s, x.name).name = x.name
    BY DEF ByName
  <2> QED BY <1>5, <2>1
<1> QED BY <1>5, <1>6

LEMMA NamedItem ==
  ASSUME NEW s, NEW n \in Names(s)
  PROVE  ByName(s, n) \in Items(s) /\ ByName(s, n).name = n
BY DEF ByName, Names

-----------------------------------------------------------------------------
(* The order of the kinds and the canonical form of a list. *)

Place(k) == SelectInSeq(KindOrder, LAMBDA x : x = k)

LEMMA PlaceIsNatural ==
  ASSUME NEW k
  PROVE  Place(k) \in Nat
<1> DEFINE I == {i \in 1 .. Len(KindOrder) : KindOrder[i] = k}
<1>1. Place(k) = IF I # {} THEN Min(I) ELSE 0
  BY DEF Place, SelectInSeq
<1>2. I \in SUBSET Nat
  OBVIOUS
<1> HIDE DEF I
<1>3. I # {} => Min(I) \in I
  BY <1>2, LeastNumber DEF Min
<1>4. I # {} => Min(I) \in Nat
  BY <1>2, <1>3
<1> QED BY <1>1, <1>4

LEMMA BeforeIsByPlace ==
  ASSUME NEW k, NEW l
  PROVE  Before(k, l) <=> Place(k) < Place(l)
BY DEF Before, Place

LEMMA BeforeIsStrict ==
  ASSUME NEW k, NEW l, NEW m
  PROVE  /\ ~Before(k, k)
         /\ Before(k, l) /\ Before(l, m) => Before(k, m)
         /\ ~(Before(k, l) /\ Before(l, k))
BY BeforeIsByPlace, PlaceIsNatural

LEMMA KindsAreOrdered ==
  ASSUME NEW d, d.kinds \in Seq(Items(d.kinds)), KindsValid(d), NEW k \in Kinds(d), NEW l \in Kinds(d), k # l
  PROVE  Before(k, l) \/ Before(l, k)
<1>1. DOMAIN d.kinds = 1 .. Len(d.kinds) /\ Len(d.kinds) \in Nat
  OBVIOUS
<1>2. PICK i \in DOMAIN d.kinds : k = d.kinds[i].kind
  BY DEF Kinds, Items
<1>3. PICK j \in DOMAIN d.kinds : l = d.kinds[j].kind
  BY DEF Kinds, Items
<1>4. i < j \/ j < i
  BY <1>1, <1>2, <1>3
<1> QED BY <1>2, <1>3, <1>4 DEF KindsValid, Ascending

(* A list whose kinds are all different and ordered.                          *)
Sortable(items) ==
    /\ items \in Seq(Items(items))
    /\ \A i, j \in 1 .. Len(items) :
          i # j => Before(items[i].kind, items[j].kind) \/ Before(items[j].kind, items[i].kind)

Earlier(items, i) == {j \in 1 .. Len(items) : Before(items[j].kind, items[i].kind)}
Ranks(items) == [i \in 1 .. Len(items) |-> Cardinality(Earlier(items, i)) + 1]

LEMMA RanksFollowOrder ==
  ASSUME NEW items, Sortable(items), NEW i \in 1 .. Len(items), NEW j \in 1 .. Len(items),
         Before(items[i].kind, items[j].kind)
  PROVE  Ranks(items)[i] < Ranks(items)[j]
<1>1. IsFiniteSet(1 .. Len(items))
  BY FS_Interval DEF Sortable
<1>2. Earlier(items, i) \in SUBSET (1 .. Len(items)) /\ Earlier(items, j) \in SUBSET (1 .. Len(items))
  BY DEF Earlier
<1>3. IsFiniteSet(Earlier(items, i)) /\ IsFiniteSet(Earlier(items, j))
  BY <1>1, <1>2, FS_Subset
<1>4. Earlier(items, i) \in SUBSET Earlier(items, j)
  BY BeforeIsStrict DEF Earlier
<1>5. i \in Earlier(items, j) /\ i \notin Earlier(items, i)
  BY BeforeIsStrict DEF Earlier
<1>6. /\ Cardinality(Earlier(items, i)) <= Cardinality(Earlier(items, j))
      /\ Cardinality(Earlier(items, i)) # Cardinality(Earlier(items, j))
  BY <1>3, <1>4, <1>5, FS_Subset
<1>7. Cardinality(Earlier(items, i)) \in Nat /\ Cardinality(Earlier(items, j)) \in Nat
  BY <1>3, FS_CardinalityType
<1> QED BY <1>6, <1>7 DEF Ranks

LEMMA RanksAreBijective ==
  ASSUME NEW items, Sortable(items)
  PROVE  Ranks(items) \in Bijection(1 .. Len(items), 1 .. Len(items))
<1> DEFINE n == Len(items)
           r == Ranks(items)
<1>1. n \in Nat /\ IsFiniteSet(1 .. n) /\ Cardinality(1 .. n) = n
  BY FS_Interval DEF Sortable
<1>2. ASSUME NEW i \in 1 .. n PROVE Cardinality(Earlier(items, i)) + 1 \in 1 .. n
  <2>1. Earlier(items, i) \in SUBSET ((1 .. n) \ {i})
    BY BeforeIsStrict DEF Earlier
  <2>2. IsFiniteSet((1 .. n) \ {i}) /\ Cardinality((1 .. n) \ {i}) = n - 1
    BY <1>1, FS_RemoveElement
  <2>3. IsFiniteSet(Earlier(items, i)) /\ Cardinality(Earlier(items, i)) <= n - 1
    BY <2>1, <2>2, FS_Subset
  <2>4. Cardinality(Earlier(items, i)) \in Nat
    BY <2>3, FS_CardinalityType
  <2> QED BY <1>1, <2>3, <2>4
<1>3. r \in [1 .. n -> 1 .. n]
  BY <1>2 DEF Ranks
<1>4. ASSUME NEW i \in 1 .. n, NEW j \in 1 .. n, r[i] = r[j] PROVE i = j
  <2> SUFFICES ASSUME i # j PROVE FALSE
    OBVIOUS
  <2>1. CASE Before(items[i].kind, items[j].kind)
    BY <1>3, <1>4, <2>1, RanksFollowOrder
  <2>2. CASE Before(items[j].kind, items[i].kind)
    BY <1>3, <1>4, <2>2, RanksFollowOrder
  <2> QED BY <2>1, <2>2 DEF Sortable
<1> HIDE DEF r, n
<1>5. r \in Injection(1 .. n, 1 .. n)
  BY <1>3, <1>4 DEF Injection, IsInjective
<1>6. r \in Surjection(1 .. n, 1 .. n)
  BY <1>1, <1>5, FS_Injection
<1> QED BY <1>5, <1>6 DEF Bijection, r, n

\* A list without a kind twice can be brought into order.
LEMMA Sorted ==
  ASSUME NEW items, Sortable(items)
  PROVE  \E s \in [DOMAIN items -> Items(items)] : Ascending([i \in DOMAIN s |-> s[i].kind])
<1> DEFINE n == Len(items)
           r == Ranks(items)
           place == [p \in 1 .. n |-> CHOOSE i \in 1 .. n : r[i] = p]
           s == [p \in 1 .. n |-> items[place[p]]]
<1>1. n \in Nat /\ DOMAIN items = 1 .. n
  BY DEF Sortable
<1>2. ASSUME NEW p \in 1 .. n PROVE place[p] \in 1 .. n /\ r[place[p]] = p
  BY RanksAreBijective DEF Bijection, Surjection
<1>3. s \in [DOMAIN items -> Items(items)]
  BY <1>1, <1>2 DEF Items
<1>4. ASSUME NEW p \in 1 .. n, NEW q \in 1 .. n, p < q PROVE Before(s[p].kind, s[q].kind)
  <2> DEFINE i == place[p]
             j == place[q]
  <2>1. i \in 1 .. n /\ j \in 1 .. n /\ r[i] = p /\ r[j] = q
    BY <1>2
  <2>2. s[p] = items[i] /\ s[q] = items[j]
    OBVIOUS
  <2> HIDE DEF i, j
  <2>3. i # j
    BY <1>4, <2>1
  <2>4. ~Before(items[j].kind, items[i].kind)
    BY <1>1, <1>4, <2>1, RanksFollowOrder
  <2> QED BY <2>1, <2>2, <2>3, <2>4 DEF Sortable
<1>5. DOMAIN s = 1 .. n
  OBVIOUS
<1> HIDE DEF s
<1>6. Ascending([i \in DOMAIN s |-> s[i].kind])
  BY <1>4, <1>5 DEF Ascending
<1> QED BY <1>3, <1>6

\* The canonical form holds the items of the list, each of them, in order.
LEMMA CanonicalForm ==
  ASSUME NEW items, Sortable(items)
  PROVE  /\ Canonical(items) \in Seq(Items(items))
         /\ Len(Canonical(items)) = Len(items)
         /\ Items(Canonical(items)) = Items(items)
<1> DEFINE n == Len(items)
           c == Canonical(items)
           I == Items(items)
<1>1. n \in Nat /\ DOMAIN items = 1 .. n /\ items \in [1 .. n -> I]
  BY DEF Sortable
<1>2. c \in [1 .. n -> I] /\ Ascending([i \in DOMAIN c |-> c[i].kind])
  BY <1>1, Sorted DEF Canonical
<1>3. c \in Seq(I) /\ Len(c) = n
  BY <1>1, <1>2
<1> HIDE DEF c
<1>4. ASSUME NEW p \in 1 .. n, NEW q \in 1 .. n, c[p] = c[q] PROVE p = q
  <2>1. \A i, j \in 1 .. n : i < j => Before(c[i].kind, c[j].kind)
    BY <1>2 DEF Ascending
  <2>2. ~(p < q) /\ ~(q < p)
    BY <1>4, <2>1, BeforeIsStrict
  <2> QED BY <1>1, <2>2
<1>5. IsFiniteSet(1 .. n) /\ Cardinality(1 .. n) = n
  BY <1>1, FS_Interval
<1>6. items \in Bijection(1 .. n, I)
  <2>1. items \in Surjection(1 .. n, I)
    BY <1>1 DEF Items, Surjection
  <2>2. \A i, j \in 1 .. n : items[i] = items[j] => i = j
    BY BeforeIsStrict DEF Sortable
  <2>3. items \in Injection(1 .. n, I)
    BY <1>1, <2>2 DEF Injection, IsInjective
  <2> QED BY <2>1, <2>3 DEF Bijection
<1> HIDE DEF I
<1>7. IsFiniteSet(I) /\ Cardinality(I) = n
  BY <1>5, <1>6, FS_Bijection DEF ExistsBijection
<1>8. c \in Injection(1 .. n, I)
  BY <1>2, <1>4 DEF Injection, IsInjective
<1>9. c \in Surjection(1 .. n, I)
  BY <1>5, <1>7, <1>8, FS_Injection
<1>10. Items(c) = I
  BY <1>2, <1>9 DEF Items, Surjection
<1> QED BY <1>3, <1>10 DEF c, I

LEMMA ReverseOfList ==
  ASSUME NEW s, s \in Seq(Items(s))
  PROVE  /\ Len(Reverse(s)) = Len(s)
         /\ DOMAIN Reverse(s) = DOMAIN s
         /\ Items(Reverse(s)) = Items(s)
<1> DEFINE n == Len(s)
           r == Reverse(s)
<1>1. n \in Nat /\ DOMAIN s = 1 .. n
  OBVIOUS
<1>2. r = [i \in 1 .. n |-> s[(n - i) + 1]]
  BY DEF Reverse
<1>3. \A i \in 1 .. n : (n - i) + 1 \in 1 .. n /\ (n - ((n - i) + 1)) + 1 = i
  BY <1>1
<1>4. r \in Seq(Items(s)) /\ Len(r) = n
  BY <1>1, <1>2, <1>3 DEF Items
<1>5. DOMAIN r = 1 .. n
  BY <1>2
<1>6. Items(r) \subseteq Items(s)
  BY <1>1, <1>2, <1>3, <1>5 DEF Items
<1>7. ASSUME NEW x \in Items(s) PROVE x \in Items(r)
  <2>1. PICK i \in 1 .. n : x = s[i]
    BY <1>1 DEF Items
  <2>2. r[(n - i) + 1] = x
    BY <1>2, <1>3, <2>1
  <2> QED BY <1>3, <1>5, <2>2 DEF Items
<1> QED BY <1>1, <1>4, <1>5, <1>6, <1>7

-----------------------------------------------------------------------------
(* A left fold as a run: what it holds after every element of the list.      *)

LEMMA LargestOfInterval ==
  ASSUME NEW k \in Nat \ {0}
  PROVE  Max(1 .. k) = k /\ (1 .. k) \ {k} = 1 .. (k - 1)
BY DEF Max

LEMMA LargestAdded ==
  ASSUME NEW m \in Nat, NEW s \in SUBSET (1 .. (m + 1)), m + 1 \in s
  PROVE  Max(s) = m + 1 /\ s \ {m + 1} \in SUBSET (1 .. m)
<1>1. \A y \in s : m + 1 >= y
  OBVIOUS
<1>2. ASSUME NEW x \in s, \A y \in s : x >= y PROVE x = m + 1
  BY <1>1, <1>2
<1>3. Max(s) \in s /\ \A y \in s : Max(s) >= y
  BY <1>1 DEF Max
<1>4. Max(s) = m + 1
  BY <1>2, <1>3
<1>5. s \ {m + 1} \in SUBSET (1 .. m)
  OBVIOUS
<1> QED BY <1>4, <1>5

WalkStep(d, original, acc, step) ==
    IF acc.code # "OK" THEN acc
    ELSE IF step.what = "require" THEN Require(d, acc, original, step)
    ELSE Assign(d, acc, original, step)
WalkStart(original) == [code |-> "OK", words |-> original, used |-> {}, applied |-> {}]

WalkOn(d, original, list, g, m) ==
    g = [s \in SUBSET (1 .. m) |->
            IF s = {} THEN WalkStart(original)
            ELSE WalkStep(d, original, g[s \ {Max(s)}], list[Max(s)])]

LEMMA WalkExtends ==
  ASSUME NEW d, NEW original, NEW list, NEW m \in Nat, NEW g, WalkOn(d, original, list, g, m)
  PROVE  \E h : WalkOn(d, original, list, h, m + 1)
<1> DEFINE h == [s \in SUBSET (1 .. (m + 1)) |->
                    IF m + 1 \in s THEN WalkStep(d, original, g[s \ {m + 1}], list[m + 1]) ELSE g[s]]
<1>1. ASSUME NEW s \in SUBSET (1 .. (m + 1))
      PROVE  h[s] = IF s = {} THEN WalkStart(original)
                    ELSE WalkStep(d, original, h[s \ {Max(s)}], list[Max(s)])
  <2>1. CASE m + 1 \in s
    <3>1. Max(s) = m + 1 /\ s \ {m + 1} \in SUBSET (1 .. m)
      BY <2>1, LargestAdded
    <3>2. h[s] = WalkStep(d, original, g[s \ {m + 1}], list[m + 1])
      BY <2>1
    <3>3. h[s \ {m + 1}] = g[s \ {m + 1}]
      BY <3>1
    <3> QED BY <2>1, <3>1, <3>2, <3>3
  <2>2. CASE m + 1 \notin s
    <3>1. s \in SUBSET (1 .. m)
      BY <2>2
    <3>2. h[s] = g[s]
      BY <2>2
    <3>3. g[s] = IF s = {} THEN WalkStart(original)
                 ELSE WalkStep(d, original, g[s \ {Max(s)}], list[Max(s)])
      BY <3>1 DEF WalkOn
    <3>4. h[s \ {Max(s)}] = g[s \ {Max(s)}]
      BY <2>2
    <3> QED BY <3>2, <3>3, <3>4
  <2> QED BY <2>1, <2>2
<1>2. h = [s \in SUBSET (1 .. (m + 1)) |-> h[s]]
  OBVIOUS
<1> HIDE DEF h
<1>3. WalkOn(d, original, list, h, m + 1)
  BY <1>1, <1>2 DEF WalkOn
<1> QED BY <1>3

LEMMA WalkExists ==
  ASSUME NEW d, NEW original, NEW list, NEW n \in Nat
  PROVE  \E g : WalkOn(d, original, list, g, n)
<1> DEFINE S == {m \in 0 .. n : \E g : WalkOn(d, original, list, g, m)}
<1>1. 0 \in S
  <2> DEFINE g == [s \in SUBSET (1 .. 0) |-> WalkStart(original)]
  <2>1. SUBSET (1 .. 0) = {{}}
    OBVIOUS
  <2>2. WalkOn(d, original, list, g, 0)
    BY <2>1 DEF WalkOn
  <2> QED BY <2>2
<1>2. ASSUME NEW m \in 0 .. (n - 1), m \in S PROVE m + 1 \in S
  BY <1>2, WalkExtends
<1> HIDE DEF S
<1>3. n \in S
  BY <1>1, <1>2, InductionUpTo
<1> QED BY <1>3 DEF S

(* st holds what compose has after every rule.                                *)
Walking(d, canon, original, n, st) ==
    /\ DOMAIN st = 0 .. n
    /\ st[0] = WalkStart(original)
    /\ \A k \in 1 .. n : st[k] = WalkStep(d, original, st[k - 1], Steps(d, canon)[k])
    /\ Walk(d, canon, original) = st[n]

\* compose's walk, rule by rule.
LEMMA WalkRuns ==
  ASSUME NEW d, NEW canon, NEW original, NEW n \in Nat, DOMAIN Steps(d, canon) = 1 .. n
  PROVE  \E st : Walking(d, canon, original, n, st)
<1> DEFINE list == Steps(d, canon)
           g == CHOOSE g : WalkOn(d, original, list, g, n)
           st == [k \in 0 .. n |-> g[1 .. k]]
<1>1. WalkOn(d, original, list, g, n)
  BY WalkExists
<1>2. Walk(d, canon, original) = g[1 .. n]
  BY DEF Walk, FoldLeft, MapThenFoldSet, WalkOn, WalkStep, WalkStart
<1> HIDE DEF g, list
<1>3. ASSUME NEW s \in SUBSET (1 .. n)
      PROVE  g[s] = IF s = {} THEN WalkStart(original)
                    ELSE WalkStep(d, original, g[s \ {Max(s)}], list[Max(s)])
  BY <1>1 DEF WalkOn
<1>4. 1 .. 0 = {} /\ 1 .. 0 \in SUBSET (1 .. n)
  OBVIOUS
<1>5. g[1 .. 0] = WalkStart(original)
  BY <1>3, <1>4
<1>6. ASSUME NEW k \in 1 .. n PROVE g[1 .. k] = WalkStep(d, original, g[1 .. (k - 1)], list[k])
  <2>1. 1 .. k \in SUBSET (1 .. n) /\ k \in 1 .. k /\ k \in Nat \ {0}
    OBVIOUS
  <2>2. Max(1 .. k) = k /\ (1 .. k) \ {k} = 1 .. (k - 1)
    BY <2>1, LargestOfInterval
  <2> QED BY <1>3, <2>1, <2>2
<1>7. /\ DOMAIN st = 0 .. n
      /\ st[0] = WalkStart(original)
      /\ \A k \in 1 .. n : st[k] = WalkStep(d, original, st[k - 1], list[k])
      /\ Walk(d, canon, original) = st[n]
  BY <1>2, <1>5, <1>6
<1> HIDE DEF st
<1>8. Walking(d, canon, original, n, st)
  BY <1>7 DEF list, Walking
<1> QED BY <1>8

-----------------------------------------------------------------------------
(* The rules compose walks through. *)

Labelled(x, what, rules) == [i \in DOMAIN rules |-> [what |-> what, item |-> x, rule |-> rules[i]]]
KindSteps(d, x) ==
    Labelled(x, "require", KindOf(d, x.kind).requires) \o Labelled(x, "assign", KindOf(d, x.kind).assign)

StepsOn(d, canon, g, m) ==
    g = [s \in SUBSET (1 .. m) |->
            IF s = {} THEN <<>> ELSE g[s \ {Max(s)}] \o KindSteps(d, canon[Max(s)])]

LEMMA StepsExtend ==
  ASSUME NEW d, NEW canon, NEW m \in Nat, NEW g, StepsOn(d, canon, g, m)
  PROVE  \E h : StepsOn(d, canon, h, m + 1)
<1> DEFINE h == [s \in SUBSET (1 .. (m + 1)) |->
                    IF m + 1 \in s THEN g[s \ {m + 1}] \o KindSteps(d, canon[m + 1]) ELSE g[s]]
<1>1. ASSUME NEW s \in SUBSET (1 .. (m + 1))
      PROVE  h[s] = IF s = {} THEN <<>> ELSE h[s \ {Max(s)}] \o KindSteps(d, canon[Max(s)])
  <2>1. CASE m + 1 \in s
    <3>1. Max(s) = m + 1 /\ s \ {m + 1} \in SUBSET (1 .. m)
      BY <2>1, LargestAdded
    <3>2. h[s] = g[s \ {m + 1}] \o KindSteps(d, canon[m + 1])
      BY <2>1
    <3>3. h[s \ {m + 1}] = g[s \ {m + 1}]
      BY <3>1
    <3> QED BY <2>1, <3>1, <3>2, <3>3
  <2>2. CASE m + 1 \notin s
    <3>1. s \in SUBSET (1 .. m)
      BY <2>2
    <3>2. h[s] = g[s]
      BY <2>2
    <3>3. g[s] = IF s = {} THEN <<>> ELSE g[s \ {Max(s)}] \o KindSteps(d, canon[Max(s)])
      BY <3>1 DEF StepsOn
    <3>4. h[s \ {Max(s)}] = g[s \ {Max(s)}]
      BY <2>2
    <3> QED BY <3>2, <3>3, <3>4
  <2> QED BY <2>1, <2>2
<1>2. h = [s \in SUBSET (1 .. (m + 1)) |-> h[s]]
  OBVIOUS
<1> HIDE DEF h
<1>3. StepsOn(d, canon, h, m + 1)
  BY <1>1, <1>2 DEF StepsOn
<1> QED BY <1>3

LEMMA StepsExist ==
  ASSUME NEW d, NEW canon, NEW n \in Nat
  PROVE  \E g : StepsOn(d, canon, g, n)
<1> DEFINE S == {m \in 0 .. n : \E g : StepsOn(d, canon, g, m)}
<1>1. 0 \in S
  <2> DEFINE g == [s \in SUBSET (1 .. 0) |-> <<>>]
  <2>1. SUBSET (1 .. 0) = {{}}
    OBVIOUS
  <2>2. StepsOn(d, canon, g, 0)
    BY <2>1 DEF StepsOn
  <2> QED BY <2>2
<1>2. ASSUME NEW m \in 0 .. (n - 1), m \in S PROVE m + 1 \in S
  BY <1>2, StepsExtend
<1> HIDE DEF S
<1>3. n \in S
  BY <1>1, <1>2, InductionUpTo
<1> QED BY <1>3 DEF S

(* st holds what Steps has gathered after every item.                         *)
Gathering(d, canon, n, st) ==
    /\ DOMAIN st = 0 .. n
    /\ st[0] = <<>>
    /\ \A k \in 1 .. n : st[k] = st[k - 1] \o KindSteps(d, canon[k])
    /\ Steps(d, canon) = st[n]

LEMMA StepsRun ==
  ASSUME NEW d, NEW canon, NEW n \in Nat, DOMAIN canon = 1 .. n
  PROVE  \E st : Gathering(d, canon, n, st)
<1> DEFINE g == CHOOSE g : StepsOn(d, canon, g, n)
           st == [k \in 0 .. n |-> g[1 .. k]]
<1>1. StepsOn(d, canon, g, n)
  BY StepsExist
<1>2. Steps(d, canon) = g[1 .. n]
  BY DEF Steps, FoldLeft, MapThenFoldSet, StepsOn, KindSteps, Labelled
<1> HIDE DEF g
<1>3. ASSUME NEW s \in SUBSET (1 .. n)
      PROVE  g[s] = IF s = {} THEN <<>> ELSE g[s \ {Max(s)}] \o KindSteps(d, canon[Max(s)])
  BY <1>1 DEF StepsOn
<1>4. 1 .. 0 = {} /\ 1 .. 0 \in SUBSET (1 .. n)
  OBVIOUS
<1>5. g[1 .. 0] = <<>>
  BY <1>3, <1>4
<1>6. ASSUME NEW k \in 1 .. n PROVE g[1 .. k] = g[1 .. (k - 1)] \o KindSteps(d, canon[k])
  <2>1. 1 .. k \in SUBSET (1 .. n) /\ k \in 1 .. k /\ k \in Nat \ {0}
    OBVIOUS
  <2>2. Max(1 .. k) = k /\ (1 .. k) \ {k} = 1 .. (k - 1)
    BY <2>1, LargestOfInterval
  <2> QED BY <1>3, <2>1, <2>2
<1>7. ASSUME NEW k \in 1 .. n PROVE st[k] = st[k - 1] \o KindSteps(d, canon[k])
  <2>1. st[k] = g[1 .. k] /\ st[k - 1] = g[1 .. (k - 1)]
    OBVIOUS
  <2> QED BY <1>6, <2>1
<1>8. DOMAIN st = 0 .. n /\ st[0] = <<>> /\ Steps(d, canon) = st[n]
  BY <1>2, <1>5
<1> HIDE DEF st
<1>9. Gathering(d, canon, n, st)
  BY <1>7, <1>8, Zenon DEF Gathering
<1> QED BY <1>9

LEMMA ItemsOfConcatenation ==
  ASSUME NEW T, NEW s \in Seq(T), NEW t \in Seq(T)
  PROVE  s \o t \in Seq(T) /\ Items(s \o t) = Items(s) \cup Items(t)
<1> DEFINE m == Len(s)
           n == Len(t)
           u == s \o t
<1>1. /\ m \in Nat /\ n \in Nat /\ DOMAIN s = 1 .. m /\ DOMAIN t = 1 .. n
      /\ u \in Seq(T) /\ DOMAIN u = 1 .. (m + n)
      /\ \A i \in 1 .. (m + n) : u[i] = IF i <= m THEN s[i] ELSE t[i - m]
  OBVIOUS
<1> HIDE DEF m, n, u
<1>2. ASSUME NEW x \in Items(u) PROVE x \in Items(s) \cup Items(t)
  <2>1. PICK i \in 1 .. (m + n) : x = u[i]
    BY <1>1 DEF Items
  <2>2. CASE i <= m
    <3>1. i \in 1 .. m /\ x = s[i]
      BY <1>1, <2>1, <2>2
    <3> QED BY <1>1, <3>1 DEF Items
  <2>3. CASE ~(i <= m)
    <3>1. i - m \in 1 .. n /\ x = t[i - m]
      BY <1>1, <2>1, <2>3
    <3> QED BY <1>1, <3>1 DEF Items
  <2> QED BY <2>2, <2>3
<1>3. ASSUME NEW x \in Items(s) PROVE x \in Items(u)
  <2>1. PICK i \in 1 .. m : x = s[i]
    BY <1>1 DEF Items
  <2>2. i \in 1 .. (m + n) /\ u[i] = x
    BY <1>1, <2>1
  <2> QED BY <1>1, <2>2 DEF Items
<1>4. ASSUME NEW x \in Items(t) PROVE x \in Items(u)
  <2>1. PICK i \in 1 .. n : x = t[i]
    BY <1>1 DEF Items
  <2>2. i + m \in 1 .. (m + n) /\ u[i + m] = x
    BY <1>1, <2>1
  <2> QED BY <1>1, <2>2 DEF Items
<1> QED BY <1>1, <1>2, <1>3, <1>4 DEF u

LEMMA LabelledRules ==
  ASSUME NEW x, NEW what, NEW rules, rules \in Seq(Items(rules))
  PROVE  LET T == {[what |-> what, item |-> x, rule |-> r] : r \in Items(rules)}
         IN  Labelled(x, what, rules) \in Seq(T) /\ Items(Labelled(x, what, rules)) = T
<1> DEFINE n == Len(rules)
           T == {[what |-> what, item |-> x, rule |-> r] : r \in Items(rules)}
           l == Labelled(x, what, rules)
<1>1. n \in Nat /\ DOMAIN rules = 1 .. n
  OBVIOUS
<1>2. l = [i \in 1 .. n |-> [what |-> what, item |-> x, rule |-> rules[i]]]
  BY <1>1 DEF Labelled
<1>3. \A i \in 1 .. n : rules[i] \in Items(rules)
  BY <1>1 DEF Items
<1>4. l \in Seq(T)
  BY <1>1, <1>2, <1>3
<1>5. Items(l) = {[what |-> what, item |-> x, rule |-> rules[i]] : i \in 1 .. n}
  BY <1>2 DEF Items
<1>6. Items(rules) = {rules[i] : i \in 1 .. n}
  BY <1>1 DEF Items
<1> QED BY <1>4, <1>5, <1>6

(* The rules of one item, as steps.                                           *)
StepSet(d, x) ==
    {[what |-> "require", item |-> x, rule |-> r] : r \in Items(KindOf(d, x.kind).requires)}
    \cup {[what |-> "assign", item |-> x, rule |-> r] : r \in Items(KindOf(d, x.kind).assign)}

LEMMA KindStepsAreRules ==
  ASSUME NEW d, NEW x,
         KindOf(d, x.kind).requires \in Seq(Items(KindOf(d, x.kind).requires)),
         KindOf(d, x.kind).assign \in Seq(Items(KindOf(d, x.kind).assign))
  PROVE  KindSteps(d, x) \in Seq(StepSet(d, x)) /\ Items(KindSteps(d, x)) = StepSet(d, x)
<1> DEFINE A == Labelled(x, "require", KindOf(d, x.kind).requires)
           B == Labelled(x, "assign", KindOf(d, x.kind).assign)
           TA == {[what |-> "require", item |-> x, rule |-> r] : r \in Items(KindOf(d, x.kind).requires)}
           TB == {[what |-> "assign", item |-> x, rule |-> r] : r \in Items(KindOf(d, x.kind).assign)}
<1>1. A \in Seq(TA) /\ Items(A) = TA
  BY LabelledRules
<1>2. B \in Seq(TB) /\ Items(B) = TB
  BY LabelledRules
<1>3. StepSet(d, x) = TA \cup TB /\ KindSteps(d, x) = A \o B
  BY DEF StepSet, KindSteps
<1> HIDE DEF A, B, TA, TB
<1>4. A \in Seq(TA \cup TB) /\ B \in Seq(TA \cup TB)
  BY <1>1, <1>2
<1> QED BY <1>1, <1>2, <1>3, <1>4, ItemsOfConcatenation

StepsUpTo(d, canon, k) == UNION {StepSet(d, canon[j]) : j \in 1 .. k}
GatheredUpTo(d, canon, T, st, k) == st[k] \in Seq(T) /\ Items(st[k]) = StepsUpTo(d, canon, k)

\* The steps of a list are the rules of its items, and of nothing else.
LEMMA StepsAreRules ==
  ASSUME NEW d, NEW canon, canon \in Seq(Items(canon)),
         \A x \in Items(canon) :
            /\ KindOf(d, x.kind).requires \in Seq(Items(KindOf(d, x.kind).requires))
            /\ KindOf(d, x.kind).assign \in Seq(Items(KindOf(d, x.kind).assign))
  PROVE  LET T == UNION {StepSet(d, x) : x \in Items(canon)}
         IN  Steps(d, canon) \in Seq(T) /\ Items(Steps(d, canon)) = T
<1> DEFINE n == Len(canon)
           T == UNION {StepSet(d, x) : x \in Items(canon)}
<1>1. n \in Nat /\ DOMAIN canon = 1 .. n
  OBVIOUS
<1> HIDE DEF n
<1>2. PICK st : Gathering(d, canon, n, st)
  BY <1>1, StepsRun
<1> DEFINE S == {k \in 0 .. n : GatheredUpTo(d, canon, T, st, k)}
<1>3. 0 \in S
  <2>1. st[0] = <<>>
    BY <1>2 DEF Gathering
  <2>2. Items(<<>>) = {}
    BY DEF Items
  <2>3. StepsUpTo(d, canon, 0) = {}
    BY DEF StepsUpTo
  <2> HIDE DEF T
  <2>4. <<>> \in Seq(T)
    OBVIOUS
  <2>5. GatheredUpTo(d, canon, T, st, 0)
    BY <2>1, <2>2, <2>3, <2>4 DEF GatheredUpTo
  <2> QED BY <1>1, <2>5
<1>4. ASSUME NEW k \in 0 .. (n - 1), k \in S PROVE k + 1 \in S
  <2>1. k + 1 \in 1 .. n /\ (k + 1) - 1 = k /\ k + 1 \in 0 .. n
    BY <1>1
  <2>2. st[k + 1] = st[k] \o KindSteps(d, canon[k + 1])
    <3>1. st[k + 1] = st[(k + 1) - 1] \o KindSteps(d, canon[k + 1])
      BY <1>2, <2>1, Zenon DEF Gathering
    <3> QED BY <2>1, <3>1
  <2>3. canon[k + 1] \in Items(canon)
    BY <1>1, <2>1 DEF Items
  <2>4. /\ KindSteps(d, canon[k + 1]) \in Seq(StepSet(d, canon[k + 1]))
        /\ Items(KindSteps(d, canon[k + 1])) = StepSet(d, canon[k + 1])
    BY <2>3, KindStepsAreRules
  <2>5. StepSet(d, canon[k + 1]) \subseteq T
    BY <2>3
  <2>6. st[k] \in Seq(T) /\ Items(st[k]) = StepsUpTo(d, canon, k)
    BY <1>4 DEF GatheredUpTo
  <2>7. StepsUpTo(d, canon, k + 1) = StepsUpTo(d, canon, k) \cup StepSet(d, canon[k + 1])
    <3>1. 1 .. (k + 1) = (1 .. k) \cup {k + 1}
      BY <1>1
    <3> QED BY <3>1 DEF StepsUpTo
  <2> HIDE DEF T
  <2>8. KindSteps(d, canon[k + 1]) \in Seq(T)
    BY <2>4, <2>5
  <2>9. st[k + 1] \in Seq(T) /\ Items(st[k + 1]) = StepsUpTo(d, canon, k) \cup StepSet(d, canon[k + 1])
    BY <2>2, <2>4, <2>6, <2>8, ItemsOfConcatenation
  <2>10. GatheredUpTo(d, canon, T, st, k + 1)
    BY <2>7, <2>9 DEF GatheredUpTo
  <2> QED BY <2>1, <2>10
<1>5. StepsUpTo(d, canon, n) = T
  <2>1. Items(canon) = {canon[j] : j \in 1 .. n}
    BY <1>1 DEF Items
  <2> QED BY <2>1 DEF StepsUpTo
<1>6. n \in S
  <2> HIDE DEF S
  <2>1. \A k \in 0 .. n : k \in S
    BY <1>1, <1>3, <1>4, InductionUpTo
  <2> QED BY <1>1, <2>1
<1>7. st[n] \in Seq(T) /\ Items(st[n]) = StepsUpTo(d, canon, n)
  BY <1>6 DEF GatheredUpTo
<1>8. Steps(d, canon) = st[n]
  BY <1>2 DEF Gathering
<1> HIDE DEF T
<1>9. Steps(d, canon) \in Seq(T) /\ Items(Steps(d, canon)) = T
  BY <1>5, <1>7, <1>8
<1> QED BY <1>9 DEF T

-----------------------------------------------------------------------------
(* Words of a state, field by field. *)

(* The u bits of word i of target t that start at bit o.                      *)
Segment(words, t, i, o, u) == (words[t][i] \div 2 ^ o) % 2 ^ u

LEMMA FieldIsSegment ==
  ASSUME NEW words, NEW f
  PROVE  GetField(words, f) = Segment(words, f.target, f.word, f.offset, f.width)
BY DEF GetField, Segment

LEMMA BitIsSegment ==
  ASSUME NEW words, NEW t, NEW i, NEW b
  PROVE  Bit(words[t][i], b) = Segment(words, t, i, b, 1)
<1>1. 2 ^ 1 = 2
  OBVIOUS
<1> QED BY <1>1 DEF Bit, Segment

\* Writing a field: what the word holds after it, in the field and away from it.
LEMMA FieldWritten ==
  ASSUME NEW w \in Nat, NEW f, f.offset \in Nat, f.width \in Nat \ {0}, NEW v \in 0 .. (2 ^ f.width - 1)
  PROVE  /\ PutField(w, f, v) \in Nat
         /\ (PutField(w, f, v) \div 2 ^ f.offset) % 2 ^ f.width = v
         /\ \A o \in Nat, u \in Nat \ {0} :
               (o .. (o + u - 1)) \cap Mask(f) = {} =>
                   (PutField(w, f, v) \div 2 ^ o) % 2 ^ u = (w \div 2 ^ o) % 2 ^ u
<1> DEFINE a == 2 ^ f.offset
           b == 2 ^ f.width
<1>1. a \in Nat \ {0} /\ b \in Nat \ {0}
  BY PowerIsPositive
<1>2. PutField(w, f, v) = Put(w, a, b, v)
  BY DEF PutField, Put
<1>3. v \in 0 .. (b - 1)
  OBVIOUS
<1> HIDE DEF a, b
<1>4. Put(w, a, b, v) \in Nat
  BY <1>1, <1>3, PutIsNatural DEF Put
<1>5. (Put(w, a, b, v) \div a) % b = v
  BY <1>1, <1>3, PutThenGet DEF Put
<1>6. ASSUME NEW o \in Nat, NEW u \in Nat \ {0}, (o .. (o + u - 1)) \cap Mask(f) = {}
      PROVE  (PutField(w, f, v) \div 2 ^ o) % 2 ^ u = (w \div 2 ^ o) % 2 ^ u
  <2>1. o >= f.offset + f.width \/ o + u <= f.offset
    <3> SUFFICES ASSUME o < f.offset + f.width, f.offset < o + u PROVE FALSE
      OBVIOUS
    <3>1. CASE o <= f.offset
      <4>1. f.offset \in o .. (o + u - 1) /\ f.offset \in Mask(f)
        BY <3>1 DEF Mask
      <4> QED BY <1>6, <4>1
    <3>2. CASE f.offset < o
      <4>1. o \in o .. (o + u - 1) /\ o \in Mask(f)
        BY <3>2 DEF Mask
      <4> QED BY <1>6, <4>1
    <3> QED BY <3>1, <3>2
  <2>2. CASE o >= f.offset + f.width
    <3> DEFINE k == o - (f.offset + f.width)
               e == 2 ^ k
    <3>1. k \in Nat /\ o = (f.offset + f.width) + k /\ f.offset + f.width \in Nat
      BY <2>2
    <3>2. 2 ^ o = 2 ^ (f.offset + f.width) * 2 ^ k
      BY <3>1, PowerOfSum
    <3>3. 2 ^ (f.offset + f.width) = a * b
      BY PowerOfSum DEF a, b
    <3>4. e \in Nat \ {0}
      BY <3>1, PowerIsPositive
    <3>5. 2 ^ o = a * b * e
      BY <3>2, <3>3
    <3> HIDE DEF k, e
    <3>6. AgreeAbove(Put(w, a, b, v), w, 2 ^ o)
      BY <1>1, <1>3, <3>4, <3>5, PutKeepsAbove
    <3> QED BY <1>2, <3>6 DEF AgreeAbove
  <2>3. CASE o + u <= f.offset
    <3> DEFINE k == f.offset - (o + u)
               e == 2 ^ k
               p == 2 ^ o
               q == 2 ^ u
    <3>1. k \in Nat /\ f.offset = (o + u) + k /\ o + u \in Nat
      BY <2>3
    <3>2. 2 ^ f.offset = 2 ^ (o + u) * 2 ^ k
      BY <3>1, PowerOfSum
    <3>3. 2 ^ (o + u) = p * q
      BY PowerOfSum
    <3>4. e \in Nat \ {0} /\ p \in Nat \ {0} /\ q \in Nat \ {0}
      BY <3>1, PowerIsPositive
    <3>5. a = p * q * e
      BY <3>2, <3>3 DEF a
    <3> HIDE DEF k, e, p, q
    <3>6. v \in Nat
      BY <1>1, <1>3
    <3>7. AgreeAt(Put(w, a, b, v), w, p, q)
      BY <1>1, <3>4, <3>5, <3>6, PutKeepsBelow
    <3> QED BY <1>2, <3>7 DEF p, q, AgreeAt
  <2> QED BY <2>1, <2>2, <2>3
<1>7. PutField(w, f, v) \in Nat /\ (PutField(w, f, v) \div a) % b = v
  BY <1>2, <1>4, <1>5
<1> QED BY <1>6, <1>7 DEF a, b

(* States of the words: the same words as o has, each a natural.              *)
WordsLike(words, o) ==
    /\ words = [t \in DOMAIN o |-> [i \in DOMAIN o[t] |-> words[t][i]]]
    /\ DOMAIN words = DOMAIN o
    /\ \A t \in DOMAIN o : /\ DOMAIN words[t] = DOMAIN o[t]
                           /\ \A i \in DOMAIN o[t] : words[t][i] \in Nat

(* A field that lies in the words.                                            *)
FieldIn(f, o) ==
    /\ f.target \in DOMAIN o
    /\ f.word \in DOMAIN o[f.target]
    /\ f.offset \in Nat
    /\ f.width \in Nat \ {0}

(* The bits at (t, i, o .. o + u - 1) are not among these.                    *)
Away(bits, t, i, o, u) == \A b \in o .. (o + u - 1) : <<t, i, b>> \notin bits

(* What lies away from these bits is the same in both.                        *)
SameAway(new, words, o, bits) ==
    \A t \in DOMAIN o : \A i \in DOMAIN o[t] : \A p \in Nat, u \in Nat \ {0} :
        Away(bits, t, i, p, u) => Segment(new, t, i, p, u) = Segment(words, t, i, p, u)

\* The same on a state: the field reads what was written and the rest is as before.
LEMMA StateWritten ==
  ASSUME NEW o, NEW words, WordsLike(words, o), NEW f, FieldIn(f, o), NEW v \in 0 .. (2 ^ f.width - 1)
  PROVE  LET new == [words EXCEPT ![f.target][f.word] = PutField(@, f, v)]
         IN  /\ WordsLike(new, o)
             /\ GetField(new, f) = v
             /\ SameAway(new, words, o, BitsOf(f))
<1> DEFINE new == [words EXCEPT ![f.target][f.word] = PutField(@, f, v)]
           w == words[f.target][f.word]
           n == PutField(w, f, v)
<1>1. w \in Nat
  BY DEF WordsLike, FieldIn
<1>2. /\ n \in Nat
      /\ (n \div 2 ^ f.offset) % 2 ^ f.width = v
      /\ \A p \in Nat, u \in Nat \ {0} :
            (p .. (p + u - 1)) \cap Mask(f) = {} => (n \div 2 ^ p) % 2 ^ u = (w \div 2 ^ p) % 2 ^ u
  <2>1. f.offset \in Nat /\ f.width \in Nat \ {0}
    BY DEF FieldIn
  <2> HIDE DEF w
  <2> QED BY ONLY <1>1, <2>1, v \in 0 .. (2 ^ f.width - 1), FieldWritten
<1>3. /\ DOMAIN new = DOMAIN o
      /\ \A t \in DOMAIN o : DOMAIN new[t] = DOMAIN o[t]
      /\ new[f.target][f.word] = n
      /\ \A t \in DOMAIN o : \A i \in DOMAIN o[t] :
            ~(t = f.target /\ i = f.word) => new[t][i] = words[t][i]
  BY DEF WordsLike, FieldIn
<1>7. new = [t \in DOMAIN o |-> [i \in DOMAIN o[t] |-> new[t][i]]]
  <2> DEFINE row(t) == [i \in DOMAIN o[t] |-> words[t][i]]
  <2>1. words = [t \in DOMAIN o |-> row(t)]
    BY DEF WordsLike
  <2>2. new = [t \in DOMAIN o |-> IF t = f.target THEN [row(t) EXCEPT ![f.word] = n] ELSE row(t)]
    BY <2>1
  <2>3. \A t \in DOMAIN o : new[t] = [i \in DOMAIN o[t] |-> new[t][i]]
    BY <2>2
  <2> QED BY <2>2, <2>3
<1> HIDE DEF new, n
<1>4. WordsLike(new, o)
  BY <1>2, <1>3, <1>7 DEF WordsLike
<1>5. GetField(new, f) = v
  BY <1>2, <1>3 DEF GetField
<1>6. ASSUME NEW t \in DOMAIN o, NEW i \in DOMAIN o[t], NEW p \in Nat, NEW u \in Nat \ {0},
             Away(BitsOf(f), t, i, p, u)
      PROVE  Segment(new, t, i, p, u) = Segment(words, t, i, p, u)
  <2>1. CASE ~(t = f.target /\ i = f.word)
    BY <1>3, <2>1 DEF Segment
  <2>2. CASE t = f.target /\ i = f.word
    <3>1. (p .. (p + u - 1)) \cap Mask(f) = {}
      BY <1>6, <2>2 DEF Away, BitsOf
    <3>2. (n \div 2 ^ p) % 2 ^ u = (w \div 2 ^ p) % 2 ^ u
      BY <1>2, <3>1
    <3> QED BY <1>3, <2>2, <3>2 DEF Segment
  <2> QED BY <2>1, <2>2
<1>8. SameAway(new, words, o, BitsOf(f))
  BY <1>6 DEF SameAway
<1> QED BY <1>4, <1>5, <1>8 DEF new

-----------------------------------------------------------------------------
(* What compose has after every rule. *)

RowOf(d, o, step) ==
    [field |-> ByName(d.fields, step.rule.field),
     value |-> Value(d, step.rule.value, o, step.item.parameters)]

(* A rule as validate leaves it: an assignment names a field in the words.    *)
GoodStep(d, o, step) ==
    /\ step.what \in {"require", "assign"}
    /\ step.what = "assign" => FieldIn(ByName(d.fields, step.rule.field), o)

WalkCodes == {"OK", "ORIGINAL_PRECONDITION", "NEGATIVE_FACTOR", "VALUE_WIDTH", "MASK_CONFLICT"}

RowsUpTo(d, o, list, k) == {RowOf(d, o, list[i]) : i \in {j \in 1 .. k : list[j].what = "assign"}}

(* Every assignment so far is in the words, its bits are the used ones, and   *)
(* all other bits are the original ones.                                      *)
AppliedUpTo(d, o, list, k, acc) ==
    /\ WordsLike(acc.words, o)
    /\ acc.applied = RowsUpTo(d, o, list, k)
    /\ acc.used = UNION {BitsOf(a.field) : a \in acc.applied}
    /\ \A a \in acc.applied : FieldIn(a.field, o) /\ GetField(acc.words, a.field) = a.value
    /\ \A t \in DOMAIN o : \A i \in DOMAIN o[t] : \A p \in Nat, u \in Nat \ {0} :
          Away(acc.used, t, i, p, u) => Segment(acc.words, t, i, p, u) = Segment(o, t, i, p, u)

WalkedUpTo(d, o, list, k, acc) ==
    /\ DOMAIN acc = {"code", "words", "used", "applied"}
    /\ acc.code \in WalkCodes
    /\ acc.code = "OK" => AppliedUpTo(d, o, list, k, acc)

LEMMA WalkBegins ==
  ASSUME NEW d, NEW o, WordsLike(o, o), NEW list
  PROVE  WalkedUpTo(d, o, list, 0, WalkStart(o))
<1> DEFINE acc == WalkStart(o)
<1>1. /\ DOMAIN acc = {"code", "words", "used", "applied"}
      /\ acc.code = "OK" /\ acc.words = o /\ acc.used = {} /\ acc.applied = {}
  BY DEF WalkStart
<1>2. RowsUpTo(d, o, list, 0) = {}
  BY DEF RowsUpTo
<1> HIDE DEF acc
<1>3. AppliedUpTo(d, o, list, 0, acc)
  BY <1>1, <1>2 DEF AppliedUpTo
<1> QED BY <1>1, <1>3 DEF WalkedUpTo, WalkCodes, acc

LEMMA RowsOfNextStep ==
  ASSUME NEW d, NEW o, NEW list, NEW k \in Nat
  PROVE  RowsUpTo(d, o, list, k + 1) =
            IF list[k + 1].what = "assign" THEN RowsUpTo(d, o, list, k) \cup {RowOf(d, o, list[k + 1])}
            ELSE RowsUpTo(d, o, list, k)
<1> DEFINE A(n) == {j \in 1 .. n : list[j].what = "assign"}
<1>1. A(k + 1) = IF list[k + 1].what = "assign" THEN A(k) \cup {k + 1} ELSE A(k)
  OBVIOUS
<1>2. \A n : RowsUpTo(d, o, list, n) = {RowOf(d, o, list[i]) : i \in A(n)}
  BY DEF RowsUpTo
<1> HIDE DEF A
<1>3. CASE list[k + 1].what = "assign"
  <2>1. A(k + 1) = A(k) \cup {k + 1}
    BY <1>1, <1>3
  <2> QED BY <1>2, <1>3, <2>1
<1>4. CASE list[k + 1].what # "assign"
  BY <1>1, <1>2, <1>4
<1> QED BY <1>3, <1>4

LEMMA RequirementChecked ==
  ASSUME NEW d, NEW o, NEW list, NEW k \in Nat, NEW acc, WalkedUpTo(d, o, list, k, acc), acc.code = "OK",
         list[k + 1].what = "require"
  PROVE  WalkedUpTo(d, o, list, k + 1, Require(d, acc, o, list[k + 1]))
<1> DEFINE new == Require(d, acc, o, list[k + 1])
           v == Verdict(d, list[k + 1].rule, o, list[k + 1].item.parameters)
<1>1. v \in {"holds", "fails", "negative"}
  BY DEF Verdict
<1>2. /\ DOMAIN new = DOMAIN acc
      /\ new.words = acc.words /\ new.used = acc.used /\ new.applied = acc.applied
  BY DEF Require, WalkedUpTo
<1>3. new.code = CASE v = "holds" -> "OK" [] v = "fails" -> "ORIGINAL_PRECONDITION" [] v = "negative" -> "NEGATIVE_FACTOR"
  BY DEF Require, WalkedUpTo
<1> HIDE DEF v, new
<1>4. new.code \in WalkCodes
  BY <1>1, <1>3 DEF WalkCodes
<1>5. RowsUpTo(d, o, list, k + 1) = RowsUpTo(d, o, list, k)
  BY RowsOfNextStep
<1>6. AppliedUpTo(d, o, list, k, acc)
  BY DEF WalkedUpTo
<1>7. AppliedUpTo(d, o, list, k + 1, new)
  BY <1>2, <1>5, <1>6 DEF AppliedUpTo
<1>8. DOMAIN new = {"code", "words", "used", "applied"}
  BY <1>2 DEF WalkedUpTo
<1> QED BY <1>4, <1>7, <1>8 DEF WalkedUpTo, new

LEMMA AssignmentMade ==
  ASSUME NEW d, NEW o, NEW list, NEW k \in Nat, NEW acc, WalkedUpTo(d, o, list, k, acc), acc.code = "OK",
         list[k + 1].what = "assign", GoodStep(d, o, list[k + 1])
  PROVE  WalkedUpTo(d, o, list, k + 1, Assign(d, acc, o, list[k + 1]))
<1> DEFINE step == list[k + 1]
           f == ByName(d.fields, step.rule.field)
           value == Value(d, step.rule.value, o, step.item.parameters)
           bits == BitsOf(f)
           new == Assign(d, acc, o, step)
<1>1. DOMAIN acc = {"code", "words", "used", "applied"} /\ AppliedUpTo(d, o, list, k, acc)
  BY DEF WalkedUpTo
<1>2. FieldIn(f, o)
  BY DEF GoodStep
<1>3. new = IF value \notin 0 .. (2 ^ f.width - 1) THEN [acc EXCEPT !.code = "VALUE_WIDTH"]
            ELSE IF acc.used \cap bits # {} THEN [acc EXCEPT !.code = "MASK_CONFLICT"]
            ELSE [acc EXCEPT !.used = @ \cup bits,
                             !.words[f.target][f.word] = PutField(@, f, value),
                             !.applied = @ \cup {[field |-> f, value |-> value]}]
  BY DEF Assign, BitsOf
<1>4. RowsUpTo(d, o, list, k + 1) = RowsUpTo(d, o, list, k) \cup {[field |-> f, value |-> value]}
  BY RowsOfNextStep DEF RowOf
<1> HIDE DEF new, f, value, step, bits
<1>5. CASE value \notin 0 .. (2 ^ f.width - 1)
  <2>1. new = [acc EXCEPT !.code = "VALUE_WIDTH"]
    BY <1>3, <1>5
  <2>2. DOMAIN new = {"code", "words", "used", "applied"} /\ new.code = "VALUE_WIDTH"
    BY <1>1, <2>1
  <2>3. WalkedUpTo(d, o, list, k + 1, new)
    BY <2>2 DEF WalkedUpTo, WalkCodes
  <2> QED BY <2>3 DEF new, step
<1>6. CASE value \in 0 .. (2 ^ f.width - 1) /\ acc.used \cap bits # {}
  <2>1. new = [acc EXCEPT !.code = "MASK_CONFLICT"]
    BY <1>3, <1>6
  <2>2. DOMAIN new = {"code", "words", "used", "applied"} /\ new.code = "MASK_CONFLICT"
    BY <1>1, <2>1
  <2>3. WalkedUpTo(d, o, list, k + 1, new)
    BY <2>2 DEF WalkedUpTo, WalkCodes
  <2> QED BY <2>3 DEF new, step
<1>7. CASE value \in 0 .. (2 ^ f.width - 1) /\ acc.used \cap bits = {}
  <2> DEFINE words == [acc.words EXCEPT ![f.target][f.word] = PutField(@, f, value)]
             row == [field |-> f, value |-> value]
  <2>1. new = [acc EXCEPT !.used = @ \cup bits, !.words[f.target][f.word] = PutField(@, f, value), !.applied = @ \cup {row}]
    BY <1>3, <1>7
  <2>2. /\ DOMAIN new = {"code", "words", "used", "applied"}
        /\ new.code = "OK" /\ new.used = acc.used \cup bits
        /\ new.words = words /\ new.applied = acc.applied \cup {row}
    BY <1>1, <2>1
  <2>3. WordsLike(acc.words, o)
    BY <1>1 DEF AppliedUpTo
  <2>4. /\ WordsLike(words, o)
        /\ GetField(words, f) = value
        /\ \A t \in DOMAIN o : \A i \in DOMAIN o[t] : \A p \in Nat, u \in Nat \ {0} :
              Away(bits, t, i, p, u) => Segment(words, t, i, p, u) = Segment(acc.words, t, i, p, u)
    <3>1. WordsLike(words, o) /\ GetField(words, f) = value /\ SameAway(words, acc.words, o, bits)
      BY <1>2, <1>7, <2>3, StateWritten DEF bits
    <3> HIDE DEF words
    <3> QED BY <3>1 DEF SameAway
  <2> HIDE DEF words
  <2>5. new.applied = RowsUpTo(d, o, list, k + 1)
    BY <1>1, <1>4, <2>2 DEF AppliedUpTo
  <2>6. new.used = UNION {BitsOf(a.field) : a \in new.applied}
    <3>1. row.field = f
      OBVIOUS
    <3>2. acc.used = UNION {BitsOf(a.field) : a \in acc.applied}
      BY <1>1 DEF AppliedUpTo
    <3> HIDE DEF row
    <3> QED BY <2>2, <3>1, <3>2 DEF bits
  <2>7. ASSUME NEW a \in new.applied PROVE FieldIn(a.field, o) /\ GetField(new.words, a.field) = a.value
    <3>1. CASE a = row
      BY <1>2, <2>2, <2>4, <3>1
    <3>2. CASE a \in acc.applied
      <4> DEFINE g == a.field
      <4>1. FieldIn(g, o) /\ GetField(acc.words, g) = a.value
        BY <1>1, <3>2 DEF AppliedUpTo
      <4>2. BitsOf(g) \subseteq acc.used
        BY <1>1, <3>2 DEF AppliedUpTo
      <4> HIDE DEF g
      <4>3. Away(bits, g.target, g.word, g.offset, g.width)
        BY <1>7, <4>2 DEF Away, BitsOf, Mask
      <4>4. Segment(words, g.target, g.word, g.offset, g.width) = Segment(acc.words, g.target, g.word, g.offset, g.width)
        BY <2>4, <4>1, <4>3 DEF FieldIn
      <4> QED BY <2>2, <4>1, <4>4, FieldIsSegment DEF g
    <3> QED BY <2>2, <3>1, <3>2
  <2>8. ASSUME NEW t \in DOMAIN o, NEW i \in DOMAIN o[t], NEW p \in Nat, NEW u \in Nat \ {0},
               Away(new.used, t, i, p, u)
        PROVE  Segment(new.words, t, i, p, u) = Segment(o, t, i, p, u)
    <3>1. Away(bits, t, i, p, u) /\ Away(acc.used, t, i, p, u)
      BY <2>2, <2>8 DEF Away
    <3>2. Segment(words, t, i, p, u) = Segment(acc.words, t, i, p, u)
      BY <2>4, <3>1
    <3>3. Segment(acc.words, t, i, p, u) = Segment(o, t, i, p, u)
      BY <1>1, <3>1 DEF AppliedUpTo
    <3> QED BY <2>2, <3>2, <3>3
  <2>9. AppliedUpTo(d, o, list, k + 1, new)
    BY <2>2, <2>4, <2>5, <2>6, <2>7, <2>8 DEF AppliedUpTo
  <2>10. WalkedUpTo(d, o, list, k + 1, new)
    BY <2>2, <2>9 DEF WalkedUpTo, WalkCodes
  <2> QED BY <2>10 DEF new, step
<1> QED BY <1>5, <1>6, <1>7

LEMMA StepTaken ==
  ASSUME NEW d, NEW o, NEW list, NEW k \in Nat, NEW acc, WalkedUpTo(d, o, list, k, acc), GoodStep(d, o, list[k + 1])
  PROVE  WalkedUpTo(d, o, list, k + 1, WalkStep(d, o, acc, list[k + 1]))
<1> DEFINE new == WalkStep(d, o, acc, list[k + 1])
<1>1. CASE acc.code # "OK"
  <2>1. new = acc
    BY <1>1 DEF WalkStep
  <2> QED BY <1>1, <2>1 DEF WalkedUpTo
<1>2. CASE acc.code = "OK" /\ list[k + 1].what = "require"
  <2>1. new = Require(d, acc, o, list[k + 1])
    BY <1>2 DEF WalkStep
  <2> QED BY <1>2, <2>1, RequirementChecked
<1>3. CASE acc.code = "OK" /\ list[k + 1].what = "assign"
  <2>1. new = Assign(d, acc, o, list[k + 1])
    BY <1>3 DEF WalkStep
  <2> QED BY <1>3, <2>1, AssignmentMade
<1> QED BY <1>1, <1>2, <1>3 DEF GoodStep

\* Whatever the rules and their order, the walk ends with this.
LEMMA Walked ==
  ASSUME NEW d, NEW canon, NEW o, WordsLike(o, o), NEW n \in Nat, DOMAIN Steps(d, canon) = 1 .. n,
         \A k \in 1 .. n : GoodStep(d, o, Steps(d, canon)[k])
  PROVE  WalkedUpTo(d, o, Steps(d, canon), n, Walk(d, canon, o))
<1> DEFINE list == Steps(d, canon)
<1>0. PICK st : Walking(d, canon, o, n, st)
  BY WalkRuns
<1>1. /\ st[0] = WalkStart(o)
      /\ \A k \in 1 .. n : st[k] = WalkStep(d, o, st[k - 1], list[k])
      /\ Walk(d, canon, o) = st[n]
  BY <1>0 DEF Walking
<1> HIDE DEF list
<1> DEFINE S == {k \in 0 .. n : WalkedUpTo(d, o, list, k, st[k])}
<1>2. 0 \in S
  BY <1>1, WalkBegins
<1>3. ASSUME NEW k \in 0 .. (n - 1), k \in S PROVE k + 1 \in S
  <2>1. k \in Nat /\ k + 1 \in 1 .. n /\ k + 1 \in 0 .. n /\ (k + 1) - 1 = k
    OBVIOUS
  <2>2. st[k + 1] = WalkStep(d, o, st[k], list[k + 1])
    <3>1. st[k + 1] = WalkStep(d, o, st[(k + 1) - 1], list[k + 1])
      BY <1>1, <2>1, Zenon
    <3> QED BY <2>1, <3>1
  <2>3. WalkedUpTo(d, o, list, k, st[k])
    BY <1>3
  <2>4. GoodStep(d, o, list[k + 1])
    BY <2>1 DEF list
  <2>5. WalkedUpTo(d, o, list, k + 1, st[k + 1])
    BY <2>1, <2>2, <2>3, <2>4, StepTaken
  <2> QED BY <2>1, <2>5
<1>4. n \in S
  <2> HIDE DEF S
  <2>1. \A k \in 0 .. n : k \in S
    BY <1>2, <1>3, InductionUpTo
  <2> QED BY <2>1
<1> QED BY <1>1, <1>4 DEF list

-----------------------------------------------------------------------------
(* A descriptor that validate accepts and a list that it admits. *)

LEMMA TargetWordsLie ==
  ASSUME NEW d, Valid(d)
  PROVE  /\ DOMAIN OriginalWords(d) = Names(d.targets)
         /\ \A n \in Names(d.targets) : \A i \in DOMAIN OriginalWords(d)[n] : <<n, i>> \in TargetWords(d)
         /\ \A n, i : <<n, i>> \in TargetWords(d) => n \in Names(d.targets) /\ i \in DOMAIN OriginalWords(d)[n]
<1>1. d.targets \in Seq(Items(d.targets)) /\ DistinctNames(d.targets)
  BY DEF Valid, Shaped, TargetsValid
<1>2. \A t \in Items(d.targets) : ByName(d.targets, t.name) = t
  BY <1>1, NamesAreUnique
<1>3. /\ DOMAIN OriginalWords(d) = Names(d.targets)
      /\ \A n \in Names(d.targets) : DOMAIN OriginalWords(d)[n] = 1 .. ByName(d.targets, n).words
  BY DEF OriginalWords
<1>4. ASSUME NEW n \in Names(d.targets), NEW i \in DOMAIN OriginalWords(d)[n] PROVE <<n, i>> \in TargetWords(d)
  <2>1. PICK t \in Items(d.targets) : n = t.name
    BY DEF Names
  <2>2. i \in 1 .. t.words
    BY <1>2, <1>3, <2>1
  <2> QED BY <2>1, <2>2 DEF TargetWords
<1>5. ASSUME NEW n, NEW i, <<n, i>> \in TargetWords(d)
      PROVE  n \in Names(d.targets) /\ i \in DOMAIN OriginalWords(d)[n]
  <2>1. PICK t \in Items(d.targets) : \E j \in 1 .. t.words : <<n, i>> = <<t.name, j>>
    BY <1>5 DEF TargetWords
  <2>2. n = t.name /\ i \in 1 .. t.words
    BY <2>1
  <2>3. n \in Names(d.targets)
    BY <2>2 DEF Names
  <2> QED BY <1>2, <1>3, <2>2, <2>3
<1> QED BY <1>3, <1>4, <1>5

LEMMA OriginalsAreWords ==
  ASSUME NEW d, Valid(d)
  PROVE  WordsLike(OriginalWords(d), OriginalWords(d))
<1> DEFINE o == OriginalWords(d)
<1>1. ASSUME NEW n \in DOMAIN o, NEW i \in DOMAIN o[n] PROVE o[n][i] \in Nat
  <2>1. n \in Names(d.targets) /\ <<n, i>> \in TargetWords(d)
    BY TargetWordsLie
  <2>2. {<<w.target, w.word>> : w \in Items(d.originals)} = TargetWords(d)
    BY DEF Valid, OriginalsValid
  <2>3. \E w \in Items(d.originals) : w.target = n /\ w.word = i
    BY <2>1, <2>2
  <2> DEFINE w == CHOOSE w \in Items(d.originals) : w.target = n /\ w.word = i
  <2>4. w \in Items(d.originals)
    BY <2>3
  <2>5. i \in 1 .. ByName(d.targets, n).words
    BY <2>1 DEF OriginalWords
  <2>6. o[n][i] = w.value
    BY <2>1, <2>5 DEF OriginalWords
  <2> HIDE DEF w
  <2>7. w.value \in 0 .. (2 ^ WordBits - 1)
    BY <2>4 DEF Valid, Shaped
  <2>8. 2 ^ WordBits \in Nat
    BY PowerIsPositive, DescriptorAssumption
  <2> QED BY <2>6, <2>7, <2>8
<1>2. o = [n \in DOMAIN o |-> [i \in DOMAIN o[n] |-> o[n][i]]]
  BY DEF OriginalWords
<1> QED BY <1>1, <1>2 DEF WordsLike

LEMMA FieldsLie ==
  ASSUME NEW d, Valid(d), NEW f \in Items(d.fields)
  PROVE  FieldIn(f, OriginalWords(d)) /\ ByName(d.fields, f.name) = f
<1>1. <<f.target, f.word>> \in TargetWords(d) /\ f.width >= 1
  BY DEF Valid, FieldsValid
<1>2. f.offset \in Nat /\ f.width \in Nat
  BY DEF Valid, Shaped
<1>3. f.target \in DOMAIN OriginalWords(d) /\ f.word \in DOMAIN OriginalWords(d)[f.target]
  BY <1>1, TargetWordsLie
<1>4. d.fields \in Seq(Items(d.fields)) /\ DistinctNames(d.fields)
  BY DEF Valid, Shaped, FieldsValid
<1>5. ByName(d.fields, f.name) = f
  BY <1>4, NamesAreUnique
<1> QED BY <1>1, <1>2, <1>3, <1>5 DEF FieldIn

LEMMA KindOfName ==
  ASSUME NEW d, NEW n \in Kinds(d)
  PROVE  KindOf(d, n) \in Items(d.kinds) /\ KindOf(d, n).kind = n
BY DEF KindOf, Kinds

LEMMA AdmittedList ==
  ASSUME NEW d, Valid(d), NEW items, items \in Seq(Items(items)), SetRefusal(d, items) = "OK"
  PROVE  Sortable(items) /\ \A x \in Items(items) : x.kind \in Kinds(d)
<1> DEFINE n == Len(items)
           v == [i \in 1 .. n |-> items[i].kind]
           kinds == {x.kind : x \in Items(items)}
<1>1. n \in Nat /\ DOMAIN items = 1 .. n
  OBVIOUS
<1>2. kinds \subseteq Kinds(d) /\ Cardinality(kinds) = n
  BY DEF SetRefusal
<1>3. kinds = {v[i] : i \in 1 .. n} /\ DOMAIN v = 1 .. n
  BY <1>1 DEF Items
<1>4. \A i \in 1 .. n : items[i] \in Items(items) /\ v[i] = items[i].kind
  BY <1>1 DEF Items
<1> HIDE DEF v, n
<1>5. \A i, j \in 1 .. n : v[i] = v[j] => i = j
  BY <1>1, <1>2, <1>3, DistinctValues
<1>6. \A i \in 1 .. n : items[i].kind \in Kinds(d)
  BY <1>2, <1>4
<1>7. d.kinds \in Seq(Items(d.kinds)) /\ KindsValid(d)
  BY DEF Valid, Shaped
<1>8. ASSUME NEW i \in 1 .. n, NEW j \in 1 .. n, i # j
      PROVE  Before(items[i].kind, items[j].kind) \/ Before(items[j].kind, items[i].kind)
  <2>1. items[i].kind # items[j].kind
    BY <1>4, <1>5, <1>8
  <2> QED BY <1>6, <1>7, <2>1, KindsAreOrdered
<1>9. Sortable(items)
  BY <1>8 DEF Sortable, n
<1> QED BY <1>2, <1>9

\* The rules that compose walks through, for a list that it admits.
LEMMA AdmittedSteps ==
  ASSUME NEW d, Valid(d), NEW items, items \in Seq(Items(items)), SetRefusal(d, items) = "OK"
  PROVE  LET list == Steps(d, Canonical(items))
             T == UNION {StepSet(d, x) : x \in Items(items)}
         IN  list \in Seq(T) /\ Items(list) = T /\ \A r \in T : GoodStep(d, OriginalWords(d), r)
<1> DEFINE canon == Canonical(items)
           list == Steps(d, canon)
           T == UNION {StepSet(d, x) : x \in Items(items)}
<1>1. Sortable(items) /\ \A x \in Items(items) : x.kind \in Kinds(d)
  BY AdmittedList
<1>2. canon \in Seq(Items(items)) /\ Items(canon) = Items(items)
  BY <1>1, CanonicalForm
<1> HIDE DEF canon
<1>3. ASSUME NEW x \in Items(items)
      PROVE  /\ KindOf(d, x.kind) \in Items(d.kinds)
             /\ KindOf(d, x.kind).requires \in Seq(Items(KindOf(d, x.kind).requires))
             /\ KindOf(d, x.kind).assign \in Seq(Items(KindOf(d, x.kind).assign))
  <2>1. KindOf(d, x.kind) \in Items(d.kinds)
    BY <1>1, KindOfName
  <2>2. \A k \in Items(d.kinds) : \A s \in {k.requires, k.assign} : s \in Seq(Items(s))
    BY DEF Valid, Shaped
  <2> QED BY <2>1, <2>2
<1>4. list \in Seq(T) /\ Items(list) = T
  BY <1>2, <1>3, StepsAreRules
<1>5. ASSUME NEW r \in T PROVE GoodStep(d, OriginalWords(d), r)
  <2>1. PICK x \in Items(items) : r \in StepSet(d, x)
    OBVIOUS
  <2> DEFINE k == KindOf(d, x.kind)
  <2>2. r.what \in {"require", "assign"}
    BY <2>1 DEF StepSet
  <2>3. r.what = "assign" => r.rule \in Items(k.assign)
    BY <2>1 DEF StepSet
  <2>4. k \in Items(d.kinds)
    BY <1>3
  <2> HIDE DEF k
  <2>5. KindValid(d, k)
    BY <2>4 DEF Valid, KindsValid
  <2>6. r.what = "assign" => r.rule.field \in Names(d.fields)
    BY <2>3, <2>5 DEF KindValid
  <2>7. r.what = "assign" => ByName(d.fields, r.rule.field) \in Items(d.fields)
    BY <2>6, NamedItem
  <2> QED BY <2>2, <2>7, FieldsLie DEF GoodStep
<1> HIDE DEF T
<1> QED BY <1>4, <1>5 DEF T, canon

LEMMA AdmittedWalk ==
  ASSUME NEW d, Valid(d), NEW items, items \in Seq(Items(items)), SetRefusal(d, items) = "OK"
  PROVE  LET list == Steps(d, Canonical(items))
         IN  WalkedUpTo(d, OriginalWords(d), list, Len(list), Walk(d, Canonical(items), OriginalWords(d)))
<1> DEFINE canon == Canonical(items)
           list == Steps(d, canon)
           T == UNION {StepSet(d, x) : x \in Items(items)}
           n == Len(list)
<1>1. list \in Seq(T) /\ Items(list) = T /\ \A r \in T : GoodStep(d, OriginalWords(d), r)
  BY AdmittedSteps
<1> HIDE DEF T, list, canon
<1>2. n \in Nat /\ DOMAIN list = 1 .. n /\ \A k \in 1 .. n : list[k] \in T
  BY <1>1
<1>3. \A k \in 1 .. n : GoodStep(d, OriginalWords(d), list[k])
  BY <1>1, <1>2
<1> HIDE DEF n
<1>4. WalkedUpTo(d, OriginalWords(d), list, n, Walk(d, canon, OriginalWords(d)))
  BY <1>2, <1>3, OriginalsAreWords, Walked DEF list
<1> QED BY <1>4 DEF list, canon, n

\* The rows that are applied are the assignments of the items, on the original words.
LEMMA AppliedRows ==
  ASSUME NEW d, Valid(d), NEW items, items \in Seq(Items(items)), SetRefusal(d, items) = "OK"
  PROVE  LET list == Steps(d, Canonical(items))
         IN  RowsUpTo(d, OriginalWords(d), list, Len(list)) =
                {[field |-> ByName(d.fields, a.field), value |-> Value(d, a.value, OriginalWords(d), a.params)]
                    : a \in Assigned(d, items)}
<1> DEFINE o == OriginalWords(d)
           list == Steps(d, Canonical(items))
           T == UNION {StepSet(d, x) : x \in Items(items)}
           n == Len(list)
           row(a) == [field |-> ByName(d.fields, a.field), value |-> Value(d, a.value, o, a.params)]
<1>1. list \in Seq(T) /\ Items(list) = T
  BY AdmittedSteps
<1> HIDE DEF list
<1>2. RowsUpTo(d, o, list, n) = {RowOf(d, o, r) : r \in {s \in T : s.what = "assign"}}
  <2>1. n \in Nat /\ DOMAIN list = 1 .. n
    BY <1>1
  <2>2. T = {list[i] : i \in 1 .. n}
    BY <1>1, <2>1 DEF Items
  <2> HIDE DEF T, n, o
  <2> QED BY <2>2 DEF RowsUpTo
<1>3. ASSUME NEW r \in T, r.what = "assign" PROVE \E a \in Assigned(d, items) : RowOf(d, o, r) = row(a)
  <2>1. PICK x \in Items(items) : r \in StepSet(d, x)
    OBVIOUS
  <2>2. r.rule \in Items(KindOf(d, x.kind).assign) /\ r.item = x
    BY <1>3, <2>1 DEF StepSet
  <2> DEFINE a == [field |-> r.rule.field, value |-> r.rule.value, params |-> x.parameters]
  <2> DEFINE A(y) == {[field |-> b.field, value |-> b.value, params |-> y.parameters] : b \in Items(KindOf(d, y.kind).assign)}
  <2>3. a \in Assigned(d, items)
    <3>1. a \in A(x)
      BY <2>2
    <3>2. Assigned(d, items) = UNION {A(y) : y \in Items(items)}
      BY DEF Assigned
    <3> HIDE DEF A, a
    <3> QED BY <3>1, <3>2
  <2>4. RowOf(d, o, r) = row(a)
    BY <2>2 DEF RowOf
  <2> QED BY <2>3, <2>4
<1>4. ASSUME NEW a \in Assigned(d, items) PROVE \E r \in T : r.what = "assign" /\ RowOf(d, o, r) = row(a)
  <2>1. PICK x \in Items(items) : \E b \in Items(KindOf(d, x.kind).assign) :
                a = [field |-> b.field, value |-> b.value, params |-> x.parameters]
    BY DEF Assigned
  <2>2. PICK b \in Items(KindOf(d, x.kind).assign) :
                a = [field |-> b.field, value |-> b.value, params |-> x.parameters]
    BY <2>1
  <2> DEFINE r == [what |-> "assign", item |-> x, rule |-> b]
  <2>3. r \in T
    <3>1. r \in StepSet(d, x)
      BY DEF StepSet
    <3> HIDE DEF r
    <3> QED BY <3>1
  <2>4. RowOf(d, o, r) = row(a)
    BY <2>2 DEF RowOf
  <2> QED BY <2>3, <2>4
<1> HIDE DEF T
<1>5. {RowOf(d, o, r) : r \in {s \in T : s.what = "assign"}} = {row(a) : a \in Assigned(d, items)}
  BY <1>3, <1>4
<1> QED BY <1>2, <1>5 DEF list

-----------------------------------------------------------------------------
(* The answer of compose. *)

LEMMA UnusedBitsKept ==
  ASSUME NEW d, NEW o, NEW list, NEW k, NEW w, WordsLike(o, o), AppliedUpTo(d, o, list, k, w)
  PROVE  Changed(w.words, o) \subseteq w.used
<1> SUFFICES ASSUME NEW x \in Changed(w.words, o), x \notin w.used PROVE FALSE
  OBVIOUS
<1>1. WordsLike(w.words, o)
  BY DEF AppliedUpTo
<1>2. /\ x \in UNION {{t} \X (DOMAIN w.words[t]) \X (0 .. (WordBits - 1)) : t \in DOMAIN w.words}
      /\ Bit(w.words[x[1]][x[2]], x[3]) # Bit(o[x[1]][x[2]], x[3])
  BY DEF Changed
<1>3. PICK t \in DOMAIN w.words : x \in {t} \X (DOMAIN w.words[t]) \X (0 .. (WordBits - 1))
  BY <1>2
<1>4. PICK i \in DOMAIN w.words[t], b \in 0 .. (WordBits - 1) : x = <<t, i, b>>
  BY <1>3
<1>5. t \in DOMAIN o /\ i \in DOMAIN o[t] /\ b \in Nat
  BY <1>1, DescriptorAssumption DEF WordsLike
<1>6. Away(w.used, t, i, b, 1)
  BY <1>4, <1>5 DEF Away
<1>7. 1 \in Nat \ {0}
  OBVIOUS
<1>8. Segment(w.words, t, i, b, 1) = Segment(o, t, i, b, 1)
  BY <1>5, <1>6, <1>7 DEF AppliedUpTo
<1>9. Bit(w.words[t][i], b) = Bit(o[t][i], b)
  BY <1>8, BitIsSegment
<1> QED BY <1>2, <1>4, <1>9

\* The refusals compose can answer with, and the words when it does not refuse.
LEMMA WrittenAnswer ==
  ASSUME NEW d, NEW canon, NEW o, NEW list, NEW k, NEW w, NEW ensured, WordsLike(o, o),
         WalkedUpTo(d, o, list, k, w), ensured \in {"OK", "NEGATIVE_FACTOR", "INVARIANT"}
  PROVE  LET c == Written(d, canon, o, w, ensured)
         IN  /\ c.code \notin {"NON_TARGET_BITS", "FIELD_VALUE"}
             /\ c.code = "OK" => c.words = w.words /\ AppliedUpTo(d, o, list, k, w)
<1> DEFINE c == Written(d, canon, o, w, ensured)
<1>1. CASE w.code # "OK"
  <2>1. c = [code |-> w.code]
    BY <1>1 DEF Written, Refused
  <2>2. c.code = w.code
    BY <2>1
  <2>3. w.code \in WalkCodes
    BY DEF WalkedUpTo
  <2> HIDE DEF c
  <2>4. /\ c.code \notin {"NON_TARGET_BITS", "FIELD_VALUE"}
        /\ c.code # "OK"
    BY <1>1, <2>2, <2>3 DEF WalkCodes
  <2> QED BY <2>4 DEF c
<1>2. CASE w.code = "OK" /\ ensured # "OK"
  <2>1. c = [code |-> ensured]
    BY <1>2 DEF Written, Refused
  <2>2. c.code = ensured
    BY <2>1
  <2> QED BY <1>2, <2>2
<1>3. CASE w.code = "OK" /\ ensured = "OK"
  <2>1. AppliedUpTo(d, o, list, k, w)
    BY <1>3 DEF WalkedUpTo
  <2>2. Changed(w.words, o) \subseteq w.used
    BY <2>1, UnusedBitsKept
  <2>3. ~\E a \in w.applied : GetField(w.words, a.field) # a.value
    BY <2>1 DEF AppliedUpTo
  <2>4. c = IF \E t \in UsedWords(w.used) : w.words[t[1]][t[2]] = o[t[1]][t[2]] THEN Refused("NO_EFFECT")
            ELSE [code |-> "OK", interventions |-> canon, words |-> w.words,
                  writes |-> {WriteOf(d, o, w.words, t) : t \in UsedWords(w.used)}]
    BY <1>3, <2>2, <2>3 DEF Written
  <2> HIDE DEF c
  <2>5. \/ c.code = "NO_EFFECT"
        \/ c.code = "OK" /\ c.words = w.words
    BY <2>4 DEF Refused
  <2>6. c.code \notin {"NON_TARGET_BITS", "FIELD_VALUE"} /\ (c.code = "OK" => c.words = w.words)
    BY <2>5
  <2> QED BY <2>1, <2>6 DEF c
<1> QED BY <1>1, <1>2, <1>3

\* What is applied is the parallel assignment.
LEMMA AppliedInParallel ==
  ASSUME NEW d, Valid(d), NEW items, NEW list, NEW k, NEW w,
         RowsUpTo(d, OriginalWords(d), list, k) =
             {[field |-> ByName(d.fields, a.field), value |-> Value(d, a.value, OriginalWords(d), a.params)]
                 : a \in Assigned(d, items)},
         AppliedUpTo(d, OriginalWords(d), list, k, w),
         \A a \in Assigned(d, items) : a.field \in Names(d.fields)
  PROVE  IsParallelAssignment(d, items, OriginalWords(d), w.words)
<1> DEFINE o == OriginalWords(d)
           assigned == Assigned(d, items)
           bits == UNION {BitsOf(ByName(d.fields, a.field)) : a \in assigned}
           row(a) == [field |-> ByName(d.fields, a.field), value |-> Value(d, a.value, o, a.params)]
<1>1. w.applied = {row(a) : a \in assigned}
  BY DEF AppliedUpTo
<1>2. w.used = bits
  <2>1. w.used = UNION {BitsOf(r.field) : r \in w.applied}
    BY DEF AppliedUpTo
  <2>2. ASSUME NEW x \in w.used PROVE x \in bits
    <3>1. PICK r \in w.applied : x \in BitsOf(r.field)
      BY <2>1
    <3>2. PICK a \in assigned : r = row(a)
      BY <1>1
    <3>3. x \in BitsOf(ByName(d.fields, a.field))
      BY <3>1, <3>2
    <3> QED BY <3>3
  <2>3. ASSUME NEW x \in bits PROVE x \in w.used
    <3>1. PICK a \in assigned : x \in BitsOf(ByName(d.fields, a.field))
      OBVIOUS
    <3>2. row(a) \in w.applied
      BY <1>1
    <3>3. x \in BitsOf(row(a).field)
      BY <3>1
    <3> HIDE DEF row
    <3> QED BY <2>1, <3>2, <3>3
  <2> QED BY <2>2, <2>3
<1>3. Changed(w.words, o) \subseteq bits
  BY <1>2, OriginalsAreWords, UnusedBitsKept
<1>4. ASSUME NEW f \in Items(d.fields), NEW a \in assigned, a.field = f.name
      PROVE  GetField(w.words, f) = Value(d, a.value, o, a.params)
  <2>1. row(a) \in w.applied
    BY <1>1
  <2>2. row(a).field = f /\ row(a).value = Value(d, a.value, o, a.params)
    BY <1>4, FieldsLie
  <2>3. \A r \in w.applied : GetField(w.words, r.field) = r.value
    BY DEF AppliedUpTo
  <2> HIDE DEF row
  <2> QED BY <2>1, <2>2, <2>3
<1>5. ASSUME NEW f \in Items(d.fields), ~\E a \in assigned : a.field = f.name
      PROVE  GetField(w.words, f) = GetField(o, f)
  <2>1. FieldIn(f, o)
    BY FieldsLie
  <2>2. ASSUME NEW a \in assigned, NEW b \in Mask(f) PROVE <<f.target, f.word, b>> \notin BitsOf(ByName(d.fields, a.field))
    <3> DEFINE g == ByName(d.fields, a.field)
    <3>1. g \in Items(d.fields) /\ g.name = a.field
      BY NamedItem
    <3> HIDE DEF g
    <3>2. f # g
      BY <1>5, <3>1
    <3>3. f.target = g.target /\ f.word = g.word => Mask(f) \cap Mask(g) = {}
      BY <3>1, <3>2 DEF Valid, FieldsValid
    <3>4. <<f.target, f.word, b>> \notin BitsOf(g)
      BY <3>3 DEF BitsOf
    <3> QED BY <3>4 DEF g
  <2>3. Away(w.used, f.target, f.word, f.offset, f.width)
    <3>1. \A b \in Mask(f) : <<f.target, f.word, b>> \notin bits
      BY <2>2
    <3> HIDE DEF bits
    <3> QED BY <1>2, <3>1 DEF Away, Mask
  <2>4. Segment(w.words, f.target, f.word, f.offset, f.width) = Segment(o, f.target, f.word, f.offset, f.width)
    <3> HIDE DEF o
    <3> QED BY <2>1, <2>3 DEF FieldIn, AppliedUpTo, o
  <2> QED BY <2>4, FieldIsSegment
<1>6. \A f \in Items(d.fields) :
         IF \E a \in assigned : a.field = f.name
         THEN \E a \in assigned : a.field = f.name /\ GetField(w.words, f) = Value(d, a.value, o, a.params)
         ELSE GetField(w.words, f) = GetField(o, f)
  <2> HIDE DEF assigned, o
  <2> QED BY <1>4, <1>5
<1> QED BY <1>3, <1>6 DEF IsParallelAssignment

LEMMA RefusalCodes ==
  ASSUME NEW d, NEW items
  PROVE  SetRefusal(d, items) \in
            {"COUNT", "UNKNOWN_INTERVENTION", "DUPLICATE_KIND", "KIND_CONFLICT", "PARAMETER", "OK"}
BY DEF SetRefusal

\* For every descriptor that validate accepts and every list of items, the answer of compose.
LEMMA ComposeAnswer ==
  ASSUME NEW d, Valid(d), NEW items, items \in Seq(Items(items))
  PROVE  LET c == Compose(d, items, OriginalWords(d))
         IN  /\ c.code \notin {"NON_TARGET_BITS", "FIELD_VALUE"}
             /\ c.code = "OK" => IsParallelAssignment(d, items, OriginalWords(d), c.words)
<1> DEFINE o == OriginalWords(d)
           c == Compose(d, items, o)
<1>1. CASE \E w \in TargetWords(d) : o[w[1]][w[2]] = NoWord
  <2>1. c = [code |-> "ORIGINAL_STATE_UNAVAILABLE"]
    BY <1>1 DEF Compose, Refused
  <2>2. c.code = "ORIGINAL_STATE_UNAVAILABLE"
    BY <2>1
  <2> QED BY <2>2
<1>2. CASE ~(\E w \in TargetWords(d) : o[w[1]][w[2]] = NoWord) /\ SetRefusal(d, items) # "OK"
  <2>1. c = [code |-> SetRefusal(d, items)]
    BY <1>2 DEF Compose, Refused
  <2>2. c.code = SetRefusal(d, items)
    BY <2>1
  <2> HIDE DEF c
  <2>3. c.code \notin {"NON_TARGET_BITS", "FIELD_VALUE", "OK"}
    BY <1>2, <2>2, RefusalCodes
  <2> QED BY <2>3 DEF c
<1>3. CASE ~(\E w \in TargetWords(d) : o[w[1]][w[2]] = NoWord) /\ SetRefusal(d, items) = "OK"
  <2> DEFINE canon == Canonical(items)
             list == Steps(d, canon)
             w == Walk(d, canon, o)
             ensured == FirstRefusal(EnsuresVerdicts(d, canon, w.words))
             assigned == Assigned(d, items)
  <2>1. c = Written(d, canon, o, w, ensured)
    BY <1>3 DEF Compose, Composed
  <2>2. ensured \in {"OK", "NEGATIVE_FACTOR", "INVARIANT"}
    BY DEF FirstRefusal
  <2>3. WalkedUpTo(d, o, list, Len(list), w)
    BY <1>3, AdmittedWalk
  <2>4. WordsLike(o, o)
    BY OriginalsAreWords
  <2>5. RowsUpTo(d, o, list, Len(list)) =
            {[field |-> ByName(d.fields, a.field), value |-> Value(d, a.value, o, a.params)] : a \in assigned}
    BY <1>3, AppliedRows
  <2>6. \A a \in assigned : a.field \in Names(d.fields)
    <3> SUFFICES ASSUME NEW a \in assigned PROVE a.field \in Names(d.fields)
      OBVIOUS
    <3>1. PICK x \in Items(items) : \E b \in Items(KindOf(d, x.kind).assign) :
                a = [field |-> b.field, value |-> b.value, params |-> x.parameters]
      BY DEF Assigned
    <3>2. PICK b \in Items(KindOf(d, x.kind).assign) :
                a = [field |-> b.field, value |-> b.value, params |-> x.parameters]
      BY <3>1
    <3>3. KindOf(d, x.kind) \in Items(d.kinds)
      BY <1>3, AdmittedList, KindOfName
    <3>4. KindValid(d, KindOf(d, x.kind))
      BY <3>3 DEF Valid, KindsValid
    <3>5. b.field \in Names(d.fields)
      BY <3>4 DEF KindValid
    <3> QED BY <3>2, <3>5
  <2> HIDE DEF list, w, ensured, canon, c
  <2>7. /\ c.code \notin {"NON_TARGET_BITS", "FIELD_VALUE"}
        /\ c.code = "OK" => c.words = w.words /\ AppliedUpTo(d, o, list, Len(list), w)
    BY <2>1, <2>2, <2>3, <2>4, WrittenAnswer
  <2>8. AppliedUpTo(d, o, list, Len(list), w) => IsParallelAssignment(d, items, o, w.words)
    BY <2>5, <2>6, AppliedInParallel
  <2> QED BY <2>7, <2>8 DEF c
<1> QED BY <1>1, <1>2, <1>3

\* The order of the items does not matter to compose.
LEMMA ComposeReversed ==
  ASSUME NEW d, NEW items, items \in Seq(Items(items))
  PROVE  Compose(d, Reverse(items), OriginalWords(d)) = Compose(d, items, OriginalWords(d))
<1> DEFINE r == Reverse(items)
<1>1. Len(r) = Len(items) /\ DOMAIN r = DOMAIN items /\ Items(r) = Items(items)
  BY ReverseOfList
<1> HIDE DEF r
<1>2. SetRefusal(d, r) = SetRefusal(d, items)
  BY <1>1 DEF SetRefusal
<1>3. Canonical(r) = Canonical(items)
  BY <1>1 DEF Canonical
<1>4. Compose(d, r, OriginalWords(d)) = Compose(d, items, OriginalWords(d))
  BY <1>2, <1>3 DEF Compose
<1> QED BY <1>4 DEF r

\* For every valid descriptor and every list, what compose promises.
THEOREM ComposeInParallel ==
  ASSUME NEW d, Valid(d), NEW items, items \in Seq(Items(items))
  PROVE  ComposesInParallel(d, items, Compose(d, items, OriginalWords(d)))
BY ComposeAnswer, ComposeReversed DEF ComposesInParallel

-----------------------------------------------------------------------------
(* Words that agree in every bit are equal. *)

(* A remainder and a quotient, one factor of the divisor after the other.     *)
Splits(x, a, b) ==
    /\ x % (a * b) = (x % a) + a * ((x \div a) % b)
    /\ x \div (a * b) = (x \div a) \div b
    /\ a * b \in Nat \ {0}

LEMMA RemainderSplit ==
  ASSUME NEW x \in Nat, NEW a \in Nat \ {0}, NEW b \in Nat \ {0}
  PROVE  Splits(x, a, b)
<1> DEFINE q == x \div a
           r == x % a
           c == q \div b
           f == q % b
           m == a * b
<1>1. q \in Nat /\ r \in 0 .. (a - 1) /\ x = q * a + r
  OBVIOUS
<1>2. c \in Nat /\ f \in 0 .. (b - 1) /\ q = c * b + f
  BY <1>1
<1> HIDE DEF q, r, c, f
<1>3. x = c * m + (f * a + r)
  BY <1>1, <1>2
<1>4. f * a <= (b - 1) * a /\ (b - 1) * a = m - a /\ f * a \in Nat /\ m \in Nat
  BY <1>2
<1> HIDE DEF m
<1>5. f * a + r \in 0 .. (m - 1) /\ m \in Nat \ {0}
  BY <1>1, <1>4
<1> DEFINE s == f * a + r
<1>6. s \in 0 .. (m - 1) /\ x = c * m + s
  BY <1>3, <1>5
<1> HIDE DEF s
<1>7. (c * m + s) % m = s /\ (c * m + s) \div m = c
  <2>1. c \in Int
    BY <1>2
  <2> QED BY <1>5, <1>6, <2>1, Quotient
<1>8. s = r + a * f
  BY <1>1, <1>2 DEF s
<1> QED BY <1>5, <1>6, <1>7, <1>8 DEF m, c, f, q, r, Splits

(* A segment read as two that follow each other.                              *)
Joined(w, p, u, v) ==
    (w \div 2 ^ p) % 2 ^ (u + v) = ((w \div 2 ^ p) % 2 ^ u) + 2 ^ u * ((w \div 2 ^ (p + u)) % 2 ^ v)

LEMMA SegmentJoined ==
  ASSUME NEW w \in Nat, NEW p \in Nat, NEW u \in Nat, NEW v \in Nat
  PROVE  Joined(w, p, u, v)
<1> DEFINE a == 2 ^ p
           b == 2 ^ u
           e == 2 ^ v
<1>1. a \in Nat \ {0} /\ b \in Nat \ {0} /\ e \in Nat \ {0}
  BY PowerIsPositive
<1>2. 2 ^ (u + v) = b * e /\ 2 ^ (p + u) = a * b
  BY PowerOfSum
<1> HIDE DEF a, b, e
<1>3. w \div a \in Nat
  BY <1>1
<1>4. (w \div a) % (b * e) = ((w \div a) % b) + b * (((w \div a) \div b) % e)
  <2>1. Splits(w \div a, b, e)
    BY <1>1, <1>3, RemainderSplit
  <2> QED BY <2>1 DEF Splits
<1>5. w \div (a * b) = (w \div a) \div b
  <2>1. Splits(w, a, b)
    BY <1>1, RemainderSplit
  <2> QED BY <2>1 DEF Splits
<1> QED BY <1>2, <1>4, <1>5 DEF a, b, e, Joined

(* The bits of a segment are bits of the word.                                *)
BitIn(w, p, u, k) == Bit(w, p + k) = Bit((w \div 2 ^ p) % 2 ^ u, k)

LEMMA BitInside ==
  ASSUME NEW w \in Nat, NEW p \in Nat, NEW u \in Nat, NEW k \in 0 .. (u - 1)
  PROVE  BitIn(w, p, u, k)
<1> DEFINE a == 2 ^ p
           b == 2 ^ k
           n == u - k - 1
           e == 2 ^ n
           q == w \div a
<1>1. k \in Nat /\ n \in Nat /\ u = k + (1 + n) /\ 1 + n \in Nat
  OBVIOUS
<1>2. a \in Nat \ {0} /\ b \in Nat \ {0} /\ e \in Nat \ {0} /\ 2 ^ 1 = 2
  BY <1>1, PowerIsPositive
<1>3. 2 ^ (p + k) = a * b
  BY <1>1, PowerOfSum
<1>4. 2 ^ u = b * (2 * e)
  <2>1. 2 ^ (k + (1 + n)) = b * 2 ^ (1 + n)
    BY <1>1, PowerOfSum
  <2>2. 2 ^ (1 + n) = 2 * e
    BY <1>1, <1>2, PowerOfSum, 1 \in Nat
  <2> QED BY <1>1, <2>1, <2>2
<1>5. q \in Nat
  BY <1>2
<1> HIDE DEF n, a, b, e, q
<1> DEFINE m == 2 * e
           z == q \div b
           s == q % b
<1>6. m \in Nat \ {0} /\ z \in Nat /\ s \in 0 .. (b - 1)
  BY <1>2, <1>5
<1>7. q % (b * m) = s + b * (z % m)
  <2> HIDE DEF m
  <2>1. Splits(q, b, m)
    BY <1>2, <1>5, <1>6, RemainderSplit
  <2> QED BY <2>1 DEF Splits
<1>8. z % m = (z % 2) + 2 * ((z \div 2) % e)
  <2>1. Splits(z, 2, e)
    <3> HIDE DEF z
    <3> QED BY <1>2, <1>6, RemainderSplit, 2 \in Nat \ {0}
  <2> QED BY <2>1 DEF Splits
<1>9. z % m \in Nat /\ z % 2 \in 0 .. 1 /\ (z \div 2) % e \in Nat
  <2> HIDE DEF m, z
  <2> QED BY <1>2, <1>6
<1> DEFINE y == z % m
<1>10. (y * b + s) \div b = y
  <2>1. y \in Int
    BY <1>9
  <2> HIDE DEF y, s
  <2> QED BY <1>2, <1>6, <2>1, Quotient
<1>11. s + b * y = y * b + s
  BY <1>2, <1>6, <1>9
<1>12. (q % (b * m)) \div b = y
  BY <1>7, <1>10, <1>11
<1> DEFINE g == (z \div 2) % e
<1>13. y % 2 = z % 2
  <2>1. y = g * 2 + (z % 2)
    BY <1>8, <1>9
  <2>2. g \in Int
    BY <1>9
  <2> HIDE DEF y, g, z
  <2>3. (g * 2 + (z % 2)) % 2 = z % 2
    BY <1>9, <2>2, Quotient
  <2> QED BY <2>1, <2>3
<1>14. w \div (a * b) = z
  <2>1. Splits(w, a, b)
    BY <1>2, RemainderSplit
  <2> QED BY <2>1 DEF Splits, q, z
<1>15. Bit(w, p + k) = z % 2
  BY <1>3, <1>14 DEF Bit
<1>16. Bit(q % (b * m), k) = y % 2
  BY <1>12 DEF Bit, b
<1> QED BY <1>4, <1>13, <1>15, <1>16 DEF q, a, m, BitIn

\* Every natural is below a power of two.
LEMMA BelowPower ==
  ASSUME NEW n \in Nat
  PROVE  n < 2 ^ n
<1> DEFINE S == {k \in 0 .. n : k < 2 ^ k}
<1>1. 0 \in S
  <2>1. 2 ^ 0 \in Nat \ {0}
    BY PowerIsPositive, 0 \in Nat
  <2> QED BY <2>1
<1>2. ASSUME NEW k \in 0 .. (n - 1), k \in S PROVE k + 1 \in S
  <2>1. k \in Nat /\ 2 ^ k \in Nat \ {0} /\ 2 ^ 1 = 2 /\ k < 2 ^ k
    BY <1>2, PowerIsPositive
  <2>2. 2 ^ (k + 1) = 2 ^ k * 2
    BY <2>1, PowerOfSum, 1 \in Nat
  <2>3. k + 1 < 2 ^ k * 2
    BY <2>1
  <2> QED BY <2>2, <2>3
<1>3. n \in S
  <2> HIDE DEF S
  <2>1. \A k \in 0 .. n : k \in S
    BY <1>1, <1>2, InductionUpTo
  <2> QED BY <2>1
<1> QED BY <1>3

LEMMA BitsDecide ==
  ASSUME NEW x \in Nat, NEW y \in Nat, \A b \in Nat : Bit(x, b) = Bit(y, b)
  PROVE  x = y
<1> DEFINE n == x + y
           S == {k \in 0 .. n : x % 2 ^ k = y % 2 ^ k}
<1>0. n \in Nat
  OBVIOUS
<1>1. 0 \in S
  <2>1. 2 ^ 0 = 1
    OBVIOUS
  <2> QED BY <1>0, <2>1
<1>2. ASSUME NEW k \in 0 .. (n - 1), k \in S PROVE k + 1 \in S
  <2> DEFINE a == 2 ^ k
  <2>1. k \in Nat /\ a \in Nat \ {0} /\ 2 ^ 1 = 2 /\ k + 1 \in 0 .. n /\ 2 \in Nat \ {0}
    BY PowerIsPositive
  <2>2. 2 ^ (k + 1) = a * 2
    BY <2>1, PowerOfSum, 1 \in Nat
  <2>3. x % a = y % a
    BY <1>2
  <2>4. (x \div a) % 2 = (y \div a) % 2
    BY <2>1 DEF Bit
  <2> HIDE DEF a
  <2>5. x % (a * 2) = (x % a) + a * ((x \div a) % 2)
    <3>1. Splits(x, a, 2)
      BY <2>1, RemainderSplit
    <3> QED BY <3>1 DEF Splits
  <2>6. y % (a * 2) = (y % a) + a * ((y \div a) % 2)
    <3>1. Splits(y, a, 2)
      BY <2>1, RemainderSplit
    <3> QED BY <3>1 DEF Splits
  <2> QED BY <2>1, <2>2, <2>3, <2>4, <2>5, <2>6
<1>3. x % 2 ^ n = y % 2 ^ n
  <2> HIDE DEF S
  <2>1. \A k \in 0 .. n : k \in S
    BY <1>0, <1>1, <1>2, InductionUpTo
  <2>2. n \in S
    BY <1>0, <2>1
  <2> QED BY <2>2 DEF S
<1> DEFINE p == 2 ^ n
<1>4. p \in Nat \ {0} /\ n < p
  BY <1>0, BelowPower, PowerIsPositive
<1>5. x \in 0 .. (p - 1) /\ y \in 0 .. (p - 1)
  <2> HIDE DEF p
  <2> QED BY <1>4
<1>6. x % p = x /\ y % p = y
  <2> HIDE DEF p, n
  <2>1. (0 * p + x) % p = x /\ (0 * p + y) % p = y
    BY <1>4, <1>5, Quotient
  <2> QED BY <1>4, <2>1
<1> QED BY <1>3, <1>6

LEMMA SameState ==
  ASSUME NEW o, NEW a, NEW b, WordsLike(a, o), WordsLike(b, o),
         \A t \in DOMAIN o : \A i \in DOMAIN o[t] : \A p \in Nat : Bit(a[t][i], p) = Bit(b[t][i], p)
  PROVE  a = b
<1>1. ASSUME NEW t \in DOMAIN o, NEW i \in DOMAIN o[t] PROVE a[t][i] = b[t][i]
  <2>1. a[t][i] \in Nat /\ b[t][i] \in Nat
    BY DEF WordsLike
  <2> QED BY <2>1, BitsDecide
<1>2. /\ a = [t \in DOMAIN o |-> [i \in DOMAIN o[t] |-> a[t][i]]]
      /\ b = [t \in DOMAIN o |-> [i \in DOMAIN o[t] |-> b[t][i]]]
  BY DEF WordsLike
<1> QED BY <1>1, <1>2

(* The words hold what o holds in every segment away from these bits.         *)
Keeps(words, o, bits) ==
    \A t \in DOMAIN o : \A i \in DOMAIN o[t] : \A p \in Nat, u \in Nat \ {0} :
        Away(bits, t, i, p, u) => Segment(words, t, i, p, u) = Segment(o, t, i, p, u)

FieldBits(F) == UNION {BitsOf(f) : f \in F}

\* Two states that agree in some fields, and with a third away from them, are equal.
LEMMA FieldsDecide ==
  ASSUME NEW o, NEW a, NEW b, WordsLike(a, o), WordsLike(b, o), NEW F,
         \A f \in F : FieldIn(f, o) /\ GetField(a, f) = GetField(b, f),
         Keeps(a, o, FieldBits(F)), Keeps(b, o, FieldBits(F))
  PROVE  a = b
<1>1. ASSUME NEW t \in DOMAIN o, NEW i \in DOMAIN o[t], NEW p \in Nat PROVE Bit(a[t][i], p) = Bit(b[t][i], p)
  <2>0. a[t][i] \in Nat /\ b[t][i] \in Nat
    BY DEF WordsLike
  <2>1. CASE \E f \in F : <<t, i, p>> \in BitsOf(f)
    <3>1. PICK f \in F : <<t, i, p>> \in BitsOf(f)
      BY <2>1
    <3> DEFINE k == p - f.offset
    <3>2. f.offset \in Nat /\ f.width \in Nat \ {0} /\ GetField(a, f) = GetField(b, f)
      BY DEF FieldIn
    <3>3. t = f.target /\ i = f.word /\ p \in f.offset .. (f.offset + f.width - 1)
      BY <3>1 DEF BitsOf, Mask
    <3>4. k \in 0 .. (f.width - 1) /\ p = f.offset + k
      BY <3>2, <3>3
    <3> HIDE DEF k
    <3>5. BitIn(a[t][i], f.offset, f.width, k) /\ BitIn(b[t][i], f.offset, f.width, k)
      <4>1. f.width \in Nat
        BY <3>2
      <4> QED BY <2>0, <3>2, <3>4, <4>1, BitInside
    <3>6. (a[t][i] \div 2 ^ f.offset) % 2 ^ f.width = (b[t][i] \div 2 ^ f.offset) % 2 ^ f.width
      BY <3>2, <3>3 DEF GetField
    <3> QED BY <3>4, <3>5, <3>6 DEF BitIn
  <2>2. CASE ~\E f \in F : <<t, i, p>> \in BitsOf(f)
    <3>1. Away(FieldBits(F), t, i, p, 1)
      BY <2>2 DEF Away, FieldBits
    <3>2. 1 \in Nat \ {0}
      OBVIOUS
    <3>3. Segment(a, t, i, p, 1) = Segment(o, t, i, p, 1) /\ Segment(b, t, i, p, 1) = Segment(o, t, i, p, 1)
      BY <3>1, <3>2 DEF Keeps
    <3> QED BY <3>3, BitIsSegment
  <2> QED BY <2>1, <2>2
<1> QED BY <1>1, SameState

-----------------------------------------------------------------------------
(* When compose's walk ends without a refusal. *)

(* The rule lets the walk go on.                                              *)
Passes(d, o, step) ==
    IF step.what = "require" THEN Verdict(d, step.rule, o, step.item.parameters) = "holds"
    ELSE Value(d, step.rule.value, o, step.item.parameters) \in 0 .. (2 ^ ByName(d.fields, step.rule.field).width - 1)

StepBits(d, step) == BitsOf(ByName(d.fields, step.rule.field))
ClashFree(d, list) ==
    \A i, j \in DOMAIN list :
        i < j /\ list[i].what = "assign" /\ list[j].what = "assign" => StepBits(d, list[i]) \cap StepBits(d, list[j]) = {}

PassedUpTo(d, o, list, k, acc) == acc.code = "OK" <=> \A j \in 1 .. k : Passes(d, o, list[j])

LEMMA StepPassed ==
  ASSUME NEW d, NEW o, NEW list, NEW n \in Nat, DOMAIN list = 1 .. n, ClashFree(d, list), NEW k \in 0 .. (n - 1),
         NEW acc, WalkedUpTo(d, o, list, k, acc), PassedUpTo(d, o, list, k, acc), GoodStep(d, o, list[k + 1])
  PROVE  PassedUpTo(d, o, list, k + 1, WalkStep(d, o, acc, list[k + 1]))
<1> DEFINE step == list[k + 1]
           new == WalkStep(d, o, acc, step)
<1>1. 1 .. (k + 1) = (1 .. k) \cup {k + 1} /\ k + 1 \in 1 .. n
  OBVIOUS
<1>2. DOMAIN acc = {"code", "words", "used", "applied"}
  BY DEF WalkedUpTo
<1>3. new.code = "OK" <=> acc.code = "OK" /\ Passes(d, o, step)
  <2>1. CASE acc.code # "OK"
    BY <2>1 DEF WalkStep
  <2>2. CASE acc.code = "OK" /\ step.what = "require"
    <3> DEFINE v == Verdict(d, step.rule, o, step.item.parameters)
    <3>1. v \in {"holds", "fails", "negative"}
      BY DEF Verdict
    <3>2. new = Require(d, acc, o, step)
      BY <2>2 DEF WalkStep
    <3>3. new.code = CASE v = "holds" -> "OK" [] v = "fails" -> "ORIGINAL_PRECONDITION" [] v = "negative" -> "NEGATIVE_FACTOR"
      BY <1>2, <3>2 DEF Require
    <3>4. Passes(d, o, step) <=> v = "holds"
      BY <2>2 DEF Passes
    <3> HIDE DEF v, new, step
    <3> QED BY <2>2, <3>1, <3>3, <3>4
  <2>3. CASE acc.code = "OK" /\ step.what = "assign"
    <3> DEFINE f == ByName(d.fields, step.rule.field)
               value == Value(d, step.rule.value, o, step.item.parameters)
               bits == BitsOf(f)
    <3>1. new = IF value \notin 0 .. (2 ^ f.width - 1) THEN [acc EXCEPT !.code = "VALUE_WIDTH"]
                ELSE IF acc.used \cap bits # {} THEN [acc EXCEPT !.code = "MASK_CONFLICT"]
                ELSE [acc EXCEPT !.used = @ \cup bits,
                                 !.words[f.target][f.word] = PutField(@, f, value),
                                 !.applied = @ \cup {[field |-> f, value |-> value]}]
      BY <2>3 DEF WalkStep, Assign, BitsOf
    <3>2. acc.used \cap bits = {}
      <4>1. acc.used = UNION {BitsOf(a.field) : a \in RowsUpTo(d, o, list, k)}
        BY <2>3 DEF WalkedUpTo, AppliedUpTo
      <4>2. ASSUME NEW a \in RowsUpTo(d, o, list, k) PROVE BitsOf(a.field) \cap bits = {}
        <5>1. PICK i \in {j \in 1 .. k : list[j].what = "assign"} : a = RowOf(d, o, list[i])
          BY DEF RowsUpTo
        <5>2. BitsOf(a.field) = StepBits(d, list[i]) /\ bits = StepBits(d, list[k + 1])
          BY <5>1 DEF RowOf, StepBits
        <5>3. i \in DOMAIN list /\ k + 1 \in DOMAIN list /\ i < k + 1
          BY <1>1
        <5> HIDE DEF bits
        <5> QED BY <2>3, <5>2, <5>3 DEF ClashFree
      <4> HIDE DEF bits
      <4> QED BY <4>1, <4>2
    <3>3. Passes(d, o, step) <=> value \in 0 .. (2 ^ f.width - 1)
      BY <2>3 DEF Passes
    <3> HIDE DEF new, value, bits, f, step
    <3>4. CASE value \in 0 .. (2 ^ f.width - 1)
      <4>1. new.code = "OK"
        BY <1>2, <2>3, <3>1, <3>2, <3>4
      <4> QED BY <2>3, <3>3, <3>4, <4>1
    <3>5. CASE value \notin 0 .. (2 ^ f.width - 1)
      <4>1. new.code = "VALUE_WIDTH"
        BY <1>2, <3>1, <3>5
      <4> QED BY <3>3, <3>5, <4>1
    <3> QED BY <3>4, <3>5
  <2> QED BY <2>1, <2>2, <2>3 DEF GoodStep
<1> HIDE DEF new
<1> QED BY <1>1, <1>3 DEF PassedUpTo, new

\* The walk ends without a refusal when all its rules pass, and only then.
LEMMA WalkPasses ==
  ASSUME NEW d, NEW canon, NEW o, WordsLike(o, o), NEW n \in Nat, DOMAIN Steps(d, canon) = 1 .. n,
         \A k \in 1 .. n : GoodStep(d, o, Steps(d, canon)[k]), ClashFree(d, Steps(d, canon))
  PROVE  PassedUpTo(d, o, Steps(d, canon), n, Walk(d, canon, o))
<1> DEFINE list == Steps(d, canon)
<1>0. PICK st : Walking(d, canon, o, n, st)
  BY WalkRuns
<1>1. /\ st[0] = WalkStart(o)
      /\ \A k \in 1 .. n : st[k] = WalkStep(d, o, st[k - 1], list[k])
      /\ Walk(d, canon, o) = st[n]
  BY <1>0 DEF Walking
<1> HIDE DEF list
<1> DEFINE S == {k \in 0 .. n : WalkedUpTo(d, o, list, k, st[k]) /\ PassedUpTo(d, o, list, k, st[k])}
<1>2. 0 \in S
  <2>1. WalkedUpTo(d, o, list, 0, st[0])
    BY <1>1, WalkBegins
  <2>2. PassedUpTo(d, o, list, 0, st[0])
    BY <1>1 DEF PassedUpTo, WalkStart
  <2> QED BY <2>1, <2>2
<1>3. ASSUME NEW k \in 0 .. (n - 1), k \in S PROVE k + 1 \in S
  <2>1. k \in Nat /\ k + 1 \in 1 .. n /\ k + 1 \in 0 .. n /\ (k + 1) - 1 = k
    OBVIOUS
  <2>2. st[k + 1] = WalkStep(d, o, st[k], list[k + 1])
    <3>1. st[k + 1] = WalkStep(d, o, st[(k + 1) - 1], list[k + 1])
      BY <1>1, <2>1, Zenon
    <3> QED BY <2>1, <3>1
  <2>3. WalkedUpTo(d, o, list, k, st[k]) /\ PassedUpTo(d, o, list, k, st[k])
    BY <1>3
  <2>4. GoodStep(d, o, list[k + 1]) /\ ClashFree(d, list) /\ DOMAIN list = 1 .. n
    BY <2>1 DEF list
  <2>5. WalkedUpTo(d, o, list, k + 1, st[k + 1])
    BY <2>1, <2>2, <2>3, <2>4, StepTaken
  <2>6. PassedUpTo(d, o, list, k + 1, st[k + 1])
    BY <2>2, <2>3, <2>4, StepPassed
  <2> QED BY <2>1, <2>5, <2>6
<1>4. n \in S
  <2> HIDE DEF S
  <2>1. \A k \in 0 .. n : k \in S
    BY <1>2, <1>3, InductionUpTo
  <2> QED BY <2>1
<1> QED BY <1>1, <1>4 DEF list

-----------------------------------------------------------------------------
(* The rules of a list never write the same bits when its kinds assign        *)
(* different fields.                                                          *)

LEMMA CanonicalKindsDiffer ==
  ASSUME NEW items, Sortable(items)
  PROVE  LET c == Canonical(items)
         IN  \A i, j \in DOMAIN c : i < j => c[i].kind # c[j].kind
<1> DEFINE n == Len(items)
           c == Canonical(items)
           v == [i \in DOMAIN c |-> c[i].kind]
<1>1. n \in Nat /\ DOMAIN items = 1 .. n /\ items \in [1 .. n -> Items(items)]
  BY DEF Sortable
<1>2. c \in [1 .. n -> Items(items)] /\ Ascending(v)
  BY <1>1, Sorted DEF Canonical
<1> HIDE DEF c, n
<1>3. ASSUME NEW i \in DOMAIN c, NEW j \in DOMAIN c, i < j PROVE c[i].kind # c[j].kind
  <2>1. Before(v[i], v[j])
    <3>1. DOMAIN v = DOMAIN c
      OBVIOUS
    <3> HIDE DEF v
    <3> QED BY <1>2, <1>3, <3>1 DEF Ascending
  <2>2. Before(c[i].kind, c[j].kind)
    BY <2>1
  <2>3. Place(c[i].kind) < Place(c[j].kind)
    BY <2>2 DEF Before, Place
  <2>4. Place(c[i].kind) \in Nat
    BY PlaceIsNatural
  <2> QED BY <2>3, <2>4
<1> QED BY <1>3 DEF c

LEMMA FieldsApart ==
  ASSUME NEW d, Valid(d), NEW m \in Names(d.fields), NEW n \in Names(d.fields), m # n
  PROVE  BitsOf(ByName(d.fields, m)) \cap BitsOf(ByName(d.fields, n)) = {}
<1> DEFINE f == ByName(d.fields, m)
           g == ByName(d.fields, n)
<1>1. f \in Items(d.fields) /\ g \in Items(d.fields) /\ f.name = m /\ g.name = n
  BY NamedItem
<1> HIDE DEF f, g
<1>2. f # g
  BY <1>1
<1>3. f.target = g.target /\ f.word = g.word => Mask(f) \cap Mask(g) = {}
  BY <1>1, <1>2 DEF Valid, FieldsValid
<1>4. BitsOf(f) \cap BitsOf(g) = {}
  BY <1>3 DEF BitsOf
<1> QED BY <1>4 DEF f, g

LEMMA ClashFreeConcatenation ==
  ASSUME NEW d, NEW T, NEW s \in Seq(T), NEW t \in Seq(T), ClashFree(d, s), ClashFree(d, t),
         \A a \in Items(s), b \in Items(t) :
            a.what = "assign" /\ b.what = "assign" => StepBits(d, a) \cap StepBits(d, b) = {}
  PROVE  ClashFree(d, s \o t)
<1> DEFINE m == Len(s)
           n == Len(t)
           u == s \o t
<1>1. /\ m \in Nat /\ n \in Nat /\ DOMAIN s = 1 .. m /\ DOMAIN t = 1 .. n
      /\ DOMAIN u = 1 .. (m + n)
      /\ \A i \in 1 .. (m + n) : u[i] = IF i <= m THEN s[i] ELSE t[i - m]
  OBVIOUS
<1> HIDE DEF m, n, u
<1>2. ASSUME NEW i \in DOMAIN u, NEW j \in DOMAIN u, i < j, u[i].what = "assign", u[j].what = "assign"
      PROVE  StepBits(d, u[i]) \cap StepBits(d, u[j]) = {}
  <2>1. CASE j <= m
    <3>1. i \in DOMAIN s /\ j \in DOMAIN s /\ u[i] = s[i] /\ u[j] = s[j]
      BY <1>1, <1>2, <2>1
    <3> QED BY <1>2, <3>1 DEF ClashFree
  <2>2. CASE i > m
    <3>1. i - m \in DOMAIN t /\ j - m \in DOMAIN t /\ i - m < j - m /\ u[i] = t[i - m] /\ u[j] = t[j - m]
      BY <1>1, <1>2, <2>2
    <3> QED BY <1>2, <3>1 DEF ClashFree
  <2>3. CASE i <= m /\ j > m
    <3>1. i \in DOMAIN s /\ j - m \in DOMAIN t /\ u[i] = s[i] /\ u[j] = t[j - m]
      BY <1>1, <1>2, <2>3
    <3>2. u[i] \in Items(s) /\ u[j] \in Items(t)
      BY <3>1 DEF Items
    <3> QED BY <1>2, <3>2
  <2> QED BY <1>1, <1>2, <2>1, <2>2, <2>3
<1> QED BY <1>2 DEF ClashFree, u

LEMMA KindStepsClashFree ==
  ASSUME NEW d, Valid(d), NEW x, x.kind \in Kinds(d)
  PROVE  ClashFree(d, KindSteps(d, x))
<1> DEFINE k == KindOf(d, x.kind)
           A == Labelled(x, "require", k.requires)
           B == Labelled(x, "assign", k.assign)
           n == Len(k.assign)
           v == [i \in 1 .. n |-> k.assign[i].field]
<1>1. k \in Items(d.kinds)
  BY KindOfName
<1>2. k.requires \in Seq(Items(k.requires)) /\ k.assign \in Seq(Items(k.assign))
  BY <1>1 DEF Valid, Shaped
<1>3. KindValid(d, k)
  BY <1>1 DEF Valid, KindsValid
<1> HIDE DEF k
<1>4. DOMAIN k.assign = 1 .. n /\ n \in Nat
  BY <1>2
<1>5. Cardinality({v[i] : i \in 1 .. n}) = n /\ DOMAIN v = 1 .. n
  <2>1. {v[i] : i \in 1 .. n} = {a.field : a \in Items(k.assign)}
    BY <1>4 DEF Items
  <2> QED BY <1>3, <2>1 DEF KindValid
<1> HIDE DEF n
<1>6. \A i, j \in 1 .. n : v[i] = v[j] => i = j
  <2> HIDE DEF v
  <2> QED BY <1>4, <1>5, DistinctValues
<1>7. ClashFree(d, A)
  <2>1. \A i \in DOMAIN A : A[i].what = "require"
    BY DEF Labelled
  <2> HIDE DEF A
  <2> QED BY <2>1 DEF ClashFree
<1>8. ClashFree(d, B)
  <2>1. DOMAIN B = 1 .. n /\ \A i \in 1 .. n : B[i].rule = k.assign[i]
    BY <1>4 DEF Labelled
  <2> HIDE DEF B
  <2>2. ASSUME NEW i \in DOMAIN B, NEW j \in DOMAIN B, i < j
        PROVE  StepBits(d, B[i]) \cap StepBits(d, B[j]) = {}
    <3>1. i \in 1 .. n /\ j \in 1 .. n /\ i # j
      BY <1>4, <2>1, <2>2
    <3>2. v[i] # v[j]
      BY <1>6, <3>1
    <3>3. k.assign[i].field # k.assign[j].field
      BY <3>1, <3>2
    <3>4. k.assign[i] \in Items(k.assign) /\ k.assign[j] \in Items(k.assign)
      BY <1>4, <3>1 DEF Items
    <3>5. k.assign[i].field \in Names(d.fields) /\ k.assign[j].field \in Names(d.fields)
      BY <1>3, <3>4 DEF KindValid
    <3> QED BY <2>1, <3>1, <3>3, <3>5, FieldsApart DEF StepBits
  <2> QED BY <2>2 DEF ClashFree
<1> DEFINE TA == {[what |-> "require", item |-> x, rule |-> r] : r \in Items(k.requires)}
           TB == {[what |-> "assign", item |-> x, rule |-> r] : r \in Items(k.assign)}
<1>9. A \in Seq(TA) /\ Items(A) = TA /\ B \in Seq(TB) /\ Items(B) = TB
  BY <1>2, LabelledRules
<1>10. \A a \in TA : a.what = "require"
  OBVIOUS
<1>11. KindSteps(d, x) = A \o B
  BY DEF KindSteps, k
<1> HIDE DEF A, B, TA, TB
<1>12. A \in Seq(TA \cup TB) /\ B \in Seq(TA \cup TB)
  BY <1>9
<1>13. \A a \in Items(A) : a.what # "assign"
  BY <1>9, <1>10
<1> QED BY <1>7, <1>8, <1>11, <1>12, <1>13, ClashFreeConcatenation

(* The fields the kind of an item assigns.                                    *)
KindFields(d, x) == {a.field : a \in Items(KindOf(d, x.kind).assign)}

StepsClashFree(d, T, list) == list \in Seq(T) /\ ClashFree(d, list)

LEMMA AdmittedClashFree ==
  ASSUME NEW d, Valid(d), NEW items, items \in Seq(Items(items)), SetRefusal(d, items) = "OK",
         \A x, y \in Items(items) : x.kind # y.kind => KindFields(d, x) \cap KindFields(d, y) = {}
  PROVE  ClashFree(d, Steps(d, Canonical(items)))
<1> DEFINE canon == Canonical(items)
           T == UNION {StepSet(d, x) : x \in Items(items)}
           n == Len(canon)
<1>1. Sortable(items) /\ \A x \in Items(items) : x.kind \in Kinds(d)
  BY AdmittedList
<1>2. canon \in Seq(Items(items)) /\ Items(canon) = Items(items)
  BY <1>1, CanonicalForm
<1>3. \A i, j \in DOMAIN canon : i < j => canon[i].kind # canon[j].kind
  BY <1>1, CanonicalKindsDiffer
<1>4. n \in Nat /\ DOMAIN canon = 1 .. n /\ \A i \in 1 .. n : canon[i] \in Items(items)
  BY <1>2
<1> HIDE DEF canon, n
<1>5. ASSUME NEW x \in Items(items)
      PROVE  /\ KindOf(d, x.kind) \in Items(d.kinds)
             /\ KindOf(d, x.kind).requires \in Seq(Items(KindOf(d, x.kind).requires))
             /\ KindOf(d, x.kind).assign \in Seq(Items(KindOf(d, x.kind).assign))
             /\ KindFields(d, x) \subseteq Names(d.fields)
  <2>1. KindOf(d, x.kind) \in Items(d.kinds)
    BY <1>1, KindOfName
  <2>2. \A k \in Items(d.kinds) : \A s \in {k.requires, k.assign} : s \in Seq(Items(s))
    BY DEF Valid, Shaped
  <2>3. KindValid(d, KindOf(d, x.kind))
    BY <2>1 DEF Valid, KindsValid
  <2> QED BY <2>1, <2>2, <2>3 DEF KindValid, KindFields
<1>6. PICK st : Gathering(d, canon, n, st)
  BY <1>4, StepsRun
<1> DEFINE S == {k \in 0 .. n : StepsClashFree(d, T, st[k]) /\ Items(st[k]) = StepsUpTo(d, canon, k)}
<1>7. 0 \in S
  <2>1. st[0] = <<>>
    BY <1>6 DEF Gathering
  <2>2. Items(<<>>) = {} /\ ClashFree(d, <<>>)
    BY DEF Items, ClashFree
  <2>3. StepsUpTo(d, canon, 0) = {}
    BY DEF StepsUpTo
  <2> HIDE DEF T
  <2>4. <<>> \in Seq(T)
    OBVIOUS
  <2>5. StepsClashFree(d, T, st[0])
    BY <2>1, <2>2, <2>4 DEF StepsClashFree
  <2>6. Items(st[0]) = StepsUpTo(d, canon, 0)
    BY <2>1, <2>2, <2>3
  <2> QED BY <1>4, <2>5, <2>6
<1>8. ASSUME NEW k \in 0 .. (n - 1), k \in S PROVE k + 1 \in S
  <2> DEFINE x == canon[k + 1]
  <2>1. k + 1 \in 1 .. n /\ (k + 1) - 1 = k /\ k + 1 \in 0 .. n
    BY <1>4
  <2>2. st[k + 1] = st[k] \o KindSteps(d, x)
    <3>1. st[k + 1] = st[(k + 1) - 1] \o KindSteps(d, canon[k + 1])
      BY <1>6, <2>1, Zenon DEF Gathering
    <3> QED BY <2>1, <3>1
  <2>3. x \in Items(items)
    BY <1>4, <2>1
  <2>4. KindSteps(d, x) \in Seq(StepSet(d, x)) /\ Items(KindSteps(d, x)) = StepSet(d, x)
    BY <1>5, <2>3, KindStepsAreRules
  <2>5. ClashFree(d, KindSteps(d, x))
    BY <1>1, <2>3, KindStepsClashFree
  <2>6. st[k] \in Seq(T) /\ ClashFree(d, st[k]) /\ Items(st[k]) = StepsUpTo(d, canon, k)
    BY <1>8 DEF StepsClashFree
  <2>7. StepSet(d, x) \subseteq T
    BY <2>3
  <2>8. StepsUpTo(d, canon, k + 1) = StepsUpTo(d, canon, k) \cup StepSet(d, x)
    <3>1. 1 .. (k + 1) = (1 .. k) \cup {k + 1}
      BY <1>4
    <3> QED BY <3>1 DEF StepsUpTo
  <2>9. ASSUME NEW a \in StepsUpTo(d, canon, k), NEW b \in StepSet(d, x), a.what = "assign", b.what = "assign"
        PROVE  StepBits(d, a) \cap StepBits(d, b) = {}
    <3>1. PICK j \in 1 .. k : a \in StepSet(d, canon[j])
      BY DEF StepsUpTo
    <3> DEFINE y == canon[j]
    <3>2. y \in Items(items) /\ y.kind # x.kind
      <4>1. j \in DOMAIN canon /\ k + 1 \in DOMAIN canon /\ j < k + 1
        BY <1>4, <2>1
      <4> QED BY <1>3, <1>4, <4>1
    <3>3. KindFields(d, y) \cap KindFields(d, x) = {}
      BY <2>3, <3>2
    <3> HIDE DEF x, y
    <3>4. a.rule \in Items(KindOf(d, y.kind).assign)
      BY <2>9, <3>1 DEF StepSet, y
    <3>5. b.rule \in Items(KindOf(d, x.kind).assign)
      BY <2>9 DEF StepSet
    <3>6. a.rule.field \in KindFields(d, y) /\ b.rule.field \in KindFields(d, x)
      BY <3>4, <3>5 DEF KindFields
    <3>7. a.rule.field \in Names(d.fields) /\ b.rule.field \in Names(d.fields)
      BY <1>5, <2>3, <3>2, <3>6
    <3> QED BY <3>3, <3>6, <3>7, FieldsApart DEF StepBits
  <2> HIDE DEF T, x
  <2>10. KindSteps(d, x) \in Seq(T)
    BY <2>4, <2>7
  <2>11. st[k + 1] \in Seq(T) /\ Items(st[k + 1]) = StepsUpTo(d, canon, k) \cup StepSet(d, x)
    BY <2>2, <2>4, <2>6, <2>10, ItemsOfConcatenation
  <2>12. ClashFree(d, st[k + 1])
    BY <2>2, <2>4, <2>5, <2>6, <2>9, <2>10, ClashFreeConcatenation
  <2> QED BY <2>1, <2>8, <2>11, <2>12 DEF StepsClashFree
<1>9. n \in S
  <2> HIDE DEF S
  <2>1. \A k \in 0 .. n : k \in S
    BY <1>4, <1>7, <1>8, InductionUpTo
  <2> QED BY <1>4, <2>1
<1> QED BY <1>6, <1>9 DEF Gathering, StepsClashFree, canon

-----------------------------------------------------------------------------
(* Kinds that promise nothing about the result. *)

VerdictsOf(d, result, x) ==
    [i \in DOMAIN KindOf(d, x.kind).ensures |-> Verdict(d, KindOf(d, x.kind).ensures[i], result, x.parameters)]
VerdictsOn(d, canon, result, g, m) ==
    g = [s \in SUBSET (1 .. m) |->
            IF s = {} THEN <<>> ELSE g[s \ {Max(s)}] \o VerdictsOf(d, result, canon[Max(s)])]

LEMMA LargestNumber ==
  ASSUME NEW n \in Nat, NEW s \in SUBSET (1 .. n), s # {}
  PROVE  Max(s) \in 1 .. n
<1> DEFINE T == {n - y : y \in s}
<1>1. T \in SUBSET Nat /\ T # {}
  OBVIOUS
<1>2. PICK x \in T : \A z \in T : x <= z
  <2> HIDE DEF T
  <2> QED BY <1>1, LeastNumber
<1>3. PICK m \in s : x = n - m
  BY <1>2
<1>4. \A y \in s : m >= y
  BY <1>2, <1>3
<1>5. Max(s) \in s
  BY <1>4 DEF Max
<1> QED BY <1>5

LEMMA NothingEnsured ==
  ASSUME NEW d, NEW canon, NEW result, NEW n \in Nat, DOMAIN canon = 1 .. n,
         \A i \in 1 .. n : KindOf(d, canon[i].kind).ensures = <<>>
  PROVE  FirstRefusal(EnsuresVerdicts(d, canon, result)) = "OK"
<1>1. ASSUME NEW i \in 1 .. n PROVE VerdictsOf(d, result, canon[i]) = <<>>
  <2>1. KindOf(d, canon[i].kind).ensures = <<>>
    OBVIOUS
  <2>2. DOMAIN <<>> = {}
    OBVIOUS
  <2> QED BY <2>1, <2>2 DEF VerdictsOf
<1>2. <<>> \o <<>> = <<>>
  OBVIOUS
<1>3. ASSUME NEW s \in SUBSET (1 .. n), s # {} PROVE Max(s) \in 1 .. n
  BY <1>3, LargestNumber
<1>4. \E g : VerdictsOn(d, canon, result, g, n)
  <2> DEFINE g == [s \in SUBSET (1 .. n) |-> <<>>]
  <2>1. ASSUME NEW s \in SUBSET (1 .. n)
        PROVE  g[s] = IF s = {} THEN <<>> ELSE g[s \ {Max(s)}] \o VerdictsOf(d, result, canon[Max(s)])
    <3>1. s # {} => g[s \ {Max(s)}] \o VerdictsOf(d, result, canon[Max(s)]) = <<>>
      <4>1. g[s \ {Max(s)}] = <<>>
        OBVIOUS
      <4> QED BY <1>1, <1>2, <1>3, <4>1
    <3> QED BY <3>1
  <2>2. g = [s \in SUBSET (1 .. n) |-> g[s]]
    OBVIOUS
  <2> HIDE DEF g
  <2>3. VerdictsOn(d, canon, result, g, n)
    BY <2>1, <2>2 DEF VerdictsOn
  <2> QED BY <2>3
<1> DEFINE g == CHOOSE g : VerdictsOn(d, canon, result, g, n)
<1>5. VerdictsOn(d, canon, result, g, n)
  BY <1>4
<1>6. EnsuresVerdicts(d, canon, result) = g[1 .. n]
  BY DEF EnsuresVerdicts, FoldLeft, MapThenFoldSet, VerdictsOn, VerdictsOf
<1> HIDE DEF g
<1>7. ASSUME NEW s \in SUBSET (1 .. n)
      PROVE  g[s] = IF s = {} THEN <<>> ELSE g[s \ {Max(s)}] \o VerdictsOf(d, result, canon[Max(s)])
  BY <1>5 DEF VerdictsOn
<1> DEFINE S == {k \in 0 .. n : g[1 .. k] = <<>>}
<1>8. 0 \in S
  <2>1. 1 .. 0 = {} /\ 1 .. 0 \in SUBSET (1 .. n)
    OBVIOUS
  <2>2. g[1 .. 0] = <<>>
    BY <1>7, <2>1
  <2> QED BY <2>2
<1>9. ASSUME NEW k \in 0 .. (n - 1), k \in S PROVE k + 1 \in S
  <2>1. 1 .. (k + 1) \in SUBSET (1 .. n) /\ k + 1 \in 1 .. (k + 1) /\ k + 1 \in Nat \ {0} /\ k + 1 \in 1 .. n
        /\ (k + 1) - 1 = k /\ k + 1 \in 0 .. n
    OBVIOUS
  <2>2. Max(1 .. (k + 1)) = k + 1 /\ (1 .. (k + 1)) \ {k + 1} = 1 .. ((k + 1) - 1)
    BY <2>1, LargestOfInterval
  <2>3. g[1 .. (k + 1)] = g[1 .. k] \o VerdictsOf(d, result, canon[k + 1])
    BY <1>7, <2>1, <2>2
  <2>4. g[1 .. k] = <<>>
    BY <1>9
  <2> QED BY <1>1, <1>2, <2>1, <2>3, <2>4
<1>10. n \in S
  <2> HIDE DEF S
  <2>1. \A k \in 0 .. n : k \in S
    BY <1>8, <1>9, InductionUpTo
  <2> QED BY <2>1
<1>11. EnsuresVerdicts(d, canon, result) = <<>>
  BY <1>6, <1>10
<1>12. SelectInSeq(<<>>, LAMBDA v : v # "holds") = 0
  BY DEF SelectInSeq
<1> QED BY <1>11, <1>12 DEF FirstRefusal

-----------------------------------------------------------------------------
(* The registry: the rows of an item and the items of a list, one by one.     *)

RowsApplied(o, acc, rule) == FoldLeft(LAMBDA a, row : ApplyRow(a, o, row), acc, rule)
ItemsApplied(o, items) == FoldLeft(LAMBDA a, x : ApplyItem(a, o, x), WalkStart(o), items)

RowsOn(o, acc, rule, g, m) ==
    g = [s \in SUBSET (1 .. m) |->
            IF s = {} THEN acc ELSE ApplyRow(g[s \ {Max(s)}], o, rule[Max(s)])]

LEMMA RowsExtend ==
  ASSUME NEW o, NEW acc, NEW rule, NEW m \in Nat, NEW g, RowsOn(o, acc, rule, g, m)
  PROVE  \E h : RowsOn(o, acc, rule, h, m + 1)
<1> DEFINE h == [s \in SUBSET (1 .. (m + 1)) |->
                    IF m + 1 \in s THEN ApplyRow(g[s \ {m + 1}], o, rule[m + 1]) ELSE g[s]]
<1>1. ASSUME NEW s \in SUBSET (1 .. (m + 1))
      PROVE  h[s] = IF s = {} THEN acc ELSE ApplyRow(h[s \ {Max(s)}], o, rule[Max(s)])
  <2>1. CASE m + 1 \in s
    <3>1. Max(s) = m + 1 /\ s \ {m + 1} \in SUBSET (1 .. m)
      BY <2>1, LargestAdded
    <3>2. h[s] = ApplyRow(g[s \ {m + 1}], o, rule[m + 1])
      BY <2>1
    <3>3. h[s \ {m + 1}] = g[s \ {m + 1}]
      BY <3>1
    <3> QED BY <2>1, <3>1, <3>2, <3>3
  <2>2. CASE m + 1 \notin s
    <3>1. s \in SUBSET (1 .. m)
      BY <2>2
    <3>2. h[s] = g[s]
      BY <2>2
    <3>3. g[s] = IF s = {} THEN acc ELSE ApplyRow(g[s \ {Max(s)}], o, rule[Max(s)])
      BY <3>1 DEF RowsOn
    <3>4. h[s \ {Max(s)}] = g[s \ {Max(s)}]
      BY <2>2
    <3> QED BY <3>2, <3>3, <3>4
  <2> QED BY <2>1, <2>2
<1>2. h = [s \in SUBSET (1 .. (m + 1)) |-> h[s]]
  OBVIOUS
<1> HIDE DEF h
<1>3. RowsOn(o, acc, rule, h, m + 1)
  BY <1>1, <1>2 DEF RowsOn
<1> QED BY <1>3

LEMMA RowsExist ==
  ASSUME NEW o, NEW acc, NEW rule, NEW n \in Nat
  PROVE  \E g : RowsOn(o, acc, rule, g, n)
<1> DEFINE S == {m \in 0 .. n : \E g : RowsOn(o, acc, rule, g, m)}
<1>1. 0 \in S
  <2> DEFINE g == [s \in SUBSET (1 .. 0) |-> acc]
  <2>1. SUBSET (1 .. 0) = {{}}
    OBVIOUS
  <2>2. RowsOn(o, acc, rule, g, 0)
    BY <2>1 DEF RowsOn
  <2> QED BY <2>2
<1>2. ASSUME NEW m \in 0 .. (n - 1), m \in S PROVE m + 1 \in S
  BY <1>2, RowsExtend
<1> HIDE DEF S
<1>3. n \in S
  BY <1>1, <1>2, InductionUpTo
<1> QED BY <1>3 DEF S

(* st holds what the registry has after every row of a rule.                  *)
RowsRunning(o, acc, rule, n, st) ==
    /\ DOMAIN st = 0 .. n
    /\ st[0] = acc
    /\ \A k \in 1 .. n : st[k] = ApplyRow(st[k - 1], o, rule[k])
    /\ RowsApplied(o, acc, rule) = st[n]

LEMMA RowsRun ==
  ASSUME NEW o, NEW acc, NEW rule, NEW n \in Nat, DOMAIN rule = 1 .. n
  PROVE  \E st : RowsRunning(o, acc, rule, n, st)
<1> DEFINE g == CHOOSE g : RowsOn(o, acc, rule, g, n)
           st == [k \in 0 .. n |-> g[1 .. k]]
<1>1. RowsOn(o, acc, rule, g, n)
  BY RowsExist
<1>2. RowsApplied(o, acc, rule) = g[1 .. n]
  BY DEF RowsApplied, FoldLeft, MapThenFoldSet, RowsOn
<1> HIDE DEF g
<1>3. ASSUME NEW s \in SUBSET (1 .. n)
      PROVE  g[s] = IF s = {} THEN acc ELSE ApplyRow(g[s \ {Max(s)}], o, rule[Max(s)])
  BY <1>1 DEF RowsOn
<1>4. 1 .. 0 = {} /\ 1 .. 0 \in SUBSET (1 .. n)
  OBVIOUS
<1>5. g[1 .. 0] = acc
  BY <1>3, <1>4
<1>6. ASSUME NEW k \in 1 .. n PROVE g[1 .. k] = ApplyRow(g[1 .. (k - 1)], o, rule[k])
  <2>1. 1 .. k \in SUBSET (1 .. n) /\ k \in 1 .. k /\ k \in Nat \ {0}
    OBVIOUS
  <2>2. Max(1 .. k) = k /\ (1 .. k) \ {k} = 1 .. (k - 1)
    BY <2>1, LargestOfInterval
  <2> QED BY <1>3, <2>1, <2>2
<1>7. /\ DOMAIN st = 0 .. n
      /\ st[0] = acc
      /\ \A k \in 1 .. n : st[k] = ApplyRow(st[k - 1], o, rule[k])
      /\ RowsApplied(o, acc, rule) = st[n]
  BY <1>2, <1>5, <1>6
<1> HIDE DEF st
<1>8. RowsRunning(o, acc, rule, n, st)
  BY <1>7 DEF RowsRunning
<1> QED BY <1>8

ItemsOn(o, items, g, m) ==
    g = [s \in SUBSET (1 .. m) |->
            IF s = {} THEN WalkStart(o) ELSE ApplyItem(g[s \ {Max(s)}], o, items[Max(s)])]

LEMMA ItemsExtend ==
  ASSUME NEW o, NEW items, NEW m \in Nat, NEW g, ItemsOn(o, items, g, m)
  PROVE  \E h : ItemsOn(o, items, h, m + 1)
<1> DEFINE h == [s \in SUBSET (1 .. (m + 1)) |->
                    IF m + 1 \in s THEN ApplyItem(g[s \ {m + 1}], o, items[m + 1]) ELSE g[s]]
<1>1. ASSUME NEW s \in SUBSET (1 .. (m + 1))
      PROVE  h[s] = IF s = {} THEN WalkStart(o) ELSE ApplyItem(h[s \ {Max(s)}], o, items[Max(s)])
  <2>1. CASE m + 1 \in s
    <3>1. Max(s) = m + 1 /\ s \ {m + 1} \in SUBSET (1 .. m)
      BY <2>1, LargestAdded
    <3>2. h[s] = ApplyItem(g[s \ {m + 1}], o, items[m + 1])
      BY <2>1
    <3>3. h[s \ {m + 1}] = g[s \ {m + 1}]
      BY <3>1
    <3> QED BY <2>1, <3>1, <3>2, <3>3
  <2>2. CASE m + 1 \notin s
    <3>1. s \in SUBSET (1 .. m)
      BY <2>2
    <3>2. h[s] = g[s]
      BY <2>2
    <3>3. g[s] = IF s = {} THEN WalkStart(o) ELSE ApplyItem(g[s \ {Max(s)}], o, items[Max(s)])
      BY <3>1 DEF ItemsOn
    <3>4. h[s \ {Max(s)}] = g[s \ {Max(s)}]
      BY <2>2
    <3> QED BY <3>2, <3>3, <3>4
  <2> QED BY <2>1, <2>2
<1>2. h = [s \in SUBSET (1 .. (m + 1)) |-> h[s]]
  OBVIOUS
<1> HIDE DEF h
<1>3. ItemsOn(o, items, h, m + 1)
  BY <1>1, <1>2 DEF ItemsOn
<1> QED BY <1>3

LEMMA ItemsExist ==
  ASSUME NEW o, NEW items, NEW n \in Nat
  PROVE  \E g : ItemsOn(o, items, g, n)
<1> DEFINE S == {m \in 0 .. n : \E g : ItemsOn(o, items, g, m)}
<1>1. 0 \in S
  <2> DEFINE g == [s \in SUBSET (1 .. 0) |-> WalkStart(o)]
  <2>1. SUBSET (1 .. 0) = {{}}
    OBVIOUS
  <2>2. ItemsOn(o, items, g, 0)
    BY <2>1 DEF ItemsOn
  <2> QED BY <2>2
<1>2. ASSUME NEW m \in 0 .. (n - 1), m \in S PROVE m + 1 \in S
  BY <1>2, ItemsExtend
<1> HIDE DEF S
<1>3. n \in S
  BY <1>1, <1>2, InductionUpTo
<1> QED BY <1>3 DEF S

(* st holds what the registry has after every item of a list.                 *)
ItemsRunning(o, items, n, st) ==
    /\ DOMAIN st = 0 .. n
    /\ st[0] = WalkStart(o)
    /\ \A k \in 1 .. n : st[k] = ApplyItem(st[k - 1], o, items[k])
    /\ ItemsApplied(o, items) = st[n]

LEMMA ItemsRun ==
  ASSUME NEW o, NEW items, NEW n \in Nat, DOMAIN items = 1 .. n
  PROVE  \E st : ItemsRunning(o, items, n, st)
<1> DEFINE g == CHOOSE g : ItemsOn(o, items, g, n)
           st == [k \in 0 .. n |-> g[1 .. k]]
<1>1. ItemsOn(o, items, g, n)
  BY ItemsExist
<1>2. ItemsApplied(o, items) = g[1 .. n]
  BY DEF ItemsApplied, FoldLeft, MapThenFoldSet, ItemsOn
<1> HIDE DEF g
<1>3. ASSUME NEW s \in SUBSET (1 .. n)
      PROVE  g[s] = IF s = {} THEN WalkStart(o) ELSE ApplyItem(g[s \ {Max(s)}], o, items[Max(s)])
  BY <1>1 DEF ItemsOn
<1>4. 1 .. 0 = {} /\ 1 .. 0 \in SUBSET (1 .. n)
  OBVIOUS
<1>5. g[1 .. 0] = WalkStart(o)
  BY <1>3, <1>4
<1>6. ASSUME NEW k \in 1 .. n PROVE g[1 .. k] = ApplyItem(g[1 .. (k - 1)], o, items[k])
  <2>1. 1 .. k \in SUBSET (1 .. n) /\ k \in 1 .. k /\ k \in Nat \ {0}
    OBVIOUS
  <2>2. Max(1 .. k) = k /\ (1 .. k) \ {k} = 1 .. (k - 1)
    BY <2>1, LargestOfInterval
  <2> QED BY <1>3, <2>1, <2>2
<1>7. /\ DOMAIN st = 0 .. n
      /\ st[0] = WalkStart(o)
      /\ \A k \in 1 .. n : st[k] = ApplyItem(st[k - 1], o, items[k])
      /\ ItemsApplied(o, items) = st[n]
  BY <1>2, <1>5, <1>6
<1> HIDE DEF st
<1>8. ItemsRunning(o, items, n, st)
  BY <1>7 DEF ItemsRunning
<1> QED BY <1>8

(* The original has a setting the row replaces, and the value fits.           *)
RowOk(o, row) ==
    /\ GetField(o, Layout[row.field]) \in row.from
    /\ row.to \in 0 .. (2 ^ Layout[row.field].width - 1)

RowFields(R) == {Layout[r.field] : r \in R}

(* The words hold the value of every row, and what o holds everywhere else.   *)
RowsWritten(o, R, words) ==
    /\ WordsLike(words, o)
    /\ \A r \in R : GetField(words, Layout[r.field]) = r.to
    /\ Keeps(words, o, FieldBits(RowFields(R)))

OverlayCodes == {"OK", "PARAMETER", "MASK_CONFLICT", "ORIGINAL_PRECONDITION", "VALUE_WIDTH"}

(* What the registry has after these rows.                                    *)
Overlays(o, R, acc) ==
    /\ DOMAIN acc = {"code", "words", "used", "applied"}
    /\ acc.code \in OverlayCodes
    /\ acc.code = "OK" => /\ RowsWritten(o, R, acc.words)
                          /\ acc.applied = R
                          /\ acc.used = FieldBits(RowFields(R))

(* The registered fields lie in the words, apart from each other.             *)
LayoutFits(o) ==
    /\ \A n \in DOMAIN Layout : FieldIn(Layout[n], o)
    /\ \A m, n \in DOMAIN Layout : m # n => BitsOf(Layout[m]) \cap BitsOf(Layout[n]) = {}

RowAdded(o, R, acc, row, new) ==
    /\ Overlays(o, R \cup {row}, new)
    /\ new.code = "OK" <=> acc.code = "OK" /\ RowOk(o, row)

LEMMA RowApplied ==
  ASSUME NEW o, LayoutFits(o), NEW R, NEW acc, Overlays(o, R, acc), NEW row, row.field \in DOMAIN Layout,
         \A r \in R : r.field \in DOMAIN Layout /\ r.field # row.field
  PROVE  RowAdded(o, R, acc, row, ApplyRow(acc, o, row))
<1> DEFINE f == Layout[row.field]
           bits == BitsOf(f)
           new == ApplyRow(acc, o, row)
<1>1. DOMAIN acc = {"code", "words", "used", "applied"} /\ acc.code \in OverlayCodes
  BY DEF Overlays
<1>2. FieldIn(f, o)
  BY DEF LayoutFits
<1>3. new = IF acc.code # "OK" THEN acc
            ELSE IF acc.used \cap bits # {} THEN [acc EXCEPT !.code = "MASK_CONFLICT"]
            ELSE IF GetField(o, f) \notin row.from THEN [acc EXCEPT !.code = "ORIGINAL_PRECONDITION"]
            ELSE IF row.to \notin 0 .. (2 ^ f.width - 1) THEN [acc EXCEPT !.code = "VALUE_WIDTH"]
            ELSE [acc EXCEPT !.used = @ \cup bits,
                             !.words = SetField(@, f, row.to),
                             !.applied = @ \cup {row}]
  BY DEF ApplyRow
<1>4. RowOk(o, row) <=> GetField(o, f) \in row.from /\ row.to \in 0 .. (2 ^ f.width - 1)
  BY DEF RowOk
<1>5. ASSUME acc.code = "OK" PROVE acc.used \cap bits = {}
  <2>1. acc.used = UNION {BitsOf(Layout[r.field]) : r \in R}
    BY <1>5 DEF Overlays, FieldBits, RowFields
  <2>2. \A r \in R : BitsOf(Layout[r.field]) \cap bits = {}
    BY DEF LayoutFits
  <2> HIDE DEF bits
  <2> QED BY <2>1, <2>2
<1> HIDE DEF new, f, bits
<1>6. CASE acc.code # "OK"
  BY <1>1, <1>3, <1>6 DEF RowAdded, Overlays, new
<1>7. CASE acc.code = "OK" /\ ~RowOk(o, row)
  <2>1. /\ DOMAIN new = {"code", "words", "used", "applied"}
        /\ new.code \in {"ORIGINAL_PRECONDITION", "VALUE_WIDTH"}
    BY <1>1, <1>3, <1>4, <1>5, <1>7
  <2>2. new.code # "OK" /\ new.code \in OverlayCodes
    BY <2>1 DEF OverlayCodes
  <2> QED BY <1>7, <2>1, <2>2 DEF RowAdded, Overlays, new
<1>8. CASE acc.code = "OK" /\ RowOk(o, row)
  <2> DEFINE words == [acc.words EXCEPT ![f.target][f.word] = PutField(@, f, row.to)]
  <2>1. new = [acc EXCEPT !.used = @ \cup bits, !.words = SetField(@, f, row.to), !.applied = @ \cup {row}]
    BY <1>3, <1>4, <1>5, <1>8
  <2>2. SetField(acc.words, f, row.to) = words
    BY DEF SetField
  <2>3. /\ DOMAIN new = {"code", "words", "used", "applied"}
        /\ new.code = "OK" /\ new.used = acc.used \cup bits
        /\ new.words = words /\ new.applied = acc.applied \cup {row}
    <3> HIDE DEF words
    <3> QED BY <1>1, <1>8, <2>1, <2>2
  <2>4. /\ RowsWritten(o, R, acc.words)
        /\ acc.applied = R
        /\ acc.used = FieldBits(RowFields(R))
    BY <1>8 DEF Overlays
  <2>5. /\ WordsLike(words, o)
        /\ GetField(words, f) = row.to
        /\ \A t \in DOMAIN o : \A i \in DOMAIN o[t] : \A p \in Nat, u \in Nat \ {0} :
              Away(bits, t, i, p, u) => Segment(words, t, i, p, u) = Segment(acc.words, t, i, p, u)
    <3>1. WordsLike(acc.words, o)
      BY <2>4 DEF RowsWritten
    <3>2. row.to \in 0 .. (2 ^ f.width - 1)
      BY <1>4, <1>8
    <3>3. WordsLike(words, o) /\ GetField(words, f) = row.to /\ SameAway(words, acc.words, o, bits)
      BY <1>2, <3>1, <3>2, StateWritten DEF bits
    <3> HIDE DEF words
    <3> QED BY <3>3 DEF SameAway
  <2> HIDE DEF words
  <2>6. FieldBits(RowFields(R \cup {row})) = FieldBits(RowFields(R)) \cup bits
    <3>1. RowFields(R \cup {row}) = RowFields(R) \cup {f}
      BY DEF RowFields, f
    <3> QED BY <3>1 DEF FieldBits, bits
  <2>7. ASSUME NEW r \in R \cup {row} PROVE GetField(words, Layout[r.field]) = r.to
    <3>1. CASE r = row
      BY <2>5, <3>1 DEF f
    <3>2. CASE r \in R
      <4> DEFINE g == Layout[r.field]
      <4>1. FieldIn(g, o) /\ GetField(acc.words, g) = r.to
        BY <2>4, <3>2 DEF LayoutFits, RowsWritten
      <4>2. BitsOf(g) \cap bits = {}
        BY <3>2 DEF LayoutFits, bits, f
      <4> HIDE DEF g
      <4>3. Away(bits, g.target, g.word, g.offset, g.width)
        BY <4>2 DEF Away, BitsOf, Mask
      <4>4. Segment(words, g.target, g.word, g.offset, g.width) = Segment(acc.words, g.target, g.word, g.offset, g.width)
        BY <2>5, <4>1, <4>3 DEF FieldIn
      <4>5. GetField(words, g) = r.to
        BY <4>1, <4>4, FieldIsSegment
      <4> QED BY <4>5 DEF g
    <3> QED BY <3>1, <3>2
  <2>8. ASSUME NEW t \in DOMAIN o, NEW i \in DOMAIN o[t], NEW p \in Nat, NEW u \in Nat \ {0},
               Away(FieldBits(RowFields(R)) \cup bits, t, i, p, u)
        PROVE  Segment(words, t, i, p, u) = Segment(o, t, i, p, u)
    <3>1. Away(bits, t, i, p, u) /\ Away(FieldBits(RowFields(R)), t, i, p, u)
      BY <2>8 DEF Away
    <3>2. Segment(words, t, i, p, u) = Segment(acc.words, t, i, p, u)
      BY <2>5, <3>1
    <3>3. Segment(acc.words, t, i, p, u) = Segment(o, t, i, p, u)
      BY <2>4, <3>1 DEF RowsWritten, Keeps
    <3> QED BY <3>2, <3>3
  <2>9. Keeps(words, o, FieldBits(RowFields(R)) \cup bits)
    BY <2>8 DEF Keeps
  <2>10. RowsWritten(o, R \cup {row}, words)
    BY <2>5, <2>6, <2>7, <2>9 DEF RowsWritten
  <2>11. Overlays(o, R \cup {row}, new)
    BY <2>3, <2>4, <2>6, <2>10 DEF Overlays, OverlayCodes
  <2> QED BY <1>8, <2>3, <2>11 DEF RowAdded, new
<1> QED BY <1>6, <1>7, <1>8

KindRows(kind) == IF kind = "LP_REWARDS_BPS" THEN {"lpBps"} ELSE {"maxFeePips", "dynamicFeeSens", "rootMode"}

LEMMA RuleRows ==
  ASSUME NEW x, x.kind \in Registered
  PROVE  /\ Rule(x) \in Seq(Items(Rule(x)))
         /\ \A i \in 1 .. Len(Rule(x)) : Rule(x)[i].field \in KindRows(x.kind)
         /\ \A i, j \in 1 .. Len(Rule(x)) : i # j => Rule(x)[i].field # Rule(x)[j].field
<1>1. CASE x.kind = "LP_REWARDS_BPS"
  BY <1>1 DEF Rule, Items, KindRows
<1>2. CASE x.kind = "DYNAMIC_FEE"
  <2> DEFINE a == [field |-> "maxFeePips", from |-> (ProfileBase + 1) .. (2 ^ Layout.maxFeePips.width), to |-> ProfileBase]
             b == [field |-> "dynamicFeeSens", from |-> 1 .. (2 ^ Layout.dynamicFeeSens.width), to |-> 0]
             c == [field |-> "rootMode", from |-> {ModeOn}, to |-> ModeOff]
  <2>1. Rule(x) = <<a, b, c>>
    BY <1>2 DEF Rule
  <2>2. a.field = "maxFeePips" /\ b.field = "dynamicFeeSens" /\ c.field = "rootMode"
    OBVIOUS
  <2> HIDE DEF a, b, c
  <2>3. Items(<<a, b, c>>) = {a, b, c} /\ Len(<<a, b, c>>) = 3
    BY DEF Items
  <2>4. <<a, b, c>> \in Seq({a, b, c})
    OBVIOUS
  <2> QED BY <1>2, <2>1, <2>2, <2>3, <2>4 DEF KindRows
<1> QED BY <1>1, <1>2 DEF Registered

RowsOfRule(rule, k) == {rule[j] : j \in 1 .. k}

RowsUpToRow(o, R, acc, rule, k, new) ==
    /\ Overlays(o, R \cup RowsOfRule(rule, k), new)
    /\ new.code = "OK" <=> acc.code = "OK" /\ \A j \in 1 .. k : RowOk(o, rule[j])

(* The rows of a list of items.                                               *)
ItemOk(o, x) == RegistryParameterOk(x) /\ \A r \in Items(Rule(x)) : RowOk(o, r)
RowsOfItems(items, k) == UNION {Items(Rule(items[j])) : j \in 1 .. k}

ItemAdded(o, R, acc, x, new) ==
    /\ Overlays(o, R \cup Items(Rule(x)), new)
    /\ new.code = "OK" <=> acc.code = "OK" /\ ItemOk(o, x)

LEMMA ItemApplied ==
  ASSUME NEW o, LayoutFits(o), NEW R, NEW acc, Overlays(o, R, acc), NEW x, x.kind \in Registered,
         \A r \in R : r.field \in DOMAIN Layout \ KindRows(x.kind)
  PROVE  ItemAdded(o, R, acc, x, ApplyItem(acc, o, x))
<1> DEFINE new == ApplyItem(acc, o, x)
           rule == Rule(x)
           n == Len(rule)
<1>1. DOMAIN acc = {"code", "words", "used", "applied"} /\ acc.code \in OverlayCodes
  BY DEF Overlays
<1>2. new = IF acc.code # "OK" THEN acc
            ELSE IF ~RegistryParameterOk(x) THEN [acc EXCEPT !.code = "PARAMETER"]
            ELSE RowsApplied(o, acc, rule)
  BY DEF ApplyItem, RowsApplied
<1>3. /\ rule \in Seq(Items(rule)) /\ n \in Nat /\ DOMAIN rule = 1 .. n
      /\ \A i \in 1 .. n : rule[i].field \in KindRows(x.kind)
      /\ \A i, j \in 1 .. n : i # j => rule[i].field # rule[j].field
  BY RuleRows
<1>4. KindRows(x.kind) \subseteq DOMAIN Layout
  BY OverlayAssumption DEF KindRows
<1> HIDE DEF new, rule, n
<1>5. CASE acc.code # "OK"
  BY <1>1, <1>2, <1>5 DEF ItemAdded, Overlays, new
<1>6. CASE acc.code = "OK" /\ ~RegistryParameterOk(x)
  <2>1. new = [acc EXCEPT !.code = "PARAMETER"]
    BY <1>2, <1>6
  <2>2. DOMAIN new = {"code", "words", "used", "applied"} /\ new.code = "PARAMETER"
    BY <1>1, <2>1
  <2>3. new.code # "OK" /\ new.code \in OverlayCodes
    BY <2>2 DEF OverlayCodes
  <2>4. ~ItemOk(o, x)
    BY <1>6 DEF ItemOk
  <2> QED BY <1>6, <2>2, <2>3, <2>4 DEF ItemAdded, Overlays, new
<1>7. CASE acc.code = "OK" /\ RegistryParameterOk(x)
  <2>0. PICK st : RowsRunning(o, acc, rule, n, st)
    BY <1>3, RowsRun
  <2>1. /\ st[0] = acc
        /\ \A k \in 1 .. n : st[k] = ApplyRow(st[k - 1], o, rule[k])
        /\ RowsApplied(o, acc, rule) = st[n]
    BY <2>0 DEF RowsRunning
  <2> DEFINE S == {k \in 0 .. n : RowsUpToRow(o, R, acc, rule, k, st[k])}
  <2>2. 0 \in S
    <3>1. RowsOfRule(rule, 0) = {} /\ 1 .. 0 = {}
      BY DEF RowsOfRule
    <3>2. R \cup RowsOfRule(rule, 0) = R
      BY <3>1
    <3>3. RowsUpToRow(o, R, acc, rule, 0, st[0])
      BY <2>1, <3>1, <3>2 DEF RowsUpToRow
    <3> QED BY <1>3, <3>3
  <2>3. ASSUME NEW k \in 0 .. (n - 1), k \in S PROVE k + 1 \in S
    <3>1. k \in Nat /\ k + 1 \in 1 .. n /\ k + 1 \in 0 .. n /\ (k + 1) - 1 = k /\ 1 .. (k + 1) = (1 .. k) \cup {k + 1}
      BY <1>3
    <3>2. st[k + 1] = ApplyRow(st[k], o, rule[k + 1])
      <4>1. st[k + 1] = ApplyRow(st[(k + 1) - 1], o, rule[k + 1])
        BY <2>1, <3>1, Zenon
      <4> QED BY <3>1, <4>1
    <3> DEFINE row == rule[k + 1]
               Q == R \cup RowsOfRule(rule, k)
    <3>3. row.field \in KindRows(x.kind) /\ row.field \in DOMAIN Layout
      BY <1>3, <1>4, <3>1
    <3>4. ASSUME NEW r \in Q PROVE r.field \in DOMAIN Layout /\ r.field # row.field
      <4>1. CASE r \in R
        BY <3>3, <4>1
      <4>2. CASE r \in RowsOfRule(rule, k)
        <5>1. PICK j \in 1 .. k : r = rule[j]
          BY <4>2 DEF RowsOfRule
        <5>2. j \in 1 .. n /\ j # k + 1
          BY <1>3, <3>1
        <5> QED BY <1>3, <1>4, <3>1, <5>1, <5>2
      <4> QED BY <4>1, <4>2
    <3>5. Overlays(o, Q, st[k])
      BY <2>3 DEF RowsUpToRow
    <3>6. st[k].code = "OK" <=> acc.code = "OK" /\ \A j \in 1 .. k : RowOk(o, rule[j])
      BY <2>3 DEF RowsUpToRow
    <3> HIDE DEF Q, row
    <3>7. RowAdded(o, Q, st[k], row, ApplyRow(st[k], o, row))
      BY <3>3, <3>4, <3>5, RowApplied
    <3>8. Overlays(o, Q \cup {row}, st[k + 1]) /\ (st[k + 1].code = "OK" <=> st[k].code = "OK" /\ RowOk(o, row))
      BY <3>2, <3>7 DEF RowAdded, row
    <3>9. Q \cup {row} = R \cup RowsOfRule(rule, k + 1)
      BY <3>1 DEF RowsOfRule, Q, row
    <3>10. (\A j \in 1 .. (k + 1) : RowOk(o, rule[j])) <=> (\A j \in 1 .. k : RowOk(o, rule[j])) /\ RowOk(o, row)
      BY <3>1 DEF row
    <3>11. RowsUpToRow(o, R, acc, rule, k + 1, st[k + 1])
      BY <3>6, <3>8, <3>9, <3>10 DEF RowsUpToRow
    <3> QED BY <3>1, <3>11
  <2>4. n \in S
    <3> HIDE DEF S
    <3>1. \A k \in 0 .. n : k \in S
      BY <1>3, <2>2, <2>3, InductionUpTo
    <3> QED BY <1>3, <3>1
  <2>5. RowsUpToRow(o, R, acc, rule, n, new)
    BY <1>2, <1>7, <2>1, <2>4
  <2>6. RowsOfRule(rule, n) = Items(rule)
    BY <1>3 DEF RowsOfRule, Items
  <2>7. (\A j \in 1 .. n : RowOk(o, rule[j])) <=> \A r \in Items(rule) : RowOk(o, r)
    BY <1>3 DEF Items
  <2>8. ItemOk(o, x) <=> \A r \in Items(rule) : RowOk(o, r)
    BY <1>7 DEF ItemOk, rule
  <2>9. Overlays(o, R \cup Items(rule), new) /\ (new.code = "OK" <=> acc.code = "OK" /\ ItemOk(o, x))
    BY <2>5, <2>6, <2>7, <2>8 DEF RowsUpToRow
  <2> QED BY <2>9 DEF ItemAdded, new, rule
<1> QED BY <1>5, <1>6, <1>7

ItemsUpTo(o, items, k, acc) ==
    /\ Overlays(o, RowsOfItems(items, k), acc)
    /\ acc.code = "OK" <=> \A j \in 1 .. k : ItemOk(o, items[j])

\* What the registry has after a list of different kinds.
LEMMA ListApplied ==
  ASSUME NEW o, WordsLike(o, o), LayoutFits(o), NEW items, NEW n \in Nat, DOMAIN items = 1 .. n,
         \A i \in 1 .. n : items[i].kind \in Registered,
         \A i, j \in 1 .. n : i # j => items[i].kind # items[j].kind
  PROVE  ItemsUpTo(o, items, n, ItemsApplied(o, items))
<1>0. PICK st : ItemsRunning(o, items, n, st)
  BY ItemsRun
<1>1. /\ st[0] = WalkStart(o)
      /\ \A k \in 1 .. n : st[k] = ApplyItem(st[k - 1], o, items[k])
      /\ ItemsApplied(o, items) = st[n]
  BY <1>0 DEF ItemsRunning
<1> DEFINE S == {k \in 0 .. n : ItemsUpTo(o, items, k, st[k])}
<1>2. 0 \in S
  <2>1. RowsOfItems(items, 0) = {} /\ 1 .. 0 = {}
    BY DEF RowsOfItems
  <2>2. FieldBits(RowFields({})) = {}
    BY DEF FieldBits, RowFields
  <2> DEFINE acc == WalkStart(o)
  <2>3. /\ DOMAIN acc = {"code", "words", "used", "applied"}
        /\ acc.code = "OK" /\ acc.words = o /\ acc.used = {} /\ acc.applied = {}
    BY DEF WalkStart
  <2> HIDE DEF acc
  <2>4. Keeps(o, o, {})
    BY DEF Keeps
  <2>5. RowsWritten(o, {}, o)
    BY <2>2, <2>4 DEF RowsWritten
  <2>6. Overlays(o, {}, acc)
    BY <2>2, <2>3, <2>5 DEF Overlays, OverlayCodes
  <2>7. ItemsUpTo(o, items, 0, acc)
    BY <2>1, <2>3, <2>6 DEF ItemsUpTo
  <2> QED BY <1>1, <2>7 DEF acc
<1>3. ASSUME NEW k \in 0 .. (n - 1), k \in S PROVE k + 1 \in S
  <2>1. k \in Nat /\ k + 1 \in 1 .. n /\ k + 1 \in 0 .. n /\ (k + 1) - 1 = k /\ 1 .. (k + 1) = (1 .. k) \cup {k + 1}
    OBVIOUS
  <2>2. st[k + 1] = ApplyItem(st[k], o, items[k + 1])
    <3>1. st[k + 1] = ApplyItem(st[(k + 1) - 1], o, items[k + 1])
      BY <1>1, <2>1, Zenon
    <3> QED BY <2>1, <3>1
  <2> DEFINE x == items[k + 1]
             Q == RowsOfItems(items, k)
  <2>3. x.kind \in Registered
    BY <2>1
  <2>4. ASSUME NEW r \in Q PROVE r.field \in DOMAIN Layout \ KindRows(x.kind)
    <3>1. PICK j \in 1 .. k : r \in Items(Rule(items[j]))
      BY DEF RowsOfItems
    <3> DEFINE y == items[j]
    <3>2. j \in 1 .. n /\ j # k + 1
      BY <2>1
    <3>3. y.kind \in Registered /\ y.kind # x.kind
      BY <2>1, <3>2
    <3> HIDE DEF x, y
    <3>4. r.field \in KindRows(y.kind)
      <4>1. Rule(y) \in Seq(Items(Rule(y))) /\ \A i \in 1 .. Len(Rule(y)) : Rule(y)[i].field \in KindRows(y.kind)
        BY <3>3, RuleRows
      <4>2. DOMAIN Rule(y) = 1 .. Len(Rule(y))
        BY <4>1
      <4>3. r \in Items(Rule(y))
        BY <3>1 DEF y
      <4> QED BY <4>1, <4>2, <4>3 DEF Items
    <3>5. KindRows(y.kind) \cap KindRows(x.kind) = {} /\ KindRows(y.kind) \subseteq DOMAIN Layout
      BY <2>3, <3>3, OverlayAssumption DEF KindRows, Registered
    <3> QED BY <3>4, <3>5
  <2>5. Overlays(o, Q, st[k]) /\ (st[k].code = "OK" <=> \A j \in 1 .. k : ItemOk(o, items[j]))
    BY <1>3 DEF ItemsUpTo
  <2> HIDE DEF x, Q
  <2>6. ItemAdded(o, Q, st[k], x, ApplyItem(st[k], o, x))
    BY <2>3, <2>4, <2>5, ItemApplied
  <2>7. Overlays(o, Q \cup Items(Rule(x)), st[k + 1]) /\ (st[k + 1].code = "OK" <=> st[k].code = "OK" /\ ItemOk(o, x))
    BY <2>2, <2>6 DEF ItemAdded, x
  <2>8. Q \cup Items(Rule(x)) = RowsOfItems(items, k + 1)
    BY <2>1 DEF RowsOfItems, Q, x
  <2>9. (\A j \in 1 .. (k + 1) : ItemOk(o, items[j])) <=> (\A j \in 1 .. k : ItemOk(o, items[j])) /\ ItemOk(o, x)
    BY <2>1 DEF x
  <2>10. ItemsUpTo(o, items, k + 1, st[k + 1])
    BY <2>5, <2>7, <2>8, <2>9 DEF ItemsUpTo
  <2> QED BY <2>1, <2>10
<1>4. n \in S
  <2> HIDE DEF S
  <2>1. \A k \in 0 .. n : k \in S
    BY <1>2, <1>3, InductionUpTo
  <2> QED BY <2>1
<1> QED BY <1>1, <1>4

-----------------------------------------------------------------------------
(* A descriptor with the shipped layout and kinds. *)

FlagField == [Layout.rootMode EXCEPT !.width = 1]
RecaptureField == [Layout.rootMode EXCEPT !.offset = @ + 1, !.width = 1]
ReservedField == [Layout.rootMode EXCEPT !.offset = @ + 2, !.width = @ - 2]

(* A field of the descriptor that lies where f does.                          *)
Placed(d, n, f) == n \in Names(d.fields) /\ SamePlace(ByName(d.fields, n), f)

ShippedPlaces(d) ==
    /\ Placed(d, "maxFeePips", Layout.maxFeePips)
    /\ Placed(d, "dynamicFeeSens", Layout.dynamicFeeSens)
    /\ Placed(d, "lpBps", Layout.lpBps)
    /\ Placed(d, "rootBaseLpFeePips", BaseFee)
    /\ Placed(d, "rootDynamicFeeFlag", FlagField)
    /\ Placed(d, "rootRecaptureFlag", RecaptureField)
    /\ Placed(d, "rootFlagsReserved", ReservedField)

LEMMA LegacyDescriptor ==
  ASSUME NEW d, LegacyShape(d)
  PROVE  /\ ShippedPlaces(d)
         /\ Registered \subseteq Kinds(d)
         /\ \A n \in Registered : KindOf(d, n).ensures = <<>> /\ KindOf(d, n).conflicts \cap Registered = {}
         /\ ShippedLp(KindOf(d, "LP_REWARDS_BPS"))
         /\ ShippedDynamic(KindOf(d, "DYNAMIC_FEE"))
<1> DEFINE e == Documents[Shipped.bytes]
<1>1. d.fields = e.fields /\ d.kinds = e.kinds
  BY DEF LegacyShape
<1>2. /\ ShippedFields(e)
      /\ Registered \subseteq Kinds(e)
      /\ \A n \in Registered : KindOf(e, n).ensures = <<>> /\ KindOf(e, n).conflicts \cap Registered = {}
      /\ ShippedLp(KindOf(e, "LP_REWARDS_BPS"))
      /\ ShippedDynamic(KindOf(e, "DYNAMIC_FEE"))
  BY ShippedAssumption
<1> HIDE DEF e
<1>3. Kinds(d) = Kinds(e) /\ \A n : KindOf(d, n) = KindOf(e, n)
  BY <1>1 DEF Kinds, KindOf
<1>4. ShippedPlaces(d)
  <2> DEFINE p == [maxFeePips |-> Layout.maxFeePips, dynamicFeeSens |-> Layout.dynamicFeeSens,
                   lpBps |-> Layout.lpBps, rootBaseLpFeePips |-> BaseFee,
                   rootDynamicFeeFlag |-> FlagField,
                   rootRecaptureFlag |-> RecaptureField,
                   rootFlagsReserved |-> ReservedField]
  <2>1. \A n \in DOMAIN p : Placed(d, n, p[n])
    BY <1>1, <1>2 DEF ShippedFields, Placed, FlagField, RecaptureField, ReservedField
  <2>2. /\ Placed(d, "maxFeePips", p["maxFeePips"])
        /\ Placed(d, "dynamicFeeSens", p["dynamicFeeSens"])
        /\ Placed(d, "lpBps", p["lpBps"])
        /\ Placed(d, "rootBaseLpFeePips", p["rootBaseLpFeePips"])
        /\ Placed(d, "rootDynamicFeeFlag", p["rootDynamicFeeFlag"])
        /\ Placed(d, "rootRecaptureFlag", p["rootRecaptureFlag"])
        /\ Placed(d, "rootFlagsReserved", p["rootFlagsReserved"])
    <3>1. DOMAIN p = {"maxFeePips", "dynamicFeeSens", "lpBps", "rootBaseLpFeePips", "rootDynamicFeeFlag",
                      "rootRecaptureFlag", "rootFlagsReserved"}
      OBVIOUS
    <3> HIDE DEF p
    <3> QED BY <2>1, <3>1
  <2> QED BY <2>2 DEF ShippedPlaces
<1> QED BY <1>2, <1>3, <1>4

LEMMA PlaceShared ==
  ASSUME NEW d, Valid(d), NEW n, NEW f, Placed(d, n, f)
  PROVE  /\ FieldIn(f, OriginalWords(d))
         /\ BitsOf(ByName(d.fields, n)) = BitsOf(f)
         /\ ByName(d.fields, n).width = f.width
         /\ \A words : GetField(words, ByName(d.fields, n)) = GetField(words, f)
<1> DEFINE g == ByName(d.fields, n)
<1>1. g \in Items(d.fields)
  BY NamedItem DEF Placed
<1>2. FieldIn(g, OriginalWords(d))
  BY <1>1, FieldsLie
<1>3. g.target = f.target /\ g.word = f.word /\ g.offset = f.offset /\ g.width = f.width
  BY DEF Placed, SamePlace
<1> HIDE DEF g
<1>4. FieldIn(f, OriginalWords(d)) /\ BitsOf(g) = BitsOf(f) /\ \A words : GetField(words, g) = GetField(words, f)
  BY <1>2, <1>3 DEF FieldIn, BitsOf, Mask, GetField
<1> QED BY <1>3, <1>4 DEF g

LEMMA PlacesApart ==
  ASSUME NEW d, Valid(d), NEW m, NEW n, m # n, NEW f, NEW g, Placed(d, m, f), Placed(d, n, g)
  PROVE  BitsOf(f) \cap BitsOf(g) = {}
<1>1. m \in Names(d.fields) /\ n \in Names(d.fields)
  BY DEF Placed
<1>2. BitsOf(ByName(d.fields, m)) \cap BitsOf(ByName(d.fields, n)) = {}
  BY <1>1, FieldsApart
<1>3. BitsOf(ByName(d.fields, m)) = BitsOf(f) /\ BitsOf(ByName(d.fields, n)) = BitsOf(g)
  BY PlaceShared
<1> QED BY <1>2, <1>3

(* The three parts of the mode byte.                                          *)
LEMMA ModeParts ==
  LET m == Layout.rootMode
  IN  /\ FlagField.target = m.target /\ FlagField.word = m.word
      /\ FlagField.offset = m.offset /\ FlagField.width = 1
      /\ RecaptureField.target = m.target /\ RecaptureField.word = m.word
      /\ RecaptureField.offset = m.offset + 1 /\ RecaptureField.width = 1
      /\ ReservedField.target = m.target /\ ReservedField.word = m.word
      /\ ReservedField.offset = m.offset + 2 /\ ReservedField.width = m.width - 2
      /\ m.offset \in Nat /\ m.width \in Nat
<1> DEFINE m == Layout.rootMode
<1>1. DOMAIN m = {"target", "word", "offset", "width"} /\ m.offset \in Nat /\ m.width \in Nat
  BY OverlayAssumption
<1> HIDE DEF m
<1> QED BY <1>1 DEF FlagField, RecaptureField, ReservedField, m

LEMMA LegacyLayout ==
  ASSUME NEW d, Valid(d), LegacyShape(d)
  PROVE  /\ LayoutFits(OriginalWords(d))
         /\ BitsOf(Layout.rootMode) = BitsOf(FlagField) \cup BitsOf(RecaptureField) \cup BitsOf(ReservedField)
         /\ Layout.rootMode.width >= 3
<1> DEFINE o == OriginalWords(d)
           m == Layout.rootMode
<1>1. ShippedPlaces(d)
  BY LegacyDescriptor
<1>2. FieldIn(FlagField, o) /\ FieldIn(ReservedField, o)
  BY <1>1, PlaceShared DEF ShippedPlaces
<1>3. m.offset \in Nat /\ m.width \in Nat /\ m.width - 2 \in Nat \ {0}
      /\ m.target \in DOMAIN o /\ m.word \in DOMAIN o[m.target]
  BY <1>2, ModeParts DEF FieldIn
<1>4. m.width >= 3 /\ FieldIn(m, o)
  BY <1>3 DEF FieldIn
<1>5. BitsOf(m) = BitsOf(FlagField) \cup BitsOf(RecaptureField) \cup BitsOf(ReservedField)
  <2>1. Mask(m) = m.offset .. (m.offset + m.width - 1)
    BY DEF Mask
  <2>2. /\ Mask(FlagField) = m.offset .. (m.offset + 1 - 1)
        /\ Mask(RecaptureField) = (m.offset + 1) .. (m.offset + 1 + 1 - 1)
        /\ Mask(ReservedField) = (m.offset + 2) .. (m.offset + 2 + (m.width - 2) - 1)
    BY ModeParts DEF Mask
  <2>3. Mask(m) = Mask(FlagField) \cup Mask(RecaptureField) \cup Mask(ReservedField)
    <3> DEFINE p == m.offset
               u == m.width
    <3>1. p \in Nat /\ u \in Nat /\ u >= 3
      BY <1>3, <1>4
    <3> HIDE DEF p, u
    <3>2. p .. (p + u - 1) = (p .. (p + 1 - 1)) \cup ((p + 1) .. (p + 1 + 1 - 1)) \cup ((p + 2) .. (p + 2 + (u - 2) - 1))
      BY <3>1
    <3> QED BY <2>1, <2>2, <3>2 DEF p, u
  <2> QED BY <2>3, ModeParts DEF BitsOf
<1>6. FieldIn(Layout.maxFeePips, o) /\ FieldIn(Layout.dynamicFeeSens, o) /\ FieldIn(Layout.lpBps, o)
  BY <1>1, PlaceShared DEF ShippedPlaces
<1>7. /\ BitsOf(Layout.maxFeePips) \cap BitsOf(Layout.dynamicFeeSens) = {}
      /\ BitsOf(Layout.maxFeePips) \cap BitsOf(Layout.lpBps) = {}
      /\ BitsOf(Layout.dynamicFeeSens) \cap BitsOf(Layout.lpBps) = {}
  BY <1>1, PlacesApart DEF ShippedPlaces
<1>8. ASSUME NEW n \in {"maxFeePips", "dynamicFeeSens", "lpBps"} PROVE BitsOf(Layout[n]) \cap BitsOf(m) = {}
  <2>1. Placed(d, n, Layout[n])
    BY <1>1 DEF ShippedPlaces
  <2>2. /\ BitsOf(Layout[n]) \cap BitsOf(FlagField) = {}
        /\ BitsOf(Layout[n]) \cap BitsOf(RecaptureField) = {}
        /\ BitsOf(Layout[n]) \cap BitsOf(ReservedField) = {}
    BY <1>1, <2>1, PlacesApart DEF ShippedPlaces
  <2> QED BY <1>5, <2>2
<1>9. LayoutFits(o)
  <2>1. DOMAIN Layout = {"maxFeePips", "dynamicFeeSens", "lpBps", "rootMode"}
    BY OverlayAssumption
  <2>2. \A n \in DOMAIN Layout : FieldIn(Layout[n], o)
    BY <1>4, <1>6, <2>1
  <2>3. ASSUME NEW k \in DOMAIN Layout, NEW n \in DOMAIN Layout, k # n PROVE BitsOf(Layout[k]) \cap BitsOf(Layout[n]) = {}
    BY <1>7, <1>8, <2>1, <2>3
  <2> QED BY <2>2, <2>3 DEF LayoutFits
<1> QED BY <1>4, <1>5, <1>9

LEMMA FieldRange ==
  ASSUME NEW o, NEW words, WordsLike(words, o), NEW f, FieldIn(f, o)
  PROVE  GetField(words, f) \in 0 .. (2 ^ f.width - 1)
<1> DEFINE q == words[f.target][f.word] \div 2 ^ f.offset
           b == 2 ^ f.width
<1>1. words[f.target][f.word] \in Nat
  BY DEF WordsLike, FieldIn
<1>2. b \in Nat \ {0} /\ 2 ^ f.offset \in Nat \ {0}
  BY PowerIsPositive DEF FieldIn
<1>3. q \in Nat
  BY <1>1, <1>2
<1>4. GetField(words, f) = q % b
  BY DEF GetField
<1> HIDE DEF q, b
<1>5. q % b \in 0 .. (b - 1)
  BY <1>2, <1>3
<1> QED BY <1>4, <1>5 DEF b

(* The mode byte read as its three parts.                                     *)
ModeFromParts(words) ==
    /\ GetField(words, FlagField) \in 0 .. 1
    /\ GetField(words, RecaptureField) \in 0 .. 1
    /\ GetField(words, ReservedField) \in Nat
    /\ GetField(words, Layout.rootMode) =
          GetField(words, FlagField) + 2 * (GetField(words, RecaptureField) + 2 * GetField(words, ReservedField))

LEMMA ModeIsItsParts ==
  ASSUME NEW d, Valid(d), LegacyShape(d), NEW words, WordsLike(words, OriginalWords(d))
  PROVE  ModeFromParts(words)
<1> DEFINE o == OriginalWords(d)
           m == Layout.rootMode
           w == words[m.target][m.word]
           p == m.offset
           v == m.width - 2
<1>1. FieldIn(m, o) /\ m.width >= 3
  BY LegacyLayout, OverlayAssumption DEF LayoutFits
<1>2. w \in Nat /\ p \in Nat /\ v \in Nat \ {0} /\ m.width = 1 + (1 + v)
  <2>1. m.width \in Nat /\ m.offset \in Nat
    BY ModeParts
  <2> QED BY <1>1, <2>1 DEF WordsLike, FieldIn
<1>3. /\ GetField(words, m) = (w \div 2 ^ p) % 2 ^ (1 + (1 + v))
      /\ GetField(words, FlagField) = (w \div 2 ^ p) % 2 ^ 1
      /\ GetField(words, RecaptureField) = (w \div 2 ^ (p + 1)) % 2 ^ 1
      /\ GetField(words, ReservedField) = (w \div 2 ^ (p + 2)) % 2 ^ v
  BY <1>2, ModeParts DEF GetField
<1> HIDE DEF o, m, w, p, v
<1>4. 1 \in Nat /\ 1 + v \in Nat /\ p + 1 \in Nat /\ p + 2 \in Nat /\ v \in Nat /\ 2 ^ 1 = 2 /\ (p + 1) + 1 = p + 2
  BY <1>2
<1>5. Joined(w, p, 1, 1 + v) /\ Joined(w, p + 1, 1, v)
  BY <1>2, <1>4, SegmentJoined
<1>6. /\ (w \div 2 ^ p) % 2 ^ (1 + (1 + v)) = ((w \div 2 ^ p) % 2) + 2 * ((w \div 2 ^ (p + 1)) % 2 ^ (1 + v))
      /\ (w \div 2 ^ (p + 1)) % 2 ^ (1 + v) = ((w \div 2 ^ (p + 1)) % 2) + 2 * ((w \div 2 ^ (p + 2)) % 2 ^ v)
  BY <1>4, <1>5 DEF Joined
<1>7. 2 ^ p \in Nat \ {0} /\ 2 ^ (p + 1) \in Nat \ {0} /\ 2 ^ (p + 2) \in Nat \ {0} /\ 2 ^ v \in Nat \ {0}
  BY <1>2, <1>4, PowerIsPositive
<1> DEFINE a == w \div 2 ^ p
           b == w \div 2 ^ (p + 1)
           c == w \div 2 ^ (p + 2)
           e == 2 ^ v
<1>8. a \in Nat /\ b \in Nat /\ c \in Nat /\ e \in Nat \ {0}
  BY <1>2, <1>7
<1>9. /\ GetField(words, FlagField) = a % 2
      /\ GetField(words, RecaptureField) = b % 2
      /\ GetField(words, ReservedField) = c % e
      /\ GetField(words, m) = (a % 2) + 2 * ((b % 2) + 2 * (c % e))
  BY <1>3, <1>4, <1>6
<1> HIDE DEF a, b, c, e
<1>10. a % 2 \in 0 .. 1 /\ b % 2 \in 0 .. 1 /\ c % e \in Nat
  BY <1>8
<1> QED BY <1>9, <1>10 DEF ModeFromParts, m

(* The settings an item replaces, on the original words.                      *)
SettingsOk(o, x) ==
    IF x.kind = "LP_REWARDS_BPS" THEN GetField(o, Layout.lpBps) = LpOriginal
    ELSE /\ GetField(o, Layout.maxFeePips) > ProfileBase
         /\ GetField(o, Layout.dynamicFeeSens) > 0
         /\ GetField(o, Layout.rootMode) = ModeOn

(* The numbers the rows of the registry are about.                            *)
LegacyNumbers(o) ==
    /\ GetField(o, Layout.maxFeePips) \in 0 .. (2 ^ Layout.maxFeePips.width - 1)
    /\ GetField(o, Layout.dynamicFeeSens) \in 0 .. (2 ^ Layout.dynamicFeeSens.width - 1)
    /\ GetField(o, Layout.rootMode) \in Nat
    /\ ProfileBase \in Nat
    /\ 2 ^ Layout.maxFeePips.width \in Nat
    /\ 2 ^ Layout.dynamicFeeSens.width \in Nat \ {0}
    /\ 2 ^ Layout.lpBps.width \in Nat /\ LpOriginal <= 2 ^ Layout.lpBps.width
    /\ 2 ^ Layout.rootMode.width \in Nat /\ ModeOff <= 2 ^ Layout.rootMode.width - 1

LEMMA NumbersFit ==
  ASSUME NEW d, Valid(d), LegacyShape(d)
  PROVE  LegacyNumbers(OriginalWords(d))
<1> DEFINE o == OriginalWords(d)
<1>1. WordsLike(o, o)
  BY OriginalsAreWords
<1>2. LayoutFits(o) /\ Layout.rootMode.width >= 3
  BY LegacyLayout
<1>3. /\ FieldIn(Layout.maxFeePips, o) /\ FieldIn(Layout.dynamicFeeSens, o)
      /\ FieldIn(Layout.lpBps, o) /\ FieldIn(Layout.rootMode, o)
  BY <1>2, OverlayAssumption DEF LayoutFits
<1>4. FieldIn(BaseFee, o)
  <2>1. Placed(d, "rootBaseLpFeePips", BaseFee)
    BY LegacyDescriptor DEF ShippedPlaces
  <2> QED BY <2>1, PlaceShared
<1>5. GetField(o, BaseFee) = ProfileBase
  BY DEF LegacyShape
<1> HIDE DEF o
<1>6. /\ GetField(o, Layout.maxFeePips) \in 0 .. (2 ^ Layout.maxFeePips.width - 1)
      /\ GetField(o, Layout.dynamicFeeSens) \in 0 .. (2 ^ Layout.dynamicFeeSens.width - 1)
      /\ GetField(o, Layout.rootMode) \in 0 .. (2 ^ Layout.rootMode.width - 1)
      /\ GetField(o, BaseFee) \in 0 .. (2 ^ BaseFee.width - 1)
  BY <1>1, <1>3, <1>4, FieldRange
<1>7. /\ 2 ^ Layout.maxFeePips.width \in Nat \ {0}
      /\ 2 ^ Layout.dynamicFeeSens.width \in Nat \ {0}
      /\ 2 ^ Layout.lpBps.width \in Nat \ {0}
      /\ 2 ^ Layout.rootMode.width \in Nat \ {0}
      /\ 2 ^ BaseFee.width \in Nat \ {0}
  BY <1>3, <1>4, PowerIsPositive DEF FieldIn
<1>8. Layout.rootMode.width < 2 ^ Layout.rootMode.width
  BY <1>3, BelowPower DEF FieldIn
<1>9. ModeOff <= 2 ^ Layout.rootMode.width - 1
  BY <1>2, <1>3, <1>7, <1>8, ShippedAssumption DEF FieldIn
<1>10. LpOriginal <= 2 ^ Layout.lpBps.width
  BY LayoutAssumption
<1>11. ProfileBase \in Nat /\ GetField(o, Layout.rootMode) \in Nat
  BY <1>5, <1>6, <1>7
<1> QED BY <1>6, <1>7, <1>9, <1>10, <1>11 DEF LegacyNumbers, o

\* The rows of an item are acceptable when the settings it replaces are there.
LEMMA ItemSettings ==
  ASSUME NEW d, Valid(d), LegacyShape(d), NEW x, x.kind \in Registered, RegistryParameterOk(x)
  PROVE  /\ ItemOk(OriginalWords(d), x) <=> SettingsOk(OriginalWords(d), x)
         /\ \A r \in Items(Rule(x)) : r.field \in DOMAIN Layout /\ r.to \notin r.from
<1> DEFINE o == OriginalWords(d)
<1>1. LegacyNumbers(o)
  BY NumbersFit
<1>2. ItemOk(o, x) <=> \A r \in Items(Rule(x)) : RowOk(o, r)
  BY DEF ItemOk
<1>3. DOMAIN Layout = {"maxFeePips", "dynamicFeeSens", "lpBps", "rootMode"} /\ LpOriginal \in Nat
  BY OverlayAssumption
<1> HIDE DEF o
<1>4. CASE x.kind = "LP_REWARDS_BPS"
  <2> DEFINE r == [field |-> "lpBps", from |-> {LpOriginal}, to |-> x.parameters.lpBps]
  <2>1. Rule(x) = <<r>>
    BY <1>4 DEF Rule
  <2>2. x.parameters.lpBps \in 0 .. (LpOriginal - 1)
    BY <1>4 DEF RegistryParameterOk
  <2>3. RowOk(o, r) <=> GetField(o, Layout.lpBps) = LpOriginal
    BY <1>1, <1>3, <2>2 DEF RowOk, LegacyNumbers
  <2>4. r.field \in DOMAIN Layout /\ r.to \notin r.from
    BY <1>3, <2>2
  <2> HIDE DEF r
  <2>5. Items(<<r>>) = {r}
    BY DEF Items
  <2> QED BY <1>2, <1>4, <2>1, <2>3, <2>4, <2>5 DEF SettingsOk, o
<1>5. CASE x.kind = "DYNAMIC_FEE"
  <2> DEFINE a == [field |-> "maxFeePips", from |-> (ProfileBase + 1) .. (2 ^ Layout.maxFeePips.width), to |-> ProfileBase]
             b == [field |-> "dynamicFeeSens", from |-> 1 .. (2 ^ Layout.dynamicFeeSens.width), to |-> 0]
             c == [field |-> "rootMode", from |-> {ModeOn}, to |-> ModeOff]
  <2>1. Rule(x) = <<a, b, c>>
    BY <1>5 DEF Rule
  <2>2. RowOk(o, a) <=> GetField(o, Layout.maxFeePips) > ProfileBase
    BY <1>1 DEF RowOk, LegacyNumbers
  <2>3. RowOk(o, b) <=> GetField(o, Layout.dynamicFeeSens) > 0
    BY <1>1 DEF RowOk, LegacyNumbers
  <2>4. RowOk(o, c) <=> GetField(o, Layout.rootMode) = ModeOn
    BY <1>1, OverlayAssumption DEF RowOk, LegacyNumbers
  <2>5. /\ a.field \in DOMAIN Layout /\ a.to \notin a.from
        /\ b.field \in DOMAIN Layout /\ b.to \notin b.from
        /\ c.field \in DOMAIN Layout /\ c.to \notin c.from
    BY <1>1, <1>3, ShippedAssumption DEF LegacyNumbers
  <2> HIDE DEF a, b, c
  <2>6. Items(<<a, b, c>>) = {a, b, c}
    BY DEF Items
  <2>7. SettingsOk(o, x) <=> RowOk(o, a) /\ RowOk(o, b) /\ RowOk(o, c)
    BY <1>5, <2>2, <2>3, <2>4 DEF SettingsOk
  <2> QED BY <1>2, <2>1, <2>5, <2>6, <2>7 DEF o
<1> QED BY <1>4, <1>5 DEF Registered

LEMMA ComparisonHolds ==
  ASSUME NEW d, NEW l, NEW op, NEW r, NEW words, NEW params
  PROVE  Verdict(d, Comparison(l, op, r), words, params) = "holds"
            <=> Compare(op, Value(d, l, words, params), Value(d, r, words, params))
BY DEF Verdict, Comparison

LEMMA OperandValues ==
  ASSUME NEW d, NEW words, NEW params
  PROVE  /\ \A n : Value(d, Setting(n), words, params) = GetField(words, ByName(d.fields, n))
         /\ \A v : Value(d, Number(v), words, params) = v
         /\ \A n : Value(d, Parameter(n), words, params) = params[n]
BY DEF Value, Setting, Number, Parameter

(* What the rules of an item ask of the original words.                       *)
RulesHold(d, o, x) == \A r \in StepSet(d, x) : Passes(d, o, r)

LEMMA RulesOfKind ==
  ASSUME NEW d, NEW o, NEW x
  PROVE  RulesHold(d, o, x) <=>
            /\ \A p \in Items(KindOf(d, x.kind).requires) : Verdict(d, p, o, x.parameters) = "holds"
            /\ \A a \in Items(KindOf(d, x.kind).assign) :
                  Value(d, a.value, o, x.parameters) \in 0 .. (2 ^ ByName(d.fields, a.field).width - 1)
<1> DEFINE req(p) == [what |-> "require", item |-> x, rule |-> p]
           asg(a) == [what |-> "assign", item |-> x, rule |-> a]
           P == Items(KindOf(d, x.kind).requires)
           A == Items(KindOf(d, x.kind).assign)
<1>1. StepSet(d, x) = {req(p) : p \in P} \cup {asg(a) : a \in A}
  BY DEF StepSet
<1>2. \A p \in P : Passes(d, o, req(p)) <=> Verdict(d, p, o, x.parameters) = "holds"
  BY DEF Passes
<1>3. \A a \in A : Passes(d, o, asg(a)) <=>
                     Value(d, a.value, o, x.parameters) \in 0 .. (2 ^ ByName(d.fields, a.field).width - 1)
  BY DEF Passes
<1> HIDE DEF req, asg, P, A
<1>4. RulesHold(d, o, x) <=> (\A p \in P : Passes(d, o, req(p))) /\ (\A a \in A : Passes(d, o, asg(a)))
  BY <1>1 DEF RulesHold
<1> QED BY <1>2, <1>3, <1>4 DEF P, A

LEMMA LpRules ==
  ASSUME NEW d, Valid(d), LegacyShape(d), NEW x, x.kind = "LP_REWARDS_BPS", RegistryParameterOk(x)
  PROVE  RulesHold(d, OriginalWords(d), x) <=> SettingsOk(OriginalWords(d), x)
<1> DEFINE o == OriginalWords(d)
           g == ByName(d.fields, "lpBps")
           k == KindOf(d, x.kind)
           p == Comparison(Setting("lpBps"), "eq", Number(LpOriginal))
           a == [field |-> "lpBps", value |-> Parameter("lpBps")]
<1>1. Items(k.requires) = {p} /\ Items(k.assign) = {a}
  BY LegacyDescriptor DEF ShippedLp
<1>2. Placed(d, "lpBps", Layout.lpBps)
  BY LegacyDescriptor DEF ShippedPlaces
<1>3. GetField(o, g) = GetField(o, Layout.lpBps) /\ g.width = Layout.lpBps.width
  BY <1>2, PlaceShared
<1>4. x.parameters.lpBps \in 0 .. (LpOriginal - 1)
  BY DEF RegistryParameterOk
<1>5. LpOriginal <= 2 ^ Layout.lpBps.width /\ 2 ^ Layout.lpBps.width \in Nat
  BY NumbersFit DEF LegacyNumbers
<1> HIDE DEF o, g, k, p, a
<1>6. Verdict(d, p, o, x.parameters) = "holds" <=> GetField(o, Layout.lpBps) = LpOriginal
  <2>1. Verdict(d, p, o, x.parameters) = "holds"
           <=> Compare("eq", Value(d, Setting("lpBps"), o, x.parameters), Value(d, Number(LpOriginal), o, x.parameters))
    BY ComparisonHolds DEF p
  <2>2. Value(d, Setting("lpBps"), o, x.parameters) = GetField(o, g) /\ Value(d, Number(LpOriginal), o, x.parameters) = LpOriginal
    BY OperandValues DEF g
  <2> QED BY <1>3, <2>1, <2>2 DEF Compare
<1>7. Value(d, a.value, o, x.parameters) \in 0 .. (2 ^ ByName(d.fields, a.field).width - 1)
  <2>1. a.field = "lpBps" /\ a.value = Parameter("lpBps")
    BY DEF a
  <2>2. Value(d, a.value, o, x.parameters) = x.parameters.lpBps
    BY <2>1, OperandValues
  <2> QED BY <1>3, <1>4, <1>5, <2>1, <2>2, OverlayAssumption DEF g
<1>8. SettingsOk(o, x) <=> GetField(o, Layout.lpBps) = LpOriginal
  BY DEF SettingsOk
<1> QED BY <1>1, <1>6, <1>7, <1>8, RulesOfKind DEF k, o

LEMMA DynamicRules ==
  ASSUME NEW d, Valid(d), LegacyShape(d), NEW x, x.kind = "DYNAMIC_FEE", RegistryParameterOk(x)
  PROVE  /\ RulesHold(d, OriginalWords(d), x) <=> SettingsOk(OriginalWords(d), x)
         /\ RulesHold(d, OriginalWords(d), x) => /\ GetField(OriginalWords(d), RecaptureField) = 1
                                                 /\ GetField(OriginalWords(d), ReservedField) = 0
<1> DEFINE o == OriginalWords(d)
           gf(n) == GetField(o, ByName(d.fields, n))
           k == KindOf(d, x.kind)
           v(t) == Value(d, t, o, x.parameters)
           holds(p) == Verdict(d, p, o, x.parameters) = "holds"
           fits(a) == v(a.value) \in 0 .. (2 ^ ByName(d.fields, a.field).width - 1)
           p1 == Comparison(Setting("maxFeePips"), "gt", Setting("rootBaseLpFeePips"))
           p2 == Comparison(Setting("dynamicFeeSens"), "gt", Number(0))
           p3 == Comparison(Setting("rootDynamicFeeFlag"), "eq", Number(1))
           p4 == Comparison(Setting("rootRecaptureFlag"), "eq", Number(1))
           p5 == Comparison(Setting("rootFlagsReserved"), "eq", Number(0))
           a1 == [field |-> "maxFeePips", value |-> Setting("rootBaseLpFeePips")]
           a2 == [field |-> "dynamicFeeSens", value |-> Number(0)]
           a3 == [field |-> "rootDynamicFeeFlag", value |-> Number(0)]
<1>1. Items(k.requires) = {p1, p2, p3, p4, p5} /\ Items(k.assign) = {a1, a2, a3}
  BY LegacyDescriptor DEF ShippedDynamic
<1>2. ShippedPlaces(d)
  BY LegacyDescriptor
<1>3. /\ gf("maxFeePips") = GetField(o, Layout.maxFeePips)
      /\ gf("dynamicFeeSens") = GetField(o, Layout.dynamicFeeSens)
      /\ gf("rootBaseLpFeePips") = ProfileBase
      /\ gf("rootDynamicFeeFlag") = GetField(o, FlagField)
      /\ gf("rootRecaptureFlag") = GetField(o, RecaptureField)
      /\ gf("rootFlagsReserved") = GetField(o, ReservedField)
  <2>1. gf("rootBaseLpFeePips") = GetField(o, BaseFee)
    BY <1>2, PlaceShared DEF ShippedPlaces
  <2> QED BY <1>2, <2>1, PlaceShared DEF ShippedPlaces, LegacyShape
<1>4. /\ ByName(d.fields, "maxFeePips").width = Layout.maxFeePips.width
      /\ ByName(d.fields, "dynamicFeeSens").width = Layout.dynamicFeeSens.width
      /\ ByName(d.fields, "rootDynamicFeeFlag").width = 1
  BY <1>2, PlaceShared, ModeParts DEF ShippedPlaces
<1>5. LegacyNumbers(o)
  BY NumbersFit
<1>6. ModeFromParts(o)
  BY OriginalsAreWords, ModeIsItsParts
<1>7. RulesHold(d, o, x) <=> (\A p \in Items(k.requires) : holds(p)) /\ (\A a \in Items(k.assign) : fits(a))
  BY RulesOfKind
<1>8. (\A n : v(Setting(n)) = gf(n)) /\ (\A c : v(Number(c)) = c)
  BY OperandValues
<1>9. /\ holds(p1) <=> Compare("gt", v(Setting("maxFeePips")), v(Setting("rootBaseLpFeePips")))
      /\ holds(p2) <=> Compare("gt", v(Setting("dynamicFeeSens")), v(Number(0)))
      /\ holds(p3) <=> Compare("eq", v(Setting("rootDynamicFeeFlag")), v(Number(1)))
      /\ holds(p4) <=> Compare("eq", v(Setting("rootRecaptureFlag")), v(Number(1)))
      /\ holds(p5) <=> Compare("eq", v(Setting("rootFlagsReserved")), v(Number(0)))
  BY ComparisonHolds
<1>10. /\ fits(a1) <=> v(Setting("rootBaseLpFeePips")) \in 0 .. (2 ^ ByName(d.fields, "maxFeePips").width - 1)
       /\ fits(a2) <=> v(Number(0)) \in 0 .. (2 ^ ByName(d.fields, "dynamicFeeSens").width - 1)
       /\ fits(a3) <=> v(Number(0)) \in 0 .. (2 ^ ByName(d.fields, "rootDynamicFeeFlag").width - 1)
  OBVIOUS
<1> HIDE DEF o, gf, k, v, holds, fits, p1, p2, p3, p4, p5, a1, a2, a3
<1>11. /\ holds(p1) <=> GetField(o, Layout.maxFeePips) > ProfileBase
       /\ holds(p2) <=> GetField(o, Layout.dynamicFeeSens) > 0
       /\ holds(p3) <=> GetField(o, FlagField) = 1
       /\ holds(p4) <=> GetField(o, RecaptureField) = 1
       /\ holds(p5) <=> GetField(o, ReservedField) = 0
  BY <1>3, <1>8, <1>9 DEF Compare
<1>12. 2 ^ 1 = 2
  OBVIOUS
<1>13. fits(a2) /\ fits(a3)
  <2>1. v(Number(0)) = 0
    BY <1>8
  <2>2. 2 ^ Layout.dynamicFeeSens.width \in Nat \ {0}
    BY <1>5 DEF LegacyNumbers
  <2>3. 0 \in 0 .. (2 ^ Layout.dynamicFeeSens.width - 1) /\ 0 \in 0 .. (2 ^ 1 - 1)
    BY <1>12, <2>2
  <2> QED BY <1>4, <1>10, <2>1, <2>3
<1>14. GetField(o, Layout.maxFeePips) > ProfileBase => fits(a1)
  BY <1>3, <1>4, <1>5, <1>8, <1>10 DEF LegacyNumbers
<1>15. RulesHold(d, o, x) <=> holds(p1) /\ holds(p2) /\ holds(p3) /\ holds(p4) /\ holds(p5) /\ fits(a1)
  BY <1>1, <1>7, <1>13
<1>16. holds(p3) /\ holds(p4) /\ holds(p5) <=> GetField(o, Layout.rootMode) = ModeOn
  BY <1>6, <1>11, ShippedAssumption DEF ModeFromParts
<1>17. SettingsOk(o, x) <=> /\ GetField(o, Layout.maxFeePips) > ProfileBase
                            /\ GetField(o, Layout.dynamicFeeSens) > 0
                            /\ GetField(o, Layout.rootMode) = ModeOn
  BY DEF SettingsOk
<1>18. /\ RulesHold(d, o, x) <=> SettingsOk(o, x)
       /\ RulesHold(d, o, x) => GetField(o, RecaptureField) = 1 /\ GetField(o, ReservedField) = 0
  BY <1>11, <1>14, <1>15, <1>16, <1>17
<1> QED BY <1>18 DEF o

LEMMA ParametersAgree ==
  ASSUME NEW d, LegacyShape(d), NEW x, x.kind \in Registered
  PROVE  ParametersOk(d, x) <=> RegistryParameterOk(x)
<1> DEFINE params == KindOf(d, x.kind).params
<1>1. ParametersOk(d, x) <=> /\ DOMAIN x.parameters = Names(params)
                             /\ \A p \in Items(params) : ParameterOk(p, x.parameters[p.name])
  BY DEF ParametersOk
<1>2. CASE x.kind = "LP_REWARDS_BPS"
  <2> DEFINE p == [name |-> "lpBps", type |-> "uint", min |-> 0, max |-> LpOriginal - 1]
  <2>1. Items(params) = {p}
    BY <1>2, LegacyDescriptor DEF ShippedLp
  <2>2. p.name = "lpBps" /\ \A value : ParameterOk(p, value) <=> value \in 0 .. (LpOriginal - 1)
    BY DEF ParameterOk
  <2> HIDE DEF p, params
  <2>3. Names(params) = {"lpBps"}
    BY <2>1, <2>2 DEF Names
  <2> QED BY <1>1, <1>2, <2>1, <2>2, <2>3 DEF RegistryParameterOk
<1>3. CASE x.kind = "DYNAMIC_FEE"
  <2> DEFINE p == [name |-> "dynamicFee", type |-> "enum", values |-> {"OFF"}]
  <2>1. Items(params) = {p}
    BY <1>3, LegacyDescriptor DEF ShippedDynamic
  <2>2. p.name = "dynamicFee" /\ \A value : ParameterOk(p, value) <=> value = "OFF"
    BY DEF ParameterOk
  <2> HIDE DEF p, params
  <2>3. Names(params) = {"dynamicFee"}
    BY <2>1, <2>2 DEF Names
  <2> QED BY <1>1, <1>3, <2>1, <2>2, <2>3 DEF RegistryParameterOk
<1> QED BY <1>2, <1>3 DEF Registered

-----------------------------------------------------------------------------
(* Which lists the two admit. *)

KindsOf(items) == {x.kind : x \in Items(items)}
NoKindTwice(items) == Cardinality(KindsOf(items)) = Len(items)

LEMMA TwoRegistered == IsFiniteSet(Registered) /\ Cardinality(Registered) = 2
<1>1. IsFiniteSet({}) /\ Cardinality({}) = 0
  BY FS_EmptySet
<1>2. IsFiniteSet({} \cup {"LP_REWARDS_BPS"}) /\ Cardinality({} \cup {"LP_REWARDS_BPS"}) = 1
  BY <1>1, FS_AddElement
<1>3. {} \cup {"LP_REWARDS_BPS"} = {"LP_REWARDS_BPS"}
  OBVIOUS
<1>4. /\ IsFiniteSet({"LP_REWARDS_BPS"} \cup {"DYNAMIC_FEE"})
      /\ Cardinality({"LP_REWARDS_BPS"} \cup {"DYNAMIC_FEE"}) = 2
  BY <1>2, <1>3, FS_AddElement
<1>5. Registered = {"LP_REWARDS_BPS"} \cup {"DYNAMIC_FEE"}
  BY DEF Registered
<1> QED BY <1>4, <1>5

LEMMA KindsCounted ==
  ASSUME NEW d, Valid(d)
  PROVE  IsFiniteSet(Kinds(d)) /\ Cardinality(Kinds(d)) <= Len(d.kinds) /\ Len(d.kinds) \in Nat
<1> DEFINE n == Len(d.kinds)
           f == [i \in 1 .. n |-> d.kinds[i].kind]
<1>1. n \in Nat /\ DOMAIN d.kinds = 1 .. n
  BY DEF Valid, Shaped
<1>2. Kinds(d) = {f[i] : i \in 1 .. n}
  BY <1>1 DEF Kinds, Items
<1>3. f \in Surjection(1 .. n, Kinds(d))
  BY <1>2 DEF Surjection
<1>4. IsFiniteSet(1 .. n) /\ Cardinality(1 .. n) = n
  BY <1>1, FS_Interval
<1> HIDE DEF f, n
<1>5. IsFiniteSet(Kinds(d)) /\ Cardinality(Kinds(d)) <= Cardinality(1 .. n)
  BY <1>3, <1>4, FS_Surjection
<1> QED BY <1>1, <1>4, <1>5 DEF n

LEMMA AdmittedAlike ==
  ASSUME NEW d, Valid(d), LegacyShape(d), NEW items, items \in Seq(Items(items)), Len(items) > 0,
         KindsOf(items) \subseteq Registered
  PROVE  /\ OverlayRefusal(items) = "OK" <=> NoKindTwice(items)
         /\ SetRefusal(d, items) = "OK" <=> NoKindTwice(items) /\ \A x \in Items(items) : RegistryParameterOk(x)
         /\ NoKindTwice(items) => \A i, j \in 1 .. Len(items) : i # j => items[i].kind # items[j].kind
<1> DEFINE n == Len(items)
           kinds == KindsOf(items)
<1>1. n \in Nat \ {0} /\ DOMAIN items = 1 .. n
  OBVIOUS
<1>2. Registered \subseteq Kinds(d) /\ \A k \in Registered : KindOf(d, k).conflicts \cap Registered = {}
  BY LegacyDescriptor
<1>3. kinds \subseteq Kinds(d)
  BY <1>2
<1>4. IsFiniteSet(Kinds(d)) /\ Cardinality(Kinds(d)) <= Len(d.kinds) /\ Len(d.kinds) \in Nat
  BY KindsCounted
<1>5. /\ Cardinality(kinds) \in Nat
      /\ Cardinality(kinds) <= 2
      /\ Cardinality(kinds) <= Len(d.kinds)
  <2>1. IsFiniteSet(kinds) /\ Cardinality(kinds) <= 2
    BY TwoRegistered, FS_Subset
  <2>2. Cardinality(kinds) <= Cardinality(Kinds(d)) /\ Cardinality(kinds) \in Nat /\ Cardinality(Kinds(d)) \in Nat
    BY <1>3, <1>4, <2>1, FS_Subset, FS_CardinalityType
  <2> QED BY <1>4, <2>1, <2>2
<1>6. ~\E k \in kinds : KindOf(d, k).conflicts \cap kinds # {}
  BY <1>2
<1>7. \A x \in Items(items) : ParametersOk(d, x) <=> RegistryParameterOk(x)
  BY ParametersAgree DEF KindsOf
<1>8. OverlayRefusal(items) = IF n \notin 1 .. 2 THEN "COUNT"
                              ELSE IF Cardinality(kinds) # n THEN "DUPLICATE_KIND" ELSE "OK"
  BY TwoRegistered DEF OverlayRefusal, KindsOf
<1>9. SetRefusal(d, items) = IF n \notin 1 .. Len(d.kinds) THEN "COUNT"
                             ELSE IF Cardinality(kinds) # n THEN "DUPLICATE_KIND"
                             ELSE IF \E x \in Items(items) : ~ParametersOk(d, x) THEN "PARAMETER"
                             ELSE "OK"
  BY <1>3, <1>6 DEF SetRefusal, KindsOf
<1>10. NoKindTwice(items) <=> Cardinality(kinds) = n
  BY DEF NoKindTwice
<1>11. ASSUME NoKindTwice(items) PROVE \A i, j \in 1 .. n : i # j => items[i].kind # items[j].kind
  <2> DEFINE v == [i \in 1 .. n |-> items[i].kind]
  <2>1. {v[i] : i \in 1 .. n} = kinds
    BY <1>1 DEF KindsOf, Items
  <2>2. DOMAIN v = 1 .. n /\ Cardinality({v[i] : i \in 1 .. n}) = n
    BY <1>10, <1>11, <2>1
  <2>3. \A i \in 1 .. n : v[i] = items[i].kind
    OBVIOUS
  <2> HIDE DEF v
  <2>4. \A i, j \in 1 .. n : v[i] = v[j] => i = j
    BY <1>1, <2>2, DistinctValues
  <2> QED BY <2>3, <2>4
<1> HIDE DEF n, kinds
<1>12. OverlayRefusal(items) = "OK" <=> NoKindTwice(items)
  BY <1>1, <1>5, <1>8, <1>10
<1>13. SetRefusal(d, items) = "OK" <=> NoKindTwice(items) /\ \A x \in Items(items) : RegistryParameterOk(x)
  <2>1. SetRefusal(d, items) = "OK" <=> NoKindTwice(items) /\ \A x \in Items(items) : ParametersOk(d, x)
    BY <1>1, <1>4, <1>5, <1>9, <1>10
  <2> QED BY <1>7, <2>1
<1> QED BY <1>11, <1>12, <1>13 DEF n

-----------------------------------------------------------------------------
(* The answer of the registry. *)

LEMMA KeptBitsUnchanged ==
  ASSUME NEW o, NEW words, NEW bits, WordsLike(words, o), Keeps(words, o, bits)
  PROVE  Changed(words, o) \subseteq bits
<1> SUFFICES ASSUME NEW x \in Changed(words, o), x \notin bits PROVE FALSE
  OBVIOUS
<1>1. /\ x \in UNION {{t} \X (DOMAIN words[t]) \X (0 .. (WordBits - 1)) : t \in DOMAIN words}
      /\ Bit(words[x[1]][x[2]], x[3]) # Bit(o[x[1]][x[2]], x[3])
  BY DEF Changed
<1>2. PICK t \in DOMAIN words : x \in {t} \X (DOMAIN words[t]) \X (0 .. (WordBits - 1))
  BY <1>1
<1>3. PICK i \in DOMAIN words[t], b \in 0 .. (WordBits - 1) : x = <<t, i, b>>
  BY <1>2
<1>4. t \in DOMAIN o /\ i \in DOMAIN o[t] /\ b \in Nat
  BY DescriptorAssumption DEF WordsLike
<1>5. Away(bits, t, i, b, 1)
  BY <1>3, <1>4 DEF Away
<1>6. 1 \in Nat \ {0}
  OBVIOUS
<1>7. Segment(words, t, i, b, 1) = Segment(o, t, i, b, 1)
  BY <1>4, <1>5, <1>6 DEF Keeps
<1>8. Bit(words[t][i], b) = Bit(o[t][i], b)
  BY <1>7, BitIsSegment
<1> QED BY <1>1, <1>3, <1>8

\* Rows that replace a setting by another one change every word they write.
LEMMA EveryRowBites ==
  ASSUME NEW o, NEW R, NEW words, RowsWritten(o, R, words),
         \A r \in R : RowOk(o, r) /\ r.to \notin r.from
  PROVE  \A b \in FieldBits(RowFields(R)) : words[b[1]][b[2]] # o[b[1]][b[2]]
<1> SUFFICES ASSUME NEW b \in FieldBits(RowFields(R)), words[b[1]][b[2]] = o[b[1]][b[2]] PROVE FALSE
  OBVIOUS
<1>1. PICK r \in R : b \in BitsOf(Layout[r.field])
  BY DEF FieldBits, RowFields
<1> DEFINE f == Layout[r.field]
<1>2. b[1] = f.target /\ b[2] = f.word
  BY <1>1 DEF BitsOf
<1>3. GetField(words, f) = GetField(o, f)
  BY <1>2 DEF GetField
<1>4. GetField(words, f) = r.to /\ GetField(o, f) \in r.from /\ r.to \notin r.from
  BY DEF RowsWritten, RowOk
<1> QED BY <1>3, <1>4

LEMMA OverlayAnswer ==
  ASSUME NEW d, Valid(d), LegacyShape(d), NEW items, items \in Seq(Items(items)), Len(items) > 0,
         KindsOf(items) \subseteq Registered
  PROVE  LET o == OriginalWords(d)
             c == ComposeOverlay(items, o)
         IN  /\ c.code = "OK" <=> NoKindTwice(items) /\ \A x \in Items(items) : ItemOk(o, x)
             /\ c.code = "OK" => RowsWritten(o, RowsOfItems(items, Len(items)), c.words)
<1> DEFINE o == OriginalWords(d)
           c == ComposeOverlay(items, o)
           n == Len(items)
           w == ItemsApplied(o, items)
           R == RowsOfItems(items, n)
<1>1. n \in Nat /\ DOMAIN items = 1 .. n
  OBVIOUS
<1>2. OverlayRefusal(items) = "OK" <=> NoKindTwice(items)
  BY AdmittedAlike
<1>3. c = IF OverlayRefusal(items) # "OK" THEN Refused(OverlayRefusal(items)) ELSE Overlaid(o, w)
  BY DEF ComposeOverlay, ItemsApplied, WalkStart
<1>4. CASE ~NoKindTwice(items)
  <2>1. c = [code |-> OverlayRefusal(items)]
    BY <1>2, <1>3, <1>4 DEF Refused
  <2>2. c.code = OverlayRefusal(items)
    BY <2>1
  <2> HIDE DEF c
  <2>3. c.code # "OK"
    BY <1>2, <1>4, <2>2
  <2> QED BY <1>4, <2>3 DEF c
<1>5. CASE NoKindTwice(items)
  <2>1. c = Overlaid(o, w)
    BY <1>2, <1>3, <1>5
  <2>2. \A i, j \in 1 .. n : i # j => items[i].kind # items[j].kind
    BY <1>5, AdmittedAlike
  <2>3. \A i \in 1 .. n : items[i] \in Items(items) /\ items[i].kind \in Registered
    BY <1>1 DEF KindsOf, Items
  <2>4. WordsLike(o, o) /\ LayoutFits(o)
    BY OriginalsAreWords, LegacyLayout
  <2> HIDE DEF n, o, c
  <2>5. ItemsUpTo(o, items, n, w)
    BY <1>1, <2>2, <2>3, <2>4, ListApplied
  <2>6. Overlays(o, R, w) /\ (w.code = "OK" <=> \A j \in 1 .. n : ItemOk(o, items[j]))
    BY <2>5 DEF ItemsUpTo
  <2>7. (\A j \in 1 .. n : ItemOk(o, items[j])) <=> \A x \in Items(items) : ItemOk(o, x)
    BY <1>1 DEF Items
  <2> HIDE DEF w
  <2>8. CASE w.code # "OK"
    <3>1. c = [code |-> w.code]
      BY <2>1, <2>8 DEF Overlaid, Refused
    <3>2. c.code # "OK"
      BY <2>8, <3>1
    <3> QED BY <2>6, <2>7, <2>8, <3>2 DEF c, o
  <2>9. CASE w.code = "OK"
    <3>1. RowsWritten(o, R, w.words) /\ w.applied = R /\ w.used = FieldBits(RowFields(R))
      BY <2>6, <2>9 DEF Overlays
    <3>2. Changed(w.words, o) \subseteq w.used
      BY <3>1, KeptBitsUnchanged DEF RowsWritten
    <3>3. ~\E r \in w.applied : GetField(w.words, Layout[r.field]) # r.to
      BY <3>1 DEF RowsWritten
    <3>4. \A r \in R : RowOk(o, r) /\ r.to \notin r.from
      <4> SUFFICES ASSUME NEW r \in R PROVE RowOk(o, r) /\ r.to \notin r.from
        OBVIOUS
      <4>1. PICK j \in 1 .. n : r \in Items(Rule(items[j]))
        BY DEF RowsOfItems
      <4>2. ItemOk(o, items[j]) /\ items[j].kind \in Registered
        BY <2>3, <2>6, <2>9
      <4>3. RegistryParameterOk(items[j]) /\ RowOk(o, r)
        BY <4>1, <4>2 DEF ItemOk
      <4>4. r.to \notin r.from
        BY <4>1, <4>2, <4>3, ItemSettings
      <4> QED BY <4>3, <4>4
    <3> HIDE DEF R
    <3>5. ~\E b \in w.used : w.words[b[1]][b[2]] = o[b[1]][b[2]]
      BY <3>1, <3>4, EveryRowBites
    <3>6. c = [code |-> "OK", words |-> w.words]
      BY <2>1, <2>9, <3>2, <3>3, <3>5 DEF Overlaid
    <3>7. c.code = "OK" /\ c.words = w.words
      BY <3>6
    <3> QED BY <1>5, <2>6, <2>7, <2>9, <3>1, <3>7 DEF c, o, R, n
  <2> QED BY <2>8, <2>9
<1> QED BY <1>4, <1>5

-----------------------------------------------------------------------------
(* The answer of the interpreter for the same lists. *)

LEMMA LegacyKindFields ==
  ASSUME NEW d, LegacyShape(d), NEW x, x.kind \in Registered
  PROVE  KindFields(d, x) = IF x.kind = "LP_REWARDS_BPS" THEN {"lpBps"}
                            ELSE {"maxFeePips", "dynamicFeeSens", "rootDynamicFeeFlag"}
<1>1. CASE x.kind = "LP_REWARDS_BPS"
  <2> DEFINE a == [field |-> "lpBps", value |-> Parameter("lpBps")]
  <2>1. Items(KindOf(d, x.kind).assign) = {a}
    BY <1>1, LegacyDescriptor DEF ShippedLp
  <2>2. a.field = "lpBps"
    OBVIOUS
  <2> HIDE DEF a
  <2> QED BY <1>1, <2>1, <2>2 DEF KindFields
<1>2. CASE x.kind = "DYNAMIC_FEE"
  <2> DEFINE a == [field |-> "maxFeePips", value |-> Setting("rootBaseLpFeePips")]
             b == [field |-> "dynamicFeeSens", value |-> Number(0)]
             c == [field |-> "rootDynamicFeeFlag", value |-> Number(0)]
  <2>1. Items(KindOf(d, x.kind).assign) = {a, b, c}
    BY <1>2, LegacyDescriptor DEF ShippedDynamic
  <2>2. a.field = "maxFeePips" /\ b.field = "dynamicFeeSens" /\ c.field = "rootDynamicFeeFlag"
    OBVIOUS
  <2> HIDE DEF a, b, c
  <2>3. KindFields(d, x) = {a.field, b.field, c.field}
    BY <2>1 DEF KindFields
  <2> QED BY <1>2, <2>2, <2>3
<1> QED BY <1>1, <1>2 DEF Registered

LEMMA LegacyRowFields ==
  ASSUME NEW x, x.kind \in Registered
  PROVE  RowFields(Items(Rule(x))) =
            IF x.kind = "LP_REWARDS_BPS" THEN {Layout.lpBps}
            ELSE {Layout.maxFeePips, Layout.dynamicFeeSens, Layout.rootMode}
<1>1. CASE x.kind = "LP_REWARDS_BPS"
  <2> DEFINE a == [field |-> "lpBps", from |-> {LpOriginal}, to |-> x.parameters.lpBps]
  <2>1. Rule(x) = <<a>> /\ a.field = "lpBps"
    BY <1>1 DEF Rule
  <2> HIDE DEF a
  <2>2. Items(<<a>>) = {a}
    BY DEF Items
  <2> QED BY <1>1, <2>1, <2>2 DEF RowFields
<1>2. CASE x.kind = "DYNAMIC_FEE"
  <2> DEFINE a == [field |-> "maxFeePips", from |-> (ProfileBase + 1) .. (2 ^ Layout.maxFeePips.width), to |-> ProfileBase]
             b == [field |-> "dynamicFeeSens", from |-> 1 .. (2 ^ Layout.dynamicFeeSens.width), to |-> 0]
             c == [field |-> "rootMode", from |-> {ModeOn}, to |-> ModeOff]
  <2>1. Rule(x) = <<a, b, c>>
    BY <1>2 DEF Rule
  <2>2. a.field = "maxFeePips" /\ b.field = "dynamicFeeSens" /\ c.field = "rootMode"
    OBVIOUS
  <2> HIDE DEF a, b, c
  <2>3. Items(<<a, b, c>>) = {a, b, c}
    BY DEF Items
  <2>4. RowFields({a, b, c}) = {Layout[a.field], Layout[b.field], Layout[c.field]}
    BY DEF RowFields
  <2> QED BY <1>2, <2>1, <2>2, <2>3, <2>4
<1> QED BY <1>1, <1>2 DEF Registered

LEMMA LegacyBits ==
  ASSUME NEW d, Valid(d), LegacyShape(d), NEW x, x.kind \in Registered, NEW n \in KindFields(d, x)
  PROVE  /\ BitsOf(ByName(d.fields, n)) \subseteq FieldBits(RowFields(Items(Rule(x))))
         /\ BitsOf(ByName(d.fields, n)) \cap BitsOf(RecaptureField) = {}
         /\ BitsOf(ByName(d.fields, n)) \cap BitsOf(ReservedField) = {}
<1> DEFINE F == RowFields(Items(Rule(x)))
<1>1. ShippedPlaces(d)
  BY LegacyDescriptor
<1>2. n \in {"lpBps", "maxFeePips", "dynamicFeeSens", "rootDynamicFeeFlag"}
  BY LegacyKindFields
<1>3. n \in Names(d.fields) /\ "rootRecaptureFlag" \in Names(d.fields) /\ "rootFlagsReserved" \in Names(d.fields)
  BY <1>1, <1>2 DEF ShippedPlaces, Placed
<1>4. /\ BitsOf(ByName(d.fields, n)) \cap BitsOf(ByName(d.fields, "rootRecaptureFlag")) = {}
      /\ BitsOf(ByName(d.fields, n)) \cap BitsOf(ByName(d.fields, "rootFlagsReserved")) = {}
  BY <1>2, <1>3, FieldsApart
<1>5. /\ BitsOf(ByName(d.fields, "rootRecaptureFlag")) = BitsOf(RecaptureField)
      /\ BitsOf(ByName(d.fields, "rootFlagsReserved")) = BitsOf(ReservedField)
  BY <1>1, PlaceShared DEF ShippedPlaces
<1>6. /\ BitsOf(ByName(d.fields, "lpBps")) = BitsOf(Layout.lpBps)
      /\ BitsOf(ByName(d.fields, "maxFeePips")) = BitsOf(Layout.maxFeePips)
      /\ BitsOf(ByName(d.fields, "dynamicFeeSens")) = BitsOf(Layout.dynamicFeeSens)
      /\ BitsOf(ByName(d.fields, "rootDynamicFeeFlag")) \subseteq BitsOf(Layout.rootMode)
  BY <1>1, PlaceShared, LegacyLayout DEF ShippedPlaces
<1>7. \E f \in F : BitsOf(ByName(d.fields, n)) \subseteq BitsOf(f)
  <2>1. F = IF x.kind = "LP_REWARDS_BPS" THEN {Layout.lpBps}
            ELSE {Layout.maxFeePips, Layout.dynamicFeeSens, Layout.rootMode}
    BY LegacyRowFields
  <2>2. n \in IF x.kind = "LP_REWARDS_BPS" THEN {"lpBps"}
              ELSE {"maxFeePips", "dynamicFeeSens", "rootDynamicFeeFlag"}
    BY LegacyKindFields
  <2> HIDE DEF F
  <2> QED BY <1>6, <2>1, <2>2
<1> HIDE DEF F
<1>8. BitsOf(ByName(d.fields, n)) \subseteq FieldBits(F)
  BY <1>7 DEF FieldBits
<1> QED BY <1>4, <1>5, <1>8 DEF F

LEMMA InterpreterPasses ==
  ASSUME NEW d, Valid(d), LegacyShape(d), NEW items, items \in Seq(Items(items)), SetRefusal(d, items) = "OK",
         KindsOf(items) \subseteq Registered, \A x \in Items(items) : RegistryParameterOk(x)
  PROVE  LET o == OriginalWords(d)
         IN  /\ Walk(d, Canonical(items), o).code = "OK" <=> \A x \in Items(items) : RulesHold(d, o, x)
             /\ \A x \in Items(items) : RulesHold(d, o, x) <=> SettingsOk(o, x)
<1> DEFINE o == OriginalWords(d)
           canon == Canonical(items)
           list == Steps(d, canon)
           T == UNION {StepSet(d, x) : x \in Items(items)}
           n == Len(list)
<1>1. \A x \in Items(items) : x.kind \in Registered
  BY DEF KindsOf
<1>2. \A x \in Items(items) : RulesHold(d, o, x) <=> SettingsOk(o, x)
  BY <1>1, LpRules, DynamicRules DEF Registered
<1>3. ASSUME NEW x \in Items(items), NEW y \in Items(items), x.kind # y.kind
      PROVE  KindFields(d, x) \cap KindFields(d, y) = {}
  <2>1. x.kind \in Registered /\ y.kind \in Registered
    BY <1>1
  <2>2. /\ KindFields(d, x) = IF x.kind = "LP_REWARDS_BPS" THEN {"lpBps"}
                              ELSE {"maxFeePips", "dynamicFeeSens", "rootDynamicFeeFlag"}
        /\ KindFields(d, y) = IF y.kind = "LP_REWARDS_BPS" THEN {"lpBps"}
                              ELSE {"maxFeePips", "dynamicFeeSens", "rootDynamicFeeFlag"}
    BY <2>1, LegacyKindFields
  <2>3. \/ x.kind = "LP_REWARDS_BPS" /\ y.kind = "DYNAMIC_FEE"
        \/ x.kind = "DYNAMIC_FEE" /\ y.kind = "LP_REWARDS_BPS"
    BY <1>3, <2>1 DEF Registered
  <2> QED BY <2>2, <2>3
<1>4. ClashFree(d, list)
  BY <1>3, AdmittedClashFree
<1>5. list \in Seq(T) /\ Items(list) = T /\ \A r \in T : GoodStep(d, o, r)
  BY AdmittedSteps
<1>6. WordsLike(o, o)
  BY OriginalsAreWords
<1> HIDE DEF T, list, canon, o
<1>7. n \in Nat /\ DOMAIN list = 1 .. n /\ \A k \in 1 .. n : list[k] \in T
  BY <1>5
<1>8. \A k \in 1 .. n : GoodStep(d, o, list[k])
  BY <1>5, <1>7
<1> HIDE DEF n
<1>9. PassedUpTo(d, o, list, n, Walk(d, canon, o))
  BY <1>4, <1>6, <1>7, <1>8, WalkPasses DEF list
<1>10. Walk(d, canon, o).code = "OK" <=> \A r \in T : Passes(d, o, r)
  <2>1. T = {list[k] : k \in 1 .. n}
    BY <1>5, <1>7 DEF Items
  <2> QED BY <1>9, <2>1 DEF PassedUpTo
<1>11. (\A r \in T : Passes(d, o, r)) <=> \A x \in Items(items) : RulesHold(d, o, x)
  BY DEF T, RulesHold
<1> QED BY <1>2, <1>10, <1>11 DEF o, canon

(* What an item writes is in the words, and the two other parts of the mode   *)
(* byte are the original ones.                                                *)
ItemWritten(d, o, words, x) ==
    \A b \in Items(KindOf(d, x.kind).assign) :
        GetField(words, ByName(d.fields, b.field)) = Value(d, b.value, o, x.parameters)
ModeKept(o, words) ==
    /\ GetField(words, RecaptureField) = GetField(o, RecaptureField)
    /\ GetField(words, ReservedField) = GetField(o, ReservedField)

LEMMA RowsOfOneItem ==
  ASSUME NEW d, Valid(d), LegacyShape(d), NEW words, WordsLike(words, OriginalWords(d)), NEW x, x.kind \in Registered,
         RegistryParameterOk(x), RulesHold(d, OriginalWords(d), x),
         ItemWritten(d, OriginalWords(d), words, x), ModeKept(OriginalWords(d), words)
  PROVE  \A r \in Items(Rule(x)) : GetField(words, Layout[r.field]) = r.to
<1> DEFINE o == OriginalWords(d)
<1>1. ShippedPlaces(d)
  BY LegacyDescriptor
<1>2. CASE x.kind = "LP_REWARDS_BPS"
  <2> DEFINE r == [field |-> "lpBps", from |-> {LpOriginal}, to |-> x.parameters.lpBps]
             a == [field |-> "lpBps", value |-> Parameter("lpBps")]
  <2>1. Rule(x) = <<r>>
    BY <1>2 DEF Rule
  <2>2. Items(KindOf(d, x.kind).assign) = {a}
    BY <1>2, LegacyDescriptor DEF ShippedLp
  <2>3. GetField(words, ByName(d.fields, "lpBps")) = Value(d, Parameter("lpBps"), o, x.parameters)
    BY <2>2 DEF ItemWritten
  <2>4. GetField(words, ByName(d.fields, "lpBps")) = GetField(words, Layout.lpBps)
    BY <1>1, PlaceShared DEF ShippedPlaces
  <2>5. GetField(words, Layout.lpBps) = x.parameters.lpBps
    <3>1. Value(d, Parameter("lpBps"), o, x.parameters) = x.parameters["lpBps"]
      BY OperandValues
    <3> QED BY <2>3, <2>4, <3>1
  <2>6. r.field = "lpBps" /\ r.to = x.parameters.lpBps
    OBVIOUS
  <2> HIDE DEF r
  <2>7. Items(<<r>>) = {r}
    BY DEF Items
  <2> QED BY <2>1, <2>5, <2>6, <2>7
<1>3. CASE x.kind = "DYNAMIC_FEE"
  <2> DEFINE a == [field |-> "maxFeePips", from |-> (ProfileBase + 1) .. (2 ^ Layout.maxFeePips.width), to |-> ProfileBase]
             b == [field |-> "dynamicFeeSens", from |-> 1 .. (2 ^ Layout.dynamicFeeSens.width), to |-> 0]
             c == [field |-> "rootMode", from |-> {ModeOn}, to |-> ModeOff]
             u == [field |-> "maxFeePips", value |-> Setting("rootBaseLpFeePips")]
             v == [field |-> "dynamicFeeSens", value |-> Number(0)]
             w == [field |-> "rootDynamicFeeFlag", value |-> Number(0)]
  <2>1. Rule(x) = <<a, b, c>>
    BY <1>3 DEF Rule
  <2>2. Items(KindOf(d, x.kind).assign) = {u, v, w}
    BY <1>3, LegacyDescriptor DEF ShippedDynamic
  <2>3. /\ u.field = "maxFeePips" /\ u.value = Setting("rootBaseLpFeePips")
        /\ v.field = "dynamicFeeSens" /\ v.value = Number(0)
        /\ w.field = "rootDynamicFeeFlag" /\ w.value = Number(0)
        /\ a.field = "maxFeePips" /\ a.to = ProfileBase
        /\ b.field = "dynamicFeeSens" /\ b.to = 0
        /\ c.field = "rootMode" /\ c.to = ModeOff
    OBVIOUS
  <2> HIDE DEF a, b, c, u, v, w
  <2>4. /\ GetField(words, ByName(d.fields, "maxFeePips")) = Value(d, Setting("rootBaseLpFeePips"), o, x.parameters)
        /\ GetField(words, ByName(d.fields, "dynamicFeeSens")) = Value(d, Number(0), o, x.parameters)
        /\ GetField(words, ByName(d.fields, "rootDynamicFeeFlag")) = Value(d, Number(0), o, x.parameters)
    BY <2>2, <2>3 DEF ItemWritten
  <2>5. /\ GetField(words, ByName(d.fields, "maxFeePips")) = GetField(words, Layout.maxFeePips)
        /\ GetField(words, ByName(d.fields, "dynamicFeeSens")) = GetField(words, Layout.dynamicFeeSens)
        /\ GetField(words, ByName(d.fields, "rootDynamicFeeFlag")) = GetField(words, FlagField)
        /\ GetField(o, ByName(d.fields, "rootBaseLpFeePips")) = GetField(o, BaseFee)
    BY <1>1, PlaceShared DEF ShippedPlaces
  <2>6. GetField(o, BaseFee) = ProfileBase
    BY DEF LegacyShape
  <2>7. /\ Value(d, Setting("rootBaseLpFeePips"), o, x.parameters) = GetField(o, ByName(d.fields, "rootBaseLpFeePips"))
        /\ Value(d, Number(0), o, x.parameters) = 0
    BY OperandValues
  <2>8. /\ GetField(words, Layout.maxFeePips) = ProfileBase
        /\ GetField(words, Layout.dynamicFeeSens) = 0
        /\ GetField(words, FlagField) = 0
    BY <2>4, <2>5, <2>6, <2>7
  <2>9. GetField(words, RecaptureField) = 1 /\ GetField(words, ReservedField) = 0
    <3>1. GetField(o, RecaptureField) = 1 /\ GetField(o, ReservedField) = 0
      BY <1>3, DynamicRules
    <3> QED BY <3>1 DEF ModeKept
  <2>10. ModeFromParts(words)
    BY ModeIsItsParts
  <2>11. GetField(words, Layout.rootMode) = ModeOff
    BY <2>8, <2>9, <2>10, ShippedAssumption DEF ModeFromParts
  <2>12. Items(<<a, b, c>>) = {a, b, c}
    BY DEF Items
  <2> QED BY <2>1, <2>3, <2>8, <2>11, <2>12
<1> QED BY <1>2, <1>3 DEF Registered

\* What compose has written is what the rows of the registry say.
LEMMA InterpreterWrites ==
  ASSUME NEW d, Valid(d), LegacyShape(d), NEW items, items \in Seq(Items(items)), SetRefusal(d, items) = "OK",
         KindsOf(items) \subseteq Registered,
         \A x \in Items(items) : RegistryParameterOk(x) /\ RulesHold(d, OriginalWords(d), x),
         NEW list, NEW k, NEW w, AppliedUpTo(d, OriginalWords(d), list, k, w),
         RowsUpTo(d, OriginalWords(d), list, k) =
             {[field |-> ByName(d.fields, a.field), value |-> Value(d, a.value, OriginalWords(d), a.params)]
                 : a \in Assigned(d, items)}
  PROVE  LET R == RowsOfItems(items, Len(items))
         IN  /\ RowsWritten(OriginalWords(d), R, w.words)
             /\ w.used \subseteq FieldBits(RowFields(R))
<1> DEFINE o == OriginalWords(d)
           n == Len(items)
           R == RowsOfItems(items, n)
           bits == FieldBits(RowFields(R))
           row(a) == [field |-> ByName(d.fields, a.field), value |-> Value(d, a.value, o, a.params)]
           asg(x, b) == [field |-> b.field, value |-> b.value, params |-> x.parameters]
<1>1. n \in Nat /\ DOMAIN items = 1 .. n /\ Items(items) = {items[j] : j \in 1 .. n}
  BY DEF Items
<1>2. R = UNION {Items(Rule(x)) : x \in Items(items)}
  BY <1>1 DEF RowsOfItems
<1>3. \A x \in Items(items) : x.kind \in Registered
  BY DEF KindsOf
<1>4. w.applied = {row(a) : a \in Assigned(d, items)}
  BY DEF AppliedUpTo
<1>5. Assigned(d, items) = UNION {{asg(x, b) : b \in Items(KindOf(d, x.kind).assign)} : x \in Items(items)}
  BY DEF Assigned
<1>6. /\ WordsLike(w.words, o)
      /\ w.used = UNION {BitsOf(a.field) : a \in w.applied}
      /\ \A a \in w.applied : GetField(w.words, a.field) = a.value
      /\ Keeps(w.words, o, w.used)
  BY DEF AppliedUpTo, Keeps
<1>7. ASSUME NEW x \in Items(items), NEW b \in Items(KindOf(d, x.kind).assign)
      PROVE  row(asg(x, b)) \in w.applied
  <2>1. asg(x, b) \in {asg(x, e) : e \in Items(KindOf(d, x.kind).assign)}
    OBVIOUS
  <2> HIDE DEF asg, row
  <2>2. asg(x, b) \in Assigned(d, items)
    BY <1>5, <2>1
  <2> QED BY <1>4, <2>2
<1>8. ASSUME NEW x \in Items(items) PROVE ItemWritten(d, o, w.words, x)
  <2>1. ASSUME NEW b \in Items(KindOf(d, x.kind).assign)
        PROVE  GetField(w.words, ByName(d.fields, b.field)) = Value(d, b.value, o, x.parameters)
    <3>1. row(asg(x, b)).field = ByName(d.fields, b.field) /\ row(asg(x, b)).value = Value(d, b.value, o, x.parameters)
      OBVIOUS
    <3>2. row(asg(x, b)) \in w.applied
      BY <1>7
    <3> HIDE DEF row, asg
    <3> QED BY <1>6, <3>1, <3>2
  <2> HIDE DEF o
  <2> QED BY <2>1 DEF ItemWritten
<1>9. ASSUME NEW a \in w.applied
      PROVE  /\ BitsOf(a.field) \subseteq bits
             /\ BitsOf(a.field) \cap BitsOf(RecaptureField) = {}
             /\ BitsOf(a.field) \cap BitsOf(ReservedField) = {}
  <2>1. PICK e \in Assigned(d, items) : a = row(e)
    BY <1>4
  <2>2. PICK x \in Items(items) : e \in {asg(x, b) : b \in Items(KindOf(d, x.kind).assign)}
    BY <1>5
  <2>3. PICK b \in Items(KindOf(d, x.kind).assign) : e = asg(x, b)
    BY <2>2
  <2>4. a.field = ByName(d.fields, b.field)
    BY <2>1, <2>3
  <2>5. b.field \in KindFields(d, x) /\ x.kind \in Registered
    BY <1>3 DEF KindFields
  <2>6. /\ BitsOf(a.field) \subseteq FieldBits(RowFields(Items(Rule(x))))
        /\ BitsOf(a.field) \cap BitsOf(RecaptureField) = {}
        /\ BitsOf(a.field) \cap BitsOf(ReservedField) = {}
    BY <2>4, <2>5, LegacyBits
  <2>7. FieldBits(RowFields(Items(Rule(x)))) \subseteq bits
    <3>1. Items(Rule(x)) \subseteq R
      BY <1>2
    <3> HIDE DEF R
    <3> QED BY <3>1 DEF FieldBits, RowFields
  <2> QED BY <2>6, <2>7
<1>10. w.used \subseteq bits
  <2> HIDE DEF bits
  <2> QED BY <1>6, <1>9
<1>11. ModeKept(o, w.words)
  <2>1. w.used \cap BitsOf(RecaptureField) = {} /\ w.used \cap BitsOf(ReservedField) = {}
    BY <1>6, <1>9
  <2>2. ASSUME NEW f, FieldIn(f, o), w.used \cap BitsOf(f) = {}
        PROVE  GetField(w.words, f) = GetField(o, f)
    <3>1. Away(w.used, f.target, f.word, f.offset, f.width)
      BY <2>2 DEF Away, BitsOf, Mask
    <3>2. Segment(w.words, f.target, f.word, f.offset, f.width) = Segment(o, f.target, f.word, f.offset, f.width)
      <4> HIDE DEF o
      <4> QED BY <1>6, <2>2, <3>1 DEF FieldIn, Keeps
    <3> QED BY <3>2, FieldIsSegment
  <2>3. FieldIn(RecaptureField, o) /\ FieldIn(ReservedField, o)
    <3>1. ShippedPlaces(d)
      BY LegacyDescriptor
    <3> QED BY <3>1, PlaceShared DEF ShippedPlaces
  <2> HIDE DEF o
  <2> QED BY <2>1, <2>2, <2>3 DEF ModeKept
<1>12. ASSUME NEW r \in R PROVE GetField(w.words, Layout[r.field]) = r.to
  <2>1. PICK x \in Items(items) : r \in Items(Rule(x))
    BY <1>2
  <2> QED BY <1>3, <1>6, <1>8, <1>11, <2>1, RowsOfOneItem
<1>13. Keeps(w.words, o, bits)
  <2> HIDE DEF o, bits
  <2>1. \A t, i, p, u : Away(bits, t, i, p, u) => Away(w.used, t, i, p, u)
    BY <1>10 DEF Away
  <2> QED BY <1>6, <2>1 DEF Keeps
<1>14. RowsWritten(o, R, w.words)
  <2> HIDE DEF o, R
  <2> QED BY <1>6, <1>12, <1>13 DEF RowsWritten
<1> QED BY <1>10, <1>14

LEMMA InterpreterAnswer ==
  ASSUME NEW d, Valid(d), LegacyShape(d), NEW items, items \in Seq(Items(items)), Len(items) > 0,
         KindsOf(items) \subseteq Registered
  PROVE  LET o == OriginalWords(d)
             c == Compose(d, items, o)
         IN  /\ c.code = "OK" <=> NoKindTwice(items) /\ \A x \in Items(items) : ItemOk(o, x)
             /\ c.code = "OK" => RowsWritten(o, RowsOfItems(items, Len(items)), c.words)
<1> DEFINE o == OriginalWords(d)
           c == Compose(d, items, o)
           n == Len(items)
           R == RowsOfItems(items, n)
           canon == Canonical(items)
           w == Walk(d, canon, o)
           list == Steps(d, canon)
<1>1. n \in Nat /\ DOMAIN items = 1 .. n /\ \A x \in Items(items) : x.kind \in Registered
  BY DEF KindsOf
<1>2. SetRefusal(d, items) = "OK" <=> NoKindTwice(items) /\ \A x \in Items(items) : RegistryParameterOk(x)
  BY AdmittedAlike
<1>3. ASSUME NEW x \in Items(items)
      PROVE  ItemOk(o, x) <=> RegistryParameterOk(x) /\ SettingsOk(o, x)
  <2>1. ItemOk(o, x) => RegistryParameterOk(x)
    BY DEF ItemOk
  <2>2. RegistryParameterOk(x) => (ItemOk(o, x) <=> SettingsOk(o, x))
    BY <1>1, ItemSettings
  <2> QED BY <2>1, <2>2
<1>4. WordsLike(o, o)
  BY OriginalsAreWords
<1>5. ~\E t \in TargetWords(d) : o[t[1]][t[2]] = NoWord
  <2> SUFFICES ASSUME NEW t \in TargetWords(d), o[t[1]][t[2]] = NoWord PROVE FALSE
    OBVIOUS
  <2>1. t = <<t[1], t[2]>>
    BY DEF TargetWords
  <2>2. t[1] \in DOMAIN o /\ t[2] \in DOMAIN o[t[1]]
    BY <2>1, TargetWordsLie
  <2>3. o[t[1]][t[2]] \in Nat
    <3> HIDE DEF o
    <3> QED BY <1>4, <2>2 DEF WordsLike
  <2> QED BY <2>3, DescriptorAssumption
<1>6. c = IF SetRefusal(d, items) # "OK" THEN Refused(SetRefusal(d, items)) ELSE Composed(d, canon, o, w)
  BY <1>5 DEF Compose
<1>7. CASE SetRefusal(d, items) # "OK"
  <2>1. c = [code |-> SetRefusal(d, items)]
    BY <1>6, <1>7 DEF Refused
  <2>2. c.code = SetRefusal(d, items)
    BY <2>1
  <2> HIDE DEF c
  <2>3. c.code # "OK"
    BY <1>7, <2>2
  <2>4. ~(NoKindTwice(items) /\ \A x \in Items(items) : ItemOk(o, x))
    BY <1>2, <1>3, <1>7
  <2> QED BY <2>3, <2>4 DEF c
<1>8. CASE SetRefusal(d, items) = "OK"
  <2>1. NoKindTwice(items) /\ \A x \in Items(items) : RegistryParameterOk(x)
    BY <1>2, <1>8
  <2>2. /\ w.code = "OK" <=> \A x \in Items(items) : RulesHold(d, o, x)
        /\ \A x \in Items(items) : RulesHold(d, o, x) <=> SettingsOk(o, x)
    BY <1>8, <2>1, InterpreterPasses
  <2>3. WalkedUpTo(d, o, list, Len(list), w)
    BY <1>8, AdmittedWalk
  <2>4. RowsUpTo(d, o, list, Len(list)) =
            {[field |-> ByName(d.fields, a.field), value |-> Value(d, a.value, o, a.params)] : a \in Assigned(d, items)}
    BY <1>8, AppliedRows
  <2>5. FirstRefusal(EnsuresVerdicts(d, canon, w.words)) = "OK"
    <3>1. Sortable(items)
      BY <1>8, AdmittedList
    <3>2. canon \in Seq(Items(items))
      BY <3>1, CanonicalForm
    <3>3. \A k \in Registered : KindOf(d, k).ensures = <<>>
      BY LegacyDescriptor
    <3> DEFINE m == Len(canon)
    <3> HIDE DEF canon, w
    <3>4. m \in Nat /\ DOMAIN canon = 1 .. m /\ \A i \in 1 .. m : canon[i] \in Items(items)
      BY <3>2
    <3>5. \A i \in 1 .. m : KindOf(d, canon[i].kind).ensures = <<>>
      BY <1>1, <3>3, <3>4
    <3> HIDE DEF m
    <3> QED BY <3>4, <3>5, NothingEnsured
  <2>6. c = Written(d, canon, o, w, "OK")
    BY <1>6, <1>8, <2>5 DEF Composed
  <2>7. (\A x \in Items(items) : ItemOk(o, x)) <=> \A x \in Items(items) : RulesHold(d, o, x)
    BY <1>3, <2>1, <2>2
  <2> HIDE DEF c, w, list, canon
  <2>8. CASE w.code # "OK"
    <3>1. c = [code |-> w.code]
      BY <2>6, <2>8 DEF Written, Refused
    <3>2. c.code # "OK"
      BY <2>8, <3>1
    <3> QED BY <2>2, <2>7, <2>8, <3>2 DEF c
  <2>9. CASE w.code = "OK"
    <3>1. AppliedUpTo(d, o, list, Len(list), w)
      BY <2>3, <2>9 DEF WalkedUpTo
    <3>2. \A x \in Items(items) : RegistryParameterOk(x) /\ RulesHold(d, o, x) /\ ItemOk(o, x)
      BY <2>1, <2>2, <2>7, <2>9
    <3>3. RowsWritten(o, R, w.words) /\ w.used \subseteq FieldBits(RowFields(R))
      BY <1>8, <2>4, <3>1, <3>2, InterpreterWrites
    <3>4. Changed(w.words, o) \subseteq w.used
      BY <1>4, <3>1, UnusedBitsKept
    <3>5. ~\E a \in w.applied : GetField(w.words, a.field) # a.value
      BY <3>1 DEF AppliedUpTo
    <3>6. \A r \in R : RowOk(o, r) /\ r.to \notin r.from
      <4> SUFFICES ASSUME NEW r \in R PROVE RowOk(o, r) /\ r.to \notin r.from
        OBVIOUS
      <4>1. PICK j \in 1 .. n : r \in Items(Rule(items[j]))
        BY DEF RowsOfItems
      <4>2. items[j] \in Items(items)
        BY <1>1 DEF Items
      <4>3. ItemOk(o, items[j]) /\ items[j].kind \in Registered /\ RegistryParameterOk(items[j])
        BY <1>1, <3>2, <4>2
      <4>4. RowOk(o, r)
        BY <4>1, <4>3 DEF ItemOk
      <4>5. r.to \notin r.from
        BY <4>1, <4>3, ItemSettings
      <4> QED BY <4>4, <4>5
    <3> HIDE DEF R, o
    <3>7. \A b \in w.used : w.words[b[1]][b[2]] # o[b[1]][b[2]]
      BY <3>3, <3>6, EveryRowBites
    <3>8. ~\E t \in UsedWords(w.used) : w.words[t[1]][t[2]] = o[t[1]][t[2]]
      <4> SUFFICES ASSUME NEW t \in UsedWords(w.used) PROVE w.words[t[1]][t[2]] # o[t[1]][t[2]]
        OBVIOUS
      <4>1. PICK b \in w.used : t = <<b[1], b[2]>>
        BY DEF UsedWords
      <4>2. t[1] = b[1] /\ t[2] = b[2]
        BY <4>1
      <4> QED BY <3>7, <4>2
    <3>9. c = [code |-> "OK", interventions |-> canon, words |-> w.words,
               writes |-> {WriteOf(d, o, w.words, t) : t \in UsedWords(w.used)}]
      BY <2>6, <2>9, <3>4, <3>5, <3>8 DEF Written
    <3>10. c.code = "OK" /\ c.words = w.words
      BY <3>9
    <3> QED BY <2>1, <3>2, <3>3, <3>10 DEF c, o, R, n
  <2> QED BY <2>8, <2>9
<1> QED BY <1>7, <1>8

-----------------------------------------------------------------------------
(* The same words. *)

\* Two states that the same rows were written on are equal.
LEMMA RowsDecide ==
  ASSUME NEW o, LayoutFits(o), NEW R, \A r \in R : r.field \in DOMAIN Layout,
         NEW a, NEW b, RowsWritten(o, R, a), RowsWritten(o, R, b)
  PROVE  a = b
<1> DEFINE F == RowFields(R)
<1>1. \A f \in F : FieldIn(f, o) /\ GetField(a, f) = GetField(b, f)
  <2> SUFFICES ASSUME NEW f \in F PROVE FieldIn(f, o) /\ GetField(a, f) = GetField(b, f)
    OBVIOUS
  <2>1. PICK r \in R : f = Layout[r.field]
    BY DEF RowFields
  <2> QED BY <2>1 DEF LayoutFits, RowsWritten
<1>2. /\ WordsLike(a, o) /\ Keeps(a, o, FieldBits(F))
      /\ WordsLike(b, o) /\ Keeps(b, o, FieldBits(F))
  BY DEF RowsWritten
<1> HIDE DEF F
<1> QED BY <1>1, <1>2, FieldsDecide

(* One more field written: what lies apart from it is as it was.              *)
WrittenOn(o, words, bits, f, v, new) ==
    /\ WordsLike(new, o)
    /\ GetField(new, f) = v
    /\ Keeps(new, o, bits \cup BitsOf(f))
    /\ \A g : FieldIn(g, o) /\ BitsOf(g) \cap BitsOf(f) = {} => GetField(new, g) = GetField(words, g)

LEMMA SettingWritten ==
  ASSUME NEW o, NEW words, WordsLike(words, o), NEW bits, Keeps(words, o, bits), NEW f, FieldIn(f, o),
         NEW v, v \in 0 .. (2 ^ f.width - 1)
  PROVE  WrittenOn(o, words, bits, f, v, SetField(words, f, v))
<1> DEFINE new == [words EXCEPT ![f.target][f.word] = PutField(@, f, v)]
<1>1. WordsLike(new, o) /\ GetField(new, f) = v /\ SameAway(new, words, o, BitsOf(f))
  BY StateWritten
<1>0. SetField(words, f, v) = new
  BY DEF SetField
<1> HIDE DEF new
<1>2. Keeps(new, o, bits \cup BitsOf(f))
  <2>1. \A t, i, p, u : Away(bits \cup BitsOf(f), t, i, p, u) => Away(bits, t, i, p, u) /\ Away(BitsOf(f), t, i, p, u)
    BY DEF Away
  <2> QED BY <1>1, <2>1 DEF Keeps, SameAway
<1>3. ASSUME NEW g, FieldIn(g, o), BitsOf(g) \cap BitsOf(f) = {} PROVE GetField(new, g) = GetField(words, g)
  <2>1. Away(BitsOf(f), g.target, g.word, g.offset, g.width)
    <3>1. \A k \in g.offset .. (g.offset + g.width - 1) : <<g.target, g.word, k>> \in BitsOf(g)
      BY DEF BitsOf, Mask
    <3> QED BY <1>3, <3>1 DEF Away
  <2>2. Segment(new, g.target, g.word, g.offset, g.width) = Segment(words, g.target, g.word, g.offset, g.width)
    BY <1>1, <1>3, <2>1 DEF FieldIn, SameAway
  <2> QED BY <2>2, FieldIsSegment
<1> QED BY <1>0, <1>1, <1>2, <1>3 DEF WrittenOn

\* What SDK 0.4 writes for a single item is what the rows of the registry say.
LEMMA SingleLpWritten ==
  ASSUME NEW d, Valid(d), LegacyShape(d), NEW x, x.kind = "LP_REWARDS_BPS", RegistryParameterOk(x)
  PROVE  RowsWritten(OriginalWords(d), Items(Rule(x)),
                     SetField(OriginalWords(d), Layout.lpBps, x.parameters.lpBps))
<1> DEFINE o == OriginalWords(d)
           v == x.parameters.lpBps
           r == [field |-> "lpBps", from |-> {LpOriginal}, to |-> v]
           new == SetField(o, Layout.lpBps, v)
<1>1. WordsLike(o, o) /\ FieldIn(Layout.lpBps, o)
  BY OriginalsAreWords, LegacyLayout, OverlayAssumption DEF LayoutFits
<1>2. v \in 0 .. (2 ^ Layout.lpBps.width - 1)
  <2>1. LegacyNumbers(o)
    BY NumbersFit
  <2>2. 2 ^ Layout.lpBps.width \in Nat /\ LpOriginal <= 2 ^ Layout.lpBps.width
    BY <2>1 DEF LegacyNumbers
  <2>3. v \in 0 .. (LpOriginal - 1) /\ LpOriginal \in Nat
    BY OverlayAssumption DEF RegistryParameterOk
  <2> QED BY <2>2, <2>3
<1>3. Keeps(o, o, {})
  BY DEF Keeps
<1>4. RowFields(Items(Rule(x))) = {Layout.lpBps}
  BY LegacyRowFields DEF Registered
<1>5. Rule(x) = <<r>> /\ r.field = "lpBps" /\ r.to = v
  BY DEF Rule
<1> HIDE DEF o, v, r
<1>6. WrittenOn(o, o, {}, Layout.lpBps, v, new)
  BY <1>1, <1>2, <1>3, SettingWritten
<1> HIDE DEF new
<1>7. Items(<<r>>) = {r}
  BY DEF Items
<1>8. \A q \in Items(Rule(x)) : GetField(new, Layout[q.field]) = q.to
  BY <1>5, <1>6, <1>7 DEF WrittenOn
<1>9. FieldBits({Layout.lpBps}) = {} \cup BitsOf(Layout.lpBps)
  BY DEF FieldBits
<1> QED BY <1>4, <1>6, <1>8, <1>9 DEF RowsWritten, WrittenOn, o, v, new

\* The three writes of the Dynamic Fee intervention; the last one clears one bit of the mode byte.
LEMMA SingleDynamicWritten ==
  ASSUME NEW d, Valid(d), LegacyShape(d), NEW x, x.kind = "DYNAMIC_FEE",
         GetField(OriginalWords(d), Layout.rootMode) = ModeOn,
         GetField(OriginalWords(d), Layout.maxFeePips) > ProfileBase
  PROVE  RowsWritten(OriginalWords(d), Items(Rule(x)),
                     SetField(SetField(SetField(OriginalWords(d), Layout.maxFeePips, ProfileBase),
                                       Layout.dynamicFeeSens, 0),
                              ModeBit, 0))
<1> DEFINE o == OriginalWords(d)
           p == Layout.maxFeePips
           q == Layout.dynamicFeeSens
           m == Layout.rootMode
           one == SetField(o, p, ProfileBase)
           two == SetField(one, q, 0)
           new == SetField(two, ModeBit, 0)
           a == [field |-> "maxFeePips", from |-> (ProfileBase + 1) .. (2 ^ Layout.maxFeePips.width), to |-> ProfileBase]
           b == [field |-> "dynamicFeeSens", from |-> 1 .. (2 ^ Layout.dynamicFeeSens.width), to |-> 0]
           c == [field |-> "rootMode", from |-> {ModeOn}, to |-> ModeOff]
<1>1. ShippedPlaces(d)
  BY LegacyDescriptor
<1>2. WordsLike(o, o) /\ LayoutFits(o)
  BY OriginalsAreWords, LegacyLayout
<1>3. /\ FieldIn(p, o) /\ FieldIn(q, o) /\ FieldIn(FlagField, o)
      /\ FieldIn(RecaptureField, o) /\ FieldIn(ReservedField, o)
  BY <1>1, PlaceShared DEF ShippedPlaces
<1>4. /\ BitsOf(p) \cap BitsOf(q) = {}
      /\ BitsOf(p) \cap BitsOf(FlagField) = {}
      /\ BitsOf(q) \cap BitsOf(FlagField) = {}
  BY <1>1, PlacesApart DEF ShippedPlaces
<1>5. /\ BitsOf(RecaptureField) \cap BitsOf(p) = {}
      /\ BitsOf(RecaptureField) \cap BitsOf(q) = {}
      /\ BitsOf(RecaptureField) \cap BitsOf(FlagField) = {}
      /\ BitsOf(ReservedField) \cap BitsOf(p) = {}
      /\ BitsOf(ReservedField) \cap BitsOf(q) = {}
      /\ BitsOf(ReservedField) \cap BitsOf(FlagField) = {}
  BY <1>1, PlacesApart DEF ShippedPlaces
<1>6. /\ ProfileBase \in 0 .. (2 ^ p.width - 1)
      /\ 0 \in 0 .. (2 ^ q.width - 1)
      /\ 0 \in 0 .. (2 ^ FlagField.width - 1)
  <2>1. 2 ^ p.width \in Nat /\ 2 ^ q.width \in Nat \ {0} /\ 2 ^ FlagField.width \in Nat \ {0}
    BY <1>3, PowerIsPositive DEF FieldIn
  <2>2. GetField(o, p) \in 0 .. (2 ^ p.width - 1) /\ ProfileBase \in Nat
    BY NumbersFit DEF LegacyNumbers
  <2>3. ProfileBase \in 0 .. (2 ^ p.width - 1)
    BY <2>1, <2>2
  <2> QED BY <2>1, <2>3
<1>7. Keeps(o, o, {}) /\ ModeBit = FlagField
  BY DEF Keeps, ModeBit, FlagField
<1>8. ModeFromParts(o)
  BY <1>2, ModeIsItsParts
<1>9. BitsOf(FlagField) \subseteq BitsOf(m)
  BY LegacyLayout
<1>10. Rule(x) = <<a, b, c>>
  BY DEF Rule
<1>11. /\ a.field = "maxFeePips" /\ a.to = ProfileBase
       /\ b.field = "dynamicFeeSens" /\ b.to = 0
       /\ c.field = "rootMode" /\ c.to = ModeOff
  OBVIOUS
<1>12. RowFields(Items(Rule(x))) = {p, q, m}
  BY LegacyRowFields DEF Registered
<1> HIDE DEF a, b, c, p, q, m
<1>13. WrittenOn(o, o, {}, p, ProfileBase, one)
  <2> HIDE DEF o
  <2> QED BY <1>2, <1>3, <1>6, <1>7, SettingWritten
<1>14. WrittenOn(o, one, {} \cup BitsOf(p), q, 0, two)
  <2> HIDE DEF o, one
  <2>1. WordsLike(one, o) /\ Keeps(one, o, {} \cup BitsOf(p))
    BY <1>13 DEF WrittenOn
  <2> QED BY <1>3, <1>6, <2>1, SettingWritten
<1>15. WrittenOn(o, two, ({} \cup BitsOf(p)) \cup BitsOf(q), FlagField, 0, new)
  <2> HIDE DEF o, two
  <2>1. WordsLike(two, o) /\ Keeps(two, o, ({} \cup BitsOf(p)) \cup BitsOf(q))
    BY <1>14 DEF WrittenOn
  <2> QED BY <1>3, <1>6, <1>7, <2>1, SettingWritten
<1>16. WordsLike(new, o)
  BY <1>15 DEF WrittenOn
<1>17. ModeFromParts(new)
  <2> HIDE DEF new
  <2> QED BY <1>16, ModeIsItsParts
<1>18. /\ GetField(o, FlagField) = 1
       /\ GetField(o, RecaptureField) = 1
       /\ GetField(o, ReservedField) = 0
  <2>1. GetField(o, m) = 3
    BY ShippedAssumption DEF m
  <2> HIDE DEF o
  <2> QED BY <1>8, <2>1 DEF ModeFromParts, m
<1> HIDE DEF o, one, two, new
<1>19. GetField(new, p) = ProfileBase /\ GetField(new, q) = 0 /\ GetField(new, FlagField) = 0
  BY <1>3, <1>4, <1>13, <1>14, <1>15 DEF WrittenOn
<1>20. /\ GetField(new, RecaptureField) = GetField(o, RecaptureField)
       /\ GetField(new, ReservedField) = GetField(o, ReservedField)
  BY <1>3, <1>5, <1>13, <1>14, <1>15 DEF WrittenOn
<1>21. GetField(new, m) = ModeOff
  BY <1>17, <1>18, <1>19, <1>20, ShippedAssumption DEF ModeFromParts, m
<1>22. Keeps(new, o, FieldBits({p, q, m}))
  <2>1. ({} \cup BitsOf(p)) \cup BitsOf(q) \cup BitsOf(FlagField) \subseteq FieldBits({p, q, m})
    BY <1>9 DEF FieldBits
  <2>2. Keeps(new, o, (({} \cup BitsOf(p)) \cup BitsOf(q)) \cup BitsOf(FlagField))
    BY <1>15 DEF WrittenOn
  <2> DEFINE large == FieldBits({p, q, m})
             small == (({} \cup BitsOf(p)) \cup BitsOf(q)) \cup BitsOf(FlagField)
  <2>3. small \subseteq large
    BY <2>1
  <2> HIDE DEF large, small
  <2>4. \A t, i, k, u : Away(large, t, i, k, u) => Away(small, t, i, k, u)
    BY <2>3 DEF Away
  <2>5. Keeps(new, o, small)
    BY <2>2 DEF small
  <2>6. Keeps(new, o, large)
    BY <2>4, <2>5 DEF Keeps
  <2> QED BY <2>6 DEF large
<1>23. \A r \in Items(Rule(x)) : GetField(new, Layout[r.field]) = r.to
  <2>1. Items(<<a, b, c>>) = {a, b, c}
    BY DEF Items
  <2>2. Layout[a.field] = p /\ Layout[b.field] = q /\ Layout[c.field] = m
    BY <1>11 DEF p, q, m
  <2> QED BY <1>10, <1>11, <1>19, <1>21, <2>1, <2>2
<1>24. RowsWritten(o, Items(Rule(x)), new)
  BY <1>12, <1>16, <1>22, <1>23 DEF RowsWritten
<1> QED BY <1>24 DEF o, one, two, new, p, q, m

SingleFits(o, x, s) ==
    /\ s.code = "OK" => ItemOk(o, x) /\ RowsWritten(o, Items(Rule(x)), s.words)
    /\ o = PinnedWords /\ ItemOk(o, x) => s.code = "OK"

LEMMA SingleAnswer ==
  ASSUME NEW d, Valid(d), LegacyShape(d), NEW x, x.kind \in Registered
  PROVE  SingleFits(OriginalWords(d), x, SingleWrites(x, OriginalWords(d)))
<1> DEFINE o == OriginalWords(d)
           s == SingleWrites(x, o)
           there == /\ o[Layout.lpBps.target] = PinnedWords[Layout.lpBps.target]
                    /\ GetField(o, BaseFee) = ProfileBase
                    /\ GetField(o, Layout.rootMode) = ModeOn
           active == GetField(o, Layout.maxFeePips) > ProfileBase /\ GetField(o, Layout.dynamicFeeSens) > 0
           lp == SetField(o, Layout.lpBps, x.parameters.lpBps)
           dynamic == SetField(SetField(SetField(o, Layout.maxFeePips, ProfileBase), Layout.dynamicFeeSens, 0), ModeBit, 0)
<1>1. s = IF ~RegistryParameterOk(x) THEN Refused("PARAMETER")
          ELSE IF ~there THEN Refused("TARGET_STATE")
          ELSE IF x.kind = "LP_REWARDS_BPS" THEN [code |-> "OK", words |-> lp]
          ELSE IF active THEN [code |-> "OK", words |-> dynamic]
          ELSE Refused("HOOK_BLOCK_NOT_ACTIVE")
  BY DEF SingleWrites
<1>2. RegistryParameterOk(x) => (ItemOk(o, x) <=> SettingsOk(o, x))
  BY ItemSettings
<1>3. ItemOk(o, x) => RegistryParameterOk(x)
  BY DEF ItemOk
<1>4. o = PinnedWords => there
  BY ShippedAssumption DEF LegacyShape
<1>5. there => GetField(o, Layout.lpBps) = LpOriginal
  BY ShippedAssumption DEF GetField
<1>6. /\ Refused("PARAMETER").code # "OK"
      /\ Refused("TARGET_STATE").code # "OK"
      /\ Refused("HOOK_BLOCK_NOT_ACTIVE").code # "OK"
  BY DEF Refused
<1>7. CASE ~RegistryParameterOk(x)
  <2>1. s = Refused("PARAMETER")
    BY <1>1, <1>7
  <2>2. s.code # "OK"
    BY <1>6, <2>1
  <2> HIDE DEF s
  <2>3. SingleFits(o, x, s)
    BY <1>3, <1>7, <2>2 DEF SingleFits
  <2> QED BY <2>3 DEF s
<1>8. CASE RegistryParameterOk(x) /\ x.kind = "LP_REWARDS_BPS"
  <2>1. s = IF ~there THEN Refused("TARGET_STATE") ELSE [code |-> "OK", words |-> lp]
    BY <1>1, <1>8
  <2>2. RowsWritten(o, Items(Rule(x)), lp)
    BY <1>8, SingleLpWritten
  <2>3. ItemOk(o, x) <=> GetField(o, Layout.lpBps) = LpOriginal
    BY <1>2, <1>8 DEF SettingsOk
  <2> HIDE DEF s, lp, there, o
  <2>4. there => s.code = "OK" /\ s.words = lp
    BY <2>1
  <2>5. ~there => s.code # "OK"
    BY <1>6, <2>1
  <2>6. SingleFits(o, x, s)
    BY <1>4, <1>5, <2>2, <2>3, <2>4, <2>5 DEF SingleFits
  <2> QED BY <2>6 DEF s, o
<1>9. CASE RegistryParameterOk(x) /\ x.kind = "DYNAMIC_FEE"
  <2>1. s = IF ~there THEN Refused("TARGET_STATE")
            ELSE IF active THEN [code |-> "OK", words |-> dynamic]
            ELSE Refused("HOOK_BLOCK_NOT_ACTIVE")
    BY <1>1, <1>9
  <2>2. there /\ active => RowsWritten(o, Items(Rule(x)), dynamic)
    BY <1>9, SingleDynamicWritten
  <2>3. ItemOk(o, x) <=> active /\ GetField(o, Layout.rootMode) = ModeOn
    BY <1>2, <1>9 DEF SettingsOk
  <2>4. there => GetField(o, Layout.rootMode) = ModeOn
    OBVIOUS
  <2> HIDE DEF s, dynamic, there, active, o
  <2>5. there /\ active => s.code = "OK" /\ s.words = dynamic
    BY <2>1
  <2>6. ~(there /\ active) => s.code # "OK"
    BY <1>6, <2>1
  <2>7. SingleFits(o, x, s)
    BY <1>4, <2>2, <2>3, <2>4, <2>5, <2>6 DEF SingleFits
  <2> QED BY <2>7 DEF s, o
<1> QED BY <1>7, <1>8, <1>9 DEF Registered

\* The answers of the interpreter, of the registry and of SDK 0.4 agree, for every descriptor
\* with the shipped layout and kinds and every list of registered items.
THEOREM ThreeAnswers ==
  ASSUME NEW d, Valid(d), LegacyShape(d), NEW items, items \in Seq(Items(items)), Len(items) > 0,
         KindsOf(items) \subseteq Registered
  PROVE  LET o == OriginalWords(d)
         IN  SameWords(Compose(d, items, o), ComposeOverlay(items, o), SingleWrites(items[1], o),
                       Len(items) = 1, o = PinnedWords)
<1> DEFINE o == OriginalWords(d)
           c == Compose(d, items, o)
           r == ComposeOverlay(items, o)
           s == SingleWrites(items[1], o)
           n == Len(items)
           R == RowsOfItems(items, n)
           all == NoKindTwice(items) /\ \A x \in Items(items) : ItemOk(o, x)
<1>1. (c.code = "OK" <=> all) /\ (c.code = "OK" => RowsWritten(o, R, c.words))
  BY InterpreterAnswer
<1>2. (r.code = "OK" <=> all) /\ (r.code = "OK" => RowsWritten(o, R, r.words))
  BY OverlayAnswer
<1>3. n \in Nat /\ DOMAIN items = 1 .. n /\ \A x \in Items(items) : x.kind \in Registered
  BY DEF KindsOf
<1>4. LayoutFits(o)
  BY LegacyLayout
<1>5. all => \A q \in R : q.field \in DOMAIN Layout
  <2> SUFFICES ASSUME all, NEW q \in R PROVE q.field \in DOMAIN Layout
    OBVIOUS
  <2>1. PICK j \in 1 .. n : q \in Items(Rule(items[j]))
    BY DEF RowsOfItems
  <2>2. items[j] \in Items(items)
    BY <1>3 DEF Items
  <2>3. RegistryParameterOk(items[j]) /\ items[j].kind \in Registered
    BY <1>3, <2>2 DEF ItemOk
  <2> QED BY <2>1, <2>3, ItemSettings
<1>6. ASSUME n = 1
      PROVE  /\ all <=> ItemOk(o, items[1])
             /\ R = Items(Rule(items[1]))
             /\ SingleFits(o, items[1], s)
  <2>1. Items(items) = {items[1]}
    BY <1>3, <1>6 DEF Items
  <2>2. KindsOf(items) = {items[1].kind}
    BY <2>1 DEF KindsOf
  <2>3. Cardinality({items[1].kind}) = 1
    BY FS_Singleton
  <2>4. NoKindTwice(items)
    BY <1>6, <2>2, <2>3 DEF NoKindTwice
  <2>5. R = Items(Rule(items[1]))
    BY <1>6 DEF RowsOfItems
  <2>6. SingleFits(o, items[1], s)
    BY <1>3, <2>1, SingleAnswer
  <2> QED BY <2>1, <2>4, <2>5, <2>6
<1> HIDE DEF o, c, r, s, n, R, all
<1>7. c.code = "OK" => c.words = r.words
  BY <1>1, <1>2, <1>4, <1>5, RowsDecide
<1>8. n = 1 /\ s.code = "OK" => c.code = "OK" /\ s.words = c.words
  <2> SUFFICES ASSUME n = 1, s.code = "OK" PROVE c.code = "OK" /\ s.words = c.words
    OBVIOUS
  <2>1. ItemOk(o, items[1]) /\ RowsWritten(o, R, s.words)
    BY <1>6 DEF SingleFits
  <2>2. c.code = "OK" /\ RowsWritten(o, R, c.words) /\ \A q \in R : q.field \in DOMAIN Layout
    BY <1>1, <1>5, <1>6, <2>1
  <2> QED BY <1>4, <2>1, <2>2, RowsDecide
<1>9. n = 1 /\ o = PinnedWords => (s.code = "OK" <=> c.code = "OK")
  BY <1>1, <1>6, <1>8 DEF SingleFits
<1>10. SameWords(c, r, s, n = 1, o = PinnedWords)
  BY <1>1, <1>2, <1>7, <1>8, <1>9 DEF SameWords
<1> QED BY <1>10 DEF c, r, s, n, o

\* The items of a request are a list.
LEMMA RequestedItems ==
  ASSUME PrepTyped, NEW j \in Jobs, job[j].pc # "absent"
  PROVE  Wanted(j) \in Seq(Items(Wanted(j)))
<1>1. PICK s \in Starts, i \in Jobs : job[j].request = s.requests[i]
  BY DEF PrepTyped, Requests
<1>2. job[j].request # NoFile
  BY DEF PrepTyped
<1> QED BY <1>1, <1>2, PreparationAssumption DEF Wanted

\* Whenever a preparation is about to begin, the installed descriptor composes its request
\* as a parallel assignment, in whatever order the items are given, and neither check that
\* compose makes on its own result can fail: for every descriptor that validate accepts,
\* of any number of fields, kinds, rules and bits (profile_descriptor.py 606-652).
THEOREM ParallelAssignmentHolds == PSpec => []ParallelAssignment
<1>1. ASSUME PInv, NEW j \in Jobs, job[j].pc = "new", installed.bytes \in Loadable
      PROVE  LET d == Documents[installed.bytes]
             IN  ComposesInParallel(d, Wanted(j), Compose(d, Wanted(j), OriginalWords(d)))
  <2>1. Wanted(j) \in Seq(Items(Wanted(j)))
    BY <1>1, RequestedItems DEF PInv
  <2>2. Valid(Documents[installed.bytes])
    BY <1>1 DEF Loadable
  <2> QED BY <2>1, <2>2, ComposeInParallel
<1>2. PInv => ParallelAssignment
  BY <1>1 DEF ParallelAssignment
<1> QED BY <1>2, PreparationInductive, PTL

\* Whenever a preparation of registered items is about to begin under a descriptor with the
\* shipped layout and kinds, and the pinned base fee, interpreter and registry accept it alike
\* and write the same words; what SDK 0.4 wrote for a single item are those words, and on the
\* pinned originals it accepts the same: for words of any width, any settings and any
\* parameters (config_overlay.py 86-118, interventions.py 40-76).
THEOREM LegacyParityHolds == PSpec => []LegacyParity
<1>1. ASSUME PInv, NEW j \in Jobs, job[j].pc = "new", installed.bytes \in Loadable,
             LegacyShape(Documents[installed.bytes]), Len(Wanted(j)) > 0,
             {x.kind : x \in Items(Wanted(j))} \subseteq Registered
      PROVE  LET d == Documents[installed.bytes]
                 words == OriginalWords(d)
             IN  SameWords(Compose(d, Wanted(j), words), ComposeOverlay(Wanted(j), words), SingleWrites(Wanted(j)[1], words),
                           Len(Wanted(j)) = 1, words = PinnedWords)
  <2>1. Wanted(j) \in Seq(Items(Wanted(j)))
    BY <1>1, RequestedItems DEF PInv
  <2>2. Valid(Documents[installed.bytes])
    BY <1>1 DEF Loadable
  <2>3. KindsOf(Wanted(j)) \subseteq Registered
    BY <1>1 DEF KindsOf
  <2> QED BY <1>1, <2>1, <2>2, <2>3, ThreeAnswers
<1>2. PInv => LegacyParity
  BY <1>1 DEF LegacyParity
<1> QED BY <1>2, PreparationInductive, PTL
=============================================================================
