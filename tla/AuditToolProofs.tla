--------------------------- MODULE AuditToolProofs ---------------------------
(***************************************************************************)
(* Proofs about AuditTools, for any sizes and figures of what the commands *)
(* and the recorder work on.                                               *)
(*                                                                         *)
(* RuleSets: what G5 forbids and the agreement of precision and counters   *)
(* hold for commands that overlap and are killed; that no move is logged   *)
(* twice holds for commands run one at a time, killed or not; the rest for *)
(* commands run one at a time, until one of them is killed.                *)
(***************************************************************************)
EXTENDS AuditTools, FiniteSetTheorems, TLAPS

-----------------------------------------------------------------------------
\* What the commands compute

LEMMA PrecisionType ==
  ASSUME NEW tp \in Nat, NEW fp \in Nat
  PROVE  Precision(tp, fp) \in Nat \cup {NoPrecision}
<1>1. CASE tp + fp > 0
  <2>1. 20000 * tp + tp + fp \in Nat /\ 2 * (tp + fp) \in Nat \ {0}
    BY <1>1
  <2>2. \A n \in Nat, d \in Nat \ {0} : n \div d \in Nat
    OBVIOUS
  <2>. QED
    BY <1>1, <2>1, <2>2 DEF Precision
<1>. QED
  BY <1>1 DEF Precision

LEMMA ApplyStatsType ==
  ASSUME NEW e \in Entry, NEW s \in Stat
  PROVE  /\ ApplyStats(e, s) \in Entry
         /\ ApplyStats(e, s).precision = Precision(ApplyStats(e, s).tp, ApplyStats(e, s).fp)
<1>1. e.tp + s.tp \in Nat /\ e.fp + s.fp \in Nat /\ e.hits + s.hits \in Nat /\ e.sessions + 1 \in Nat
  BY DEF Entry, Stat
<1>2. Precision(e.tp + s.tp, e.fp + s.fp) \in Nat \cup {NoPrecision}
  BY <1>1, PrecisionType
<1>. QED
  BY <1>1, <1>2 DEF ApplyStats, Entry

LEMMA ArchivedType == Archived \in Entry
  BY DEF Archived, Entry, NoPrecision

LEMMA CountedAt ==
  ASSUME NEW report \in [Rules -> Stat], NEW got \in [Files -> Set], NEW f \in Files, NEW r \in Rules
  PROVE  /\ Counted(report, got)[f][r] \in Seq(Entry)
         /\ Len(Counted(report, got)[f][r]) = Len(got[f][r])
         /\ \A i \in DOMAIN Counted(report, got)[f][r] :
              /\ i \in DOMAIN got[f][r]
              /\ Counted(report, got)[f][r][i] = ApplyStats(got[f][r][i], report[r])
<1>. DEFINE s == got[f][r]
<1>1. s \in Seq(Entry) /\ report[r] \in Stat
  BY DEF Set
<1>2. Counted(report, got)[f][r] = [i \in DOMAIN s |-> ApplyStats(s[i], report[r])]
  BY DEF Counted
<1>3. \A i \in 1 .. Len(s) : ApplyStats(s[i], report[r]) \in Entry
  BY <1>1, ApplyStatsType
<1>. HIDE DEF s
<1>4. [i \in DOMAIN s |-> ApplyStats(s[i], report[r])] \in [1 .. Len(s) -> Entry]
  BY <1>1, <1>3
<1>. QED
  BY <1>1, <1>2, <1>4 DEF s

LEMMA CountedType ==
  ASSUME NEW report \in [Rules -> Stat], NEW got \in [Files -> Set]
  PROVE  Counted(report, got) \in [Files -> Set]
  BY CountedAt DEF Counted, Set

\* The entry a promoted rule takes along
Carried(got, r) == [got["quarantine"][r][1] EXCEPT !.sessions = 0]

LEMMA CarriedType ==
  ASSUME NEW got \in [Files -> Set], NEW r \in Rules, got["quarantine"][r] # <<>>
  PROVE  /\ Carried(got, r) \in Entry
         /\ 1 \in DOMAIN got["quarantine"][r]
         /\ Carried(got, r).tp = got["quarantine"][r][1].tp
         /\ Carried(got, r).fp = got["quarantine"][r][1].fp
         /\ Carried(got, r).precision = got["quarantine"][r][1].precision
<1>1. got["quarantine"][r] \in Seq(Entry)
  BY DEF Files, Set
<1>2. 1 \in DOMAIN got["quarantine"][r] /\ got["quarantine"][r][1] \in Entry
  BY <1>1
<1>. QED
  BY <1>2 DEF Carried, Entry

LEMMA OneFold == \A x : [n \in 1 .. 1 |-> x] = <<x>>
  OBVIOUS

LEMMA NoFold == \A x : [n \in 1 .. 0 |-> x] = <<>>
  OBVIOUS

\* What a valid delta does to rule r: at most one move.
LEMMA AppliedAt ==
  ASSUME NEW d \in Delta, NEW got \in [Files -> Set], ValidDelta(d, got), NEW r \in Rules
  PROVE  /\ d.promote[r] > 0 =>
              /\ r \notin Gated /\ got["quarantine"][r] # <<>> /\ ~ d.deprecate[r] > 0
              /\ Applied(d, got)["active"][r] = Append(got["active"][r], Carried(got, r))
              /\ Applied(d, got)["quarantine"][r] = <<>>
              /\ Applied(d, got)["deprecated"][r] = got["deprecated"][r]
         /\ d.deprecate[r] > 0 =>
              /\ got["active"][r] # <<>> /\ ~ d.promote[r] > 0
              /\ Applied(d, got)["active"][r] = <<>>
              /\ Applied(d, got)["quarantine"][r] = got["quarantine"][r]
              /\ Applied(d, got)["deprecated"][r] = Append(got["deprecated"][r], Archived)
         /\ ~ d.promote[r] > 0 /\ ~ d.deprecate[r] > 0 =>
              \A f \in Files : Applied(d, got)[f][r] = got[f][r]
<1>. DEFINE a == got["active"][r]
            q == got["quarantine"][r]
            x == got["deprecated"][r]
            m == d.promote[r]
            n == d.deprecate[r]
<1>1. a \in Seq(Entry) /\ q \in Seq(Entry) /\ x \in Seq(Entry) /\ m \in Nat /\ n \in Nat
  BY DEF Files, Set, Delta
<1>2. /\ Applied(d, got)["active"][r] =
           (IF n > 0 THEN <<>> ELSE a) \o [k \in 1 .. m |-> Carried(got, r)]
      /\ Applied(d, got)["quarantine"][r] = IF m > 0 THEN <<>> ELSE q
      /\ Applied(d, got)["deprecated"][r] = x \o [k \in 1 .. n |-> Archived]
  BY DEF Applied, Files, NewActive, NewQuarantine, NewDeprecated, Carried
<1>3. /\ m + n <= 1 /\ (m > 0 => q # <<>> /\ r \notin Gated) /\ (n > 0 => a # <<>>)
  BY DEF ValidDelta
<1>. HIDE DEF a, q, x, m, n
<1>4. CASE m > 0
  <2>1. m = 1 /\ n = 0
    BY <1>1, <1>3, <1>4
  <2>2. Carried(got, r) \in Entry
    BY <1>3, <1>4, CarriedType DEF q
  <2>3. a \o <<Carried(got, r)>> = Append(a, Carried(got, r)) /\ x \o <<>> = x
    BY <1>1, <2>2
  <2>. QED
    BY <1>2, <1>3, <2>1, <2>3, OneFold, NoFold DEF a, q, x, m, n
<1>5. CASE n > 0
  <2>1. m = 0 /\ n = 1
    BY <1>1, <1>3, <1>5
  <2>2. x \o <<Archived>> = Append(x, Archived) /\ <<>> \o <<>> = <<>>
    BY <1>1, ArchivedType
  <2>. QED
    BY <1>2, <1>3, <2>1, <2>2, OneFold, NoFold DEF a, q, x, m, n
<1>6. CASE ~ m > 0 /\ ~ n > 0
  <2>1. m = 0 /\ n = 0
    BY <1>1, <1>6
  <2>2. a \o <<>> = a /\ x \o <<>> = x
    BY <1>1
  <2>3. [k \in 1 .. m |-> Carried(got, r)] = <<>> /\ [k \in 1 .. n |-> Archived] = <<>>
    BY <2>1, NoFold
  <2>4. /\ Applied(d, got)["active"][r] = a /\ Applied(d, got)["quarantine"][r] = q
        /\ Applied(d, got)["deprecated"][r] = x
    BY <1>2, <2>1, <2>2, <2>3
  <2>5. \A f \in Files : Applied(d, got)[f][r] = got[f][r]
    BY <2>4 DEF a, q, x, Files
  <2>. QED
    BY <1>6, <2>5 DEF m, n
<1>. QED
  BY <1>4, <1>5, <1>6

LEMMA AppliedType ==
  ASSUME NEW d \in Delta, NEW got \in [Files -> Set], ValidDelta(d, got)
  PROVE  Applied(d, got) \in [Files -> Set]
<1>1. ASSUME NEW f \in Files, NEW r \in Rules PROVE Applied(d, got)[f][r] \in Seq(Entry)
  <2>1. \A g \in Files : got[g][r] \in Seq(Entry)
    BY DEF Set
  <2>4. \A s \in Seq(Entry), e \in Entry : Append(s, e) \in Seq(Entry)
    OBVIOUS
  <2>5. f \in {"active", "quarantine", "deprecated"} /\ <<>> \in Seq(Entry)
    BY DEF Files
  <2>2. CASE d.promote[r] > 0
    <3>1. Carried(got, r) \in Entry
      BY <2>2, AppliedAt, CarriedType
    <3>2. Append(got["active"][r], Carried(got, r)) \in Seq(Entry)
      BY <2>1, <2>4, <3>1 DEF Files
    <3>3. /\ Applied(d, got)["active"][r] \in Seq(Entry)
          /\ Applied(d, got)["quarantine"][r] \in Seq(Entry)
          /\ Applied(d, got)["deprecated"][r] \in Seq(Entry)
      BY <2>1, <2>2, <2>5, <3>2, AppliedAt, ZenonT(60) DEF Files
    <3>. QED
      BY <2>5, <3>3
  <2>3. CASE d.deprecate[r] > 0
    <3>1. Append(got["deprecated"][r], Archived) \in Seq(Entry)
      BY <2>1, <2>4, ArchivedType DEF Files
    <3>3. /\ Applied(d, got)["active"][r] \in Seq(Entry)
          /\ Applied(d, got)["quarantine"][r] \in Seq(Entry)
          /\ Applied(d, got)["deprecated"][r] \in Seq(Entry)
      BY <2>1, <2>3, <2>5, <3>1, AppliedAt DEF Files
    <3>. QED
      BY <2>5, <3>3
  <2>. QED
    BY <2>1, <2>2, <2>3, AppliedAt
<1>. QED
  BY <1>1 DEF Applied, Files, NewActive, NewQuarantine, NewDeprecated, Set

LEMMA ProposalsType ==
  ASSUME NEW got \in [Files -> Set], NEW trend, NEW eResp
  PROVE  ComputeProposals(got, trend, eResp) \in Delta
<1>1. ASSUME NEW f \in Files, NEW r \in Rules, NEW S, S \subseteq DOMAIN got[f][r]
      PROVE  Cardinality(S) \in Nat
  <2>1. IsFiniteSet(DOMAIN got[f][r])
    <3>1. got[f][r] \in Seq(Entry)
      BY DEF Set
    <3>2. DOMAIN got[f][r] = 1 .. Len(got[f][r]) /\ Len(got[f][r]) \in Nat
      BY <3>1
    <3>. QED
      BY <3>2, FS_Interval
  <2>. QED
    BY <1>1, <2>1, FS_Subset, FS_CardinalityType
<1>2. \A r \in Rules :
        /\ Cardinality({i \in DOMAIN got["quarantine"][r] : Proven(r, got["quarantine"][r][i])}) \in Nat
        /\ Cardinality({i \in DOMAIN got["active"][r] : Unfit(got["active"][r][i])}) \in Nat
  BY <1>1 DEF Files
<1>. QED
  BY <1>2 DEF ComputeProposals, Delta

-----------------------------------------------------------------------------
\* The passes of a command over its files

Good(t) == t \in Proc /\ t.i <= Len(Targets(t.cmd))

LEMMA TargetsFacts ==
  /\ \A cmd : Len(Targets(cmd)) = IF cmd = "apply" THEN 3 ELSE 2
  /\ \A cmd : Targets(cmd)[1] = "active" /\ Targets(cmd)[2] = "quarantine"
  /\ Targets("apply")[3] = "deprecated"
  BY DEF Targets

LEMMA TargetIsFile ==
  ASSUME NEW t, Good(t)
  PROVE  Target(t) \in Files
<1>1. t.i \in 1 .. 3 /\ t.i <= Len(Targets(t.cmd))
  BY DEF Good, Proc
<1>2. t.i = 3 => t.cmd = "apply"
  BY <1>1, TargetsFacts
<1>3. t.i = 1 \/ t.i = 2 \/ t.i = 3
  BY <1>1
<1>. QED
  BY <1>2, <1>3, TargetsFacts DEF Target, Files

LEMMA PcFacts ==
  ASSUME NEW t \in Proc, NEW x \in Pcs, NEW u, u = [t EXCEPT !.pc = x]
  PROVE  /\ u \in Proc /\ u.pc = x /\ u.cmd = t.cmd /\ u.i = t.i /\ u.delta = t.delta
         /\ u.report = t.report /\ u.got = t.got /\ u.snap = t.snap /\ u.out = t.out
  BY DEF Proc

\* What is left of a command when a step of a pass is done
LEMMA AdvanceFacts ==
  ASSUME NEW t, Good(t), NEW then \in Pcs
  PROVE  /\ Good(Advance(t, then))
         /\ Advance(t, then).cmd = t.cmd /\ Advance(t, then).delta = t.delta
         /\ Advance(t, then).report = t.report
         /\ Advance(t, then).got = t.got /\ Advance(t, then).snap = t.snap
         /\ Advance(t, then).out = t.out
         /\ t.i < Len(Targets(t.cmd)) => Advance(t, then).pc = t.pc /\ Advance(t, then).i = t.i + 1
         /\ ~ t.i < Len(Targets(t.cmd)) => Advance(t, then).pc = then /\ Advance(t, then).i = 1
<1>. DEFINE n == Len(Targets(t.cmd))
<1>1. t \in Proc /\ t.i \in 1 .. 3 /\ t.i <= n /\ n \in {2, 3}
  BY TargetsFacts DEF Good, Proc
<1>. HIDE DEF n
<1>2. CASE t.i < n
  <2>1. Advance(t, then) = [t EXCEPT !.i = t.i + 1]
    BY <1>2 DEF Advance, n
  <2>2. t.i + 1 \in 1 .. 3 /\ t.i + 1 <= n
    BY <1>1, <1>2
  <2>3. /\ Advance(t, then) \in Proc /\ Advance(t, then).i = t.i + 1
        /\ Advance(t, then).pc = t.pc /\ Advance(t, then).cmd = t.cmd
        /\ Advance(t, then).delta = t.delta /\ Advance(t, then).report = t.report
        /\ Advance(t, then).got = t.got /\ Advance(t, then).snap = t.snap
        /\ Advance(t, then).out = t.out
    BY <1>1, <2>1, <2>2 DEF Proc
  <2>. QED
    BY <1>2, <2>2, <2>3 DEF Good, n
<1>3. CASE ~ t.i < n
  <2>1. Advance(t, then) = [t EXCEPT !.i = 1, !.pc = then]
    BY <1>3 DEF Advance, n
  <2>2. [t EXCEPT !.i = 1] \in Proc
    BY <1>1 DEF Proc
  <2>3. /\ Advance(t, then) \in Proc /\ Advance(t, then).i = 1
        /\ Advance(t, then).pc = then /\ Advance(t, then).cmd = t.cmd
        /\ Advance(t, then).delta = t.delta /\ Advance(t, then).report = t.report
        /\ Advance(t, then).got = t.got /\ Advance(t, then).snap = t.snap
        /\ Advance(t, then).out = t.out
    <3>2. /\ [t EXCEPT !.i = 1].i = 1 /\ [t EXCEPT !.i = 1].cmd = t.cmd
          /\ [t EXCEPT !.i = 1].delta = t.delta /\ [t EXCEPT !.i = 1].report = t.report
          /\ [t EXCEPT !.i = 1].got = t.got /\ [t EXCEPT !.i = 1].snap = t.snap
          /\ [t EXCEPT !.i = 1].out = t.out
      BY <1>1 DEF Proc
    <3>3. Advance(t, then) = [[t EXCEPT !.i = 1] EXCEPT !.pc = then]
      BY <2>1
    <3>. DEFINE v == [t EXCEPT !.i = 1]
    <3>. HIDE DEF v
    <3>4. [v EXCEPT !.pc = then] = Advance(t, then) /\ v \in Proc
      BY <2>2, <3>3 DEF v
    <3>5. /\ v.i = 1 /\ v.cmd = t.cmd /\ v.delta = t.delta /\ v.report = t.report
          /\ v.got = t.got /\ v.snap = t.snap /\ v.out = t.out
      BY <3>2 DEF v
    <3>. QED
      BY <3>4, <3>5, PcFacts
  <2>. QED
    BY <1>1, <1>3, <2>3 DEF Good, n
<1>. QED
  BY <1>2, <1>3 DEF n

\* A file read into got, or into snap
LEMMA GotFacts ==
  ASSUME NEW t, Good(t), NEW F \in [Files -> Set], NEW u,
         u = [t EXCEPT !.got[Target(t)] = F[Target(t)]]
  PROVE  /\ Good(u) /\ u.pc = t.pc /\ u.cmd = t.cmd /\ u.i = t.i /\ u.delta = t.delta
         /\ u.report = t.report /\ u.snap = t.snap /\ u.out = t.out
         /\ u.got = [t.got EXCEPT ![Target(t)] = F[Target(t)]]
<1>1. t \in Proc /\ t.i <= Len(Targets(t.cmd)) /\ Target(t) \in Files
  BY TargetIsFile DEF Good
<1>2. t.got \in [Files -> Set] /\ F[Target(t)] \in Set
  BY <1>1 DEF Proc
<1>. DEFINE g == [t.got EXCEPT ![Target(t)] = F[Target(t)]]
<1>3. g \in [Files -> Set]
  BY <1>1, <1>2
<1>4. u = [t EXCEPT !.got = g]
  BY <1>1
<1>. HIDE DEF g
<1>5. /\ u \in Proc /\ u.pc = t.pc /\ u.cmd = t.cmd /\ u.i = t.i /\ u.delta = t.delta
      /\ u.report = t.report /\ u.snap = t.snap /\ u.out = t.out /\ u.got = g
  BY <1>1, <1>3, <1>4 DEF Proc
<1>. QED
  BY <1>1, <1>5 DEF Good, g

LEMMA SnapFacts ==
  ASSUME NEW t, Good(t), NEW F \in [Files -> Set], NEW u,
         u = [t EXCEPT !.snap[Target(t)] = F[Target(t)]]
  PROVE  /\ Good(u) /\ u.pc = t.pc /\ u.cmd = t.cmd /\ u.i = t.i /\ u.delta = t.delta
         /\ u.report = t.report /\ u.got = t.got /\ u.out = t.out
         /\ u.snap = [t.snap EXCEPT ![Target(t)] = F[Target(t)]]
<1>1. t \in Proc /\ t.i <= Len(Targets(t.cmd)) /\ Target(t) \in Files
  BY TargetIsFile DEF Good
<1>2. t.snap \in [Files -> Set] /\ F[Target(t)] \in Set
  BY <1>1 DEF Proc
<1>. DEFINE g == [t.snap EXCEPT ![Target(t)] = F[Target(t)]]
<1>3. g \in [Files -> Set]
  BY <1>1, <1>2
<1>4. u = [t EXCEPT !.snap = g]
  BY <1>1
<1>. HIDE DEF g
<1>5. /\ u \in Proc /\ u.pc = t.pc /\ u.cmd = t.cmd /\ u.i = t.i /\ u.delta = t.delta
      /\ u.report = t.report /\ u.got = t.got /\ u.out = t.out /\ u.snap = g
  BY <1>1, <1>3, <1>4 DEF Proc
<1>. QED
  BY <1>1, <1>5 DEF Good, g

LEMMA EmptyType == Empty \in [Files -> Set] /\ NoDelta \in Delta
  BY DEF Empty, Set, NoDelta, Delta

LEMMA IdleFacts ==
  /\ Good(Idle) /\ Idle.pc = "idle" /\ Idle.cmd = "none"
  /\ Idle.got = Empty /\ Idle.snap = Empty /\ Idle.out = Empty
<1>1. NoReport \in [Rules -> Stat]
  BY DEF NoReport, Stat
<1>2. Idle \in Proc
  BY <1>1, EmptyType DEF Idle, Proc, Pcs
<1>. QED
  BY <1>2, TargetsFacts DEF Idle, Good

\* What Compute hands to commitFiles
WithOutput(t, o) == [t EXCEPT !.pc = "snap", !.out = o]

LEMMA ComputeFacts ==
  ASSUME NEW t, Good(t), NEW o \in [Files -> Set], NEW u,
         u = WithOutput(t, o)
  PROVE  /\ Good(u) /\ u.pc = "snap" /\ u.cmd = t.cmd /\ u.i = t.i /\ u.delta = t.delta
         /\ u.report = t.report /\ u.got = t.got /\ u.snap = t.snap /\ u.out = o
<1>. DEFINE v == [t EXCEPT !.pc = "snap"]
<1>1. t \in Proc /\ t.i <= Len(Targets(t.cmd))
  BY DEF Good
<1>2. "snap" \in Pcs
  BY DEF Pcs
<1>3. /\ v \in Proc /\ v.pc = "snap" /\ v.cmd = t.cmd /\ v.i = t.i /\ v.delta = t.delta
      /\ v.report = t.report /\ v.got = t.got /\ v.snap = t.snap
  BY <1>1, <1>2, PcFacts
<1>4. u = [v EXCEPT !.out = o]
  BY DEF WithOutput
<1>. HIDE DEF v
<1>5. /\ u \in Proc /\ u.pc = v.pc /\ u.cmd = v.cmd /\ u.i = v.i /\ u.delta = v.delta
      /\ u.report = v.report /\ u.got = v.got /\ u.snap = v.snap /\ u.out = o
  BY <1>3, <1>4 DEF Proc
<1>. QED
  BY <1>1, <1>3, <1>5 DEF Good

LEMMA DeltaFacts ==
  ASSUME NEW t \in Proc, NEW x \in Delta, NEW u, u = [t EXCEPT !.delta = x]
  PROVE  /\ u \in Proc /\ u.delta = x
         /\ u.pc = t.pc /\ u.cmd = t.cmd /\ u.i = t.i /\ u.report = t.report
         /\ u.got = t.got /\ u.snap = t.snap /\ u.out = t.out
  BY DEF Proc

LEMMA ReportFacts ==
  ASSUME NEW t \in Proc, NEW x \in [Rules -> Stat], NEW u, u = [t EXCEPT !.report = x]
  PROVE  /\ u \in Proc /\ u.report = x
         /\ u.pc = t.pc /\ u.cmd = t.cmd /\ u.i = t.i /\ u.delta = t.delta
         /\ u.got = t.got /\ u.snap = t.snap /\ u.out = t.out
  BY DEF Proc

\* A command as it starts
LEMMA FreshFacts ==
  ASSUME NEW c \in {"apply", "propose", "count"},
         NEW u, u = [Idle EXCEPT !.pc = "read", !.cmd = c]
  PROVE  /\ Good(u) /\ u.pc = "read" /\ u.cmd = c /\ u.i = 1
         /\ u.got = Empty /\ u.snap = Empty /\ u.out = Empty
<1>. DEFINE v == [Idle EXCEPT !.pc = "read"]
<1>1. Idle \in Proc /\ Idle.i = 1 /\ "read" \in Pcs /\ c \in {"none", "apply", "propose", "count"}
  BY IdleFacts DEF Good, Idle, Pcs
<1>2. /\ v \in Proc /\ v.pc = "read" /\ v.i = 1
      /\ v.got = Empty /\ v.snap = Empty /\ v.out = Empty
  BY <1>1, IdleFacts, PcFacts
<1>3. u = [v EXCEPT !.cmd = c]
  OBVIOUS
<1>. HIDE DEF v
<1>4. /\ u \in Proc /\ u.pc = v.pc /\ u.cmd = c /\ u.i = v.i
      /\ u.got = v.got /\ u.snap = v.snap /\ u.out = v.out
  BY <1>1, <1>2, <1>3 DEF Proc
<1>. QED
  BY <1>2, <1>4, TargetsFacts DEF Good

-----------------------------------------------------------------------------
\* Each step of a command, as a change of its record: what the invariants
\* below need of it

\* Command p becomes u; the others stay.
Becomes(p, u) == proc' = [proc EXCEPT ![p] = u]

ProcsGood == proc \in [Procs -> Proc] /\ \A p \in Procs : Good(proc[p])

LEMMA TypeGood ==
  ASSUME TypeOK
  PROVE  ProcsGood
  BY DEF TypeOK, ProcsGood, Good

LEMMA BecomesFacts ==
  ASSUME ProcsGood, NEW p \in Procs, NEW u, Good(u), Becomes(p, u)
  PROVE  /\ ProcsGood' /\ proc'[p] = u
         /\ \A q \in Procs \ {p} : proc'[q] = proc[q]
<1>1. proc \in [Procs -> Proc] /\ u \in Proc
  BY DEF ProcsGood, Good
<1>2. proc' \in [Procs -> Proc] /\ proc'[p] = u /\ \A q \in Procs \ {p} : proc'[q] = proc[q]
  BY <1>1 DEF Becomes
<1>3. \A q \in Procs : Good(proc'[q])
  BY <1>2 DEF ProcsGood
<1>. QED
  BY <1>2, <1>3 DEF ProcsGood, Good

Started(p, u, c) ==
  /\ proc[p].pc = "idle" /\ Good(u) /\ u.pc = "read" /\ u.cmd = c /\ u.i = 1
  /\ u.got = Empty /\ u.snap = Empty /\ u.out = Empty

LEMMA StartStep ==
  ASSUME TypeOK, NEW p \in Procs,
         StartApply(p) \/ StartPropose(p) \/ StartCount(p)
  PROVE  /\ \E u, c : c \in {"apply", "propose", "count"} /\ Becomes(p, u) /\ Started(p, u, c)
         /\ UNCHANGED <<file, delta, log, crashes>>
<1>1. CASE StartApply(p)
  <2>. DEFINE v == [Idle EXCEPT !.pc = "read", !.cmd = "apply"]
              u == [v EXCEPT !.delta = delta]
  <2>1. /\ Good(v) /\ v.pc = "read" /\ v.cmd = "apply" /\ v.i = 1
        /\ v.got = Empty /\ v.snap = Empty /\ v.out = Empty
    BY FreshFacts
  <2>2. proc[p].pc = "idle" /\ Becomes(p, u)
    BY <1>1 DEF StartApply, Becomes
  <2>. HIDE DEF v
  <2>3. /\ u \in Proc /\ u.pc = v.pc /\ u.cmd = v.cmd /\ u.i = v.i
        /\ u.got = v.got /\ u.snap = v.snap /\ u.out = v.out
    BY <2>1, DeltaFacts DEF Good, TypeOK
  <2>. HIDE DEF u
  <2>4. Started(p, u, "apply")
    BY <2>1, <2>2, <2>3, TargetsFacts DEF Good, Started
  <2>. QED
    BY <1>1, <2>2, <2>4 DEF StartApply
<1>2. CASE StartPropose(p)
  <2>. DEFINE u == [Idle EXCEPT !.pc = "read", !.cmd = "propose"]
  <2>1. /\ Good(u) /\ u.pc = "read" /\ u.cmd = "propose" /\ u.i = 1
        /\ u.got = Empty /\ u.snap = Empty /\ u.out = Empty
    BY FreshFacts
  <2>2. proc[p].pc = "idle" /\ Becomes(p, u)
    BY <1>2 DEF StartPropose, Becomes
  <2>. HIDE DEF u
  <2>3. Started(p, u, "propose")
    BY <2>1, <2>2 DEF Started
  <2>. QED
    BY <1>2, <2>2, <2>3 DEF StartPropose
<1>3. CASE StartCount(p)
  <2>1. PICK report \in Reports :
          /\ proc[p].pc = "idle"
          /\ Becomes(p, [Idle EXCEPT !.pc = "read", !.cmd = "count", !.report = report])
          /\ UNCHANGED <<file, delta, log, crashes>>
    BY <1>3 DEF StartCount, Becomes
  <2>. DEFINE v == [Idle EXCEPT !.pc = "read", !.cmd = "count"]
              u == [v EXCEPT !.report = report]
  <2>2. /\ Good(v) /\ v.pc = "read" /\ v.cmd = "count" /\ v.i = 1
        /\ v.got = Empty /\ v.snap = Empty /\ v.out = Empty
    BY FreshFacts
  <2>3. Becomes(p, u)
    BY <2>1 DEF Becomes
  <2>. HIDE DEF v
  <2>4. /\ u \in Proc /\ u.pc = v.pc /\ u.cmd = v.cmd /\ u.i = v.i
        /\ u.got = v.got /\ u.snap = v.snap /\ u.out = v.out
    BY <2>2, ReportFacts, RulesAssumption DEF Good
  <2>. HIDE DEF u
  <2>5. Started(p, u, "count")
    BY <2>1, <2>2, <2>4, TargetsFacts DEF Good, Started
  <2>. QED
    BY <2>1, <2>3, <2>5
<1>. QED
  BY <1>1, <1>2, <1>3

\* Read, Snap and Compute change the record to what GotFacts, SnapFacts,
\* ComputeFacts and AdvanceFacts say of it.
ReadInto(t) == [t EXCEPT !.got[Target(t)] = file[Target(t)]]
SnapInto(t) == [t EXCEPT !.snap[Target(t)] = file[Target(t)]]
Output(t) == IF t.cmd = "apply" THEN Applied(t.delta, t.got) ELSE Counted(t.report, t.got)

LEMMA OutputType ==
  ASSUME NEW t, Good(t), t.cmd = "apply" => ValidDelta(t.delta, t.got)
  PROVE  Output(t) \in [Files -> Set]
<1>1. t.delta \in Delta /\ t.report \in [Rules -> Stat] /\ t.got \in [Files -> Set]
  BY DEF Good, Proc
<1>. QED
  BY <1>1, AppliedType, CountedType DEF Output

\* Where a step of a pass leaves t: in the same pass, or past it at pc then
Past(t, u, then) ==
  \/ t.i < Len(Targets(t.cmd)) /\ u.pc = t.pc /\ u.i = t.i + 1
  \/ t.i = Len(Targets(t.cmd)) /\ u.pc = then /\ u.i = 1

LEMMA ReadStep ==
  ASSUME TypeOK, NEW p \in Procs, Read(p)
  PROVE  \E u : /\ Good(proc[p]) /\ Good(u) /\ Becomes(p, u) /\ proc[p].pc = "read"
                /\ Past(proc[p], u, "compute")
                /\ u.got = [proc[p].got EXCEPT ![Target(proc[p])] = file[Target(proc[p])]]
                /\ u.cmd = proc[p].cmd /\ u.delta = proc[p].delta /\ u.report = proc[p].report
                /\ u.snap = proc[p].snap /\ u.out = proc[p].out
<1>. DEFINE t == proc[p]
            v == ReadInto(t)
            u == Advance(v, "compute")
<1>1. Good(t) /\ file \in [Files -> Set] /\ t.pc = "read" /\ Becomes(p, u) /\ "compute" \in Pcs
  BY TypeGood DEF Read, ProcsGood, TypeOK, Becomes, ReadInto, Pcs
<1>2. t.i \in 1 .. 3 /\ t.i <= Len(Targets(t.cmd)) /\ Len(Targets(t.cmd)) \in Nat
  BY <1>1, TargetsFacts DEF Good, Proc
<1>. HIDE DEF t
<1>3. /\ Good(v) /\ v.pc = t.pc /\ v.cmd = t.cmd /\ v.i = t.i /\ v.delta = t.delta
      /\ v.report = t.report /\ v.snap = t.snap /\ v.out = t.out
      /\ v.got = [t.got EXCEPT ![Target(t)] = file[Target(t)]]
  BY <1>1, GotFacts, ZenonT(60) DEF ReadInto
<1>. HIDE DEF v
<1>4. Past(t, u, "compute")
  BY <1>1, <1>2, <1>3, AdvanceFacts DEF Past
<1>5. /\ Good(u) /\ u.cmd = t.cmd /\ u.delta = t.delta
      /\ u.report = t.report /\ u.snap = t.snap /\ u.out = t.out
      /\ u.got = [t.got EXCEPT ![Target(t)] = file[Target(t)]]
  BY <1>1, <1>3, AdvanceFacts
<1>. QED
  BY <1>1, <1>4, <1>5 DEF t

LEMMA SnapStep ==
  ASSUME TypeOK, NEW p \in Procs, Snap(p)
  PROVE  \E u : /\ Good(proc[p]) /\ Good(u) /\ Becomes(p, u) /\ proc[p].pc = "snap"
                /\ Past(proc[p], u, "write")
                /\ u.snap = [proc[p].snap EXCEPT ![Target(proc[p])] = file[Target(proc[p])]]
                /\ u.cmd = proc[p].cmd /\ u.delta = proc[p].delta /\ u.report = proc[p].report
                /\ u.got = proc[p].got /\ u.out = proc[p].out
<1>. DEFINE t == proc[p]
            v == SnapInto(t)
            u == Advance(v, "write")
<1>1. Good(t) /\ file \in [Files -> Set] /\ t.pc = "snap" /\ Becomes(p, u) /\ "write" \in Pcs
  BY TypeGood DEF Snap, ProcsGood, TypeOK, Becomes, SnapInto, Pcs
<1>2. t.i \in 1 .. 3 /\ t.i <= Len(Targets(t.cmd)) /\ Len(Targets(t.cmd)) \in Nat
  BY <1>1, TargetsFacts DEF Good, Proc
<1>. HIDE DEF t
<1>3. /\ Good(v) /\ v.pc = t.pc /\ v.cmd = t.cmd /\ v.i = t.i /\ v.delta = t.delta
      /\ v.report = t.report /\ v.got = t.got /\ v.out = t.out
      /\ v.snap = [t.snap EXCEPT ![Target(t)] = file[Target(t)]]
  BY <1>1, SnapFacts, ZenonT(60) DEF SnapInto
<1>. HIDE DEF v
<1>4. Past(t, u, "write")
  BY <1>1, <1>2, <1>3, AdvanceFacts DEF Past
<1>5. /\ Good(u) /\ u.cmd = t.cmd /\ u.delta = t.delta
      /\ u.report = t.report /\ u.got = t.got /\ u.out = t.out
      /\ u.snap = [t.snap EXCEPT ![Target(t)] = file[Target(t)]]
  BY <1>1, <1>3, AdvanceFacts
<1>. QED
  BY <1>1, <1>4, <1>5 DEF t

LEMMA WriteStep ==
  ASSUME TypeOK, NEW p \in Procs, Write(p)
  PROVE  /\ \E u : /\ Good(proc[p]) /\ Good(u) /\ Becomes(p, u) /\ proc[p].pc = "write"
                   /\ Past(proc[p], u, "audit")
                   /\ u.cmd = proc[p].cmd /\ u.delta = proc[p].delta /\ u.report = proc[p].report
                   /\ u.got = proc[p].got /\ u.snap = proc[p].snap /\ u.out = proc[p].out
         /\ Target(proc[p]) \in Files
         /\ file' = [file EXCEPT ![Target(proc[p])] = proc[p].out[Target(proc[p])]]
         /\ file' \in [Files -> Set]
<1>. DEFINE t == proc[p]
            u == Advance(t, "audit")
<1>1. /\ Good(t) /\ file \in [Files -> Set] /\ t.pc = "write" /\ Becomes(p, u) /\ "audit" \in Pcs
      /\ file' = [file EXCEPT ![Target(t)] = t.out[Target(t)]]
  BY TypeGood DEF Write, ProcsGood, TypeOK, Becomes, Pcs
<1>2. /\ t.i \in 1 .. 3 /\ t.i <= Len(Targets(t.cmd)) /\ Len(Targets(t.cmd)) \in Nat
      /\ t.out \in [Files -> Set]
  BY <1>1, TargetsFacts DEF Good, Proc
<1>. HIDE DEF t
<1>3. Target(t) \in Files
  BY <1>1, TargetIsFile
<1>4. file' \in [Files -> Set]
  BY <1>1, <1>2, <1>3
<1>5. Past(t, u, "audit")
  BY <1>1, <1>2, AdvanceFacts DEF Past
<1>6. /\ Good(u) /\ u.cmd = t.cmd /\ u.delta = t.delta
      /\ u.report = t.report /\ u.got = t.got /\ u.snap = t.snap /\ u.out = t.out
  BY <1>1, AdvanceFacts
<1>. QED
  BY <1>1, <1>3, <1>4, <1>5, <1>6 DEF t

LEMMA UndoStep ==
  ASSUME TypeOK, NEW p \in Procs, Undo(p)
  PROVE  /\ \E u : /\ Good(proc[p]) /\ Good(u) /\ Becomes(p, u) /\ proc[p].pc = "undo"
                   /\ \/ u = Idle
                      \/ /\ u.pc = "undo" /\ u.cmd = proc[p].cmd
                         /\ u.got = proc[p].got /\ u.snap = proc[p].snap /\ u.out = proc[p].out
         /\ Target(proc[p]) \in Files
         /\ file' = [file EXCEPT ![Target(proc[p])] = proc[p].snap[Target(proc[p])]]
         /\ file' \in [Files -> Set]
<1>. DEFINE t == proc[p]
            v == Advance(t, "undo")
            u == IF t.i < Len(Targets(t.cmd)) THEN v ELSE Idle
<1>1. /\ Good(t) /\ file \in [Files -> Set] /\ t.pc = "undo" /\ Becomes(p, u) /\ "undo" \in Pcs
      /\ file' = [file EXCEPT ![Target(t)] = t.snap[Target(t)]]
  BY TypeGood DEF Undo, ProcsGood, TypeOK, Becomes, Pcs
<1>2. t.snap \in [Files -> Set]
  BY <1>1 DEF Good, Proc
<1>. HIDE DEF t
<1>3. Target(t) \in Files
  BY <1>1, TargetIsFile
<1>4. file' \in [Files -> Set]
  BY <1>1, <1>2, <1>3
<1>5. /\ Good(v) /\ v.cmd = t.cmd /\ v.got = t.got /\ v.snap = t.snap /\ v.out = t.out
      /\ t.i < Len(Targets(t.cmd)) => v.pc = "undo"
  BY <1>1, AdvanceFacts
<1>6. Good(u) /\ (u = Idle \/ (u = v /\ v.pc = "undo"))
  BY <1>5, IdleFacts
<1>. QED
  BY <1>1, <1>3, <1>4, <1>5, <1>6 DEF t

LEMMA ComputeStep ==
  ASSUME TypeOK, NEW p \in Procs, Compute(p)
  PROVE  \E u : /\ Good(proc[p]) /\ Good(u) /\ Becomes(p, u) /\ proc[p].pc = "compute"
                /\ proc[p].cmd # "propose"
                /\ proc[p].cmd = "apply" => ValidDelta(proc[p].delta, proc[p].got)
                /\ u.pc = "snap" /\ u.i = proc[p].i /\ u.out = Output(proc[p])
                /\ u.cmd = proc[p].cmd /\ u.delta = proc[p].delta /\ u.report = proc[p].report
                /\ u.got = proc[p].got /\ u.snap = proc[p].snap
<1>. DEFINE t == proc[p]
            u == WithOutput(t, Output(t))
<1>1. /\ Good(t) /\ proc \in [Procs -> Proc] /\ t.pc = "compute" /\ t.cmd # "propose"
      /\ t.cmd = "apply" => ValidDelta(t.delta, t.got)
  BY TypeGood DEF Compute, ProcsGood
<1>2. Becomes(p, u)
  BY <1>1 DEF Compute, Becomes, WithOutput, Output
<1>. HIDE DEF t
<1>3. Output(t) \in [Files -> Set]
  BY <1>1, OutputType
<1>4. /\ Good(u) /\ u.pc = "snap" /\ u.cmd = t.cmd /\ u.i = t.i /\ u.delta = t.delta
      /\ u.report = t.report /\ u.got = t.got /\ u.snap = t.snap /\ u.out = Output(t)
  <2>. DEFINE o == Output(t)
  <2>1. u = WithOutput(t, o) /\ o \in [Files -> Set]
    BY <1>3
  <2>. HIDE DEF u, o
  <2>2. /\ Good(u) /\ u.pc = "snap" /\ u.cmd = t.cmd /\ u.i = t.i /\ u.delta = t.delta
        /\ u.report = t.report /\ u.got = t.got /\ u.snap = t.snap /\ u.out = o
    BY <1>1, <2>1, ComputeFacts
  <2>. QED
    BY <2>2 DEF o
<1>. QED
  BY <1>1, <1>2, <1>4 DEF t

\* A change of pc alone
Jumped(p, x) == \E u :
  /\ Good(proc[p]) /\ Good(u) /\ Becomes(p, u) /\ u.pc = x /\ u.i = proc[p].i
  /\ u.cmd = proc[p].cmd /\ u.delta = proc[p].delta /\ u.report = proc[p].report
  /\ u.got = proc[p].got /\ u.snap = proc[p].snap /\ u.out = proc[p].out

LEMMA Jump ==
  ASSUME ProcsGood, NEW p \in Procs, NEW x \in Pcs, Becomes(p, [proc[p] EXCEPT !.pc = x])
  PROVE  Jumped(p, x)
<1>. DEFINE t == proc[p]
            u == [t EXCEPT !.pc = x]
<1>1. Good(t) /\ t \in Proc /\ t.i <= Len(Targets(t.cmd)) /\ Becomes(p, u)
  BY DEF ProcsGood, Good
<1>. HIDE DEF t
<1>2. /\ u \in Proc /\ u.pc = x /\ u.cmd = t.cmd /\ u.i = t.i /\ u.delta = t.delta
      /\ u.report = t.report /\ u.got = t.got /\ u.snap = t.snap /\ u.out = t.out
  BY <1>1, PcFacts
<1>. HIDE DEF u
<1>. QED
  BY <1>1, <1>2 DEF Jumped, Good, t

LEMMA AuditStep ==
  ASSUME TypeOK, NEW p \in Procs, Audit(p)
  PROVE  /\ proc[p].pc = "audit"
         /\ \/ ~AuditPasses(file) /\ Jumped(p, "undo")
            \/ AuditPasses(file) /\ proc[p].cmd = "apply" /\ Jumped(p, "append")
            \/ AuditPasses(file) /\ proc[p].cmd # "apply" /\ Becomes(p, Idle)
<1>1. ProcsGood /\ "undo" \in Pcs /\ "append" \in Pcs
  BY TypeGood DEF Pcs
<1>2. CASE ~AuditPasses(file)
  BY <1>1, <1>2, Jump DEF Audit, Becomes
<1>3. CASE AuditPasses(file) /\ proc[p].cmd = "apply"
  BY <1>1, <1>3, Jump DEF Audit, Becomes
<1>4. CASE AuditPasses(file) /\ proc[p].cmd # "apply"
  BY <1>4 DEF Audit, Becomes
<1>. QED
  BY <1>2, <1>3, <1>4 DEF Audit

LEMMA AppendStep ==
  ASSUME TypeOK, NEW p \in Procs, AppendLog(p)
  PROVE  Jumped(p, "clear")
<1>1. ProcsGood /\ "clear" \in Pcs
  BY TypeGood DEF Pcs
<1>2. Becomes(p, [proc[p] EXCEPT !.pc = "clear"])
  BY <1>1 DEF AppendLog, Becomes, ProcsGood
<1>. QED
  BY <1>1, <1>2, Jump

-----------------------------------------------------------------------------
\* Every file and every command keeps the shape the code gives it: among
\* others, no pass over the files runs past its last one.

LEMMA InitType == Init => TypeOK
<1>. SUFFICES ASSUME Init PROVE TypeOK
  OBVIOUS
<1>1. file \in [Files -> Set]
  <2>1. <<Archived>> \in Seq(Entry) /\ <<>> \in Seq(Entry)
    BY ArchivedType
  <2>. QED
    BY <2>1 DEF Init, Set
<1>2. delta \in Delta /\ log \in [Rules -> Seq({"promote", "deprecate"})]
  BY EmptyType DEF Init
<1>3. proc \in [Procs -> Proc] /\ \A p \in Procs : proc[p].i <= Len(Targets(proc[p].cmd))
  BY IdleFacts DEF Init, Good
<1>4. crashes \in 0 .. MaxCrashes
  BY RulesAssumption DEF Init
<1>. QED
  BY <1>1, <1>2, <1>3, <1>4 DEF TypeOK

LEMMA TypeParts ==
  ASSUME file' \in [Files -> Set], delta' \in Delta,
         log' \in [Rules -> Seq({"promote", "deprecate"})], ProcsGood', crashes' \in 0 .. MaxCrashes
  PROVE  TypeOK'
  BY DEF TypeOK, ProcsGood, Good

LEMMA StepType ==
  ASSUME TypeOK, [Next]_vars
  PROVE  TypeOK'
<1>0. /\ file \in [Files -> Set] /\ delta \in Delta /\ ProcsGood
      /\ log \in [Rules -> Seq({"promote", "deprecate"})] /\ crashes \in 0 .. MaxCrashes
  BY TypeGood DEF TypeOK
<1>1. CASE EditDelta
  <2>1. delta' \in Delta
    BY <1>1, RulesAssumption DEF EditDelta
  <2>. QED
    BY <1>0, <1>1, <2>1, TypeParts DEF EditDelta, ProcsGood, Good
<1>2. CASE UNCHANGED vars
  BY <1>0, <1>2, TypeParts DEF vars, ProcsGood, Good
<1>3. ASSUME NEW p \in Procs, Command(p) PROVE TypeOK'
  <2>0. Good(Idle)
    BY IdleFacts
  <2>1. CASE StartApply(p) \/ StartPropose(p) \/ StartCount(p)
    BY <1>0, <2>1, StartStep, BecomesFacts, TypeParts DEF Started
  <2>2. CASE Read(p)
    BY <1>0, <2>2, ReadStep, BecomesFacts, TypeParts DEF Read
  <2>3. CASE Propose(p)
    <3>1. delta' \in Delta /\ Becomes(p, Idle)
      <4>1. proc[p].got \in [Files -> Set]
        BY <1>0 DEF ProcsGood, Good, Proc
      <4>2. PICK trend \in Trends, eResp \in Responses :
              delta' = ComputeProposals(proc[p].got, trend, eResp)
        BY <2>3 DEF Propose
      <4>. QED
        BY <2>3, <4>1, <4>2, ProposalsType DEF Propose, Becomes
    <3>. QED
      BY <1>0, <2>0, <2>3, <3>1, BecomesFacts, TypeParts DEF Propose
  <2>4. CASE Refuse(p) \/ ClearDelta(p) \/ Crash(p)
    <3>1. Becomes(p, Idle) /\ file' = file /\ log' = log
      BY <2>4 DEF Refuse, ClearDelta, Crash, Becomes
    <3>2. delta' \in Delta /\ crashes' \in 0 .. MaxCrashes
      BY <1>0, <2>4, EmptyType, RulesAssumption DEF Refuse, ClearDelta, Crash
    <3>. QED
      BY <1>0, <2>0, <3>1, <3>2, BecomesFacts, TypeParts
  <2>5. CASE Compute(p)
    BY <1>0, <2>5, ComputeStep, BecomesFacts, TypeParts DEF Compute
  <2>6. CASE Snap(p)
    BY <1>0, <2>6, SnapStep, BecomesFacts, TypeParts DEF Snap
  <2>7. CASE Write(p)
    BY <1>0, <2>7, WriteStep, BecomesFacts, TypeParts DEF Write
  <2>8. CASE Audit(p)
    BY <1>0, <2>0, <2>8, AuditStep, BecomesFacts, TypeParts DEF Audit, Jumped
  <2>9. CASE Undo(p)
    BY <1>0, <2>9, UndoStep, BecomesFacts, TypeParts DEF Undo
  <2>10. CASE AppendLog(p)
    <3>1. log' \in [Rules -> Seq({"promote", "deprecate"})]
      <4>1. ASSUME NEW r \in Rules PROVE log'[r] \in Seq({"promote", "deprecate"})
        <5>1. log[r] \in Seq({"promote", "deprecate"})
          BY <1>0
        <5>. DEFINE a == IF proc[p].delta.promote[r] > 0 THEN <<"promote">> ELSE <<>>
                    b == IF proc[p].delta.deprecate[r] > 0 THEN <<"deprecate">> ELSE <<>>
        <5>2. a \in Seq({"promote", "deprecate"}) /\ b \in Seq({"promote", "deprecate"})
          <6>1. \A x \in {"promote", "deprecate"} :
                  <<x>> \in Seq({"promote", "deprecate"}) /\ <<>> \in Seq({"promote", "deprecate"})
            OBVIOUS
          <6>. QED
            BY <6>1
        <5>3. log'[r] = log[r] \o a \o b
          BY <2>10 DEF AppendLog
        <5>. HIDE DEF a, b
        <5>. QED
          BY <5>1, <5>2, <5>3
      <4>. QED
        BY <2>10, <4>1 DEF AppendLog
    <3>. QED
      BY <1>0, <2>10, <3>1, AppendStep, BecomesFacts, TypeParts DEF AppendLog, Jumped
  <2>. QED
    BY <1>3, <2>1, <2>2, <2>3, <2>4, <2>5, <2>6, <2>7, <2>8, <2>9, <2>10 DEF Command
<1>. QED
  BY <1>1, <1>2, <1>3 DEF Next

\* Files, delta, changelog and commands keep the shape the code gives them.
THEOREM TypeCorrect == Spec => []TypeOK
  BY InitType, StepType, PTL DEF Spec

-----------------------------------------------------------------------------
\* What no interleaving and no crash can break: every copy a command holds of
\* a file is of that file as it was, so what holds of each file on its own,
\* and of what commands compute from such files, holds of the files.

KeptAt(f, S) == \A r \in Rules :
  /\ f = "active" /\ r \in Gated => S[r] = <<>>
  /\ \A i \in DOMAIN S[r] : S[r][i].precision = Precision(S[r][i].tp, S[r][i].fp)

Kept(F) == \A f \in Files : KeptAt(f, F[f])

KeptBy(t) == Kept(t.got) /\ Kept(t.snap) /\ Kept(t.out)

\* The inductive invariant behind GatedOut and PrecisionCurrent
KeptInv == TypeOK /\ Kept(file) /\ \A p \in Procs : KeptBy(proc[p])

LEMMA KeptCopy ==
  ASSUME NEW F \in [Files -> Set], NEW G, NEW x \in Files, Kept(F), Kept(G),
         NEW H, H = [F EXCEPT ![x] = G[x]]
  PROVE  Kept(H)
  BY DEF Kept

LEMMA KeptEmpty == Kept(Empty)
  BY DEF Kept, KeptAt, Empty

LEMMA KeptCounted ==
  ASSUME NEW report \in [Rules -> Stat], NEW got \in [Files -> Set], Kept(got)
  PROVE  Kept(Counted(report, got))
<1>. SUFFICES ASSUME NEW f \in Files, NEW r \in Rules
     PROVE  /\ f = "active" /\ r \in Gated => Counted(report, got)[f][r] = <<>>
            /\ \A i \in DOMAIN Counted(report, got)[f][r] :
                 LET e == Counted(report, got)[f][r][i]
                 IN e.precision = Precision(e.tp, e.fp)
  BY DEF Kept, KeptAt
<1>1. got[f][r] \in Seq(Entry) /\ report[r] \in Stat
  BY DEF Set
<1>2. ASSUME f = "active", r \in Gated
      PROVE  Counted(report, got)[f][r] = <<>>
  <2>1. Len(got[f][r]) = 0
    BY <1>2 DEF Kept, KeptAt
  <2>2. Counted(report, got)[f][r] \in Seq(Entry) /\ Len(Counted(report, got)[f][r]) = 0
    BY <2>1, CountedAt
  <2>. QED
    BY <2>2
<1>3. ASSUME NEW i \in DOMAIN Counted(report, got)[f][r]
      PROVE  LET e == Counted(report, got)[f][r][i] IN e.precision = Precision(e.tp, e.fp)
  <2>1. i \in DOMAIN got[f][r] /\ Counted(report, got)[f][r][i] = ApplyStats(got[f][r][i], report[r])
    BY <1>3, CountedAt
  <2>2. got[f][r][i] \in Entry
    BY <1>1, <2>1
  <2>. QED
    BY <1>1, <2>1, <2>2, ApplyStatsType
<1>. QED
  BY <1>2, <1>3

LEMMA KeptApplied ==
  ASSUME NEW d \in Delta, NEW got \in [Files -> Set], ValidDelta(d, got), Kept(got)
  PROVE  Kept(Applied(d, got))
<1>. DEFINE Current(s) == \A i \in DOMAIN s : s[i].precision = Precision(s[i].tp, s[i].fp)
<1>1. ASSUME NEW s \in Seq(Entry), NEW e \in Entry, Current(s), e.precision = Precision(e.tp, e.fp)
      PROVE  Current(Append(s, e))
  BY <1>1
<1>2. Current(<<>>)
  OBVIOUS
<1>3. \A f \in Files, r \in Rules : Current(got[f][r]) /\ got[f][r] \in Seq(Entry)
  BY DEF Kept, KeptAt, Set
<1>4. \A r \in Gated : got["active"][r] = <<>>
  BY RulesAssumption DEF Kept, KeptAt, Files
<1>5. Archived \in Entry /\ Archived.precision = Precision(Archived.tp, Archived.fp)
  BY ArchivedType DEF Archived, Precision
<1>. SUFFICES ASSUME NEW r \in Rules
     PROVE  /\ r \in Gated => Applied(d, got)["active"][r] = <<>>
            /\ \A f \in Files : Current(Applied(d, got)[f][r])
  BY DEF Kept, KeptAt
<1>6. CASE d.promote[r] > 0
  <2>1. r \notin Gated /\ got["quarantine"][r] # <<>>
    BY <1>6, AppliedAt
  <2>2. Carried(got, r) \in Entry /\ 1 \in DOMAIN got["quarantine"][r]
    BY <2>1, CarriedType
  <2>3. Carried(got, r).precision = Precision(Carried(got, r).tp, Carried(got, r).fp)
    <3>1. Current(got["quarantine"][r])
      BY <1>3 DEF Files
    <3>. QED
      BY <2>1, <2>2, <3>1, CarriedType
  <2>4. Current(Append(got["active"][r], Carried(got, r)))
    BY <1>1, <1>3, <2>2, <2>3 DEF Files
  <2>5. /\ Current(Applied(d, got)["active"][r])
        /\ Current(Applied(d, got)["quarantine"][r])
        /\ Current(Applied(d, got)["deprecated"][r])
    <3>1. Current(got["deprecated"][r])
      BY <1>3 DEF Files
    <3>2. /\ Applied(d, got)["active"][r] = Append(got["active"][r], Carried(got, r))
          /\ Applied(d, got)["quarantine"][r] = <<>>
          /\ Applied(d, got)["deprecated"][r] = got["deprecated"][r]
      BY <1>6, AppliedAt
    <3>. QED
      BY <1>2, <2>4, <3>1, <3>2
  <2>. QED
    BY <2>1, <2>5 DEF Files
<1>7. CASE d.deprecate[r] > 0
  <2>1. Current(Append(got["deprecated"][r], Archived))
    BY <1>1, <1>3, <1>5 DEF Files
  <2>2. /\ Applied(d, got)["active"][r] = <<>>
        /\ Applied(d, got)["quarantine"][r] = got["quarantine"][r]
        /\ Applied(d, got)["deprecated"][r] = Append(got["deprecated"][r], Archived)
    BY <1>7, AppliedAt
  <2>3. Current(got["quarantine"][r])
    BY <1>3 DEF Files
  <2>4. /\ Current(Applied(d, got)["active"][r])
        /\ Current(Applied(d, got)["quarantine"][r])
        /\ Current(Applied(d, got)["deprecated"][r])
    BY <1>2, <2>1, <2>2, <2>3
  <2>. QED
    BY <2>2, <2>4 DEF Files
<1>8. CASE ~ d.promote[r] > 0 /\ ~ d.deprecate[r] > 0
  <2>1. \A f \in Files : Applied(d, got)[f][r] = got[f][r]
    BY <1>8, AppliedAt
  <2>. QED
    BY <1>3, <1>4, <2>1 DEF Files
<1>. QED
  BY <1>6, <1>7, <1>8

LEMMA KeptOutput ==
  ASSUME NEW t, Good(t), t.cmd = "apply" => ValidDelta(t.delta, t.got), Kept(t.got)
  PROVE  Kept(Output(t))
<1>1. t.delta \in Delta /\ t.report \in [Rules -> Stat] /\ t.got \in [Files -> Set]
  BY DEF Good, Proc
<1>. QED
  BY <1>1, KeptApplied, KeptCounted DEF Output

LEMMA KeptBecomes ==
  ASSUME KeptInv, TypeOK', NEW p \in Procs, NEW u, Good(u), Becomes(p, u), KeptBy(u), Kept(file')
  PROVE  KeptInv'
<1>1. proc'[p] = u /\ \A q \in Procs \ {p} : proc'[q] = proc[q]
  BY TypeGood, BecomesFacts DEF KeptInv
<1>2. \A q \in Procs : KeptBy(proc'[q])
  BY <1>1 DEF KeptInv
<1>. QED
  BY <1>2 DEF KeptInv, Kept, KeptBy

LEMMA KeptInit == Init => KeptInv
<1>. SUFFICES ASSUME Init PROVE KeptInv
  OBVIOUS
<1>1. Kept(file)
  <2>1. Archived.precision = Precision(Archived.tp, Archived.fp)
    BY DEF Archived, Precision
  <2>2. \A f \in Files, r \in Rules :
          /\ file[f][r] = <<Archived>> \/ file[f][r] = <<>>
          /\ f = "active" /\ r \in Gated => file[f][r] = <<>>
    BY RulesAssumption DEF Init
  <2>. QED
    BY <2>1, <2>2 DEF Kept, KeptAt
<1>2. \A p \in Procs : KeptBy(proc[p])
  BY IdleFacts, KeptEmpty DEF Init, KeptBy
<1>. QED
  BY <1>1, <1>2, InitType DEF KeptInv

LEMMA KeptStep ==
  ASSUME KeptInv, [Next]_vars
  PROVE  KeptInv'
<1>0. TypeOK /\ TypeOK' /\ Kept(file) /\ file \in [Files -> Set]
      /\ \A p \in Procs : KeptBy(proc[p])
  BY StepType DEF KeptInv, TypeOK
<1>. USE <1>0
<1>1. CASE EditDelta
  BY <1>1 DEF EditDelta, KeptInv, Kept, KeptBy
<1>2. CASE UNCHANGED vars
  BY <1>2 DEF vars, KeptInv, Kept, KeptBy
<1>3. ASSUME NEW p \in Procs, Command(p) PROVE KeptInv'
  <2>0. Good(Idle) /\ KeptBy(Idle) /\ KeptBy(proc[p])
    BY IdleFacts, KeptEmpty DEF KeptBy
  <2>01. file' = file => Kept(file')
    OBVIOUS
  <2>1. CASE StartApply(p) \/ StartPropose(p) \/ StartCount(p)
    BY <2>01, <2>1, StartStep, KeptBecomes, KeptEmpty DEF Started, KeptBy
  <2>2. CASE Read(p)
    <3>1. PICK u : /\ Good(proc[p]) /\ Good(u) /\ Becomes(p, u)
                   /\ u.got = [proc[p].got EXCEPT ![Target(proc[p])] = file[Target(proc[p])]]
                   /\ u.snap = proc[p].snap /\ u.out = proc[p].out
      BY <2>2, ReadStep
    <3>2. proc[p].got \in [Files -> Set]
      BY <3>1 DEF Good, Proc
    <3>3. KeptBy(u)
      BY <2>0, <3>1, <3>2, KeptCopy, TargetIsFile DEF KeptBy
    <3>. QED
      BY <2>01, <2>2, <3>1, <3>3, KeptBecomes DEF Read
  <2>3. CASE Propose(p) \/ Refuse(p) \/ ClearDelta(p) \/ Crash(p)
    BY <2>0, <2>01, <2>3, KeptBecomes DEF Propose, Refuse, ClearDelta, Crash, Becomes
  <2>4. CASE Compute(p)
    <3>1. PICK u : /\ Good(proc[p]) /\ Good(u) /\ Becomes(p, u) /\ u.out = Output(proc[p])
                   /\ proc[p].cmd = "apply" => ValidDelta(proc[p].delta, proc[p].got)
                   /\ u.got = proc[p].got /\ u.snap = proc[p].snap
      BY <2>4, ComputeStep
    <3>2. Kept(Output(proc[p]))
      BY <2>0, <3>1, KeptOutput DEF KeptBy
    <3>. QED
      BY <2>0, <2>01, <2>4, <3>1, <3>2, KeptBecomes DEF KeptBy, Compute
  <2>5. CASE Snap(p)
    <3>1. PICK u : /\ Good(proc[p]) /\ Good(u) /\ Becomes(p, u)
                   /\ u.snap = [proc[p].snap EXCEPT ![Target(proc[p])] = file[Target(proc[p])]]
                   /\ u.got = proc[p].got /\ u.out = proc[p].out
      BY <2>5, SnapStep
    <3>2. proc[p].snap \in [Files -> Set]
      BY <3>1 DEF Good, Proc
    <3>3. KeptBy(u)
      BY <2>0, <3>1, <3>2, KeptCopy, TargetIsFile DEF KeptBy
    <3>. QED
      BY <2>01, <2>5, <3>1, <3>3, KeptBecomes DEF Snap
  <2>6. CASE Write(p)
    <3>1. Kept(file')
      <4>1. /\ Target(proc[p]) \in Files /\ Kept(proc[p].out)
            /\ file' = [file EXCEPT ![Target(proc[p])] = proc[p].out[Target(proc[p])]]
        BY <2>0, <2>6, WriteStep DEF KeptBy
      <4>. QED
        BY <4>1, KeptCopy
    <3>. QED
      BY <2>0, <2>6, <3>1, WriteStep, KeptBecomes DEF KeptBy
  <2>7. CASE Audit(p)
    BY <2>0, <2>01, <2>7, AuditStep, KeptBecomes DEF Audit, Jumped, KeptBy
  <2>8. CASE Undo(p)
    <3>1. Kept(file')
      <4>1. /\ Target(proc[p]) \in Files /\ Kept(proc[p].snap)
            /\ file' = [file EXCEPT ![Target(proc[p])] = proc[p].snap[Target(proc[p])]]
        BY <2>0, <2>8, UndoStep DEF KeptBy
      <4>. QED
        BY <4>1, KeptCopy
    <3>. QED
      BY <2>0, <2>8, <3>1, UndoStep, KeptBecomes DEF KeptBy
  <2>9. CASE AppendLog(p)
    BY <2>0, <2>01, <2>9, AppendStep, KeptBecomes DEF AppendLog, Jumped, KeptBy
  <2>. QED
    BY <1>3, <2>1, <2>2, <2>3, <2>4, <2>5, <2>6, <2>7, <2>8, <2>9 DEF Command
<1>. QED
  BY <1>1, <1>2, <1>3 DEF Next

\* G5: whatever deltas people and token-rules-propose write, and however the
\* commands overlap and are killed, no gated rule gets into active.yaml.
THEOREM GatedOut == Spec => []GatedStaysOut
<1>1. KeptInv => GatedStaysOut
  BY RulesAssumption DEF KeptInv, Kept, KeptAt, GatedStaysOut, Files
<1>. QED
  BY <1>1, KeptInit, KeptStep, PTL DEF Spec

\* The precision token-rules-propose judges a rule by is that of its counters,
\* through counts, promotions, rollbacks and crashes.
THEOREM PrecisionCurrent == Spec => []PrecisionIsCurrent
<1>1. KeptInv => PrecisionIsCurrent
  BY DEF KeptInv, Kept, KeptAt, PrecisionIsCurrent
<1>. QED
  BY <1>1, KeptInit, KeptStep, PTL DEF Spec

-----------------------------------------------------------------------------
\* Commands run one at a time, killed or not: what the changelog says of a
\* rule agrees with every file, and with every copy of a file, that a command
\* may still act on, also where a crash has left a move half done.

Deprecated == {<<"deprecate">>, <<"promote", "deprecate">>}

AgreeAt(f, S) == \A r \in Rules :
  /\ f = "quarantine" /\ log[r] # <<>> => S[r] = <<>>
  /\ f = "active" /\ log[r] \in Deprecated => S[r] = <<>>

Agree(F) == \A f \in Files : AgreeAt(f, F[f])

AgreeBy(t) ==
  /\ t.pc # "clear" => Agree(t.got) /\ Agree(t.snap) /\ Agree(t.out)
  /\ t.pc \in {"snap", "write", "audit", "append"} =>
       /\ t.out = Output(t)
       /\ t.cmd = "apply" => ValidDelta(t.delta, t.got)

\* How far a command has come with the files of commitFiles
WrittenBy(t) ==
  /\ t.pc = "write" => \A k \in 1 .. t.i - 1 : file[Targets(t.cmd)[k]] = t.out[Targets(t.cmd)[k]]
  /\ t.pc \in {"audit", "append"} =>
       \A k \in 1 .. Len(Targets(t.cmd)) : file[Targets(t.cmd)[k]] = t.out[Targets(t.cmd)[k]]
  /\ t.pc = "append" => t.cmd = "apply" /\ AuditPasses(file)

\* The inductive invariant behind LogOnce
LogInv ==
  /\ TypeOK /\ LoggedOnce /\ Agree(file)
  /\ \A p \in Procs : AgreeBy(proc[p]) /\ WrittenBy(proc[p])

LEMMA AgreeCopy ==
  ASSUME NEW F \in [Files -> Set], NEW G, NEW x \in Files, Agree(F), Agree(G),
         NEW H, H = [F EXCEPT ![x] = G[x]]
  PROVE  Agree(H)
  BY DEF Agree

LEMMA AgreeEmpty == Agree(Empty)
  BY DEF Agree, AgreeAt, Empty

LEMMA AgreeOutput ==
  ASSUME NEW t, Good(t), t.cmd = "apply" => ValidDelta(t.delta, t.got), Agree(t.got)
  PROVE  Agree(Output(t))
<1>1. t.delta \in Delta /\ t.report \in [Rules -> Stat] /\ t.got \in [Files -> Set]
  BY DEF Good, Proc
<1>. DEFINE d == t.delta
            got == t.got
<1>. SUFFICES ASSUME NEW f \in Files, NEW r \in Rules,
                     \/ f = "quarantine" /\ log[r] # <<>>
                     \/ f = "active" /\ log[r] \in Deprecated
              PROVE  Output(t)[f][r] = <<>>
  BY DEF Agree, AgreeAt
<1>2. got[f][r] = <<>>
  BY DEF Agree, AgreeAt
<1>3. CASE t.cmd = "apply"
  <2>0. Output(t) = Applied(d, got) /\ ValidDelta(d, got)
    BY <1>3 DEF Output
  <2>1. CASE d.promote[r] > 0
    <3>1. got["quarantine"][r] # <<>>
      BY <1>1, <2>0, <2>1, AppliedAt
    <3>2. log[r] = <<>>
      BY <3>1 DEF Agree, AgreeAt, Files
    <3>. QED
      BY <1>2, <3>1, <3>2 DEF Deprecated
  <2>2. CASE d.deprecate[r] > 0
    <3>1. Output(t)["active"][r] = <<>> /\ Output(t)["quarantine"][r] = got["quarantine"][r]
      BY <1>1, <2>0, <2>2, AppliedAt
    <3>. QED
      BY <1>2, <3>1
  <2>3. CASE ~ d.promote[r] > 0 /\ ~ d.deprecate[r] > 0
    BY <1>1, <1>2, <2>0, <2>3, AppliedAt
  <2>. QED
    BY <2>1, <2>2, <2>3
<1>4. CASE t.cmd # "apply"
  <2>1. Output(t) = Counted(t.report, got)
    BY <1>4 DEF Output
  <2>2. Output(t)[f][r] \in Seq(Entry) /\ Len(Output(t)[f][r]) = 0
    BY <1>1, <1>2, <2>1, CountedAt
  <2>. QED
    BY <2>2
<1>. QED
  BY <1>3, <1>4

LEMMA AppendTwo ==
  ASSUME NEW S, NEW x \in S, NEW y \in S
  PROVE  Append(<<x>>, y) = <<x, y>>
<1>1. <<x>> \in Seq(S) /\ <<x, y>> \in Seq(S)
  OBVIOUS
<1>2. Append(<<x>>, y) \in Seq(S) /\ Len(Append(<<x>>, y)) = 2
  BY <1>1
<1>3. Append(<<x>>, y)[1] = x /\ Append(<<x>>, y)[2] = y
  BY <1>1
<1>4. Len(<<x, y>>) = 2 /\ <<x, y>>[1] = x /\ <<x, y>>[2] = y
  OBVIOUS
<1>5. \A s \in Seq(S), t \in Seq(S) :
        Len(s) = 2 /\ Len(t) = 2 /\ s[1] = t[1] /\ s[2] = t[2] => s = t
  OBVIOUS
<1>. QED
  BY <1>1, <1>2, <1>3, <1>4, <1>5

LEMMA MoveLines ==
  /\ <<>> \o <<"promote">> \o <<>> = <<"promote">>
  /\ <<>> \o <<>> \o <<"deprecate">> = <<"deprecate">>
  /\ <<"promote">> \o <<>> \o <<"deprecate">> = <<"promote", "deprecate">>
  /\ \A s \in Seq({"promote", "deprecate"}) : s \o <<>> \o <<>> = s
<1>. DEFINE M == {"promote", "deprecate"}
<1>1. \A s \in Seq(M), x \in M : s \o <<x>> = Append(s, x)
  OBVIOUS
<1>2. \A s \in Seq(M) : s \o <<>> = s
  OBVIOUS
<1>3. <<>> \in Seq(M) /\ <<"promote">> \in Seq(M) /\ "promote" \in M /\ "deprecate" \in M
  OBVIOUS
<1>4. /\ Append(<<>>, "promote") = <<"promote">>
      /\ Append(<<>>, "deprecate") = <<"deprecate">>
  OBVIOUS
<1>8. Append(<<"promote">>, "deprecate") = <<"promote", "deprecate">>
  BY <1>3, AppendTwo
<1>. HIDE DEF M
<1>5. <<>> \o <<"promote">> = <<"promote">> /\ <<>> \o <<>> = <<>>
  BY <1>1, <1>2, <1>3, <1>4
<1>6. <<"promote">> \o <<>> = <<"promote">> /\ <<>> \o <<"deprecate">> = <<"deprecate">>
  BY <1>1, <1>2, <1>3, <1>4
<1>7. <<"promote">> \o <<"deprecate">> = <<"promote", "deprecate">>
  BY <1>1, <1>3, <1>8
<1>. QED
  BY <1>2, <1>5, <1>6, <1>7 DEF M

\* What the log line of a move finds in the files: the rule was where the
\* changelog has it, and is nowhere else now.
LEMMA AppendAgrees ==
  ASSUME LogInv, NEW p \in Procs, AppendLog(p)
  PROVE  LoggedOnce' /\ Agree(file)'
<1>. DEFINE t == proc[p]
            d == t.delta
            got == t.got
<1>0. t.pc = "append" /\ Good(t) /\ AgreeBy(t) /\ WrittenBy(t) /\ file' = file
  BY TypeGood DEF AppendLog, LogInv, ProcsGood
<1>1. d \in Delta /\ got \in [Files -> Set] /\ t.cmd = "apply"
  BY <1>0 DEF Good, Proc, WrittenBy
<1>2. /\ ValidDelta(d, got) /\ Agree(got) /\ AuditPasses(file)
      /\ t.out = Applied(d, got)
  BY <1>0, <1>1 DEF AgreeBy, WrittenBy, Output
<1>3. \A f \in Files : file[f] = Applied(d, got)[f]
  BY <1>0, <1>1, <1>2, TargetsFacts DEF WrittenBy, Files
<1>4. ASSUME NEW r \in Rules
      PROVE  /\ log'[r] \in {<<>>, <<"promote">>} \cup Deprecated
             /\ log'[r] # <<>> => file["quarantine"][r] = <<>>
             /\ log'[r] \in Deprecated => file["active"][r] = <<>>
  <2>1. log'[r] = log[r] \o (IF d.promote[r] > 0 THEN <<"promote">> ELSE <<>>)
                         \o (IF d.deprecate[r] > 0 THEN <<"deprecate">> ELSE <<>>)
    BY DEF AppendLog
  <2>2. /\ log[r] \in {<<>>, <<"promote">>} \cup Deprecated
        /\ log[r] # <<>> => file["quarantine"][r] = <<>>
        /\ log[r] \in Deprecated => file["active"][r] = <<>>
        /\ log[r] # <<>> => got["quarantine"][r] = <<>>
        /\ log[r] \in Deprecated => got["active"][r] = <<>>
    BY <1>2 DEF LogInv, LoggedOnce, Agree, AgreeAt, Files, Deprecated
  <2>3. CASE d.promote[r] > 0
    <3>1. got["quarantine"][r] # <<>> /\ ~ d.deprecate[r] > 0 /\ file["quarantine"][r] = <<>>
      BY <1>1, <1>2, <1>3, <2>3, AppliedAt DEF Files
    <3>2. log[r] = <<>>
      BY <2>2, <3>1
    <3>3. log'[r] = <<"promote">>
      BY <2>1, <2>3, <3>1, <3>2, MoveLines
    <3>4. <<"promote">> \notin Deprecated
      BY DEF Deprecated
    <3>. QED
      BY <3>1, <3>3, <3>4
  <2>4. CASE d.deprecate[r] > 0
    <3>1. /\ got["active"][r] # <<>> /\ ~ d.promote[r] > 0 /\ file["active"][r] = <<>>
          /\ file["deprecated"][r] = Append(got["deprecated"][r], Archived)
      <4>1. /\ got["active"][r] # <<>> /\ ~ d.promote[r] > 0
            /\ Applied(d, got)["active"][r] = <<>>
            /\ Applied(d, got)["deprecated"][r] = Append(got["deprecated"][r], Archived)
        BY <1>1, <1>2, <2>4, AppliedAt
      <4>. QED
        BY <1>3, <4>1 DEF Files
    <3>2. file["deprecated"][r] # <<>>
      <4>1. got["deprecated"][r] \in Seq(Entry)
        BY <1>1 DEF Set, Files
      <4>. QED
        BY <3>1, <4>1, ArchivedType
    <3>3. file["quarantine"][r] = <<>>
      BY <1>2, <3>2 DEF AuditPasses, Files
    <3>4. log[r] = <<>> \/ log[r] = <<"promote">>
      BY <2>2, <3>1
    <3>5. log'[r] \in Deprecated
      BY <2>1, <2>4, <3>1, <3>4, MoveLines DEF Deprecated
    <3>. QED
      BY <3>1, <3>3, <3>5
  <2>5. CASE ~ d.promote[r] > 0 /\ ~ d.deprecate[r] > 0
    <3>1. log'[r] = log[r]
      <4>1. log[r] \in Seq({"promote", "deprecate"})
        BY DEF LogInv, TypeOK
      <4>. QED
        BY <2>1, <2>5, <4>1, MoveLines
    <3>. QED
      BY <2>2, <3>1
  <2>. QED
    BY <2>3, <2>4, <2>5
<1>. QED
  BY <1>0, <1>4 DEF LoggedOnce, Agree, AgreeAt, Deprecated

LEMMA LogBecomes ==
  ASSUME OneAtATime, ProcsGood, TypeOK', LoggedOnce', Agree(file)',
         NEW p \in Procs, NEW u, Good(u), Becomes(p, u), AgreeBy(u)', WrittenBy(u)'
  PROVE  LogInv'
<1>1. proc'[p] = u /\ \A q \in Procs : q = p
  BY BecomesFacts DEF OneAtATime
<1>2. \A q \in Procs : AgreeBy(proc[q])' /\ WrittenBy(proc[q])'
  BY <1>1
<1>. QED
  BY <1>2 DEF LogInv

\* A step that writes neither the rule sets nor the changelog
LEMMA LogSame ==
  ASSUME OneAtATime, LogInv, TypeOK', file' = file, log' = log,
         NEW p \in Procs, NEW u, Good(u), Becomes(p, u), AgreeBy(u), WrittenBy(u)
  PROVE  LogInv'
<1>1. ProcsGood
  BY TypeGood DEF LogInv
<1>2. LoggedOnce' /\ Agree(file)'
  BY DEF LogInv, LoggedOnce, Agree, AgreeAt
<1>3. AgreeBy(u)' /\ WrittenBy(u)'
  BY DEF AgreeBy, WrittenBy, Agree, AgreeAt
<1>. QED
  BY <1>1, <1>2, <1>3, LogBecomes

\* A step that writes a file of the rule sets
LEMMA LogWritten ==
  ASSUME OneAtATime, LogInv, TypeOK', log' = log, Agree(file'),
         NEW p \in Procs, NEW u, Good(u), Becomes(p, u), AgreeBy(u), WrittenBy(u)'
  PROVE  LogInv'
<1>1. ProcsGood
  BY TypeGood DEF LogInv
<1>2. LoggedOnce' /\ Agree(file)'
  BY DEF LogInv, LoggedOnce, Agree, AgreeAt
<1>3. AgreeBy(u)'
  BY DEF AgreeBy, Agree, AgreeAt
<1>. QED
  BY <1>1, <1>2, <1>3, LogBecomes

LEMMA AtRest ==
  ASSUME NEW u, u.pc \in {"idle", "read", "compute", "clear", "undo"}
  PROVE  WrittenBy(u) /\ WrittenBy(u)'
  BY DEF WrittenBy

LEMMA IdleAgrees == AgreeBy(Idle) /\ WrittenBy(Idle) /\ WrittenBy(Idle)' /\ Good(Idle)
  BY IdleFacts, AgreeEmpty, AtRest DEF AgreeBy

LEMMA LogInit == Init => LogInv
<1>. SUFFICES ASSUME Init PROVE LogInv
  OBVIOUS
<1>1. LoggedOnce /\ Agree(file)
  BY DEF Init, LoggedOnce, Agree, AgreeAt, Deprecated
<1>2. \A p \in Procs : AgreeBy(proc[p]) /\ WrittenBy(proc[p])
  BY IdleAgrees DEF Init
<1>. QED
  BY <1>1, <1>2, InitType DEF LogInv

\* One more file of commitFiles is in place.
LEMMA WriteProgress ==
  ASSUME TypeOK, NEW p \in Procs, Write(p), WrittenBy(proc[p]), NEW u,
         Past(proc[p], u, "audit"), u.cmd = proc[p].cmd, u.out = proc[p].out
  PROVE  WrittenBy(u)'
<1>. DEFINE t == proc[p]
            T == Targets(t.cmd)
            n == Len(T)
<1>1. /\ file' = [file EXCEPT ![Target(t)] = t.out[Target(t)]]
      /\ file \in [Files -> Set] /\ Target(t) \in Files /\ t.pc = "write" /\ Good(t)
  BY WriteStep DEF TypeOK
<1>2. t.i \in 1 .. 3 /\ n \in Nat /\ t.i <= n /\ Target(t) = T[t.i]
  BY <1>1, TargetsFacts DEF Good, Proc, Target
<1>3. \A k \in 1 .. t.i - 1 : file[T[k]] = t.out[T[k]]
  BY <1>1 DEF WrittenBy
<1>4. \A k \in 1 .. n : T[k] \in Files
  BY TargetsFacts DEF Files
<1>. HIDE DEF T, n
<1>5. \A k \in 1 .. t.i : file'[T[k]] = t.out[T[k]]
  <2>. SUFFICES ASSUME NEW k \in 1 .. t.i PROVE file'[T[k]] = t.out[T[k]]
    OBVIOUS
  <2>1. T[k] \in Files
    BY <1>2, <1>4
  <2>2. CASE T[k] = Target(t)
    BY <1>1, <2>2
  <2>3. CASE T[k] # Target(t)
    <3>1. k \in 1 .. t.i - 1
      BY <1>2, <2>3
    <3>. QED
      BY <1>1, <1>3, <2>1, <2>3, <3>1
  <2>. QED
    BY <2>2, <2>3
<1>6. CASE t.i < n /\ u.pc = t.pc /\ u.i = t.i + 1
  <2>1. 1 .. u.i - 1 = 1 .. t.i
    BY <1>2, <1>6
  <2>. QED
    BY <1>1, <1>5, <1>6, <2>1 DEF WrittenBy, T
<1>7. CASE t.i = n /\ u.pc = "audit" /\ u.i = 1
  BY <1>5, <1>7 DEF WrittenBy, T, n
<1>. QED
  BY <1>6, <1>7 DEF Past, n, T

LEMMA LogStep ==
  ASSUME OneAtATime, LogInv, [Next]_vars
  PROVE  LogInv'
<1>0. /\ TypeOK /\ TypeOK' /\ Agree(file) /\ file \in [Files -> Set] /\ ProcsGood
      /\ \A p \in Procs : AgreeBy(proc[p]) /\ WrittenBy(proc[p])
  BY StepType, TypeGood DEF LogInv, TypeOK
<1>. USE <1>0
<1>1. CASE EditDelta
  BY <1>1 DEF EditDelta, LogInv, LoggedOnce, Agree, AgreeAt, AgreeBy, WrittenBy
<1>2. CASE UNCHANGED vars
  BY <1>2 DEF vars, LogInv, LoggedOnce, Agree, AgreeAt, AgreeBy, WrittenBy
<1>3. ASSUME NEW p \in Procs, Command(p) PROVE LogInv'
  <2>1. CASE StartApply(p) \/ StartPropose(p) \/ StartCount(p)
    <3>1. PICK u, c : Becomes(p, u) /\ Started(p, u, c)
      BY <2>1, StartStep
    <3>2. Good(u) /\ AgreeBy(u) /\ WrittenBy(u)
      BY <3>1, AgreeEmpty, AtRest DEF Started, AgreeBy
    <3>. QED
      BY <2>1, <3>1, <3>2, StartStep, LogSame
  <2>2. CASE Read(p)
    <3>1. PICK u : /\ Good(proc[p]) /\ Good(u) /\ Becomes(p, u) /\ proc[p].pc = "read"
                   /\ Past(proc[p], u, "compute")
                   /\ u.got = [proc[p].got EXCEPT ![Target(proc[p])] = file[Target(proc[p])]]
                   /\ u.snap = proc[p].snap /\ u.out = proc[p].out
      BY <2>2, ReadStep
    <3>2. proc[p].got \in [Files -> Set] /\ Agree(proc[p].got)
      BY <3>1 DEF Good, Proc, AgreeBy
    <3>3. Agree(u.got)
      BY <3>1, <3>2, AgreeCopy, TargetIsFile
    <3>4. AgreeBy(u) /\ WrittenBy(u)
      BY <3>1, <3>3, AtRest DEF AgreeBy, Past
    <3>. QED
      BY <2>2, <3>1, <3>4, LogSame DEF Read
  <2>3. CASE Propose(p) \/ Refuse(p) \/ ClearDelta(p) \/ Crash(p)
    <3>1. Becomes(p, Idle) /\ file' = file /\ log' = log
      BY <2>3 DEF Propose, Refuse, ClearDelta, Crash, Becomes
    <3>. QED
      BY <3>1, IdleAgrees, LogSame
  <2>4. CASE Compute(p)
    <3>1. PICK u : /\ Good(proc[p]) /\ Good(u) /\ Becomes(p, u) /\ proc[p].pc = "compute"
                   /\ proc[p].cmd = "apply" => ValidDelta(proc[p].delta, proc[p].got)
                   /\ u.pc = "snap" /\ u.out = Output(proc[p])
                   /\ u.cmd = proc[p].cmd /\ u.delta = proc[p].delta /\ u.report = proc[p].report
                   /\ u.got = proc[p].got /\ u.snap = proc[p].snap
      BY <2>4, ComputeStep
    <3>2. Agree(proc[p].got) /\ Agree(proc[p].snap)
      BY <3>1 DEF AgreeBy
    <3>3. Agree(u.out) /\ u.out = Output(u)
      BY <3>1, <3>2, AgreeOutput DEF Output
    <3>4. AgreeBy(u) /\ WrittenBy(u)
      BY <3>1, <3>2, <3>3 DEF AgreeBy, WrittenBy
    <3>. QED
      BY <2>4, <3>1, <3>4, LogSame DEF Compute
  <2>5. CASE Snap(p)
    <3>1. PICK u : /\ Good(proc[p]) /\ Good(u) /\ Becomes(p, u) /\ proc[p].pc = "snap"
                   /\ Past(proc[p], u, "write")
                   /\ u.snap = [proc[p].snap EXCEPT ![Target(proc[p])] = file[Target(proc[p])]]
                   /\ u.cmd = proc[p].cmd /\ u.delta = proc[p].delta /\ u.report = proc[p].report
                   /\ u.got = proc[p].got /\ u.out = proc[p].out
      BY <2>5, SnapStep
    <3>2. proc[p].snap \in [Files -> Set] /\ Agree(proc[p].snap)
      BY <3>1 DEF Good, Proc, AgreeBy
    <3>3. Agree(u.snap)
      BY <3>1, <3>2, AgreeCopy, TargetIsFile
    <3>4. Output(u) = Output(proc[p])
      BY <3>1 DEF Output
    <3>5. AgreeBy(u)
      BY <3>1, <3>3, <3>4 DEF AgreeBy, Past
    <3>6. WrittenBy(u)
      <4>1. u.pc = "snap" \/ (u.pc = "write" /\ u.i = 1)
        BY <3>1 DEF Past
      <4>2. 1 .. 1 - 1 = {}
        OBVIOUS
      <4>. QED
        BY <4>1, <4>2 DEF WrittenBy
    <3>. QED
      BY <2>5, <3>1, <3>5, <3>6, LogSame DEF Snap
  <2>6. CASE Write(p)
    <3>1. PICK u : /\ Good(proc[p]) /\ Good(u) /\ Becomes(p, u) /\ proc[p].pc = "write"
                   /\ Past(proc[p], u, "audit")
                   /\ u.cmd = proc[p].cmd /\ u.delta = proc[p].delta /\ u.report = proc[p].report
                   /\ u.got = proc[p].got /\ u.snap = proc[p].snap /\ u.out = proc[p].out
      BY <2>6, WriteStep
    <3>2. Agree(file')
      <4>1. /\ Target(proc[p]) \in Files /\ Agree(proc[p].out)
            /\ file' = [file EXCEPT ![Target(proc[p])] = proc[p].out[Target(proc[p])]]
        BY <2>6, <3>1, WriteStep DEF AgreeBy
      <4>. QED
        BY <4>1, AgreeCopy
    <3>3. Output(u) = Output(proc[p])
      BY <3>1 DEF Output
    <3>4. AgreeBy(u)
      BY <3>1, <3>3 DEF AgreeBy, Past
    <3>. QED
      BY <2>6, <3>1, <3>2, <3>4, WriteProgress, LogWritten DEF Write
  <2>7. CASE Audit(p)
    <3>1. proc[p].pc = "audit" /\ file' = file /\ log' = log
      BY <2>7, AuditStep DEF Audit
    <3>2. CASE Becomes(p, Idle)
      BY <3>1, <3>2, IdleAgrees, LogSame
    <3>3. CASE Jumped(p, "undo")
      <4>1. PICK u : /\ Good(u) /\ Becomes(p, u) /\ u.pc = "undo"
                     /\ u.got = proc[p].got /\ u.snap = proc[p].snap /\ u.out = proc[p].out
        BY <3>3 DEF Jumped
      <4>. QED
        BY <3>1, <4>1, AtRest, LogSame DEF AgreeBy
    <3>4. CASE AuditPasses(file) /\ proc[p].cmd = "apply" /\ Jumped(p, "append")
      <4>1. PICK u : /\ Good(u) /\ Becomes(p, u) /\ u.pc = "append" /\ u.cmd = proc[p].cmd
                     /\ u.delta = proc[p].delta /\ u.report = proc[p].report
                     /\ u.got = proc[p].got /\ u.snap = proc[p].snap /\ u.out = proc[p].out
        BY <3>4 DEF Jumped
      <4>2. Output(u) = Output(proc[p])
        BY <4>1 DEF Output
      <4>. QED
        BY <3>1, <3>4, <4>1, <4>2, LogSame DEF AgreeBy, WrittenBy
    <3>. QED
      BY <2>7, <3>2, <3>3, <3>4, AuditStep
  <2>8. CASE Undo(p)
    <3>1. PICK u : /\ Good(u) /\ Becomes(p, u) /\ proc[p].pc = "undo"
                   /\ \/ u = Idle
                      \/ /\ u.pc = "undo" /\ u.cmd = proc[p].cmd
                         /\ u.got = proc[p].got /\ u.snap = proc[p].snap /\ u.out = proc[p].out
      BY <2>8, UndoStep
    <3>2. Agree(file')
      <4>1. /\ Target(proc[p]) \in Files /\ Agree(proc[p].snap)
            /\ file' = [file EXCEPT ![Target(proc[p])] = proc[p].snap[Target(proc[p])]]
        BY <2>8, <3>1, UndoStep DEF AgreeBy
      <4>. QED
        BY <4>1, AgreeCopy
    <3>3. AgreeBy(u) /\ WrittenBy(u)'
      BY <3>1, IdleAgrees, AtRest DEF AgreeBy
    <3>. QED
      BY <2>8, <3>1, <3>2, <3>3, LogWritten DEF Undo
  <2>9. CASE AppendLog(p)
    <3>1. PICK u : Good(u) /\ Becomes(p, u) /\ u.pc = "clear"
      BY <2>9, AppendStep DEF Jumped
    <3>2. AgreeBy(u)' /\ WrittenBy(u)'
      BY <3>1, AtRest DEF AgreeBy
    <3>. QED
      BY <2>9, <3>1, <3>2, AppendAgrees, LogBecomes
  <2>. QED
    BY <1>3, <2>1, <2>2, <2>3, <2>4, <2>5, <2>6, <2>7, <2>8, <2>9 DEF Command
<1>. QED
  BY <1>1, <1>2, <1>3 DEF Next

\* Commands one at a time: a delta applied again after a crash logs no move
\* twice, and a deprecated rule is never moved again.
THEOREM LogOnce == ASSUME OneAtATime PROVE Spec => []LoggedOnce
<1>1. LogInv => LoggedOnce
  BY DEF LogInv
<1>2. LogInv /\ [Next]_vars => LogInv'
  BY LogStep
<1>. QED
  BY <1>1, <1>2, LogInit, PTL DEF Spec

-----------------------------------------------------------------------------
\* Commands run one at a time and to their end: every rule has its one entry
\* in the file where the changelog has it, but for the files an apply is
\* writing.

PlacedAt(f, S) == \A r \in Rules : Len(S[r]) = IF f = PlaceOf(log[r], r) THEN 1 ELSE 0

Placed(F) == \A f \in Files : PlacedAt(f, F[f])

\* G is placed in the files before the n-th that cmd reads.
PlacedTo(cmd, G, n) == \A k \in 1 .. n - 1 : PlacedAt(Targets(cmd)[k], G[Targets(cmd)[k]])

Moving(t) == t.cmd = "apply" /\ t.pc \in {"write", "audit", "append"}

PlacedBy(t) ==
  /\ t.pc # "undo"
  /\ t.pc = "read" => PlacedTo(t.cmd, t.got, t.i)
  /\ t.pc \in {"compute", "snap", "write", "audit", "append"} =>
       PlacedTo(t.cmd, t.got, Len(Targets(t.cmd)) + 1)

\* The inductive invariant behind the theorems below
PlaceInv ==
  /\ LogInv
  /\ (\A p \in Procs : ~ Moving(proc[p])) => Placed(file)
  /\ \A p \in Procs : PlacedBy(proc[p])

LEMMA PlaceIsFile == \A r \in Rules : PlaceOf(log[r], r) \in Files
  BY DEF PlaceOf, Files

\* Counting leaves the number of entries alone.
LEMMA CountedPlaced ==
  ASSUME NEW t, Good(t), t.cmd # "apply", NEW f \in Files, PlacedAt(f, t.got[f])
  PROVE  PlacedAt(f, Output(t)[f])
<1>1. t.report \in [Rules -> Stat] /\ t.got \in [Files -> Set]
  BY DEF Good, Proc
<1>2. Output(t) = Counted(t.report, t.got)
  BY DEF Output
<1>3. \A r \in Rules : Len(Output(t)[f][r]) = Len(t.got[f][r])
  BY <1>1, <1>2, CountedAt
<1>. QED
  BY <1>3 DEF PlacedAt

LEMMA EmptyByLength ==
  ASSUME NEW s \in Seq(Entry)
  PROVE  s = <<>> <=> Len(s) = 0
  OBVIOUS

\* Where rule r is once the moves of t are made
NextPlace(t, r) ==
  IF t.delta.promote[r] > 0 THEN "active"
  ELSE IF t.delta.deprecate[r] > 0 THEN "deprecated" ELSE PlaceOf(log[r], r)

\* A valid delta moves each rule from where it is to one other place.
LEMMA AppliedMoves ==
  ASSUME NEW t, Good(t), ValidDelta(t.delta, t.got), Placed(t.got), NEW r \in Rules, NEW f \in Files
  PROVE  Len(Applied(t.delta, t.got)[f][r]) = IF f = NextPlace(t, r) THEN 1 ELSE 0
<1>. DEFINE d == t.delta
            got == t.got
            new == Applied(d, got)
            place == PlaceOf(log[r], r)
<1>1. d \in Delta /\ got \in [Files -> Set] /\ ValidDelta(d, got)
  BY DEF Good, Proc
<1>2. \A g \in Files : got[g][r] \in Seq(Entry) /\ Len(got[g][r]) = IF g = place THEN 1 ELSE 0
  BY <1>1 DEF Set, Placed, PlacedAt
<1>3. /\ d.promote[r] > 0 =>
           /\ got["quarantine"][r] # <<>> /\ ~ d.deprecate[r] > 0
           /\ new["active"][r] = Append(got["active"][r], Carried(got, r))
           /\ new["quarantine"][r] = <<>>
           /\ new["deprecated"][r] = got["deprecated"][r]
      /\ d.deprecate[r] > 0 =>
           /\ got["active"][r] # <<>> /\ ~ d.promote[r] > 0
           /\ new["active"][r] = <<>>
           /\ new["quarantine"][r] = got["quarantine"][r]
           /\ new["deprecated"][r] = Append(got["deprecated"][r], Archived)
      /\ ~ d.promote[r] > 0 /\ ~ d.deprecate[r] > 0 =>
           \A g \in Files : new[g][r] = got[g][r]
  BY <1>1, AppliedAt
<1>. HIDE DEF d, got, new, place
<1>4. \A s \in Seq(Entry), e \in Entry : Len(Append(s, e)) = Len(s) + 1
  OBVIOUS
<1>5. Len(<<>>) = 0 /\ f \in {"active", "quarantine", "deprecated"}
  BY DEF Files
<1>6. CASE d.promote[r] > 0
  <2>1. got["quarantine"][r] # <<>> /\ Carried(got, r) \in Entry
    BY <1>1, <1>3, <1>6, CarriedType
  <2>2. place = "quarantine"
    BY <1>2, <2>1, EmptyByLength DEF Files
  <2>3. Len(got["active"][r]) = 0 /\ Len(got["deprecated"][r]) = 0
    BY <1>2, <2>2 DEF Files
  <2>4. Len(new["active"][r]) = 1 /\ Len(new["quarantine"][r]) = 0 /\ Len(new["deprecated"][r]) = 0
    <3>1. got["active"][r] \in Seq(Entry)
      BY <1>2 DEF Files
    <3>2. Len(Append(got["active"][r], Carried(got, r))) = 1
      BY <1>4, <2>1, <2>3, <3>1
    <3>. QED
      BY <1>3, <1>5, <1>6, <2>3, <3>2
  <2>5. NextPlace(t, r) = "active"
    BY <1>6 DEF NextPlace, d
  <2>. QED
    BY <1>5, <2>4, <2>5 DEF new, d, got
<1>7. CASE d.deprecate[r] > 0
  <2>1. got["active"][r] # <<>> /\ ~ d.promote[r] > 0
    BY <1>3, <1>7
  <2>2. place = "active"
    BY <1>2, <2>1, EmptyByLength DEF Files
  <2>3. Len(got["quarantine"][r]) = 0 /\ Len(got["deprecated"][r]) = 0
    BY <1>2, <2>2 DEF Files
  <2>4. Len(new["active"][r]) = 0 /\ Len(new["quarantine"][r]) = 0 /\ Len(new["deprecated"][r]) = 1
    <3>1. got["deprecated"][r] \in Seq(Entry)
      BY <1>2 DEF Files
    <3>2. Len(Append(got["deprecated"][r], Archived)) = 1
      BY <1>4, <2>3, <3>1, ArchivedType
    <3>. QED
      BY <1>3, <1>5, <1>7, <2>3, <3>2
  <2>5. NextPlace(t, r) = "deprecated"
    BY <1>7, <2>1 DEF NextPlace, d
  <2>. QED
    BY <1>5, <2>4, <2>5 DEF new, d, got
<1>8. CASE ~ d.promote[r] > 0 /\ ~ d.deprecate[r] > 0
  <2>1. NextPlace(t, r) = place
    BY <1>8 DEF NextPlace, d, place
  <2>. QED
    BY <1>2, <1>3, <1>8, <2>1 DEF new, d, got
<1>. QED
  BY <1>6, <1>7, <1>8

\* Files with one entry of every rule pass audit-rules.
LEMMA OnePasses ==
  ASSUME NEW F \in [Files -> Set], NEW place, \A r \in Rules : place[r] \in Files,
         \A r \in Rules, f \in Files : Len(F[f][r]) = IF f = place[r] THEN 1 ELSE 0
  PROVE  AuditPasses(F)
<1>. SUFFICES ASSUME NEW r \in Rules
     PROVE  \E f \in Files : F[f][r] # <<>> /\ \A g \in Files \ {f} : F[g][r] = <<>>
  BY DEF AuditPasses
<1>1. \A f \in Files : F[f][r] \in Seq(Entry)
  BY DEF Set
<1>2. F[place[r]][r] # <<>>
  BY <1>1, EmptyByLength
<1>3. \A g \in Files \ {place[r]} : F[g][r] = <<>>
  BY <1>1, EmptyByLength
<1>. QED
  BY <1>2, <1>3

LEMMA PlaceBecomes ==
  ASSUME OneAtATime, ProcsGood, LogInv', NEW p \in Procs, NEW u, Good(u), Becomes(p, u),
         PlacedBy(u)', Moving(u) \/ Placed(file)'
  PROVE  PlaceInv'
<1>1. proc'[p] = u /\ \A q \in Procs : q = p
  BY BecomesFacts DEF OneAtATime
<1>2. \A q \in Procs : PlacedBy(proc[q])'
  BY <1>1
<1>3. (\A q \in Procs : ~ Moving(proc[q]))' => Placed(file)'
  BY <1>1
<1>. QED
  BY <1>2, <1>3 DEF PlaceInv

\* A step that leaves the changelog alone
LEMMA PlaceKept ==
  ASSUME OneAtATime, PlaceInv, LogInv', log' = log,
         NEW p \in Procs, NEW u, Good(u), Becomes(p, u), PlacedBy(u), Moving(u) \/ Placed(file')
  PROVE  PlaceInv'
<1>1. ProcsGood
  BY TypeGood DEF PlaceInv, LogInv
<1>2. PlacedBy(u)' /\ (Moving(u) \/ Placed(file)')
  BY DEF PlacedBy, PlacedTo, Placed, PlacedAt
<1>. QED
  BY <1>1, <1>2, PlaceBecomes

LEMMA PlacedAlone ==
  ASSUME OneAtATime, PlaceInv, NEW p \in Procs, ~ Moving(proc[p])
  PROVE  Placed(file)
  BY DEF PlaceInv, OneAtATime

LEMMA PlacedToAll ==
  ASSUME NEW t, Good(t), t.cmd = "apply", PlacedTo(t.cmd, t.got, Len(Targets(t.cmd)) + 1)
  PROVE  Placed(t.got)
<1>1. Len(Targets(t.cmd)) = 3
  BY TargetsFacts
<1>2. \A k \in 1 .. 3 : PlacedAt(Targets(t.cmd)[k], t.got[Targets(t.cmd)[k]])
  BY <1>1 DEF PlacedTo
<1>. QED
  BY <1>2, TargetsFacts DEF Placed, Files

LEMMA PlaceInit == Init => PlaceInv
<1>. SUFFICES ASSUME Init PROVE PlaceInv
  OBVIOUS
<1>1. Placed(file)
  <2>. SUFFICES ASSUME NEW f \in Files, NEW r \in Rules
       PROVE  Len(file[f][r]) = IF f = PlaceOf(log[r], r) THEN 1 ELSE 0
    BY DEF Placed, PlacedAt
  <2>1. PlaceOf(log[r], r) = IF r \in Seeded THEN "active" ELSE "quarantine"
    BY DEF Init, PlaceOf
  <2>2. file[f][r] = IF f = (IF r \in Seeded THEN "active" ELSE "quarantine")
                     THEN <<Archived>> ELSE <<>>
    BY DEF Init
  <2>3. Len(<<Archived>>) = 1 /\ Len(<<>>) = 0
    OBVIOUS
  <2>. QED
    BY <2>1, <2>2, <2>3
<1>2. \A p \in Procs : PlacedBy(proc[p])
  BY IdleFacts DEF Init, PlacedBy
<1>. QED
  BY <1>1, <1>2, LogInit DEF PlaceInv

\* One more file is read.
LEMMA ReadProgress ==
  ASSUME NEW t, Good(t), t.pc = "read", Placed(file), PlacedTo(t.cmd, t.got, t.i), NEW u,
         Past(t, u, "compute"), u.cmd = t.cmd,
         u.got = [t.got EXCEPT ![Target(t)] = file[Target(t)]]
  PROVE  PlacedBy(u)
<1>. DEFINE T == Targets(t.cmd)
            n == Len(T)
<1>1. /\ t.i \in 1 .. 3 /\ n \in Nat /\ t.i <= n /\ Target(t) = T[t.i] /\ Target(t) \in Files
      /\ t.got \in [Files -> Set]
  BY TargetsFacts, TargetIsFile DEF Good, Proc, Target
<1>2. \A k \in 1 .. n : T[k] \in Files
  BY TargetsFacts DEF Files
<1>3. \A k \in 1 .. t.i - 1 : PlacedAt(T[k], t.got[T[k]])
  BY DEF PlacedTo
<1>. HIDE DEF T, n
<1>4. \A k \in 1 .. t.i : PlacedAt(T[k], u.got[T[k]])
  <2>. SUFFICES ASSUME NEW k \in 1 .. t.i PROVE PlacedAt(T[k], u.got[T[k]])
    OBVIOUS
  <2>1. T[k] \in Files
    BY <1>1, <1>2
  <2>2. CASE T[k] = Target(t)
    BY <1>1, <2>2 DEF Placed
  <2>3. CASE T[k] # Target(t)
    <3>1. k \in 1 .. t.i - 1
      BY <1>1, <2>3
    <3>. QED
      BY <1>1, <1>3, <2>1, <2>3, <3>1
  <2>. QED
    BY <2>2, <2>3
<1>5. CASE t.i < n /\ u.pc = t.pc /\ u.i = t.i + 1
  <2>1. 1 .. u.i - 1 = 1 .. t.i
    BY <1>1, <1>5
  <2>. QED
    BY <1>4, <1>5, <2>1 DEF PlacedBy, PlacedTo, T
<1>6. CASE t.i = n /\ u.pc = "compute" /\ u.i = 1
  <2>1. 1 .. (n + 1) - 1 = 1 .. t.i
    BY <1>1, <1>6
  <2>. QED
    BY <1>4, <1>6, <2>1 DEF PlacedBy, PlacedTo, T, n
<1>. QED
  BY <1>5, <1>6 DEF Past, n, T

\* audit-rules passes after every commit.
LEMMA AuditAlone ==
  ASSUME OneAtATime, PlaceInv, NEW p \in Procs, proc[p].pc = "audit"
  PROVE  AuditPasses(file)
<1>. DEFINE t == proc[p]
<1>1. Good(t) /\ AgreeBy(t) /\ WrittenBy(t) /\ PlacedBy(t) /\ file \in [Files -> Set]
  BY TypeGood DEF PlaceInv, LogInv, ProcsGood, TypeOK
<1>2. CASE t.cmd # "apply"
  <2>1. Placed(file)
    BY <1>2, PlacedAlone DEF Moving
  <2>. DEFINE place == [r \in Rules |-> PlaceOf(log[r], r)]
  <2>2. /\ \A r \in Rules : place[r] \in Files
        /\ \A r \in Rules, f \in Files : Len(file[f][r]) = IF f = place[r] THEN 1 ELSE 0
    BY <2>1, PlaceIsFile DEF Placed, PlacedAt
  <2>. HIDE DEF place
  <2>. QED
    BY <1>1, <2>2, OnePasses
<1>3. CASE t.cmd = "apply"
  <2>1. ValidDelta(t.delta, t.got) /\ t.out = Applied(t.delta, t.got)
    BY <1>1, <1>3 DEF AgreeBy, Output
  <2>2. Placed(t.got)
    BY <1>1, <1>3, PlacedToAll DEF PlacedBy
  <2>3. \A f \in Files : file[f] = t.out[f]
    BY <1>1, <1>3, TargetsFacts DEF WrittenBy, Files
  <2>. DEFINE place == [r \in Rules |-> NextPlace(t, r)]
  <2>4. \A r \in Rules : place[r] \in Files
    BY PlaceIsFile DEF NextPlace, Files
  <2>5. \A r \in Rules, f \in Files : Len(file[f][r]) = IF f = place[r] THEN 1 ELSE 0
    BY <1>1, <2>1, <2>2, <2>3, AppliedMoves
  <2>. HIDE DEF place
  <2>. QED
    BY <1>1, <2>4, <2>5, OnePasses
<1>. QED
  BY <1>2, <1>3

\* Once its moves are logged, the changelog has every rule where apply put it.
LEMMA LoggedPlaces ==
  ASSUME PlaceInv, NEW p \in Procs, AppendLog(p)
  PROVE  Placed(file)'
<1>. DEFINE t == proc[p]
            M == {"promote", "deprecate"}
<1>1. /\ Good(t) /\ AgreeBy(t) /\ WrittenBy(t) /\ PlacedBy(t) /\ file' = file
      /\ t.pc = "append" /\ log \in [Rules -> Seq(M)]
  BY TypeGood DEF PlaceInv, LogInv, ProcsGood, TypeOK, AppendLog
<1>2. t.cmd = "apply"
  BY <1>1 DEF WrittenBy
<1>3. ValidDelta(t.delta, t.got) /\ t.out = Applied(t.delta, t.got)
  BY <1>1, <1>2 DEF AgreeBy, Output
<1>4. Placed(t.got)
  BY <1>1, <1>2, PlacedToAll DEF PlacedBy
<1>5. \A f \in Files : file[f] = t.out[f]
  BY <1>1, <1>2, TargetsFacts DEF WrittenBy, Files
<1>6. ASSUME NEW r \in Rules PROVE PlaceOf(log'[r], r) = NextPlace(t, r)
  <2>1. log'[r] = log[r] \o (IF t.delta.promote[r] > 0 THEN <<"promote">> ELSE <<>>)
                         \o (IF t.delta.deprecate[r] > 0 THEN <<"deprecate">> ELSE <<>>)
    BY DEF AppendLog
  <2>2. log[r] \in Seq(M) /\ ~(t.delta.promote[r] > 0 /\ t.delta.deprecate[r] > 0)
    BY <1>1, <1>3, AppliedAt DEF Good, Proc
  <2>. HIDE DEF M
  <2>3. \A s \in Seq(M), x \in M :
          /\ s \o <<x>> = Append(s, x) /\ Append(s, x) \in Seq(M) /\ Append(s, x) # <<>>
          /\ Append(s, x)[Len(Append(s, x))] = x
    OBVIOUS
  <2>4. \A s \in Seq(M) : s \o <<>> = s
    OBVIOUS
  <2>5. "promote" \in M /\ "deprecate" \in M
    BY DEF M
  <2>6. CASE t.delta.promote[r] > 0
    <3>1. log'[r] = Append(log[r], "promote")
      <4>1. log'[r] = log[r] \o <<"promote">> \o <<>>
        BY <2>1, <2>2, <2>6
      <4>2. log[r] \o <<"promote">> = Append(log[r], "promote") /\ Append(log[r], "promote") \in Seq(M)
        BY <2>2, <2>3, <2>5
      <4>. QED
        BY <2>4, <4>1, <4>2
    <3>. QED
      BY <2>2, <2>3, <2>5, <2>6, <3>1 DEF PlaceOf, NextPlace
  <2>7. CASE t.delta.deprecate[r] > 0
    <3>1. log'[r] = Append(log[r], "deprecate")
      <4>1. log'[r] = log[r] \o <<>> \o <<"deprecate">>
        BY <2>1, <2>2, <2>7
      <4>2. log[r] \o <<>> = log[r]
        BY <2>2, <2>4
      <4>. QED
        BY <2>2, <2>3, <2>5, <4>1, <4>2
    <3>. QED
      BY <2>2, <2>3, <2>5, <2>7, <3>1 DEF PlaceOf, NextPlace
  <2>8. CASE ~ t.delta.promote[r] > 0 /\ ~ t.delta.deprecate[r] > 0
    <3>1. log'[r] = log[r]
      BY <2>1, <2>2, <2>4, <2>8
    <3>. QED
      BY <2>8, <3>1 DEF NextPlace
  <2>. QED
    BY <2>6, <2>7, <2>8
<1>7. \A f \in Files, r \in Rules : Len(file[f][r]) = IF f = NextPlace(t, r) THEN 1 ELSE 0
  BY <1>1, <1>3, <1>4, <1>5, AppliedMoves
<1>. QED
  BY <1>1, <1>6, <1>7 DEF Placed, PlacedAt

\* What token-rules-count writes is placed like what it read.
LEMMA CountWritesPlaced ==
  ASSUME OneAtATime, PlaceInv, NEW p \in Procs, Write(p), proc[p].cmd # "apply"
  PROVE  Placed(file')
<1>. DEFINE t == proc[p]
<1>1. /\ Good(t) /\ t.pc = "write" /\ Target(t) \in Files /\ file \in [Files -> Set]
      /\ file' = [file EXCEPT ![Target(t)] = t.out[Target(t)]]
  BY WriteStep DEF PlaceInv, LogInv, TypeOK
<1>2. PlacedBy(t) /\ t.out = Output(t)
  BY <1>1 DEF PlaceInv, LogInv, AgreeBy
<1>3. t.i \in 1 .. Len(Targets(t.cmd)) /\ Len(Targets(t.cmd)) \in Nat
  BY <1>1, TargetsFacts DEF Good, Proc
<1>4. PlacedAt(Target(t), t.got[Target(t)])
  BY <1>1, <1>2, <1>3 DEF PlacedBy, PlacedTo, Target
<1>5. PlacedAt(Target(t), t.out[Target(t)])
  BY <1>1, <1>2, <1>4, CountedPlaced
<1>6. Placed(file)
  BY PlacedAlone DEF Moving
<1>. QED
  BY <1>1, <1>5, <1>6 DEF Placed

LEMMA PlaceStep ==
  ASSUME OneAtATime, PlaceInv, [Next]_vars, crashes' = 0
  PROVE  PlaceInv'
<1>0. /\ TypeOK /\ LogInv /\ LogInv' /\ ProcsGood
      /\ \A p \in Procs : PlacedBy(proc[p]) /\ WrittenBy(proc[p])
  BY LogStep, TypeGood DEF PlaceInv, LogInv
<1>. USE <1>0
<1>1. CASE EditDelta
  BY <1>1 DEF EditDelta, PlaceInv, Placed, PlacedAt, PlacedBy, PlacedTo, Moving
<1>2. CASE UNCHANGED vars
  BY <1>2 DEF vars, PlaceInv, Placed, PlacedAt, PlacedBy, PlacedTo, Moving
<1>3. ASSUME NEW p \in Procs, Command(p) PROVE PlaceInv'
  <2>0. ~ Moving(proc[p]) => Placed(file)
    BY PlacedAlone
  <2>1. CASE StartApply(p) \/ StartPropose(p) \/ StartCount(p)
    <3>1. PICK u, c : Becomes(p, u) /\ Started(p, u, c)
      BY <2>1, StartStep
    <3>2. 1 .. 1 - 1 = {}
      OBVIOUS
    <3>3. Good(u) /\ PlacedBy(u) /\ ~ Moving(proc[p])
      BY <3>1, <3>2 DEF Started, PlacedBy, PlacedTo, Moving
    <3>. QED
      BY <2>0, <2>1, <3>1, <3>3, StartStep, PlaceKept
  <2>2. CASE Read(p)
    <3>1. PICK u : /\ Good(proc[p]) /\ Good(u) /\ Becomes(p, u) /\ proc[p].pc = "read"
                   /\ Past(proc[p], u, "compute")
                   /\ u.got = [proc[p].got EXCEPT ![Target(proc[p])] = file[Target(proc[p])]]
                   /\ u.cmd = proc[p].cmd
      BY <2>2, ReadStep
    <3>2. Placed(file) /\ PlacedTo(proc[p].cmd, proc[p].got, proc[p].i)
      BY <2>0, <3>1 DEF PlacedBy, Moving
    <3>3. PlacedBy(u)
      BY <3>1, <3>2, ReadProgress
    <3>. QED
      BY <2>2, <3>1, <3>2, <3>3, PlaceKept DEF Read
  <2>3. CASE Propose(p) \/ Refuse(p) \/ ClearDelta(p)
    <3>1. Becomes(p, Idle) /\ file' = file /\ log' = log /\ ~ Moving(proc[p])
      BY <2>3 DEF Propose, Refuse, ClearDelta, Becomes, Moving
    <3>2. Good(Idle) /\ PlacedBy(Idle)
      BY IdleFacts DEF PlacedBy
    <3>. QED
      BY <2>0, <3>1, <3>2, PlaceKept
  <2>4. CASE Crash(p)
    BY <2>4 DEF Crash, TypeOK
  <2>5. CASE Compute(p)
    <3>1. PICK u : /\ Good(u) /\ Becomes(p, u) /\ proc[p].pc = "compute" /\ u.pc = "snap"
                   /\ u.cmd = proc[p].cmd /\ u.got = proc[p].got
      BY <2>5, ComputeStep
    <3>2. PlacedBy(u) /\ ~ Moving(proc[p])
      BY <3>1 DEF PlacedBy, Moving
    <3>. QED
      BY <2>0, <2>5, <3>1, <3>2, PlaceKept DEF Compute
  <2>6. CASE Snap(p)
    <3>1. PICK u : /\ Good(u) /\ Becomes(p, u) /\ proc[p].pc = "snap"
                   /\ Past(proc[p], u, "write")
                   /\ u.cmd = proc[p].cmd /\ u.got = proc[p].got
      BY <2>6, SnapStep
    <3>2. PlacedBy(u) /\ ~ Moving(proc[p])
      BY <3>1 DEF PlacedBy, Moving, Past
    <3>. QED
      BY <2>0, <2>6, <3>1, <3>2, PlaceKept DEF Snap
  <2>7. CASE Write(p)
    <3>1. PICK u : /\ Good(u) /\ Becomes(p, u) /\ proc[p].pc = "write"
                   /\ Past(proc[p], u, "audit")
                   /\ u.cmd = proc[p].cmd /\ u.got = proc[p].got
      BY <2>7, WriteStep
    <3>2. PlacedBy(u)
      BY <3>1 DEF PlacedBy, Past
    <3>3. Moving(u) \/ Placed(file')
      BY <2>7, <3>1, CountWritesPlaced DEF Moving, Past
    <3>. QED
      BY <2>7, <3>1, <3>2, <3>3, PlaceKept DEF Write
  <2>8. CASE Audit(p)
    <3>1. AuditPasses(file) /\ proc[p].pc = "audit" /\ file' = file /\ log' = log
      BY <2>8, AuditStep, AuditAlone DEF Audit
    <3>2. CASE proc[p].cmd # "apply" /\ Becomes(p, Idle)
      <4>1. Good(Idle) /\ PlacedBy(Idle) /\ Placed(file)
        BY <2>0, <3>2, IdleFacts DEF PlacedBy, Moving
      <4>. QED
        BY <3>1, <3>2, <4>1, PlaceKept
    <3>3. CASE proc[p].cmd = "apply" /\ Jumped(p, "append")
      <4>1. PICK u : /\ Good(u) /\ Becomes(p, u) /\ u.pc = "append"
                     /\ u.cmd = proc[p].cmd /\ u.got = proc[p].got
        BY <3>3 DEF Jumped
      <4>2. PlacedBy(u) /\ Moving(u)
        BY <3>1, <3>3, <4>1 DEF PlacedBy, Moving
      <4>. QED
        BY <3>1, <4>1, <4>2, PlaceKept
    <3>. QED
      BY <2>8, <3>1, <3>2, <3>3, AuditStep
  <2>9. CASE Undo(p)
    BY <2>9 DEF Undo, PlacedBy
  <2>10. CASE AppendLog(p)
    <3>1. PICK u : Good(u) /\ Becomes(p, u) /\ u.pc = "clear"
      BY <2>10, AppendStep DEF Jumped
    <3>2. PlacedBy(u)'
      BY <3>1 DEF PlacedBy
    <3>. QED
      BY <2>10, <3>1, <3>2, LoggedPlaces, PlaceBecomes
  <2>. QED
    BY <1>3, <2>1, <2>2, <2>3, <2>4, <2>5, <2>6, <2>7, <2>8, <2>9, <2>10 DEF Command
<1>. QED
  BY <1>1, <1>2, <1>3 DEF Next

\* Until a command is killed, nothing else keeps a rule from its place.
LEMMA PlaceAlways ==
  ASSUME OneAtATime
  PROVE  Spec => [](TypeOK /\ (crashes = 0 => PlaceInv))
<1>1. ASSUME TypeOK, crashes = 0 => PlaceInv, [Next]_vars, crashes' = 0 PROVE PlaceInv'
  <2>1. crashes = 0
    <3>1. crashes \in Nat
      BY <1>1 DEF TypeOK
    <3>2. crashes' = crashes \/ crashes' = crashes + 1
      BY <1>1 DEF Next, vars, EditDelta, Command, StartApply, StartPropose, StartCount, Read, Propose,
                 Refuse, Compute, Snap, Write, Audit, Undo, AppendLog, ClearDelta, Crash
    <3>. QED
      BY <1>1, <3>1, <3>2
  <2>. QED
    BY <1>1, <2>1, PlaceStep
<1>2. TypeOK /\ (crashes = 0 => PlaceInv) /\ [Next]_vars => (TypeOK /\ (crashes = 0 => PlaceInv))'
  BY <1>1, StepType
<1>. QED
  BY <1>2, InitType, PlaceInit, PTL DEF Spec

\* Commands one at a time, until one is killed: between two of them every rule
\* of the baseline has one entry, in the file the changelog tells.
THEOREM OneFileEach ==
  ASSUME OneAtATime
  PROVE  Spec => []PartitionAtRest
<1>1. (crashes = 0 => PlaceInv) => PartitionAtRest
  BY DEF PartitionAtRest, Resting, PlaceInv, Moving, Placed, PlacedAt
<1>. QED
  BY <1>1, PlaceAlways, PTL

\* Commands one at a time, until one is killed: audit-rules accepts whatever a
\* valid delta or a session's counts make of the files.
THEOREM NoRollback ==
  ASSUME OneAtATime
  PROVE  Spec => []NeverRolledBack
<1>1. (crashes = 0 => PlaceInv) => NeverRolledBack
  BY DEF PlaceInv, PlacedBy, NeverRolledBack
<1>. QED
  BY <1>1, PlaceAlways, PTL

\* Commands one at a time, until one is killed: no step of token-rules-count
\* moves a rule into or out of a file.
THEOREM CountMovesNothing ==
  ASSUME OneAtATime
  PROVE  Spec => CountingKeepsPlaces
<1>. DEFINE Keeps == \A p \in Procs : crashes' = 0 /\ proc[p].cmd = "count" /\ proc'[p] # proc[p] =>
                       \A f \in Files, r \in Rules : file'[f][r] = <<>> <=> file[f][r] = <<>>
            Inv == TypeOK /\ (crashes = 0 => PlaceInv)
<1>1. Inv /\ Inv' /\ [Next]_vars => Keeps
  <2>. SUFFICES ASSUME Inv, Inv', [Next]_vars, NEW p \in Procs, crashes' = 0, proc[p].cmd = "count",
                       proc'[p] # proc[p], NEW f \in Files, NEW r \in Rules
       PROVE  file'[f][r] = <<>> <=> file[f][r] = <<>>
    OBVIOUS
  <2>0. PlaceInv
    <3>1. ~ Crash(p) => crashes' = crashes
      BY DEF Next, vars, EditDelta, OneAtATime, Command, StartApply, StartPropose, StartCount, Read, Propose,
             Refuse, Compute, Snap, Write, Audit, Undo, AppendLog, ClearDelta, Crash
    <3>2. ~ Crash(p)
      BY DEF Crash, TypeOK
    <3>. QED
      BY <3>1, <3>2
  <2>. USE <2>0
  <2>1. Command(p)
    BY DEF Next, EditDelta, vars, OneAtATime
  <2>2. TypeOK /\ TypeOK' /\ PlacedBy(proc[p])
    BY DEF PlaceInv, LogInv
  <2>3. CASE Write(p)
    <3>1. Placed(file) /\ Placed(file')
      BY <2>3, PlacedAlone, CountWritesPlaced DEF Moving
    <3>2. Len(file[f][r]) = Len(file'[f][r])
      BY <3>1 DEF Placed, PlacedAt
    <3>3. file[f][r] \in Seq(Entry) /\ file'[f][r] \in Seq(Entry)
      BY <2>2 DEF TypeOK, Set
    <3>. QED
      BY <3>2, <3>3, EmptyByLength
  <2>4. CASE ~ Write(p)
    <3>1. ~ Undo(p)
      BY <2>2 DEF Undo, PlacedBy
    <3>2. file' = file
      BY <2>1, <2>4, <3>1 DEF Command, StartApply, StartPropose, StartCount, Read, Propose, Refuse,
                              Compute, Snap, Audit, AppendLog, ClearDelta, Crash
    <3>. QED
      BY <3>2
  <2>. QED
    BY <2>3, <2>4
<1>. QED
  BY <1>1, PlaceAlways, PTL DEF Spec, CountingKeepsPlaces

-----------------------------------------------------------------------------
\* What token-session-record keeps of its two files, for any number of sessions,
\* runs and kills.  Aggregates stays unexpanded: what it computes does not matter
\* here, only of which rows.

\* Sequences
LEMMA WholeSeq ==
  ASSUME NEW S, NEW s \in Seq(S) PROVE SubSeq(s, 1, Len(s)) = s
  OBVIOUS

LEMMA AppendedPrefix ==
  ASSUME NEW S, NEW s \in Seq(S), NEW x \in S, NEW n \in 0 .. Len(s)
  PROVE  SubSeq(Append(s, x), 1, n) = SubSeq(s, 1, n)
  OBVIOUS

\* The row the recorder is about to write for session s
NewRow(s, e) == [key |-> s.key, total |-> s.total, eResp |-> e]

LogTyped ==
  /\ session \in Log!SessionState
  /\ history \in Seq(Log!Row)
  /\ rec.pc \in {"idle", "read", "history", "rolling"} /\ rec.seen \in Log!SessionState
  /\ DOMAIN rec = {"pc", "seen", "rows", "rolling"}
  /\ kills \in Nat

\* The recorder knows the files as they are: nobody else writes them.
RecorderKnows ==
  /\ rec.pc # "idle" => rec.seen.key <= session.key
  /\ rec.pc = "read" => \A i \in DOMAIN history : history[i].key <= rec.seen.key
  /\ rec.pc = "history" =>
       /\ \E e \in Estimates \cup {None} : rec.rows = Append(history, NewRow(rec.seen, e))
       /\ \A i \in DOMAIN history : history[i].key < rec.seen.key
       /\ rec.rolling.aggregates = Log!Aggregates(rec.rows)
  /\ rec.pc = "rolling" => rec.rolling.aggregates = Log!Aggregates(history)

\* The inductive invariant: no row is of a session yet to come, and the
\* recorder knows what it rewrites.
RecorderInv ==
  /\ LogTyped
  /\ \A i \in DOMAIN history : history[i].key <= session.key
  /\ Log!OneRowPerSession
  /\ RecorderKnows
  /\ Log!RollingBehind

LEMMA RecorderInit == Log!Init => RecorderInv
<1>. SUFFICES ASSUME Log!Init PROVE RecorderInv
  OBVIOUS
<1>. USE LogAssumption
<1>1. LogTyped /\ RecorderKnows /\ Log!OneRowPerSession
  BY DEF Log!Given, Log!Init, LogTyped, Log!SessionState, Log!Fresh, Log!NoRun, RecorderKnows, Log!OneRowPerSession
<1>2. SubSeq(history, 1, Len(history) - 0) = history /\ Len(history) = 0
  BY DEF Log!Init
<1>3. Log!RollingBehind
  <2>1. rolling.aggregates = Log!Aggregates(history) /\ kills = 0 /\ rec.pc = "idle"
    BY DEF Log!Init, Log!NoRun, Log!RecomputeRolling
  <2>2. 0 \in 0 .. kills + (IF rec.pc = "rolling" THEN 1 ELSE 0)
    BY <2>1
  <2>3. rolling.aggregates = Log!Aggregates(SubSeq(history, 1, Len(history) - 0))
    BY <1>2, <2>1
  <2>. QED
    BY <1>2, <2>2, <2>3 DEF Log!RollingBehind
<1>. QED
  BY <1>1, <1>3 DEF RecorderInv, Log!Init

\* Session and recorder change, and the files do not.
LEMMA FilesKept ==
  ASSUME RecorderInv, UNCHANGED <<history, rolling, kills>>, LogTyped', RecorderKnows',
         session'.key >= session.key, rec.pc = "rolling" => rec'.pc = "rolling"
  PROVE  RecorderInv'
<1>1. \A i \in DOMAIN history : history[i].key <= session'.key
  <2>1. \A i \in DOMAIN history : history[i] \in Log!Row
    BY DEF RecorderInv, LogTyped
  <2>2. session.key \in Int /\ session'.key \in Int
    BY DEF RecorderInv, LogTyped, Log!SessionState
  <2>. QED
    BY <2>1, <2>2 DEF RecorderInv, Log!Row
<1>2. Log!RollingBehind'
  BY DEF RecorderInv, Log!RollingBehind, LogTyped
<1>. QED
  BY <1>1, <1>2 DEF RecorderInv, Log!OneRowPerSession

LEMMA RecorderStep == RecorderInv /\ [Log!Next]_(Log!vars) => RecorderInv'
<1>. SUFFICES ASSUME RecorderInv, [Log!Next]_(Log!vars) PROVE RecorderInv'
  OBVIOUS
<1>. USE LogAssumption DEF Log!Given
<1>0. CASE UNCHANGED Log!vars
  BY <1>0 DEF Log!vars, RecorderInv, LogTyped, RecorderKnows, Log!OneRowPerSession, Log!RollingBehind
<1>1. CASE Log!NewSession
  <2>1. LogTyped' /\ session'.key >= session.key
    BY <1>1 DEF Log!NewSession, RecorderInv, LogTyped, Log!SessionState, Log!Fresh
  <2>2. RecorderKnows'
    BY <1>1, <2>1 DEF Log!NewSession, RecorderInv, LogTyped, RecorderKnows, Log!SessionState, Log!Fresh
  <2>. QED
    BY <1>1, <2>1, <2>2, FilesKept DEF Log!NewSession
<1>2. CASE Log!Work
  <2>0. session \in Log!SessionState /\ UNCHANGED <<history, rolling, rec, kills>>
    BY <1>2 DEF Log!Work, RecorderInv, LogTyped
  <2>4. session' \in Log!SessionState /\ session'.key = session.key
    <3>1. CASE \E total \in Totals : session' = [session EXCEPT !.agents = TRUE, !.total = total]
      BY <2>0, <3>1 DEF Log!SessionState
    <3>2. CASE session' = [session EXCEPT !.active = TRUE]
      BY <2>0, <3>2 DEF Log!SessionState
    <3>. QED
      BY <1>2, <3>1, <3>2 DEF Log!Work
  <2>1. LogTyped' /\ session'.key = session.key /\ session.key \in Int
    BY <2>0, <2>4 DEF RecorderInv, LogTyped, Log!SessionState
  <2>2. RecorderKnows'
    BY <2>0, <2>1 DEF RecorderInv, RecorderKnows
  <2>. QED
    BY <2>0, <2>1, <2>2, FilesKept
<1>3. CASE Log!StartRecord
  <2>1. rec'.pc = "read" /\ rec'.seen = session /\ DOMAIN rec' = {"pc", "seen", "rows", "rolling"}
    BY <1>3 DEF Log!StartRecord, Log!NoRun
  <2>2. LogTyped' /\ RecorderKnows'
    BY <1>3, <2>1 DEF Log!StartRecord, RecorderInv, LogTyped, RecorderKnows, Log!SessionState
  <2>. QED
    BY <1>3, <2>2, FilesKept DEF Log!StartRecord, RecorderInv, LogTyped, Log!SessionState
<1>4. CASE Log!Skip
  <2>1. rec'.pc = "idle" /\ rec'.seen = Log!Fresh(1) /\ DOMAIN rec' = {"pc", "seen", "rows", "rolling"}
    BY <1>4 DEF Log!Skip, Log!NoRun
  <2>2. LogTyped' /\ RecorderKnows'
    BY <1>4, <2>1 DEF Log!Skip, RecorderInv, LogTyped, RecorderKnows, Log!SessionState, Log!Fresh
  <2>. QED
    BY <1>4, <2>2, FilesKept DEF Log!Skip, RecorderInv, LogTyped, Log!SessionState
<1>5. CASE Log!CountSession
  <2>1. /\ rec'.pc = "rolling" /\ rec'.seen = rec.seen /\ DOMAIN rec' = {"pc", "seen", "rows", "rolling"}
        /\ rec'.rolling.aggregates = Log!Aggregates(history)
    BY <1>5 DEF Log!CountSession, Log!RecomputeRolling, RecorderInv, LogTyped
  <2>2. LogTyped' /\ RecorderKnows'
    BY <1>5, <2>1 DEF Log!CountSession, RecorderInv, LogTyped, RecorderKnows
  <2>. QED
    BY <1>5, <2>2, FilesKept DEF Log!CountSession, RecorderInv, LogTyped, Log!SessionState
<1>6. CASE Log!RecordSession
  <2>1. PICK e \in Estimates \cup {None} :
          rec' = [rec EXCEPT !.pc = "history", !.rows = Log!NewRows(rec.seen, e),
            !.rolling = Log!RecomputeRolling(Log!NewRows(rec.seen, e), rolling.skipped, rolling.inline)]
    BY <1>6 DEF Log!RecordSession
  <2>2. /\ rec'.pc = "history" /\ rec'.seen = rec.seen /\ DOMAIN rec' = {"pc", "seen", "rows", "rolling"}
        /\ rec'.rows = Append(history, NewRow(rec.seen, e))
        /\ rec'.rolling.aggregates = Log!Aggregates(rec'.rows)
    BY <1>6, <2>1 DEF Log!RecordSession, Log!NewRows, NewRow, Log!RecomputeRolling, RecorderInv, LogTyped
  <2>3. \A i \in DOMAIN history : history[i].key < rec.seen.key
    <3>. SUFFICES ASSUME NEW i \in DOMAIN history PROVE history[i].key < rec.seen.key
      OBVIOUS
    <3>0. history \in Seq(Log!Row)
      BY DEF RecorderInv, LogTyped
    <3>4. i \in 1 .. Len(history) /\ Len(history) \in DOMAIN history /\ history # <<>>
      BY <3>0
    <3>5. history[i] \in Log!Row /\ history[Len(history)] \in Log!Row
      BY <3>0, <3>4
    <3>1. /\ i \in 1 .. Len(history) /\ Len(history) \in DOMAIN history /\ history # <<>>
          /\ history[i].key \in Int /\ history[Len(history)].key \in Int /\ rec.seen.key \in Int
      BY <3>4, <3>5 DEF RecorderInv, LogTyped, Log!Row, Log!SessionState
    <3>2. history[Len(history)].key < rec.seen.key
      BY <1>6, <3>1 DEF Log!RecordSession, Log!Recorded, RecorderInv, RecorderKnows
    <3>3. history[i].key <= history[Len(history)].key
      BY <3>1 DEF RecorderInv, Log!OneRowPerSession
    <3>. QED
      BY <3>1, <3>2, <3>3
  <2>4. LogTyped' /\ RecorderKnows'
    BY <1>6, <2>2, <2>3 DEF Log!RecordSession, RecorderInv, LogTyped, RecorderKnows
  <2>. QED
    BY <1>6, <2>4, FilesKept DEF Log!RecordSession, RecorderInv, LogTyped, Log!SessionState
<1>7. CASE Log!WriteHistory
  <2>1. PICK e \in Estimates \cup {None} : rec.rows = Append(history, NewRow(rec.seen, e))
    BY <1>7 DEF Log!WriteHistory, RecorderInv, RecorderKnows
  <2>. DEFINE row == NewRow(rec.seen, e)
  <2>2. row \in Log!Row /\ row.key = rec.seen.key
    BY DEF NewRow, Log!Row, RecorderInv, LogTyped, Log!SessionState
  <2>. HIDE DEF row
  <2>3. /\ history' = Append(history, row) /\ rec'.pc = "rolling" /\ rec'.seen = rec.seen /\ DOMAIN rec' = {"pc", "seen", "rows", "rolling"}
        /\ rec'.rolling = rec.rolling /\ UNCHANGED <<session, rolling, kills>>
    BY <1>7, <2>1 DEF Log!WriteHistory, row, RecorderInv, LogTyped
  <2>4. /\ history' \in Seq(Log!Row) /\ Len(history') = Len(history) + 1
        /\ history'[Len(history')] = row
        /\ \A i \in DOMAIN history : history'[i] = history[i]
        /\ DOMAIN history' = DOMAIN history \cup {Len(history')}
    BY <2>2, <2>3 DEF RecorderInv, LogTyped
  <2>5. LogTyped'
    BY <2>3, <2>4 DEF RecorderInv, LogTyped
  <2>6. rec'.rolling.aggregates = Log!Aggregates(history')
    BY <1>7, <2>3 DEF Log!WriteHistory, RecorderInv, RecorderKnows
  <2>7. \A i \in DOMAIN history : history[i].key < row.key
    BY <1>7, <2>2 DEF Log!WriteHistory, RecorderInv, RecorderKnows
  <2>8. Log!OneRowPerSession'
    <3>. SUFFICES ASSUME NEW i \in DOMAIN history', NEW j \in DOMAIN history', i < j
                  PROVE  history'[i].key < history'[j].key
      BY DEF Log!OneRowPerSession
    <3>1. i \in DOMAIN history
      BY <2>4 DEF RecorderInv, LogTyped
    <3>2. CASE j \in DOMAIN history
      BY <2>4, <3>1, <3>2 DEF RecorderInv, Log!OneRowPerSession
    <3>3. CASE j = Len(history')
      BY <2>4, <2>7, <3>1, <3>3
    <3>. QED
      BY <2>4, <3>2, <3>3
  <2>9. \A i \in DOMAIN history' : history'[i].key <= session'.key
    BY <1>7, <2>2, <2>3, <2>4 DEF Log!WriteHistory, RecorderInv, LogTyped, RecorderKnows, Log!SessionState, Log!Row
  <2>10. Log!RollingBehind'
    <3>1. PICK k \in 0 .. kills : /\ k <= Len(history)
            /\ rolling.aggregates = Log!Aggregates(SubSeq(history, 1, Len(history) - k))
      BY <1>7 DEF Log!WriteHistory, RecorderInv, Log!RollingBehind, LogTyped
    <3>2. Len(history) - k \in 0 .. Len(history) /\ Len(history') - (k + 1) = Len(history) - k
      BY <2>4, <3>1 DEF RecorderInv, LogTyped
    <3>3. SubSeq(history', 1, Len(history') - (k + 1)) = SubSeq(history, 1, Len(history) - k)
      BY <2>2, <2>3, <3>2, AppendedPrefix DEF RecorderInv, LogTyped
    <3>4. k + 1 \in 0 .. kills + 1 /\ k + 1 <= Len(history')
      BY <2>4, <3>1 DEF RecorderInv, LogTyped
    <3>. QED
      BY <2>3, <3>1, <3>3, <3>4 DEF Log!RollingBehind
  <2>11. RecorderKnows'
    BY <1>7, <2>3, <2>6 DEF Log!WriteHistory, RecorderInv, RecorderKnows
  <2>. QED
    BY <2>5, <2>8, <2>9, <2>10, <2>11 DEF RecorderInv
<1>8. CASE Log!WriteRolling
  <2>1. /\ rec'.pc = "idle" /\ rec'.seen = Log!Fresh(1) /\ DOMAIN rec' = {"pc", "seen", "rows", "rolling"}
        /\ rolling' = rec.rolling
        /\ UNCHANGED <<session, history, kills>>
    BY <1>8 DEF Log!WriteRolling, Log!NoRun
  <2>2. LogTyped' /\ RecorderKnows'
    BY <2>1 DEF RecorderInv, LogTyped, RecorderKnows, Log!SessionState, Log!Fresh
  <2>3. SubSeq(history', 1, Len(history') - 0) = history /\ Len(history') \in Nat /\ kills' \in Nat
    BY <2>1, WholeSeq DEF RecorderInv, LogTyped
  <2>4. rolling'.aggregates = Log!Aggregates(history)
    BY <1>8, <2>1 DEF Log!WriteRolling, RecorderInv, RecorderKnows
  <2>5. Log!RollingBehind'
    <3>1. 0 \in 0 .. kills' + (IF rec'.pc = "rolling" THEN 1 ELSE 0) /\ 0 <= Len(history')
      BY <2>1, <2>3
    <3>2. rolling'.aggregates = Log!Aggregates(SubSeq(history', 1, Len(history') - 0))
      BY <2>3, <2>4
    <3>. QED
      BY <3>1, <3>2 DEF Log!RollingBehind
  <2>. QED
    BY <2>1, <2>2, <2>5 DEF RecorderInv, Log!OneRowPerSession
<1>9. CASE Log!Crash
  <2>1. /\ rec'.pc = "idle" /\ rec'.seen = Log!Fresh(1) /\ DOMAIN rec' = {"pc", "seen", "rows", "rolling"}
        /\ kills' = kills + 1
        /\ UNCHANGED <<session, history, rolling>>
    BY <1>9 DEF Log!Crash, Log!NoRun
  <2>2. LogTyped' /\ RecorderKnows'
    BY <2>1 DEF RecorderInv, LogTyped, RecorderKnows, Log!SessionState, Log!Fresh
  <2>3. Log!RollingBehind'
    BY <2>1 DEF RecorderInv, LogTyped, Log!RollingBehind
  <2>. QED
    BY <2>1, <2>2, <2>3 DEF RecorderInv, Log!OneRowPerSession
<1>. QED
  BY <1>0, <1>1, <1>2, <1>3, <1>4, <1>5, <1>6, <1>7, <1>8, <1>9 DEF Log!Next

\* The recorder's invariant holds throughout, for any number of sessions, runs and kills.
THEOREM RecorderInvariant == Log!Spec => []RecorderInv
  BY RecorderInit, RecorderStep, PTL DEF Log!Spec

\* However often T-01 and T-02 run, a session has one row at most.
THEOREM OneRow == Log!Spec => []OneRowPerSession
<1>1. RecorderInv => OneRowPerSession
  BY DEF RecorderInv, OneRowPerSession
<1>. QED
  BY <1>1, RecorderInvariant, PTL

\* rolling-30.json lags by the row being written and those whose recorder was
\* killed, and by no other.
THEOREM RollingFollows == Log!Spec => []RollingBehind
<1>1. RecorderInv => RollingBehind
  BY DEF RecorderInv, RollingBehind
<1>. QED
  BY <1>1, RecorderInvariant, PTL

\* No run of the recorder loses or changes a row.
THEOREM AppendOnly == Log!Spec => HistoryGrows
<1>. DEFINE Grows == Len(history) <= Len(history') /\ SubSeq(history', 1, Len(history)) = history
<1>1. RecorderInv /\ [Log!Next]_(Log!vars) => [Grows]_(Log!vars)
  <2>. SUFFICES ASSUME RecorderInv, Log!Next PROVE Grows
    OBVIOUS
  <2>0. history \in Seq(Log!Row) /\ Len(history) \in Nat
    BY DEF RecorderInv, LogTyped
  <2>1. CASE UNCHANGED history
    BY <2>0, <2>1, WholeSeq
  <2>2. CASE Log!WriteHistory
    <3>1. PICK e \in Estimates \cup {None} : history' = Append(history, NewRow(rec.seen, e))
      BY <2>2 DEF Log!WriteHistory, RecorderInv, RecorderKnows
    <3>2. NewRow(rec.seen, e) \in Log!Row
      BY DEF NewRow, Log!Row, RecorderInv, LogTyped, Log!SessionState
    <3>3. SubSeq(history', 1, Len(history)) = SubSeq(history, 1, Len(history))
      BY <2>0, <3>1, <3>2, AppendedPrefix
    <3>. QED
      BY <2>0, <3>1, <3>2, <3>3, WholeSeq
  <2>. QED
    BY <2>1, <2>2 DEF Log!Next, Log!NewSession, Log!Work, Log!StartRecord, Log!Skip, Log!CountSession, Log!RecordSession,
       Log!WriteRolling, Log!Crash
<1>2. [][Grows]_(Log!vars) => HistoryGrows
  BY PTL DEF HistoryGrows, Log!HistoryGrows
<1>. QED
  BY <1>1, <1>2, RecorderInvariant, PTL DEF Log!Spec

-----------------------------------------------------------------------------
\* Side by side, the commands and the recorder behave as each does alone.
THEOREM ToolsApart == ToolsSpec => Spec /\ Log!Spec
<1>1. ToolsInit => Init /\ Log!Init
  BY DEF ToolsInit
<1>2. [ToolsNext]_<<vars, logVars>> => [Next]_vars /\ [Log!Next]_(Log!vars)
  BY DEF ToolsNext, vars, logVars, Log!vars
<1>. QED
  BY <1>1, <1>2, PTL DEF ToolsSpec, Spec, Log!Spec
=============================================================================
