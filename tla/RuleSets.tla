------------------------------ MODULE RuleSets ------------------------------
(***************************************************************************)
(* The rule sets of the token-efficiency auditor: token-rules-count,       *)
(* token-rules-propose and token-rules-apply, processes that share the     *)
(* files active, quarantine and deprecated.yaml, rules-delta.json and      *)
(* rules-changelog.jsonl, and audit-rules, which commitFiles runs after    *)
(* its writes.                                                             *)
(*                                                                         *)
(* A working set maps a rule to the entries that carry its id, in the      *)
(* order of the file: the code keeps lists, and nothing keeps an id from   *)
(* appearing in one of them twice.  Every reading and renaming of a file   *)
(* is a step, and a process may be killed between two of them.             *)
(***************************************************************************)
EXTENDS Integers, Sequences, FiniteSets

CONSTANTS
  Rules,                  \* the ids of baseline.yaml
  Gated,                  \* those with requires_transcript_access
  Seeded,                 \* those active.yaml starts with
  Procs,                  \* the commands that may run at one time
  Reports,                \* per-rule statistics of a session (--session)
  Trends, Responses,      \* delta_T_trend (in 1/100 %) and E_resp_mean (4 dp) of rolling-30.json
  None,                   \* a null, or a missing, figure
  HandDeltas,             \* deltas a person may leave in rules-delta.json
  PromoteMinSessions,     \* 3 in the code
  DeprecateNoHitSessions, \* 20 in the code
  MaxSessions,            \* bound: no entry counts more sessions than this
  MaxCrashes              \* bound: processes killed

Delta == [promote : [Rules -> Nat], deprecate : [Rules -> Nat]]
Stat == [hits : Nat, tp : Nat, fp : Nat]

ASSUME RulesAssumption ==
  /\ Gated \subseteq Rules /\ Seeded \subseteq Rules \ Gated
  /\ Reports \subseteq [Rules -> Stat]
  /\ Trends \subseteq Int \cup {None} /\ Responses \subseteq Int \cup {None}
  /\ HandDeltas \subseteq Delta
  /\ PromoteMinSessions \in Nat /\ DeprecateNoHitSessions \in Nat
  /\ MaxSessions \in Nat /\ MaxCrashes \in Nat

VARIABLES
  file,     \* the three working sets
  delta,    \* rules-delta.json: how often it lists each rule
  log,      \* rules-changelog.jsonl: the moves of each rule
  proc,     \* the commands under way
  crashes

vars == <<file, delta, log, proc, crashes>>

Files == {"active", "quarantine", "deprecated"}
NoPrecision == -1
Entry == [sessions : Nat, hits : Nat, tp : Nat, fp : Nat,
          precision : Nat \cup {NoPrecision}]
Set == [Rules -> Seq(Entry)]

\* Of an entry of deprecated.yaml only the id matters to the code.
Archived == [sessions |-> 0, hits |-> 0, tp |-> 0, fp |-> 0, precision |-> NoPrecision]

NoDelta == [promote |-> [r \in Rules |-> 0], deprecate |-> [r \in Rules |-> 0]]
Empty == [f \in Files |-> [r \in Rules |-> <<>>]]
NoReport == [r \in Rules |-> [hits |-> 0, tp |-> 0, fp |-> 0]]
Idle == [pc |-> "idle", cmd |-> "none", i |-> 1, delta |-> NoDelta,
         report |-> NoReport, got |-> Empty, snap |-> Empty, out |-> Empty]

-----------------------------------------------------------------------------
\* What the commands compute

\* derivePrecision: four decimal places
Precision(tp, fp) ==
  IF tp + fp > 0 THEN (20000 * tp + tp + fp) \div (2 * (tp + fp)) ELSE NoPrecision

ApplyStats(e, s) ==
  [sessions |-> e.sessions + 1, hits |-> e.hits + s.hits,
   tp |-> e.tp + s.tp, fp |-> e.fp + s.fp,
   precision |-> Precision(e.tp + s.tp, e.fp + s.fp)]

SavingsGate(trend) == trend # None /\ trend <= -500
QualityGate(eResp) == eResp = None \/ eResp >= 6000

\* G8: what makes an entry of quarantine.yaml a candidate for promotion
Proven(r, e) ==
  /\ r \notin Gated
  /\ e.sessions >= PromoteMinSessions
  /\ e.precision # NoPrecision /\ e.precision >= 7000

\* G9: what makes an entry of active.yaml a candidate for deprecation
Unfit(e) ==
  \/ e.sessions >= DeprecateNoHitSessions /\ e.hits = 0
  \/ e.precision # NoPrecision /\ e.precision < 4000

ComputeProposals(got, trend, eResp) ==
  [promote |-> [r \in Rules |->
     IF SavingsGate(trend) /\ QualityGate(eResp)
     THEN Cardinality({i \in DOMAIN got["quarantine"][r] : Proven(r, got["quarantine"][r][i])})
     ELSE 0],
   deprecate |-> [r \in Rules |->
     Cardinality({i \in DOMAIN got["active"][r] : Unfit(got["active"][r][i])})]]

\* A mutated ValidDelta: without the check of duplicates.
ValidDeltaTwice(d, got) == \A r \in Rules :
  /\ d.promote[r] > 0 => got["quarantine"][r] # <<>> /\ r \notin Gated
  /\ d.deprecate[r] > 0 => got["active"][r] # <<>>

\* A mutated ValidDelta: without the check of G5.
ValidDeltaGated(d, got) == \A r \in Rules :
  /\ d.promote[r] + d.deprecate[r] <= 1
  /\ d.promote[r] > 0 => got["quarantine"][r] # <<>>
  /\ d.deprecate[r] > 0 => got["active"][r] # <<>>

\* token-rules-apply refuses an id listed twice, a rule that is not where the
\* delta takes it from, and the promotion of a gated rule.
ValidDelta(d, got) == \A r \in Rules :
  /\ d.promote[r] + d.deprecate[r] <= 1
  /\ d.promote[r] > 0 => got["quarantine"][r] # <<>> /\ r \notin Gated
  /\ d.deprecate[r] > 0 => got["active"][r] # <<>>

\* A rule takes its statistics along, and starts a new count of sessions.
NewActive(d, got) == [r \in Rules |->
  (IF d.deprecate[r] > 0 THEN <<>> ELSE got["active"][r])
    \o [n \in 1 .. d.promote[r] |-> [got["quarantine"][r][1] EXCEPT !.sessions = 0]]]

NewQuarantine(d, got) == [r \in Rules |->
  IF d.promote[r] > 0 THEN <<>> ELSE got["quarantine"][r]]
NewDeprecated(d, got) == [r \in Rules |->
  got["deprecated"][r] \o [n \in 1 .. d.deprecate[r] |-> Archived]]

Applied(d, got) ==
  [f \in Files |-> CASE f = "active"     -> NewActive(d, got)
                     [] f = "quarantine" -> NewQuarantine(d, got)
                     [] f = "deprecated" -> NewDeprecated(d, got)]

Counted(report, got) == [f \in Files |-> [r \in Rules |->
  [i \in DOMAIN got[f][r] |-> ApplyStats(got[f][r][i], report[r])]]]

\* A mutated AuditPasses: every rule is in some set, G4 is left out.
AuditPassesOverlap(sets) == \A r \in Rules : \E f \in Files : sets[f][r] # <<>>

\* G4 and PART of audit-rules: every rule of the baseline is in one set only.
AuditPasses(sets) == \A r \in Rules : \E f \in Files :
  /\ sets[f][r] # <<>>
  /\ \A g \in Files \ {f} : sets[g][r] = <<>>

-----------------------------------------------------------------------------
\* The files a command reads, and commitFiles writes, in this order
Targets(cmd) ==
  IF cmd = "apply" THEN <<"active", "quarantine", "deprecated">>
                   ELSE <<"active", "quarantine">>

\* Step i of a pass over the files is done: on to the next, or to pc then.
Advance(t, then) ==
  IF t.i < Len(Targets(t.cmd)) THEN [t EXCEPT !.i = @ + 1]
                               ELSE [t EXCEPT !.i = 1, !.pc = then]

Target(t) == Targets(t.cmd)[t.i]

Init ==
  /\ file = [f \in Files |-> [r \in Rules |->
       IF f = (IF r \in Seeded THEN "active" ELSE "quarantine") THEN <<Archived>> ELSE <<>>]]
  /\ delta = NoDelta
  /\ log = [r \in Rules |-> <<>>]
  /\ proc = [p \in Procs |-> Idle]
  /\ crashes = 0

\* token-rules-apply reads the delta; without one, or with an empty one, it
\* returns.
StartApply(p) ==
  /\ proc[p].pc = "idle" /\ delta # NoDelta
  /\ proc' = [proc EXCEPT ![p] = [Idle EXCEPT !.pc = "read", !.cmd = "apply", !.delta = delta]]
  /\ UNCHANGED <<file, delta, log, crashes>>

StartPropose(p) ==
  /\ proc[p].pc = "idle"
  /\ proc' = [proc EXCEPT ![p] = [Idle EXCEPT !.pc = "read", !.cmd = "propose"]]
  /\ UNCHANGED <<file, delta, log, crashes>>

StartCount(p) == \E report \in Reports :
  /\ proc[p].pc = "idle"
  /\ \A f \in Files, r \in Rules : \A i \in DOMAIN file[f][r] :
       file[f][r][i].sessions < MaxSessions
  /\ proc' = [proc EXCEPT ![p] =
       [Idle EXCEPT !.pc = "read", !.cmd = "count", !.report = report]]
  /\ UNCHANGED <<file, delta, log, crashes>>

Read(p) == LET t == proc[p] IN
  /\ t.pc = "read"
  /\ proc' = [proc EXCEPT ![p] =
       Advance([t EXCEPT !.got[Target(t)] = file[Target(t)]], "compute")]
  /\ UNCHANGED <<file, delta, log, crashes>>

\* rules-delta.json is replaced, or removed when there is nothing to propose.
Propose(p) == LET t == proc[p] IN
  /\ t.pc = "compute" /\ t.cmd = "propose"
  /\ \E trend \in Trends, eResp \in Responses :
       delta' = ComputeProposals(t.got, trend, eResp)
  /\ proc' = [proc EXCEPT ![p] = Idle]
  /\ UNCHANGED <<file, log, crashes>>

Refuse(p) == LET t == proc[p] IN
  /\ t.pc = "compute" /\ t.cmd = "apply" /\ ~ValidDelta(t.delta, t.got)
  /\ proc' = [proc EXCEPT ![p] = Idle]
  /\ UNCHANGED <<file, delta, log, crashes>>

Compute(p) == LET t == proc[p] IN
  /\ t.pc = "compute" /\ t.cmd # "propose"
  /\ t.cmd = "apply" => ValidDelta(t.delta, t.got)
  /\ proc' = [proc EXCEPT ![p].pc = "snap", ![p].out =
       IF t.cmd = "apply" THEN Applied(t.delta, t.got) ELSE Counted(t.report, t.got)]
  /\ UNCHANGED <<file, delta, log, crashes>>

Snap(p) == LET t == proc[p] IN
  /\ t.pc = "snap"
  /\ proc' = [proc EXCEPT ![p] =
       Advance([t EXCEPT !.snap[Target(t)] = file[Target(t)]], "write")]
  /\ UNCHANGED <<file, delta, log, crashes>>

Write(p) == LET t == proc[p] IN
  /\ t.pc = "write"
  /\ file' = [file EXCEPT ![Target(t)] = t.out[Target(t)]]
  /\ proc' = [proc EXCEPT ![p] = Advance(t, "audit")]
  /\ UNCHANGED <<delta, log, crashes>>

\* audit-rules reads the files one after the other; here it reads them at one instant, which
\* differs only when another command writes meanwhile.
Audit(p) == LET t == proc[p] IN
  /\ t.pc = "audit"
  /\ proc' = [proc EXCEPT ![p] =
       IF ~AuditPasses(file) THEN [t EXCEPT !.pc = "undo"]
       ELSE IF t.cmd = "apply" THEN [t EXCEPT !.pc = "append"] ELSE Idle]
  /\ UNCHANGED <<file, delta, log, crashes>>

\* The snapshot goes back file by file, and the command exits with an error.
Undo(p) == LET t == proc[p] IN
  /\ t.pc = "undo"
  /\ file' = [file EXCEPT ![Target(t)] = t.snap[Target(t)]]
  /\ proc' = [proc EXCEPT ![p] = IF t.i < Len(Targets(t.cmd)) THEN Advance(t, "undo") ELSE Idle]
  /\ UNCHANGED <<delta, log, crashes>>

AppendLog(p) == LET t == proc[p] IN
  /\ t.pc = "append"
  /\ log' = [r \in Rules |-> log[r]
       \o (IF t.delta.promote[r] > 0 THEN <<"promote">> ELSE <<>>)
       \o (IF t.delta.deprecate[r] > 0 THEN <<"deprecate">> ELSE <<>>)]
  /\ proc' = [proc EXCEPT ![p].pc = "clear"]
  /\ UNCHANGED <<file, delta, crashes>>

\* Whatever rules-delta.json holds by now
ClearDelta(p) ==
  /\ proc[p].pc = "clear"
  /\ delta' = NoDelta
  /\ proc' = [proc EXCEPT ![p] = Idle]
  /\ UNCHANGED <<file, log, crashes>>

\* The process is killed: the files stay as they are.
Crash(p) ==
  /\ proc[p].pc # "idle" /\ crashes < MaxCrashes
  /\ crashes' = crashes + 1
  /\ proc' = [proc EXCEPT ![p] = Idle]
  /\ UNCHANGED <<file, delta, log>>

\* Who confirms the proposals may edit them; the tests write deltas of their own.
EditDelta ==
  /\ delta' \in HandDeltas
  /\ UNCHANGED <<file, log, proc, crashes>>

Command(p) ==
  \/ StartApply(p) \/ StartPropose(p) \/ StartCount(p) \/ Read(p)
  \/ Propose(p) \/ Refuse(p) \/ Compute(p) \/ Snap(p) \/ Write(p) \/ Audit(p)
  \/ Undo(p) \/ AppendLog(p) \/ ClearDelta(p) \/ Crash(p)

Next == EditDelta \/ \E p \in Procs : Command(p)

Spec == Init /\ [][Next]_vars

-----------------------------------------------------------------------------
Pcs == {"idle", "read", "compute", "snap", "write", "audit", "undo", "append", "clear"}

Proc == [pc : Pcs, cmd : {"none", "apply", "propose", "count"}, i : 1 .. 3,
         delta : Delta, report : [Rules -> Stat],
         got : [Files -> Set], snap : [Files -> Set], out : [Files -> Set]]

\* Every file and every command has the shape the code gives it.
TypeOK ==
  /\ file \in [Files -> Set]
  /\ delta \in Delta
  /\ log \in [Rules -> Seq({"promote", "deprecate"})]
  /\ proc \in [Procs -> Proc]
  /\ \A p \in Procs : proc[p].i <= Len(Targets(proc[p].cmd))
  /\ crashes \in 0 .. MaxCrashes

Resting == \A p \in Procs : proc[p].pc = "idle"

\* G5: however commands are interleaved and killed, and whatever the delta
\* says, a rule that needs the transcript never gets into active.yaml.
GatedStaysOut == \A r \in Gated : file["active"][r] = <<>>

PlaceOf(moves, r) ==
  IF moves = <<>> THEN IF r \in Seeded THEN "active" ELSE "quarantine"
  ELSE IF moves[Len(moves)] = "promote" THEN "active" ELSE "deprecated"

\* PART and G7: as long as no command was killed, every rule of the baseline has
\* one entry between two commands, in the file where the changelog says it was
\* moved last, and none in the others.
PartitionAtRest == crashes = 0 /\ Resting =>
  \A r \in Rules, f \in Files : Len(file[f][r]) = IF f = PlaceOf(log[r], r) THEN 1 ELSE 0

\* A delta that passed apply's validation is never rolled back by audit-rules,
\* and neither are the counters of a session, as long as no command was killed.
NeverRolledBack == crashes = 0 => \A p \in Procs : proc[p].pc # "undo"

\* A delta applied again after a crash does not log a move twice, and no rule
\* is moved again once it is deprecated.
LoggedOnce == \A r \in Rules :
  log[r] \in {<<>>, <<"promote">>, <<"deprecate">>, <<"promote", "deprecate">>}

\* Counting is safe to do without asking: as long as no command was killed, a
\* step of token-rules-count never moves a rule into or out of a set.
CountingKeepsPlaces == [][\A p \in Procs :
  crashes' = 0 /\ proc[p].cmd = "count" /\ proc'[p] # proc[p] =>
    \A f \in Files, r \in Rules : file'[f][r] = <<>> <=> file[f][r] = <<>>]_vars

\* The statistics behind a verdict travel with the rule: precision is always
\* that of the entry's own counters.
PrecisionIsCurrent == \A f \in Files, r \in Rules : \A i \in DOMAIN file[f][r] :
  LET e == file[f][r][i] IN e.precision = Precision(e.tp, e.fp)
=============================================================================
