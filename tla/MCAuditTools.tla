----------------------------- MODULE MCAuditTools -----------------------------
(* A small instance of AuditTools for TLC. *)
EXTENDS AuditTools, TLC

CONSTANTS a, q, g

Stats(h, t, f) == [hits |-> h, tp |-> t, fp |-> f]

\* A session in which no rule fired, or one rule was right or wrong
MCReports ==
  {[r \in Rules |-> Stats(0, 0, 0)]} \cup
  {[r \in Rules |-> IF r = one THEN s ELSE Stats(0, 0, 0)] :
     one \in {a, q}, s \in {Stats(1, 1, 0), Stats(1, 0, 1)}}

\* Just enough and just too little for each gate, and unknown
MCTrends == {-500, -499, None}

Lists(promoted, deprecated) ==
  [promote |-> [r \in Rules |-> IF r \in promoted THEN 1 ELSE 0],
   deprecate |-> [r \in Rules |-> IF r \in deprecated THEN 1 ELSE 0]]

\* What the tests of token-rules-apply write, a rule listed twice, and a
\* quarantined rule given up
MCHandDeltas ==
  {Lists({q}, {}), Lists({}, {a}), Lists({g}, {}), Lists({a}, {}), Lists({q}, {a}),
   Lists({}, {q}), [Lists({q}, {}) EXCEPT !.promote[q] = 2]}

\* The rule sets and the recorder share no variable: one of them moves.
RulesRest ==
  /\ Resting /\ delta = NoDelta /\ crashes = 0
  /\ \A f \in Files, r \in Rules : \A i \in DOMAIN file[f][r] : file[f][r][i] = Archived
  /\ \A r \in Rules : log[r] = <<>>

LogRests ==
  /\ session = Log!Fresh(1) /\ history = <<>> /\ rec.pc = "idle" /\ kills = 0
  /\ rolling = Log!RecomputeRolling(<<>>, 0, 0)

Explored == RulesRest \/ LogRests
=============================================================================
