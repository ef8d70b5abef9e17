--------------------------- MODULE PeriodSequential ---------------------------
(***************************************************************************)
(* PeriodCycle with one request served at a time: PeriodService and        *)
(* DisputeService then implement the atomic operations of PeriodLifecycle. *)
(***************************************************************************)
EXTENDS PeriodCycle

\* No two requests are served at the same time.
OneAtATime == \A v, w \in Workers : v = w

Lifecycle == INSTANCE PeriodLifecycle WITH
  NoFigures <- [i \in Items |-> 0],
  figures   <- [n \in PeriodNo |-> PeriodVolumes(n)]

\* Served one at a time, the requests of PeriodService and DisputeService are
\* the atomic operations of PeriodLifecycle.
ImplementsLifecycle == Lifecycle!Spec

-----------------------------------------------------------------------------
\* The inductive invariant of what only sequential requests keep

\* What request t has read is still so.
Current(t) ==
  /\ t.pc \in Submitting => status[t.p] = "open"
  /\ t.pc \in Entering =>
       status[t.p] = t.seen /\ t.seen \in {"open", "gp_submitted", "verification"}
  /\ t.pc \in Closing => status[t.p] = "verification"
  /\ t.pc \in {"closeSnapshot", "closeCommit"} => t.volumes = PeriodVolumes(t.p)
  /\ t.pc = "forceFact" => t.vol = facts[t.p][t.item].sc

\* A forced closure then moves no figure: what is accepted is what was measured.
AcceptedIsMeasured ==
  \A n \in PeriodNo, i \in Items :
    LET f == facts[n][i] IN f.accepted # Null => f.accepted = f.sc

SequentialInv ==
  /\ \A w \in Workers : Current(tx[w])
  /\ AcceptedIsMeasured
  /\ SnapshotMatchesFacts
=============================================================================
