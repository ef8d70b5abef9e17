--------------------------- MODULE PeriodLifecycle ---------------------------
(***************************************************************************)
(* What the documentation promises of the periods of one object            *)
(* (docs/architecture/period-engine.md sections 4-6, ADR-007, ADR-011):    *)
(* each operation is one atomic step, a period follows the workflow, its   *)
(* figures move only while it is being worked on, and closing it fixes a   *)
(* snapshot of exactly those figures.                                      *)
(***************************************************************************)
EXTENDS Naturals

CONSTANTS
  MaxPeriods,   \* bound: periods opened
  Figures,      \* the volumes a period can state
  NoFigures,    \* what a period states before anything is entered
  Null          \* no snapshot

VARIABLES
  status,    \* the state of each period
  figures,   \* the volumes it states
  snapshots  \* the volumes fixed when it was closed

vars == <<status, figures, snapshots>>

PeriodNo == 1..MaxPeriods

Init ==
  /\ status = [n \in PeriodNo |-> "none"]
  /\ figures = [n \in PeriodNo |-> NoFigures]
  /\ snapshots = [n \in PeriodNo |-> Null]

\* A period opens after every earlier one exists and none of them is open.
Open(n) ==
  /\ status[n] = "none"
  /\ \A m \in PeriodNo : IF m < n THEN status[m] \notin {"none", "open"}
                         ELSE status[m] = "none"
  /\ status' = [status EXCEPT ![n] = "open"]
  /\ UNCHANGED <<figures, snapshots>>

Revise(n) == \E f \in Figures : figures' = [figures EXCEPT ![n] = f]

Submit(n) ==
  /\ status[n] = "open"
  /\ status' = [status EXCEPT ![n] = "gp_submitted"]
  /\ Revise(n)
  /\ UNCHANGED snapshots

\* The SC's entry starts verification; without a submission the period stays open.
Enter(n) ==
  /\ status[n] \in {"open", "gp_submitted", "verification"}
  /\ status' = [status EXCEPT ![n] = IF @ = "open" THEN "open" ELSE "verification"]
  /\ Revise(n)
  /\ UNCHANGED snapshots

Close(n) ==
  /\ status[n] = "verification"
  /\ status' = [status EXCEPT ![n] = "closed"]
  /\ snapshots' = [snapshots EXCEPT ![n] = figures[n]]
  /\ UNCHANGED figures

Next == \E n \in PeriodNo : Open(n) \/ Submit(n) \/ Enter(n) \/ Close(n)

Spec == Init /\ [][Next]_vars
=============================================================================
