---------------------------- MODULE MCPeriodCycle ----------------------------
\* PeriodCycle for TLC: two interchangeable requests on one BoQ item.
EXTENDS PeriodCycle, TLC

Openers == {w \in Workers : tx[w].pc \in {"openLock"} \cup Opening}

FirstEntries ==
  /\ \A n \in PeriodNo, i \in Items : facts[n][i].version <= 1
  /\ \A w \in Workers :
       /\ tx[w].pc \in {"factRead", "factCommit"} => facts[tx[w].p][tx[w].item].version = 0
       /\ tx[w].pc \notin {"disputeMark", "disputeInsert", "forceFact"}

\* Bound: entries over an entry, and disputes, are explored on the first period
\* before the second is asked for.
Explored ==
  \/ Openers = {} /\ \A n \in PeriodNo \ {1} : status[n] = "none"
  \/ FirstEntries

WorkerSymmetry == Permutations(Workers)
=============================================================================
