---------------------------- MODULE MCDisputeSla ----------------------------
(***************************************************************************)
(* DisputeSla for TLC: its bounds, and the fairness of its liveness        *)
(* property.                                                               *)
(***************************************************************************)
EXTENDS DisputeSla

\* Bounds: one dispute goes through both scenarios, answered on its first day, with every
\* mix of failures; two of them run into their deadlines, with one failure at most.
Bounded ==
  LET two == Len(disputes') = 2
      replies(c) == requests'[c].pc = "respond" \/ requests'[c].scenario = "B"
  IN
  /\ two => failures' + losses' <= 1
  /\ \A c \in Clients : requests[c].pc = "idle" /\ replies(c) => day = 0 /\ ~two

\* Days pass, Kubernetes restarts a worker that died, a worker that is up and
\* has something to do does some of it, and a request that runs goes on unless
\* it dies.  Nobody is obliged to answer or to reject anything.
FairSpec ==
  /\ Init /\ [][Next /\ Bounded]_vars
  /\ WF_vars(Tick) /\ WF_vars(WorkerStart) /\ WF_vars(WorkerStep)
  /\ \A c \in Clients : WF_vars(RequestStep(c))

\* Nothing is pending but what failed for good, which the operators watch.
Settled == \A e \in Pending : jobs[e].state = "failed"

\* ADR-005: a restart of the worker brings back every pending event, overdue ones
\* included: once Redis keeps its data and requests end, each is executed,
\* cancelled or in the failed set.
RestartSettles ==
  worker.pc = "down" /\ losses = MaxLosses ~> Settled
=============================================================================
