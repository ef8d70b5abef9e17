---------------------------- MODULE PeriodLiveness ----------------------------
(***************************************************************************)
(* Does a reporting period get closed?  Fairness: the server finishes or   *)
(* refuses every request it took (Prisma ends a transaction after 5 s), a  *)
(* request that keeps being repeated is not cut off for ever, and the SC   *)
(* keeps entering facts and asking for the close whenever the API accepts  *)
(* it.  Nothing obliges the GP to submit, and nothing ends a dispute: the  *)
(* SLA worker does while its timers run, but submitGpResponse cancels them *)
(* all (dispute.service.ts:104), so what needs an end of the disputes says *)
(* so in its premise.                                                      *)
(***************************************************************************)
EXTENDS PeriodCycle

On(w, n) == tx[w].p = n

ServerCompletes ==
  \A w \in Workers :
    /\ WF_vars(TxStep(w))
    /\ \A n \in PeriodNo :
         /\ SF_vars(On(w, n) /\ FactRead(w)) /\ SF_vars(On(w, n) /\ FactCommit(w))
         /\ SF_vars(On(w, n) /\ CloseCount(w)) /\ SF_vars(On(w, n) /\ CloseCompute(w))
         /\ SF_vars(On(w, n) /\ CloseSnapshot(w)) /\ SF_vars(On(w, n) /\ CloseCommit(w))

SiteControlActs ==
  \A n \in PeriodNo :
    /\ SF_vars(\E w \in Workers, i \in Items, vol \in Vols :
                 FactRequest(w, n, i, vol, Null))
    /\ SF_vars(disputes[n] = {} /\ \E w \in Workers : CloseRead(w, n))

FairSpec == Spec /\ ServerCompletes /\ SiteControlActs

\* A period the GP submitted is closed in the end, unless a dispute of it stays
\* open for ever: no order of facts, disputes and aborted closes locks its site
\* control out.
SubmittedPeriodCloses ==
  \A n \in PeriodNo :
    []<>(disputes[n] = {}) => (submitted[n] ~> status[n] = "closed")

\* algorithm_v1_3.md blocks C2 and C4: when the GP's deadline passes without a
\* submission the SC enters the facts and the period is closed all the same (unless
\* a dispute of it stays open for ever, as above).
ExpiredPeriodCloses ==
  \A n \in PeriodNo :
    []<>(disputes[n] = {}) =>
      (status[n] = "open" /\ expired[n] /\ ~submitted[n] ~> status[n] = "closed")
=============================================================================
