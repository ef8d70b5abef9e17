----------------------------- MODULE MCWebClient -----------------------------
(***************************************************************************)
(* One site control browser, one GP tab in a browser that holds an access  *)
(* token, and two different forms.                                         *)
(***************************************************************************)
EXTENDS WebClient, TLC

CONSTANTS f1, f2

\* The two sides meet in the period only: the site control's browser is at rest while
\* a GP page loads, is filled in or has submissions under way.
GpAtRest == \A t \in GpTabs : /\ pages[t].phase \in {"unopened", "already", "success"}
                              /\ \A s \in Slots : submits[t][s].state = "idle"

ScAtRest == \A t \in ScTabs : /\ \A m \in Mutation : calls[t][m].state = "idle"
                              /\ \A q \in Query : cache[t][q].fetch = "idle"

\* A second form is typed over the first while that one is on its way; what follows a
\* success over such a form is what follows any success.
SecondFormAtOnce ==
  \A t \in GpTabs : pages[t].form = f2 \/ pages[t].edited =>
    pages[t].phase = "form" /\ \E s \in Slots : submits[t][s].state # "idle"

\* The query of a page that was left waits for its answer until the page is back.
LeftAlone(t) ==
  \/ view[t] = "period" /\ cache[t]["objectDetail"].fetch \in {"idle", "asked"}
                        /\ cache[t]["objectDetail"].data.status \in {"none", "open"}
  \/ view[t] = "objectDetail" /\ cache[t]["period"].fetch \in {"idle", "asked"}
                              /\ \A m \in Mutation : m # "open" => calls[t][m].state = "idle"

\* What is said of a link or a login that expires is said before the SC's part.
ExpiryEarly ==
  /\ \A t \in ScTabs \ signed : GpAtRest /\ cache[t][view[t]].known
  /\ GpAtRest => GpTabs \subseteq signed
  /\ expired => ScAtRest \/ period.status = "open"
  /\ period.status \in {"verification", "closed"} =>
       \A t \in GpTabs : pages[t].phase = "success"

Explored ==
  /\ GpAtRest \/ ScAtRest
  /\ SecondFormAtOnce
  /\ \A t \in ScTabs : LeftAlone(t)
  /\ ExpiryEarly
=============================================================================
