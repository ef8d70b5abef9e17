----------------------------- MODULE MCAnalytics -----------------------------
(***************************************************************************)
(* Three periods of one line, with a window of three and a decay of a      *)
(* half; and, over periods without figures, two dashboards and one object  *)
(* page.                                                                   *)
(***************************************************************************)
EXTENDS Analytics

MCWeight  == [l \in Line |-> 1]
MCPlan    == [l \in Line |-> 2]
Half      == <<1, 2>>
ThreeHalf == <<3, 2>>

AnyDashboard == Permutations(Dashboards)

\* Bounds on the figures: one per line and period and one written late, of which only
\* the largest is explained, as an error; of a planned pause, a late figure and a second
\* version only one at a time; a figure under way during a close, and two closes at a
\* time, only before the third period is opened.
FiguresOnce ==
  /\ entry # NoEntry =>
       /\ facts[entry.period][entry.line] = NoFact \/ (late = {} /\ entry.reply = "none")
       /\ entry.reply # "planned_concentration"
       /\ entry.reply # "none" => entry.volume = 2
       /\ \A p \in entry.period + 1..MaxPeriod : facts[p][entry.line] = NoFact
  /\ LET pauses == {p \in Period : periods[p].pause}
         closes == {p \in Period : closing[p].on}
     IN /\ Cardinality(pauses) + Cardinality(late) + version - 1 <= 1
        /\ entry # NoEntry /\ closes # {} => entry.reply = "none" /\ Newest <= 2
        /\ Cardinality(closes) > 1 => entry = NoEntry /\ Newest = 2

\* The pages read what the closing of periods left: the figures are explored without
\* the pages, and the pages over one period and the opening of the next, without
\* figures, two pages at a time, of which one fetches, and both refresh only when
\* neither fetches.
PagesAtRest ==
  /\ ~old
  /\ \A t \in Page : tabs[t].fetch = "unopened"

NoFigures ==
  /\ entry = NoEntry /\ version = 1
  /\ \A p \in Opened :
       IF p = 1 THEN 1 \in Closed \/ closing[1].paced = Line
       ELSE p = 2 /\ 1 \in Closed /\ periods[p].status = "open"
  /\ \A p \in Period : ~periods[p].pause /\ \A l \in Line : facts[p][l] = NoFact

OneAtWork ==
  /\ \E t \in Page : tabs[t].fetch = "unopened"
  /\ \A t, u \in Page : tabs[t].fetch = "asked" /\ tabs[u].fetch = "asked" => t = u
  /\ (\E t \in Page : tabs[t].fetch = "asked") =>
       \E t \in Dashboards : refreshes[t].at = "idle"
  /\ old => Newest <= 1 /\ \A t \in ObjectPages : tabs[t].fetch = "unopened"

Explored == (PagesAtRest /\ FiguresOnce) \/ (NoFigures /\ OneAtWork)
=============================================================================
