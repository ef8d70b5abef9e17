---------------------------- MODULE AnalyticsProofs ----------------------------
(***************************************************************************)
(* Proofs about Analytics for any number of tabs, periods, lines and BoQ   *)
(* versions.  The pages first: whether one is stale depends on which       *)
(* periods were closed, not on figures, so that what closing computes      *)
(* stays unexpanded.  Then the deltas that closing stores, and what is     *)
(* said of sums: an induction over finite sets, the sums, means and paces  *)
(* of calcItemPace, the types of all that closing computes, the bounds of  *)
(* a pace, and the volumes that add up to a figure.                        *)
(***************************************************************************)
EXTENDS Analytics, FiniteSetTheorems, WellFoundedInduction, TLAPS

-----------------------------------------------------------------------------
\* The periods

PeriodRow == [status : {"none", "open", "verification", "closed"}, version : Nat, pause : BOOLEAN]

\* Periods are numbered in the order they are opened, without a gap.
PeriodsNumbered ==
  /\ periods \in [Period -> PeriodRow] /\ version \in Nat
  /\ Newest \in 0..MaxPeriod /\ Opened = 1..Newest

\* One period changes its status.
LEMMA StatusChanges ==
  ASSUME PeriodsNumbered, NEW p \in Period, NEW s \in {"open", "verification", "closed"},
         periods[p].status # "none", periods' = [periods EXCEPT ![p].status = s],
         version' = version, s # "closed" => periods[p].status # "closed"
  PROVE  PeriodsNumbered' /\ Closed \subseteq Closed' /\ Newest' = Newest
  <1>1. PICK n : n = [periods[p] EXCEPT !.status = s]
    OBVIOUS
  <1>2. n \in PeriodRow /\ n.status = s
    BY <1>1 DEF PeriodsNumbered, PeriodRow
  <1>3. periods' = [periods EXCEPT ![p] = n]
    BY <1>1
  <1>4. /\ periods' \in [Period -> PeriodRow] /\ periods'[p].status = s
        /\ \A q \in Period : q # p => periods'[q] = periods[q]
    BY <1>2, <1>3 DEF PeriodsNumbered
  <1>5. Opened' = Opened
    BY <1>4 DEF Opened
  <1>6. Newest' = Newest
    BY <1>5 DEF Newest
  <1>7. QED
    BY <1>4, <1>5, <1>6 DEF PeriodsNumbered, Closed

\* openPeriod takes the next number: it reopens no period.
LEMMA OpeningAdds ==
  ASSUME PeriodsNumbered, NEW pause \in BOOLEAN, OpenPeriod(pause)
  PROVE  PeriodsNumbered' /\ Closed \subseteq Closed' /\ Newest' = Newest + 1
  <1>1. PICK k : k = Newest + 1
    OBVIOUS
  <1>2. k \in Period /\ k \notin Opened /\ Opened \cup {k} = 1..k /\ k \in 0..MaxPeriod
    BY <1>1, AnalyticsAssumption DEF PeriodsNumbered, OpenPeriod, Period
  <1>3. PICK n : n = [status |-> "open", version |-> version, pause |-> pause]
    OBVIOUS
  <1>4. n \in PeriodRow /\ n.status = "open"
    BY <1>3 DEF PeriodsNumbered, PeriodRow
  <1>5. periods' = [periods EXCEPT ![k] = n] /\ version' = version
    BY <1>1, <1>3 DEF OpenPeriod
  <1>6. /\ periods' \in [Period -> PeriodRow] /\ periods'[k].status = "open"
        /\ \A q \in Period : q # k => periods'[q] = periods[q]
    BY <1>2, <1>4, <1>5 DEF PeriodsNumbered
  <1>7. Opened' = 1..k
    BY <1>2, <1>6 DEF Opened
  <1>8. Newest' = k
    <2>1. Cardinality(1..k) = k
      BY <1>2, FS_Interval
    <2>2. QED
      BY <1>7, <2>1 DEF Newest
  <1>9. Closed \subseteq Closed'
    BY <1>2, <1>6 DEF Closed, Opened
  <1>10. QED
    BY <1>1, <1>2, <1>5, <1>6, <1>7, <1>8, <1>9 DEF PeriodsNumbered

-----------------------------------------------------------------------------
\* The closes

\* A close under way is of a period in verification; the others have measured nothing.
ClosesFit ==
  /\ DOMAIN closing = Period
  /\ \A p \in Period :
       /\ DOMAIN closing[p] = {"on", "readiness", "measured", "paced", "forecast"}
       /\ closing[p].on => periods[p].status = "verification"
       /\ ~closing[p].on => closing[p].measured = {}

\* What a step of p's close makes of it.
CloseBecomes(p, c) ==
  /\ DOMAIN c = {"on", "readiness", "measured", "paced", "forecast"}
  /\ DOMAIN closing' = Period /\ closing'[p] = c
  /\ \A q \in Period : q # p => closing'[q] = closing[q]

LEMMA Becomes ==
  ASSUME ClosesFit, NEW p \in Period, NEW c, closing' = [closing EXCEPT ![p] = c],
         DOMAIN c = {"on", "readiness", "measured", "paced", "forecast"}
  PROVE  CloseBecomes(p, c)
  BY DEF ClosesFit, CloseBecomes

LEMMA BeginEffect ==
  ASSUME ClosesFit, NEW p \in Period, CloseBegin(p)
  PROVE  \E c : /\ CloseBecomes(p, c) /\ c.on /\ c.readiness = ClosedReadiness(p)
                /\ c.measured = {} /\ c.paced = {} /\ c.forecast = [l \in Line |-> NoForecast]
  <1>1. PICK m : m = [NotClosing EXCEPT !.on = TRUE]
    OBVIOUS
  <1>2. /\ DOMAIN m = {"on", "readiness", "measured", "paced", "forecast"} /\ m.on
        /\ m.measured = {} /\ m.paced = {} /\ m.forecast = [l \in Line |-> NoForecast]
    BY <1>1 DEF NotClosing
  <1>3. PICK c : c = [m EXCEPT !.readiness = ClosedReadiness(p)]
    OBVIOUS
  <1>4. /\ DOMAIN c = {"on", "readiness", "measured", "paced", "forecast"} /\ c.on
        /\ c.readiness = ClosedReadiness(p)
        /\ c.measured = {} /\ c.paced = {} /\ c.forecast = [l \in Line |-> NoForecast]
    BY <1>2, <1>3
  <1>5. closing' = [closing EXCEPT ![p] = c]
    BY <1>1, <1>3 DEF CloseBegin
  <1>6. CloseBecomes(p, c)
    BY <1>4, <1>5, Becomes
  <1>7. QED
    BY <1>4, <1>6

LEMMA DeltaEffect ==
  ASSUME ClosesFit, NEW p \in Period, NEW l \in Line, CloseDelta(p, l)
  PROVE  \E c : /\ CloseBecomes(p, c) /\ c.on /\ c.readiness = closing[p].readiness
                /\ c.measured = closing[p].measured \cup {l}
                /\ c.paced = closing[p].paced /\ c.forecast = closing[p].forecast
  <1>1. DOMAIN closing[p] = {"on", "readiness", "measured", "paced", "forecast"} /\ closing[p].on
    BY DEF ClosesFit, CloseDelta
  <1>2. PICK c : c = [closing[p] EXCEPT !.measured = closing[p].measured \cup {l}]
    OBVIOUS
  <1>3. closing' = [closing EXCEPT ![p] = c]
    BY <1>2 DEF CloseDelta
  <1>4. /\ DOMAIN c = {"on", "readiness", "measured", "paced", "forecast"} /\ c.on
        /\ c.readiness = closing[p].readiness /\ c.measured = closing[p].measured \cup {l}
        /\ c.paced = closing[p].paced /\ c.forecast = closing[p].forecast
    BY <1>1, <1>2
  <1>5. CloseBecomes(p, c)
    BY <1>3, <1>4, Becomes
  <1>6. QED
    BY <1>4, <1>5

LEMMA LineEffect ==
  ASSUME ClosesFit, NEW p \in Period, NEW l \in Line, CloseLine(p, l)
  PROVE  \E c, x :
           /\ CloseBecomes(p, c) /\ c.on /\ c.readiness = closing[p].readiness
           /\ c.measured = closing[p].measured /\ c.paced = closing[p].paced \cup {l}
           /\ x = LineForecast(paces, CleanWindow(Closed \cup {p}, p), p, l)
           /\ c.forecast = [closing[p].forecast EXCEPT ![l] = x]
  <1>1. DOMAIN closing[p] = {"on", "readiness", "measured", "paced", "forecast"} /\ closing[p].on
    BY DEF ClosesFit, CloseLine
  <1>2. PICK x : x = LineForecast(paces, CleanWindow(Closed \cup {p}, p), p, l)
    OBVIOUS
  <1>3. PICK f : f = [closing[p].forecast EXCEPT ![l] = x]
    OBVIOUS
  <1>4. PICK m : m = [closing[p] EXCEPT !.paced = closing[p].paced \cup {l}]
    OBVIOUS
  <1>5. /\ DOMAIN m = {"on", "readiness", "measured", "paced", "forecast"} /\ m.on
        /\ m.readiness = closing[p].readiness /\ m.measured = closing[p].measured
        /\ m.paced = closing[p].paced \cup {l} /\ m.forecast = closing[p].forecast
    BY <1>1, <1>4
  <1>6. PICK c : c = [m EXCEPT !.forecast = f]
    OBVIOUS
  <1>7. /\ DOMAIN c = {"on", "readiness", "measured", "paced", "forecast"} /\ c.on
        /\ c.readiness = closing[p].readiness /\ c.measured = closing[p].measured
        /\ c.paced = closing[p].paced \cup {l} /\ c.forecast = f
    BY <1>5, <1>6
  <1>8. closing' = [closing EXCEPT ![p] = c]
    <2>1. PICK k : k = [closing EXCEPT ![p] = m]
      OBVIOUS
    <2>2. DOMAIN closing = Period /\ k[p] = m
      BY <2>1 DEF ClosesFit
    <2>3. closing' = [k EXCEPT ![p].forecast[l] = x]
      BY <1>2, <1>4, <2>1 DEF CloseLine
    <2>4. closing' = [k EXCEPT ![p] = c]
      BY <1>3, <1>5, <1>6, <2>2, <2>3
    <2>5. QED
      BY <2>1, <2>2, <2>4
  <1>9. CloseBecomes(p, c)
    BY <1>7, <1>8, Becomes
  <1>10. QED
    BY <1>2, <1>3, <1>7, <1>9

LEMMA EndEffect ==
  ASSUME ClosesFit, NEW p \in Period, CloseCommit(p) \/ CloseAbort(p)
  PROVE  CloseBecomes(p, NotClosing) /\ ~NotClosing.on /\ NotClosing.measured = {}
  <1>1. closing' = [closing EXCEPT ![p] = NotClosing]
    BY DEF CloseCommit, CloseAbort
  <1>2. /\ DOMAIN NotClosing = {"on", "readiness", "measured", "paced", "forecast"}
        /\ ~NotClosing.on /\ NotClosing.measured = {}
    BY DEF NotClosing
  <1>3. QED
    BY <1>1, <1>2, Becomes

CloseStep(p) ==
  \/ CloseBegin(p) \/ CloseCommit(p) \/ CloseAbort(p)
  \/ \E l \in Line : CloseDelta(p, l) \/ CloseLine(p, l)

\* Whatever happens to the periods, none is closed or opened back.
LEMMA PeriodsGrow ==
  ASSUME PeriodsNumbered, ClosesFit, SourceStep
  PROVE  PeriodsNumbered' /\ Closed \subseteq Closed' /\ Newest <= Newest' /\ UNCHANGED screen
  <1>0. Newest \in Int
    BY DEF PeriodsNumbered
  <1>1. ASSUME NEW pause \in BOOLEAN, OpenPeriod(pause)
        PROVE  PeriodsNumbered' /\ Closed \subseteq Closed' /\ Newest <= Newest'
    BY <1>0, <1>1, OpeningAdds
  <1>2. ASSUME NEW p \in Period, Verify(p) \/ CloseCommit(p)
        PROVE  PeriodsNumbered' /\ Closed \subseteq Closed' /\ Newest <= Newest'
    <2>1. PICK s \in {"verification", "closed"} :
            /\ periods' = [periods EXCEPT ![p].status = s]
            /\ s # "closed" => periods[p].status = "open"
      BY <1>2 DEF Verify, CloseCommit
    <2>2. periods[p].status # "none" /\ version' = version
      BY <1>2 DEF Verify, CloseCommit, ClosesFit
    <2>3. s # "closed" => periods[p].status # "closed"
      BY <2>1
    <2>4. PeriodsNumbered' /\ Closed \subseteq Closed' /\ Newest' = Newest
      BY <2>1, <2>2, <2>3, StatusChanges
    <2>5. QED
      BY <1>0, <2>4
  <1>3. ASSUME UNCHANGED periods, version' = version \/ version' = version + 1
        PROVE  PeriodsNumbered' /\ Closed \subseteq Closed' /\ Newest <= Newest'
    BY <1>0, <1>3 DEF PeriodsNumbered, Closed, Opened, Newest
  <1>4. ASSUME NEW p \in Period, CloseStep(p), ~CloseCommit(p)
        PROVE  UNCHANGED periods /\ version' = version
    BY <1>4 DEF CloseStep, CloseBegin, CloseDelta, CloseLine, CloseAbort
  <1>5. UNCHANGED screen
    <2>1. ASSUME NEW p \in Period, CloseStep(p) PROVE UNCHANGED screen
      BY <2>1 DEF CloseStep, CloseBegin, CloseDelta, CloseLine, CloseCommit, CloseAbort
    <2>2. ASSUME NEW p \in Period, NEW l \in Line, NEW v \in Volume, NEW reply \in Reply,
                 EnterRead(p, l, v, reply)
          PROVE  UNCHANGED screen
      BY <2>2 DEF EnterRead
    <2>3. ASSUME NEW pause \in BOOLEAN, OpenPeriod(pause) PROVE UNCHANGED screen
      BY <2>3 DEF OpenPeriod
    <2>4. ASSUME NewVersion \/ EnterWrite \/ \E p \in Period : Verify(p) PROVE UNCHANGED screen
      BY <2>4 DEF NewVersion, EnterWrite, Verify
    <2>5. QED
      BY <2>1, <2>2, <2>3, <2>4 DEF SourceStep, CloseStep
  <1>6. QED
    BY <1>1, <1>2, <1>3, <1>4, <1>5 DEF SourceStep, NewVersion, EnterWrite, EnterRead, CloseStep

\* No step takes a period out of verification under its close.
LEMMA ClosesKept ==
  ASSUME PeriodsNumbered, ClosesFit, [Next]_vars
  PROVE  ClosesFit'
  <1>1. ASSUME UNCHANGED closing,
               \A q \in Period : periods[q].status = "verification" => periods'[q].status = "verification"
        PROVE  ClosesFit'
    BY <1>1 DEF ClosesFit
  <1>2. ASSUME NEW pause \in BOOLEAN, OpenPeriod(pause) PROVE ClosesFit'
    <2>1. PICK k : k = Newest + 1 /\ k \in Period /\ k \notin Opened
      BY <1>2, AnalyticsAssumption DEF PeriodsNumbered, OpenPeriod, Period
    <2>2. periods[k].status = "none"
      BY <2>1 DEF Opened
    <2>3. /\ UNCHANGED closing
          /\ periods' = [periods EXCEPT ![k] = [status |-> "open", version |-> version, pause |-> pause]]
      BY <1>2, <2>1 DEF OpenPeriod
    <2>4. \A q \in Period : q # k => periods'[q] = periods[q]
      BY <2>3 DEF PeriodsNumbered
    <2>5. QED
      BY <1>1, <2>2, <2>3, <2>4
  <1>3. ASSUME NEW p \in Period, Verify(p) PROVE ClosesFit'
    <2>1. /\ UNCHANGED closing /\ periods[p].status = "open"
          /\ periods' = [periods EXCEPT ![p].status = "verification"]
      BY <1>3 DEF Verify
    <2>2. \A q \in Period : q # p => periods'[q] = periods[q]
      BY <2>1 DEF PeriodsNumbered
    <2>3. QED
      BY <1>1, <2>1, <2>2
  <1>4. ASSUME NEW p \in Period, CloseBegin(p) \/ CloseAbort(p) \/ \E l \in Line : CloseDelta(p, l) \/ CloseLine(p, l)
        PROVE  ClosesFit'
    <2>1. UNCHANGED periods
      BY <1>4 DEF CloseBegin, CloseAbort, CloseDelta, CloseLine
    <2>2. \E c : CloseBecomes(p, c) /\ (c.on => periods[p].status = "verification") /\ (~c.on => c.measured = {})
      <3>1. CASE CloseBegin(p)
        BY <3>1, BeginEffect DEF CloseBegin
      <3>2. CASE CloseAbort(p)
        BY <3>2, EndEffect
      <3>3. ASSUME NEW l \in Line, CloseDelta(p, l) \/ CloseLine(p, l)
            PROVE  \E c : CloseBecomes(p, c) /\ c.on /\ periods[p].status = "verification"
        <4>1. periods[p].status = "verification"
          BY <3>3 DEF ClosesFit, CloseDelta, CloseLine
        <4>2. \E c : CloseBecomes(p, c) /\ c.on
          BY <3>3, DeltaEffect, LineEffect
        <4>3. QED
          BY <4>1, <4>2
      <3>4. QED
        BY <1>4, <3>1, <3>2, <3>3
    <2>3. QED
      BY <2>1, <2>2 DEF ClosesFit, CloseBecomes
  <1>5. ASSUME NEW p \in Period, CloseCommit(p) PROVE ClosesFit'
    <2>1. CloseBecomes(p, NotClosing) /\ ~NotClosing.on /\ NotClosing.measured = {}
      BY <1>5, EndEffect
    <2>2. periods' = [periods EXCEPT ![p].status = "closed"]
      BY <1>5 DEF CloseCommit
    <2>3. \A q \in Period : q # p => periods'[q] = periods[q]
      BY <2>2 DEF PeriodsNumbered
    <2>4. QED
      BY <2>1, <2>3 DEF ClosesFit, CloseBecomes
  <1>6. ASSUME UNCHANGED <<periods, closing>> PROVE ClosesFit'
    BY <1>1, <1>6
  <1>7. CASE NewVersion \/ EnterWrite \/ \E p \in Period, l \in Line, v \in Volume, reply \in Reply :
                                           EnterRead(p, l, v, reply)
    BY <1>6, <1>7 DEF NewVersion, EnterWrite, EnterRead
  <1>8. CASE HalfHourPasses \/ (\E t \in Page : PageStep(t)) \/ UNCHANGED vars
    <2>1. UNCHANGED source
      BY <1>8 DEF HalfHourPasses, PageStep, Click, TakeLock, Build, Commit, Abort, Succeeds, Fails,
         Refetch, ReadRow, ReadHistory, ReadMeta, Arrives, Errs, vars
    <2>2. QED
      BY <1>6, <2>1 DEF source
  <1>9. QED
    BY <1>2, <1>3, <1>4, <1>5, <1>7, <1>8 DEF Next, SourceStep

-----------------------------------------------------------------------------
\* The pages

\* What has been read into an answer under way is as new as the page's own refresh,
\* and of the history's making.
AnswerFits(t, tab, a) ==
  /\ "row" \in tab.read => a \subseteq tab.part.row.closed /\ tab.part.row.closed \subseteq Closed
  /\ t \in ObjectPages /\ "history" \in tab.read =>
       "row" \in tab.read /\ tab.part.row.closed \subseteq tab.part.history

\* What the page shows is.
DataFits(t, tab, a) ==
  /\ tab.fetch = "idle" /\ tab.known /\ ~tab.failed => a \subseteq tab.data.row.closed
  /\ ~tab.known => a = {}
  /\ t \in ObjectPages /\ tab.known => tab.data.row.closed \subseteq tab.data.history

DataShaped(d) == DOMAIN d = {"row", "history", "stale"}
TabShaped(tab) ==
  /\ DOMAIN tab = {"known", "failed", "data", "fetch", "read", "part"}
  /\ DataShaped(tab.part)

\* The row a refresh has built, over a view no other refresh can replace, and the view
\* it has left behind.
RowFits(r) ==
  /\ DOMAIN r = {"at", "row"}
  /\ r.at = "built" =>
       /\ view.closed \subseteq r.row.closed /\ r.row.closed \subseteq Closed
       /\ r.row.period \in Nat /\ view.period <= r.row.period /\ r.row.period <= Newest
  /\ r.at = "done" => r.row.closed \subseteq view.closed

OneRefreshes ==
  \A t, u \in Page :
    refreshes[t].at \in {"locked", "built"} /\ refreshes[u].at \in {"locked", "built"} => t = u

ViewPast == view.closed \subseteq Closed /\ view.period \in Nat /\ view.period <= Newest

IInv ==
  /\ PeriodsNumbered /\ ViewPast /\ OneRefreshes
  /\ DOMAIN tabs = Page /\ DOMAIN refreshes = Page /\ DOMAIN acked = Page
  /\ \A t \in Page :
       /\ TabShaped(tabs[t]) /\ RowFits(refreshes[t])
       /\ AnswerFits(t, tabs[t], acked[t]) /\ DataFits(t, tabs[t], acked[t])
       /\ acked[t] \subseteq view.closed

\* The periods go on, and the pages stay as they are.
LEMMA SourceStepKeeps ==
  ASSUME IInv, ClosesFit, SourceStep
  PROVE  IInv'
  <1>1. PeriodsNumbered' /\ Closed \subseteq Closed' /\ Newest <= Newest' /\ UNCHANGED screen
    BY PeriodsGrow DEF IInv
  <1>2. Newest \in Int /\ Newest' \in Int
    BY <1>1 DEF IInv, PeriodsNumbered
  <1>3. ViewPast' /\ OneRefreshes'
    BY <1>1, <1>2 DEF screen, IInv, ViewPast, OneRefreshes
  <1>4. ASSUME NEW t \in Page
        PROVE  RowFits(refreshes[t])' /\ AnswerFits(t, tabs[t], acked[t])'
    <2>1. RowFits(refreshes[t]) /\ AnswerFits(t, tabs[t], acked[t])
      BY DEF IInv
    <2>2. view' = view /\ tabs'[t] = tabs[t] /\ refreshes'[t] = refreshes[t] /\ acked'[t] = acked[t]
      BY <1>1 DEF screen
    <2>3. RowFits(refreshes[t])'
      BY <1>1, <1>2, <2>1, <2>2 DEF RowFits
    <2>4. AnswerFits(t, tabs[t], acked[t])'
      BY <1>1, <2>1, <2>2 DEF AnswerFits
    <2>5. QED
      BY <2>3, <2>4
  <1>5. QED
    BY <1>1, <1>3, <1>4 DEF screen, IInv, TabShaped, DataShaped, DataFits

\* A page's query goes on.
TabBecomes(t, n) == tabs' = [tabs EXCEPT ![t] = n]

LEMMA TabStepKeeps ==
  ASSUME IInv, NEW t \in Page, NEW n, TabBecomes(t, n),
         UNCHANGED <<source, view, refreshes, acked>>,
         TabShaped(n), AnswerFits(t, n, acked[t]), DataFits(t, n, acked[t])
  PROVE  IInv'
  <1>1. /\ DOMAIN tabs' = Page /\ tabs'[t] = n
        /\ \A u \in Page : u # t => tabs'[u] = tabs[u]
    BY DEF IInv, TabBecomes
  <1>2. /\ periods' = periods /\ version' = version /\ view' = view
        /\ refreshes' = refreshes /\ acked' = acked
    BY DEF source
  <1>3. Opened' = Opened /\ Closed' = Closed /\ Newest' = Newest
    BY <1>2 DEF Opened, Closed, Newest
  <1>4. PeriodsNumbered' /\ ViewPast' /\ OneRefreshes'
    BY <1>2, <1>3 DEF IInv, PeriodsNumbered, ViewPast, OneRefreshes
  <1>5. ASSUME NEW u \in Page
        PROVE  /\ TabShaped(tabs'[u]) /\ RowFits(refreshes[u])'
               /\ AnswerFits(u, tabs[u], acked[u])' /\ DataFits(u, tabs'[u], acked[u])
    <2>1. TabShaped(tabs'[u]) /\ DataFits(u, tabs'[u], acked[u])
      BY <1>1 DEF IInv
    <2>2. RowFits(refreshes[u])'
      BY <1>2, <1>3 DEF IInv, RowFits
    <2>3. AnswerFits(u, tabs[u], acked[u])'
      BY <1>1, <1>2, <1>3 DEF IInv, AnswerFits
    <2>4. QED
      BY <2>1, <2>2, <2>3
  <1>6. QED
    BY <1>1, <1>2, <1>4, <1>5 DEF IInv, TabShaped, DataShaped, DataFits


\* A page's refresh goes on, and leaves the view in place.
LEMMA RefreshStepKeeps ==
  ASSUME IInv, NEW t \in Page, NEW n, refreshes' = [refreshes EXCEPT ![t] = n],
         UNCHANGED <<source, view, tabs, acked>>, RowFits(n),
         n.at \in {"locked", "built"} =>
           \A u \in Page : refreshes[u].at \in {"locked", "built"} => u = t
  PROVE  IInv'
  <1>1. /\ DOMAIN refreshes' = Page /\ refreshes'[t] = n
        /\ \A u \in Page : u # t => refreshes'[u] = refreshes[u]
    BY DEF IInv
  <1>2. /\ periods' = periods /\ version' = version /\ view' = view
        /\ tabs' = tabs /\ acked' = acked
    BY DEF source
  <1>3. Opened' = Opened /\ Closed' = Closed /\ Newest' = Newest
    BY <1>2 DEF Opened, Closed, Newest
  <1>4. PeriodsNumbered' /\ ViewPast'
    BY <1>2, <1>3 DEF IInv, PeriodsNumbered, ViewPast
  <1>5. OneRefreshes'
    BY <1>1 DEF IInv, OneRefreshes
  <1>6. ASSUME NEW u \in Page
        PROVE  RowFits(refreshes[u])' /\ AnswerFits(u, tabs[u], acked[u])'
    <2>1. RowFits(refreshes'[u])
      BY <1>1 DEF IInv
    <2>2. RowFits(refreshes[u])'
      BY <1>2, <1>3, <2>1 DEF RowFits
    <2>3. AnswerFits(u, tabs[u], acked[u])'
      BY <1>2, <1>3 DEF IInv, AnswerFits
    <2>4. QED
      BY <2>2, <2>3
  <1>7. QED
    BY <1>1, <1>2, <1>4, <1>5, <1>6 DEF IInv, TabShaped, DataShaped, DataFits

LEMMA AtChanges ==
  ASSUME IInv, NEW t \in Page, NEW at, Sets(t, at)
  PROVE  \E n : /\ refreshes' = [refreshes EXCEPT ![t] = n]
                /\ n.at = at /\ n.row = refreshes[t].row /\ DOMAIN n = {"at", "row"}
  <1>1. DOMAIN refreshes[t] = {"at", "row"}
    BY DEF IInv, RowFits
  <1>2. PICK n : n = [refreshes[t] EXCEPT !.at = at]
    OBVIOUS
  <1>3. n.at = at /\ n.row = refreshes[t].row /\ DOMAIN n = {"at", "row"}
    BY <1>1, <1>2
  <1>4. refreshes' = [refreshes EXCEPT ![t] = n]
    BY <1>2 DEF Sets
  <1>5. QED
    BY <1>3, <1>4

LEMMA FetchingShaped ==
  ASSUME NEW tab, TabShaped(tab)
  PROVE  /\ TabShaped(Fetching(tab)) /\ Fetching(tab).fetch = "asked"
         /\ Fetching(tab).known = tab.known /\ Fetching(tab).data = tab.data
         /\ (Fetching(tab) = tab /\ ~tab.known) \/ Fetching(tab).read = {}
  <1>1. PICK n : n = [tab EXCEPT !.fetch = "asked"]
    OBVIOUS
  <1>2. /\ DOMAIN n = {"known", "failed", "data", "fetch", "read", "part"} /\ n.fetch = "asked"
        /\ n.known = tab.known /\ n.data = tab.data
    BY <1>1 DEF TabShaped
  <1>3. PICK m : m = [n EXCEPT !.read = {}]
    OBVIOUS
  <1>4. /\ DOMAIN m = {"known", "failed", "data", "fetch", "read", "part"}
        /\ m.fetch = "asked" /\ m.read = {} /\ m.known = tab.known /\ m.data = tab.data
    BY <1>2, <1>3
  <1>5. PICK k : k = [m EXCEPT !.part = NoData]
    OBVIOUS
  <1>6. DataShaped(NoData)
    BY DEF DataShaped, NoData
  <1>7. /\ TabShaped(k) /\ k.fetch = "asked" /\ k.read = {}
        /\ k.known = tab.known /\ k.data = tab.data
    BY <1>4, <1>5, <1>6 DEF TabShaped
  <1>8. k = Anew(tab)
    BY <1>1, <1>2, <1>3, <1>4, <1>5 DEF Anew, TabShaped
  <1>9. QED
    BY <1>7, <1>8 DEF Fetching

\* One more query of an answer under way has come in.
Answered(tab, d, q) == [tab EXCEPT !.part = d, !.read = @ \cup {q}]

LEMMA AnsweredShaped ==
  ASSUME NEW tab, TabShaped(tab), NEW d, DataShaped(d), NEW q
  PROVE  /\ TabShaped(Answered(tab, d, q))
         /\ Answered(tab, d, q).part = d /\ Answered(tab, d, q).read = tab.read \cup {q}
         /\ Answered(tab, d, q).known = tab.known /\ Answered(tab, d, q).data = tab.data
         /\ Answered(tab, d, q).fetch = tab.fetch
  <1>1. PICK m : m = [tab EXCEPT !.part = d]
    OBVIOUS
  <1>2. /\ DOMAIN m = {"known", "failed", "data", "fetch", "read", "part"} /\ m.part = d
        /\ m.known = tab.known /\ m.data = tab.data /\ m.fetch = tab.fetch /\ m.read = tab.read
    BY <1>1 DEF TabShaped
  <1>3. Answered(tab, d, q) = [m EXCEPT !.read = tab.read \cup {q}]
    BY <1>1, <1>2 DEF TabShaped, Answered
  <1>4. QED
    BY <1>2, <1>3 DEF TabShaped

\* The fetch under way has failed.
Failed(tab) == [tab EXCEPT !.failed = TRUE, !.fetch = "idle", !.read = {}, !.part = NoData]

LEMMA FailedShaped ==
  ASSUME NEW tab, TabShaped(tab)
  PROVE  /\ TabShaped(Failed(tab)) /\ Failed(tab).failed /\ Failed(tab).read = {}
         /\ Failed(tab).known = tab.known /\ Failed(tab).data = tab.data
  <1>1. PICK n : n = [tab EXCEPT !.failed = TRUE]
    OBVIOUS
  <1>2. /\ DOMAIN n = {"known", "failed", "data", "fetch", "read", "part"} /\ n.failed
        /\ n.known = tab.known /\ n.data = tab.data
    BY <1>1 DEF TabShaped
  <1>3. PICK m : m = [n EXCEPT !.fetch = "idle"]
    OBVIOUS
  <1>4. /\ DOMAIN m = {"known", "failed", "data", "fetch", "read", "part"} /\ m.failed
        /\ m.known = tab.known /\ m.data = tab.data
    BY <1>2, <1>3
  <1>5. PICK k : k = [m EXCEPT !.read = {}]
    OBVIOUS
  <1>6. /\ DOMAIN k = {"known", "failed", "data", "fetch", "read", "part"} /\ k.failed
        /\ k.known = tab.known /\ k.data = tab.data /\ k.read = {}
    BY <1>4, <1>5
  <1>7. PICK j : j = [k EXCEPT !.part = NoData]
    OBVIOUS
  <1>8. DataShaped(NoData)
    BY DEF DataShaped, NoData
  <1>9. TabShaped(j) /\ j.failed /\ j.read = {} /\ j.known = tab.known /\ j.data = tab.data
    BY <1>6, <1>7, <1>8 DEF TabShaped
  <1>10. j = Failed(tab)
    BY <1>1, <1>2, <1>3, <1>4, <1>5, <1>6, <1>7 DEF Failed, TabShaped
  <1>11. QED
    BY <1>9, <1>10

\* A query of the answer under way comes in.
LEMMA ReadKeeps ==
  ASSUME IInv, NEW t \in Page, ReadRow(t) \/ ReadHistory(t) \/ ReadMeta(t)
  PROVE  IInv'
  <1> DEFINE tab == tabs[t]
  <1>0. /\ TabShaped(tab) /\ AnswerFits(t, tab, acked[t]) /\ DataFits(t, tab, acked[t])
        /\ acked[t] \subseteq view.closed /\ view.closed \subseteq Closed /\ DOMAIN tabs = Page
    BY DEF IInv, ViewPast
  <1>1. tab.fetch = "asked" /\ UNCHANGED <<source, view, refreshes, acked>>
    BY DEF ReadRow, ReadHistory, ReadMeta, MayRead
  <1>2. CASE ReadRow(t) /\ ViewColumn = "obj_readiness_pct"
    <2>1. PICK d : d = [tab.part EXCEPT !.row = view]
      OBVIOUS
    <2>2. DataShaped(d) /\ d.row = view
      BY <1>0, <2>1 DEF TabShaped, DataShaped
    <2>3. PICK n : n = Answered(tab, d, "row")
      OBVIOUS
    <2>4. /\ TabShaped(n) /\ n.part = d /\ n.read = tab.read \cup {"row"}
          /\ n.known = tab.known /\ n.data = tab.data /\ n.fetch = "asked"
      BY <1>0, <1>1, <2>2, <2>3, AnsweredShaped
    <2>5. TabBecomes(t, n)
      BY <1>0, <1>2, <2>1, <2>3 DEF ReadRow, TabBecomes, TabShaped, Answered
    <2>6. t \in ObjectPages => "history" \notin tab.read
      BY <1>0, <1>2 DEF ReadRow, MayRead, AnswerFits
    <2>7. AnswerFits(t, n, acked[t])
      BY <1>0, <2>2, <2>4, <2>6 DEF AnswerFits
    <2>8. DataFits(t, n, acked[t])
      BY <1>0, <2>4 DEF DataFits
    <2>9. QED
      BY <1>1, <2>4, <2>5, <2>7, <2>8, TabStepKeeps
  <1>3. CASE ReadRow(t) /\ ViewColumn # "obj_readiness_pct"
    <2>1. PICK m : m = [tab EXCEPT !.fetch = "refused"]
      OBVIOUS
    <2>2. /\ DOMAIN m = {"known", "failed", "data", "fetch", "read", "part"} /\ m.fetch = "refused"
          /\ m.known = tab.known /\ m.data = tab.data
      BY <1>0, <2>1 DEF TabShaped
    <2>3. PICK k : k = [m EXCEPT !.part = NoData]
      OBVIOUS
    <2>4. /\ DOMAIN k = {"known", "failed", "data", "fetch", "read", "part"} /\ k.fetch = "refused"
          /\ k.known = tab.known /\ k.data = tab.data /\ k.part = NoData
      BY <2>2, <2>3
    <2>5. PICK n : n = [k EXCEPT !.read = {}]
      OBVIOUS
    <2>6. /\ TabShaped(n) /\ n.fetch = "refused" /\ n.read = {}
          /\ n.known = tab.known /\ n.data = tab.data
      BY <2>4, <2>5 DEF TabShaped, DataShaped, NoData
    <2>7. n = [tab EXCEPT !.fetch = "refused", !.part = NoData, !.read = {}]
      BY <1>0, <2>1, <2>2, <2>3, <2>4, <2>5 DEF TabShaped
    <2>8. TabBecomes(t, n)
      BY <1>3, <2>7 DEF ReadRow, TabBecomes
    <2>9. AnswerFits(t, n, acked[t]) /\ DataFits(t, n, acked[t])
      BY <1>0, <2>6 DEF AnswerFits, DataFits
    <2>10. QED
      BY <1>1, <2>6, <2>8, <2>9, TabStepKeeps
  <1>4. CASE ReadHistory(t)
    <2>1. PICK d : d = [tab.part EXCEPT !.history = Closed]
      OBVIOUS
    <2>2. DataShaped(d) /\ d.history = Closed /\ d.row = tab.part.row
      BY <1>0, <2>1 DEF TabShaped, DataShaped
    <2>3. PICK n : n = Answered(tab, d, "history")
      OBVIOUS
    <2>4. /\ TabShaped(n) /\ n.part = d /\ n.read = tab.read \cup {"history"}
          /\ n.known = tab.known /\ n.data = tab.data /\ n.fetch = "asked"
      BY <1>0, <1>1, <2>2, <2>3, AnsweredShaped
    <2>5. TabBecomes(t, n)
      BY <1>0, <1>4, <2>1, <2>3 DEF ReadHistory, TabBecomes, TabShaped, Answered
    <2>6. "row" \in tab.read
      BY <1>4 DEF ReadHistory, MayRead
    <2>7. AnswerFits(t, n, acked[t])
      BY <1>0, <2>2, <2>4, <2>6 DEF AnswerFits
    <2>8. DataFits(t, n, acked[t])
      BY <1>0, <2>4 DEF DataFits
    <2>9. QED
      BY <1>1, <2>4, <2>5, <2>7, <2>8, TabStepKeeps
  <1>5. CASE ReadMeta(t)
    <2>1. PICK d : d = [tab.part EXCEPT !.stale = old]
      OBVIOUS
    <2>2. DataShaped(d) /\ d.history = tab.part.history /\ d.row = tab.part.row
      BY <1>0, <2>1 DEF TabShaped, DataShaped
    <2>3. PICK n : n = Answered(tab, d, "meta")
      OBVIOUS
    <2>4. /\ TabShaped(n) /\ n.part = d /\ n.read = tab.read \cup {"meta"}
          /\ n.known = tab.known /\ n.data = tab.data /\ n.fetch = "asked"
      BY <1>0, <1>1, <2>2, <2>3, AnsweredShaped
    <2>5. TabBecomes(t, n)
      BY <1>0, <1>5, <2>1, <2>3 DEF ReadMeta, TabBecomes, TabShaped, Answered
    <2>6. AnswerFits(t, n, acked[t])
      BY <1>0, <2>2, <2>4 DEF AnswerFits
    <2>7. DataFits(t, n, acked[t])
      BY <1>0, <2>4 DEF DataFits
    <2>8. QED
      BY <1>1, <2>4, <2>5, <2>6, <2>7, TabStepKeeps
  <1>6. QED
    BY <1>2, <1>3, <1>4, <1>5


LEMMA QueryKeeps ==
  ASSUME IInv, NEW t \in Page, Refetch(t) \/ Arrives(t) \/ Errs(t)
  PROVE  IInv'
  <1> DEFINE tab == tabs[t]
  <1>0. TabShaped(tab) /\ AnswerFits(t, tab, acked[t]) /\ DataFits(t, tab, acked[t])
    BY DEF IInv
  <1>1. UNCHANGED <<source, view, refreshes, acked>>
    BY DEF Refetch, Arrives, Errs
  <1>2. DataShaped(NoData)
    BY DEF DataShaped, NoData
  <1>3. CASE Refetch(t)
    <2>1. PICK n : n = Fetching(tab)
      OBVIOUS
    <2>2. /\ TabShaped(n) /\ n.fetch = "asked" /\ n.known = tab.known /\ n.data = tab.data
          /\ n = tab \/ n.read = {}
      BY <1>0, <2>1, FetchingShaped
    <2>3. TabBecomes(t, n)
      BY <1>3, <2>1 DEF Refetch, TabBecomes
    <2>4. AnswerFits(t, n, acked[t]) /\ DataFits(t, n, acked[t])
      BY <1>0, <2>2 DEF AnswerFits, DataFits
    <2>5. QED
      BY <1>1, <2>2, <2>3, <2>4, TabStepKeeps
  <1>4. CASE Arrives(t)
    <2>1. PICK d : d = tab.part
      OBVIOUS
    <2>2. PICK n : n = [known |-> TRUE, failed |-> FALSE, data |-> d, fetch |-> "idle", read |-> {},
                        part |-> NoData]
      OBVIOUS
    <2>3. TabShaped(n) /\ n.data = d /\ n.read = {} /\ n.known
      BY <1>2, <2>2 DEF TabShaped
    <2>4. TabBecomes(t, n)
      BY <1>4, <2>1, <2>2 DEF Arrives, TabBecomes
    <2>5. "row" \in tab.read /\ (t \in ObjectPages => "history" \in tab.read)
      BY <1>4 DEF Arrives, Queries
    <2>6. AnswerFits(t, n, acked[t]) /\ DataFits(t, n, acked[t])
      BY <1>0, <2>1, <2>3, <2>5 DEF AnswerFits, DataFits
    <2>7. QED
      BY <1>1, <2>3, <2>4, <2>6, TabStepKeeps
  <1>5. CASE Errs(t)
    <2>1. PICK n : n = Failed(tab)
      OBVIOUS
    <2>2. /\ TabShaped(n) /\ n.failed /\ n.read = {}
          /\ n.known = tab.known /\ n.data = tab.data
      BY <1>0, <2>1, FailedShaped
    <2>3. TabBecomes(t, n)
      BY <1>5, <2>1 DEF Errs, TabBecomes, Failed
    <2>4. AnswerFits(t, n, acked[t]) /\ DataFits(t, n, acked[t])
      BY <1>0, <2>2 DEF AnswerFits, DataFits
    <2>5. QED
      BY <1>1, <2>2, <2>3, <2>4, TabStepKeeps
  <1>6. QED
    BY <1>3, <1>4, <1>5

\* The lock is what keeps a second refresh from building while one is at work.
LEMMA RefreshKeeps ==
  ASSUME IInv, NEW t \in Page, Click(t) \/ TakeLock(t) \/ Build(t) \/ Abort(t) \/ Fails(t)
  PROVE  IInv'
  <1>0. UNCHANGED <<source, view, tabs, acked>>
    BY DEF Click, TakeLock, Build, Abort, Fails
  <1>1. ASSUME NEW at, Sets(t, at), at \notin {"built", "done"},
               at = "locked" => \A u \in Page : refreshes[u].at \in {"locked", "built"} => u = t
        PROVE  IInv'
    <2>1. PICK n : /\ refreshes' = [refreshes EXCEPT ![t] = n]
                   /\ n.at = at /\ n.row = refreshes[t].row /\ DOMAIN n = {"at", "row"}
      BY <1>1, AtChanges
    <2>2. RowFits(n)
      BY <1>1, <2>1 DEF RowFits
    <2>3. QED
      BY <1>0, <1>1, <2>1, <2>2, RefreshStepKeeps
  <1>2. CASE Click(t) \/ TakeLock(t) \/ Abort(t)
    <2>1. CASE TakeLock(t) /\ ~Locked
      BY <1>1, <2>1 DEF TakeLock, Locked
    <2>2. CASE TakeLock(t) /\ Locked
      BY <1>1, <2>2 DEF TakeLock
    <2>3. CASE Click(t) \/ Abort(t)
      BY <1>1, <2>3 DEF Click, Abort
    <2>4. QED
      BY <1>2, <2>1, <2>2, <2>3
  <1>3. CASE Fails(t)
    <2>1. PICK n : n = [at |-> "idle", row |-> NoRow]
      OBVIOUS
    <2>2. RowFits(n) /\ n.at = "idle"
      BY <2>1 DEF RowFits
    <2>3. refreshes' = [refreshes EXCEPT ![t] = n]
      BY <1>3, <2>1 DEF Fails
    <2>4. QED
      BY <1>0, <2>2, <2>3, RefreshStepKeeps
  <1>4. CASE Build(t)
    <2>1. PICK r : r = Current
      OBVIOUS
    <2>2. /\ view.closed \subseteq r.closed /\ r.closed \subseteq Closed
          /\ r.period \in Nat /\ view.period <= r.period /\ r.period <= Newest
      <3>1. Newest \in Nat /\ view.period \in Nat /\ view.period <= Newest
            /\ view.closed \subseteq Closed
        BY DEF IInv, PeriodsNumbered, ViewPast
      <3>2. CASE Newest = 0
        <4>1. Opened = {}
          BY <3>2 DEF IInv, PeriodsNumbered
        <4>2. Closed = {}
          BY <4>1 DEF Opened, Closed
        <4>3. QED
          BY <2>1, <3>1, <3>2, <4>2 DEF Current, NoRow
      <3>3. CASE Newest # 0
        BY <2>1, <3>1, <3>3 DEF Current
      <3>4. QED
        BY <3>2, <3>3
    <2>3. PICK n : n = [at |-> "built", row |-> r]
      OBVIOUS
    <2>4. RowFits(n)
      BY <2>2, <2>3 DEF RowFits
    <2>5. refreshes' = [refreshes EXCEPT ![t] = n]
      BY <1>4, <2>1, <2>3 DEF Build
    <2>6. \A u \in Page : refreshes[u].at \in {"locked", "built"} => u = t
      BY <1>4 DEF Build, IInv, OneRefreshes
    <2>7. QED
      BY <1>0, <2>4, <2>5, <2>6, RefreshStepKeeps
  <1>5. QED
    BY <1>2, <1>3, <1>4

\* The refresh that commits is the only one at work, so that its view is no older.
LEMMA CommitKeeps ==
  ASSUME IInv, NEW t \in Page, Commit(t)
  PROVE  IInv' /\ view.closed \subseteq view'.closed /\ view.period <= view'.period
  <1>0. /\ UNCHANGED <<source, tabs, acked>> /\ view' = refreshes[t].row
        /\ refreshes[t].at = "built" /\ Sets(t, "done")
    BY DEF Commit
  <1>1. PICK n : /\ refreshes' = [refreshes EXCEPT ![t] = n]
                 /\ n.at = "done" /\ n.row = refreshes[t].row /\ DOMAIN n = {"at", "row"}
    BY <1>0, AtChanges
  <1>2. /\ DOMAIN refreshes' = Page /\ refreshes'[t] = n
        /\ \A u \in Page : u # t => refreshes'[u] = refreshes[u]
    BY <1>1 DEF IInv
  <1>3. /\ view.closed \subseteq view'.closed /\ view'.closed \subseteq Closed
        /\ view'.period \in Nat /\ view.period <= view'.period /\ view'.period <= Newest
    BY <1>0 DEF IInv, RowFits
  <1>4. periods' = periods /\ version' = version /\ tabs' = tabs /\ acked' = acked
    BY <1>0 DEF source
  <1>5. Opened' = Opened /\ Closed' = Closed /\ Newest' = Newest
    BY <1>4 DEF Opened, Closed, Newest
  <1>6. PeriodsNumbered' /\ ViewPast'
    BY <1>3, <1>4, <1>5 DEF IInv, PeriodsNumbered, ViewPast
  <1>7. OneRefreshes'
    BY <1>1, <1>2 DEF IInv, OneRefreshes
  <1>8. ASSUME NEW u \in Page
        PROVE  /\ RowFits(refreshes[u])' /\ AnswerFits(u, tabs[u], acked[u])'
               /\ acked[u] \subseteq view'.closed
    <2>1. ASSUME u = t PROVE RowFits(refreshes[u])'
      BY <1>0, <1>1, <1>2, <2>1 DEF RowFits
    <2>2. ASSUME u # t PROVE RowFits(refreshes[u])'
      <3>1. refreshes[u].at # "built"
        BY <1>0, <2>2 DEF IInv, OneRefreshes
      <3>2. RowFits(refreshes[u])
        BY DEF IInv
      <3>3. refreshes'[u] = refreshes[u]
        BY <1>2, <2>2
      <3>4. QED
        BY <1>3, <3>1, <3>2, <3>3 DEF RowFits
    <2>3. RowFits(refreshes[u])'
      BY <2>1, <2>2
    <2>4. AnswerFits(u, tabs[u], acked[u])' /\ acked[u] \subseteq view'.closed
      BY <1>3, <1>4, <1>5 DEF IInv, AnswerFits
    <2>5. QED
      BY <2>3, <2>4
  <1>9. IInv'
    BY <1>2, <1>4, <1>6, <1>7, <1>8 DEF IInv, TabShaped, DataShaped, DataFits
  <1>10. QED
    BY <1>3, <1>9

\* The page that is told of its refresh, and has data, asks anew, so that nothing it
\* shows from then on was read before.
LEMMA SucceedsKeeps ==
  ASSUME IInv, NEW t \in Page, Succeeds(t)
  PROVE  IInv'
  <1>0. /\ UNCHANGED <<source, view>> /\ refreshes[t].at = "done"
        /\ TabShaped(tabs[t]) /\ DataFits(t, tabs[t], acked[t]) /\ AnswerFits(t, tabs[t], acked[t])
    BY DEF Succeeds, IInv
  <1>1. PICK n : n = Fetching(tabs[t])
    OBVIOUS
  <1>2. /\ TabShaped(n) /\ n.fetch = "asked"
        /\ n.known = tabs[t].known /\ n.data = tabs[t].data
        /\ (n = tabs[t] /\ ~tabs[t].known) \/ n.read = {}
    BY <1>0, <1>1, FetchingShaped
  <1>3. PICK r : r = [at |-> "idle", row |-> NoRow]
    OBVIOUS
  <1>4. /\ DOMAIN tabs' = Page /\ tabs'[t] = n
        /\ \A u \in Page : u # t => tabs'[u] = tabs[u]
    BY <1>1 DEF Succeeds, IInv
  <1>5. /\ DOMAIN refreshes' = Page /\ refreshes'[t] = r
        /\ \A u \in Page : u # t => refreshes'[u] = refreshes[u]
    BY <1>3 DEF Succeeds, IInv
  <1>6. /\ DOMAIN acked' = Page
        /\ acked'[t] = IF tabs[t].known THEN refreshes[t].row.closed ELSE acked[t]
        /\ \A u \in Page : u # t => acked'[u] = acked[u]
    BY DEF Succeeds, IInv
  <1>7. periods' = periods /\ version' = version /\ view' = view
    BY <1>0 DEF source
  <1>8. Opened' = Opened /\ Closed' = Closed /\ Newest' = Newest
    BY <1>7 DEF Opened, Closed, Newest
  <1>9. PeriodsNumbered' /\ ViewPast'
    BY <1>7, <1>8 DEF IInv, PeriodsNumbered, ViewPast
  <1>10. OneRefreshes'
    BY <1>3, <1>5 DEF IInv, OneRefreshes
  <1>11. ASSUME NEW u \in Page
         PROVE  /\ TabShaped(tabs'[u]) /\ RowFits(refreshes[u])'
                /\ AnswerFits(u, tabs[u], acked[u])' /\ DataFits(u, tabs'[u], acked'[u])
                /\ acked'[u] \subseteq view'.closed
    <2>1. CASE u = t
      <3>1. RowFits(refreshes[u])'
        BY <1>3, <1>5, <2>1 DEF RowFits
      <3>2. AnswerFits(u, tabs[u], acked[u])' /\ TabShaped(tabs'[u])
        BY <1>0, <1>2, <1>4, <1>6, <1>8, <2>1 DEF AnswerFits
      <3>3. DataFits(u, tabs'[u], acked'[u])
        BY <1>0, <1>2, <1>4, <1>6, <2>1 DEF DataFits
      <3>4. acked'[u] \subseteq view'.closed
        BY <1>0, <1>6, <1>7, <2>1 DEF IInv, RowFits
      <3>5. QED
        BY <3>1, <3>2, <3>3, <3>4
    <2>2. CASE u # t
      <3>1. tabs'[u] = tabs[u] /\ refreshes'[u] = refreshes[u] /\ acked'[u] = acked[u]
        BY <1>4, <1>5, <1>6, <2>2
      <3>2. TabShaped(tabs[u]) /\ DataFits(u, tabs[u], acked[u]) /\ acked[u] \subseteq view.closed
        BY DEF IInv
      <3>3. RowFits(refreshes[u])'
        BY <1>7, <1>8, <3>1 DEF IInv, RowFits
      <3>4. AnswerFits(u, tabs[u], acked[u])'
        BY <1>8, <3>1 DEF IInv, AnswerFits
      <3>5. QED
        BY <1>7, <3>1, <3>2, <3>3, <3>4
    <2>3. QED
      BY <2>1, <2>2
  <1>12. QED
    BY <1>4, <1>5, <1>6, <1>9, <1>10, <1>11 DEF IInv

-----------------------------------------------------------------------------
LEMMA InitIInv == Init => IInv
  <1> SUFFICES ASSUME Init PROVE IInv
    OBVIOUS
  <1>1. Opened = {}
    BY DEF Init, Opened
  <1>2. Newest = 0
    BY <1>1, FS_EmptySet DEF Newest
  <1>3. PeriodsNumbered
    BY <1>1, <1>2, AnalyticsAssumption DEF Init, PeriodsNumbered, PeriodRow
  <1>4. ViewPast
    BY <1>2 DEF Init, ViewPast, NoRow
  <1>5. QED
    BY <1>3, <1>4 DEF Init, IInv, OneRefreshes, TabShaped, DataShaped, NoData, RowFits,
         AnswerFits, DataFits

\* Every step keeps the invariant, and puts no older view in place.
LEMMA StepIInv ==
  ASSUME IInv, ClosesFit, [Next]_vars
  PROVE  /\ IInv'
         /\ view' = view \/ (view.closed \subseteq view'.closed /\ view.period <= view'.period)
  <1>1. CASE SourceStep
    BY <1>1, SourceStepKeeps, PeriodsGrow DEF IInv, screen
  <1>2. CASE HalfHourPasses \/ UNCHANGED vars
    <2>1. /\ periods' = periods /\ version' = version /\ view' = view
          /\ tabs' = tabs /\ refreshes' = refreshes /\ acked' = acked
      BY <1>2 DEF HalfHourPasses, vars, source, screen
    <2>2. Opened' = Opened /\ Closed' = Closed /\ Newest' = Newest
      BY <2>1 DEF Opened, Closed, Newest
    <2>3. QED
      BY <2>1, <2>2 DEF IInv, PeriodsNumbered, ViewPast, OneRefreshes, TabShaped, DataShaped,
           RowFits, AnswerFits, DataFits
  <1>3. ASSUME NEW t \in Page, PageStep(t)
        PROVE  /\ IInv'
               /\ view' = view \/ (view.closed \subseteq view'.closed /\ view.period <= view'.period)
    <2>1. CASE Commit(t)
      BY <2>1, CommitKeeps
    <2>2. CASE ~Commit(t)
      <3>1. view' = view
        BY <1>3, <2>2 DEF PageStep, Click, TakeLock, Build, Abort, Succeeds, Fails, Refetch,
             ReadRow, ReadHistory, ReadMeta, Arrives, Errs
      <3>2. IInv'
        BY <1>3, <2>2, ReadKeeps, QueryKeeps, RefreshKeeps, SucceedsKeeps DEF PageStep
      <3>3. QED
        BY <3>1, <3>2
    <2>3. QED
      BY <2>1, <2>2
  <1>4. QED
    BY <1>1, <1>2, <1>3 DEF Next

\* Whatever is closed, refreshed and fetched at the same time, IInv holds.
THEOREM InductiveInvariant == Spec => [](IInv /\ ClosesFit)
  <1>1. IInv /\ ClosesFit /\ [Next]_vars => IInv' /\ ClosesFit'
    BY StepIInv, ClosesKept DEF IInv
  <1>2. Init => ClosesFit
    BY DEF Init, ClosesFit, NotClosing
  <1>3. QED
    BY <1>1, <1>2, InitIInv, PTL DEF Spec

\* A page with data shows at rest what its own last successful refresh built.
THEOREM OwnRefreshShown == Spec => []RefreshShown
  <1>1. IInv => RefreshShown
    BY DEF IInv, DataFits, RefreshShown
  <1>2. QED
    BY <1>1, InductiveInvariant, PTL

\* getDetail's history holds every period its view's row was built of.
THEOREM HistoryHoldsCurrent == Spec => []CurrentInHistory
  <1>1. IInv => CurrentInHistory
    BY DEF IInv, DataFits, CurrentInHistory, Page
  <1>2. QED
    BY <1>1, InductiveInvariant, PTL

\* The advisory lock keeps the view from going back, however long a build takes.
THEOREM ViewAdvances == Spec => ViewNeverGoesBack
  <1>1. IInv /\ ClosesFit /\ [Next]_vars =>
          [view.closed \subseteq view'.closed /\ view.period <= view'.period]_vars
    <2> SUFFICES ASSUME IInv, ClosesFit, [Next]_vars
                 PROVE  view.closed \subseteq view'.closed /\ view.period <= view'.period
      OBVIOUS
    <2>1. view.period \in Nat
      BY DEF IInv, ViewPast
    <2>2. QED
      BY <2>1, StepIInv
  <1>2. QED
    BY <1>1, InductiveInvariant, PTL DEF Spec, ViewNeverGoesBack

-----------------------------------------------------------------------------
\* The deltas

\* A set of periods has a last one.
LEMMA LastExists ==
  ASSUME NEW n \in Nat, NEW S \in SUBSET (1..n), S # {}
  PROVE  \E q \in S : \A r \in S : r <= q
  <1> DEFINE left == {n - q : q \in S}
  <1>1. left \subseteq Nat /\ left # {}
    <2>1. \A q \in S : n - q \in Nat
      OBVIOUS
    <2>2. QED
      BY <2>1, Zenon
  <1>2. PICK x \in left : \A y \in left : <<y, x>> \notin OpToRel(<, Nat)
    BY <1>1, WFMin, NatLessThanWellFounded, Zenon
  <1>3. \A y \in left : ~(y < x)
    BY <1>1, <1>2, Zenon DEF OpToRel
  <1>4. PICK q \in S : x = n - q
    OBVIOUS
  <1>5. ASSUME NEW r \in S PROVE r <= q
    <2>1. r \in 1..n /\ q \in 1..n
      OBVIOUS
    <2>2. n - r \in left
      OBVIOUS
    <2>3. ~(n - r < n - q)
      BY <1>3, <1>4, <2>2
    <2>4. QED
      BY <2>1, <2>3
  <1>6. QED
    BY <1>5

\* The figure a delta is taken from is that of a closed period.
LEMMA LastIsThere ==
  ASSUME NEW p \in Period, Before(p) # {}
  PROVE  LastBefore(p) \in Before(p) /\ \A r \in Before(p) : r <= LastBefore(p)
  <1>1. Before(p) \in SUBSET (1..MaxPeriod) /\ MaxPeriod \in Nat
    BY AnalyticsAssumption DEF Before, Closed, Period
  <1>2. \E q \in Before(p) : \A r \in Before(p) : r <= q
    BY <1>1, LastExists
  <1>3. QED
    BY <1>2 DEF LastBefore

LEMMA PrecedingThere ==
  ASSUME NEW p \in Period
  PROVE  /\ Before(p) = {} => Preceding(p) = 0
         /\ Before(p) # {} => Preceding(p) = LastBefore(p) /\ Preceding(p) # 0
         /\ Preceding(p) \in Closed \cup {0}
  <1>1. ASSUME Before(p) # {} PROVE LastBefore(p) \in Closed /\ LastBefore(p) # 0
    <2>1. LastBefore(p) \in Closed
      BY <1>1, LastIsThere DEF Before
    <2>2. 0 \notin Closed
      BY AnalyticsAssumption DEF Closed, Period
    <2>3. QED
      BY <2>1, <2>2
  <1>2. QED
    BY <1>1 DEF Preceding

\* A delta depends on the figures and versions of its period and of the one before.
LEMMA DeltaKept ==
  ASSUME NEW p, NEW q, NEW l,
         facts'[p][l] = facts[p][l] /\ periods'[p].version = periods[p].version,
         q # 0 => facts'[q][l] = facts[q][l] /\ periods'[q].version = periods[q].version
  PROVE  Delta(p, q, l)' = Delta(p, q, l)
  BY DEF Delta, Figure

EntryFits == entry = NoEntry \/ (entry.period \in Period /\ entry.line \in Line /\ entry.volume \in Int)

\* A close has taken the delta of the line, whether it has ended or not.
Measured(p, l) == p \in Closed \/ l \in closing[p].measured

\* What it has taken is still the difference of two figures, the other one of a period
\* that was closed by then.
DeltaStays(p, l) ==
  /\ previous[p][l] \in Closed \cup {0}
  /\ paces[p][l] = Delta(p, previous[p][l], l)

FiguresInv ==
  /\ PeriodsNumbered /\ EntryFits
  /\ facts \in [Period -> [Line -> Int]]
  /\ paces \in [Period -> [Line -> Int]]
  /\ previous \in [Period -> [Line -> Period \cup {0}]]
  /\ \A p \in Period, l \in Line \ late : Measured(p, l) => DeltaStays(p, l)

FiguresShaped ==
  /\ PeriodsNumbered /\ EntryFits
  /\ facts \in [Period -> [Line -> Int]]
  /\ paces \in [Period -> [Line -> Int]]
  /\ previous \in [Period -> [Line -> Period \cup {0}]]

\* A step that changes the figure and the version of no period whose delta was taken, and
\* takes new deltas as the code does.
LEMMA DeltasKept ==
  ASSUME FiguresInv, FiguresShaped', Closed \subseteq Closed',
         \A p \in Period, l \in Line : l \notin late' /\ Measured(p, l)' =>
           /\ facts'[p][l] = facts[p][l] /\ periods'[p].version = periods[p].version
           /\ previous'[p][l] \in Closed \cup {0}
           /\ paces'[p][l] = Delta(p, previous'[p][l], l)
  PROVE  FiguresInv'
  <1>1. ASSUME NEW p \in Period, NEW l \in Line, l \notin late', Measured(p, l)'
        PROVE  DeltaStays(p, l)'
    <2>1. PICK q : q = previous'[p][l]
      OBVIOUS
    <2>2. q \in Closed \cup {0} /\ paces'[p][l] = Delta(p, q, l)
      BY <1>1, <2>1
    <2>3. ASSUME q # 0
          PROVE  facts'[q][l] = facts[q][l] /\ periods'[q].version = periods[q].version
      <3>1. q \in Period /\ Measured(q, l)'
        BY <2>2, <2>3 DEF Closed, Measured
      <3>2. QED
        BY <1>1, <3>1
    <2>4. Delta(p, q, l)' = Delta(p, q, l)
      BY <1>1, <2>3, DeltaKept
    <2>5. QED
      BY <2>1, <2>2, <2>4 DEF DeltaStays
  <1>2. QED
    BY <1>1 DEF FiguresInv, FiguresShaped

\* The step takes no delta either.
LEMMA DeltasUntouched ==
  ASSUME FiguresInv, FiguresShaped', UNCHANGED <<paces, previous>>, Closed \subseteq Closed',
         late \subseteq late', \A p \in Period, l \in Line : Measured(p, l)' => Measured(p, l),
         \A p \in Period, l \in Line : l \notin late' /\ Measured(p, l) =>
           facts'[p][l] = facts[p][l] /\ periods'[p].version = periods[p].version
  PROVE  FiguresInv'
  <1>1. ASSUME NEW p \in Period, NEW l \in Line, l \notin late', Measured(p, l)'
        PROVE  /\ facts'[p][l] = facts[p][l] /\ periods'[p].version = periods[p].version
               /\ previous'[p][l] \in Closed \cup {0}
               /\ paces'[p][l] = Delta(p, previous'[p][l], l)
    BY <1>1 DEF FiguresInv, DeltaStays
  <1>2. QED
    BY <1>1, DeltasKept

\* The line's delta is taken of the figures there are; what comes after is late.
LEMMA MeasuringKeeps ==
  ASSUME FiguresInv, ClosesFit, NEW p \in Period, NEW k \in Line, CloseDelta(p, k)
  PROVE  FiguresInv'
  <1>1. PICK q : q = Preceding(p)
    OBVIOUS
  <1>2. /\ paces' = [paces EXCEPT ![p][k] = Delta(p, q, k)]
        /\ previous' = [previous EXCEPT ![p][k] = q]
        /\ UNCHANGED <<periods, version, facts, entry, late>>
    BY <1>1 DEF CloseDelta
  <1>3. q \in Closed \cup {0}
    BY <1>1, PrecedingThere
  <1>4. Delta(p, q, k) \in Int
    <2>1. facts[p][k] \in Int /\ (q # 0 => facts[q][k] \in Int)
      BY <1>3 DEF FiguresInv, Closed
    <2>2. QED
      BY <2>1 DEF Delta, Figure
  <1>5. PeriodsNumbered' /\ EntryFits' /\ Closed' = Closed
    BY <1>2 DEF FiguresInv, PeriodsNumbered, Opened, Newest, EntryFits, Closed
  <1>6. FiguresShaped'
    BY <1>2, <1>3, <1>4, <1>5 DEF FiguresInv, FiguresShaped, Closed
  <1>7. PICK c : CloseBecomes(p, c) /\ c.measured = closing[p].measured \cup {k}
    BY DeltaEffect
  <1>8. ASSUME NEW r \in Period, NEW l \in Line, l \notin late', Measured(r, l)'
        PROVE  /\ facts'[r][l] = facts[r][l] /\ periods'[r].version = periods[r].version
               /\ previous'[r][l] \in Closed \cup {0}
               /\ paces'[r][l] = Delta(r, previous'[r][l], l)
    <2>1. CASE r = p /\ l = k
      <3>1. previous'[p][k] = q /\ paces'[p][k] = Delta(p, q, k)
        BY <1>2 DEF FiguresInv
      <3>2. QED
        BY <1>2, <1>3, <2>1, <3>1
    <2>2. CASE ~(r = p /\ l = k)
      <3>1. previous'[r][l] = previous[r][l] /\ paces'[r][l] = paces[r][l]
        BY <1>2, <2>2 DEF FiguresInv
      <3>2. Measured(r, l)
        BY <1>5, <1>7, <1>8, <2>2 DEF Measured, CloseBecomes
      <3>3. QED
        BY <1>2, <1>8, <3>1, <3>2 DEF FiguresInv, DeltaStays
    <2>3. QED
      BY <2>1, <2>2
  <1>9. QED
    BY <1>5, <1>6, <1>8, DeltasKept

\* The rest of a close takes no delta; an abort takes the close's own back.
LEMMA CloseKeeps ==
  ASSUME FiguresInv, ClosesFit, NEW p \in Period,
         CloseBegin(p) \/ CloseCommit(p) \/ CloseAbort(p) \/ \E l \in Line : CloseLine(p, l)
  PROVE  FiguresInv'
  <1>1. PeriodsNumbered'
    BY PeriodsGrow DEF FiguresInv, SourceStep
  <1>2. UNCHANGED <<facts, entry, late>>
    BY DEF CloseBegin, CloseCommit, CloseAbort, CloseLine
  <1>3. \A q \in Period : periods'[q].version = periods[q].version
    <2>1. CASE CloseCommit(p)
      BY <2>1 DEF CloseCommit, FiguresInv, PeriodsNumbered, PeriodRow
    <2>2. CASE CloseBegin(p) \/ CloseAbort(p) \/ \E l \in Line : CloseLine(p, l)
      BY <2>2 DEF CloseBegin, CloseAbort, CloseLine
    <2>3. QED
      BY <2>1, <2>2
  <1>4. EntryFits' /\ facts' \in [Period -> [Line -> Int]]
    BY <1>2 DEF FiguresInv, EntryFits
  <1>5. CASE CloseCommit(p)
    <2>1. /\ UNCHANGED <<paces, previous>> /\ closing[p].measured = Line
          /\ periods' = [periods EXCEPT ![p].status = "closed"]
      BY <1>5 DEF CloseCommit, results
    <2>2. Closed' = Closed \cup {p}
      <3>1. /\ periods'[p].status = "closed"
            /\ \A q \in Period : q # p => periods'[q] = periods[q]
        BY <2>1 DEF FiguresInv, PeriodsNumbered, PeriodRow
      <3>2. QED
        BY <3>1 DEF Closed
    <2>3. CloseBecomes(p, NotClosing) /\ NotClosing.measured = {}
      BY <1>5, EndEffect
    <2>4. \A r \in Period, l \in Line : Measured(r, l)' => Measured(r, l)
      BY <2>1, <2>2, <2>3 DEF Measured, CloseBecomes
    <2>5. FiguresShaped'
      BY <1>1, <1>4, <2>1 DEF FiguresInv, FiguresShaped
    <2>6. Closed \subseteq Closed'
      BY <2>2
    <2>7. QED
      BY <1>2, <1>3, <2>1, <2>4, <2>5, <2>6, DeltasUntouched
  <1>6. CASE CloseBegin(p) \/ \E l \in Line : CloseLine(p, l)
    <2>1. UNCHANGED <<periods, paces, previous>>
      BY <1>6 DEF CloseBegin, CloseLine, results
    <2>2. PICK c : CloseBecomes(p, c) /\ c.measured \subseteq closing[p].measured
      <3>1. CASE CloseBegin(p)
        BY <3>1, BeginEffect
      <3>2. ASSUME NEW l \in Line, CloseLine(p, l)
            PROVE  \E c : CloseBecomes(p, c) /\ c.measured \subseteq closing[p].measured
        BY <3>2, LineEffect
      <3>3. QED
        BY <1>6, <3>1, <3>2
    <2>3. Closed' = Closed
      BY <2>1 DEF Closed
    <2>4. \A r \in Period, l \in Line : Measured(r, l)' => Measured(r, l)
      BY <2>2, <2>3 DEF Measured, CloseBecomes
    <2>5. FiguresShaped'
      BY <1>1, <1>4, <2>1 DEF FiguresInv, FiguresShaped
    <2>6. QED
      BY <1>2, <1>3, <2>1, <2>3, <2>4, <2>5, DeltasUntouched
  <1>7. CASE CloseAbort(p)
    <2>1. /\ UNCHANGED periods
          /\ paces' = [paces EXCEPT ![p] = [l \in Line |-> 0]]
          /\ previous' = [previous EXCEPT ![p] = [l \in Line |-> 0]]
      BY <1>7 DEF CloseAbort
    <2>2. CloseBecomes(p, NotClosing) /\ NotClosing.measured = {}
      BY <1>7, EndEffect
    <2>3. p \notin Closed /\ Closed' = Closed
      BY <1>7, <2>1 DEF CloseAbort, ClosesFit, Closed
    <2>4. FiguresShaped'
      BY <1>1, <1>4, <2>1 DEF FiguresInv, FiguresShaped
    <2>5. ASSUME NEW r \in Period, NEW l \in Line, l \notin late', Measured(r, l)'
          PROVE  /\ facts'[r][l] = facts[r][l] /\ periods'[r].version = periods[r].version
                 /\ previous'[r][l] \in Closed \cup {0}
                 /\ paces'[r][l] = Delta(r, previous'[r][l], l)
      <3>1. r # p /\ Measured(r, l)
        BY <2>2, <2>3, <2>5 DEF Measured, CloseBecomes
      <3>2. previous'[r][l] = previous[r][l] /\ paces'[r][l] = paces[r][l]
        BY <2>1, <3>1 DEF FiguresInv
      <3>3. QED
        BY <1>2, <1>3, <2>5, <3>1, <3>2 DEF FiguresInv, DeltaStays
    <2>6. QED
      BY <2>3, <2>4, <2>5, DeltasKept
  <1>8. QED
    BY <1>5, <1>6, <1>7

\* Every other step of the periods.
LEMMA OtherSourceKeeps ==
  ASSUME FiguresInv, ClosesFit, SourceStep, \A p \in Period : ~CloseStep(p)
  PROVE  FiguresInv'
  <1>1. PeriodsNumbered' /\ Closed \subseteq Closed'
    BY PeriodsGrow DEF FiguresInv
  <1>2. UNCHANGED <<closing, paces, previous>>
    BY DEF SourceStep, CloseStep, OpenPeriod, NewVersion, EnterWrite, Verify, EnterRead, results
  <1>3. ASSUME EntryFits', UNCHANGED <<facts, late>>, Closed' = Closed,
               \A q \in Period : periods[q].status # "none" => periods'[q].version = periods[q].version
        PROVE  FiguresInv'
    <2>1. FiguresShaped'
      BY <1>1, <1>2, <1>3 DEF FiguresInv, FiguresShaped
    <2>2. \A p \in Period, l \in Line : Measured(p, l)' => Measured(p, l)
      BY <1>2, <1>3 DEF Measured
    <2>3. \A p \in Period, l \in Line : Measured(p, l) => periods[p].status # "none"
      BY DEF Measured, Closed, ClosesFit
    <2>4. QED
      BY <1>1, <1>2, <1>3, <2>1, <2>2, <2>3, DeltasUntouched
  <1>4. ASSUME NEW pause \in BOOLEAN, OpenPeriod(pause) PROVE FiguresInv'
    <2>1. PICK k : k = Newest + 1
      OBVIOUS
    <2>2. k \in Period /\ k \notin Opened
      BY <1>4, <2>1, AnalyticsAssumption DEF FiguresInv, PeriodsNumbered, OpenPeriod, Period
    <2>3. /\ periods' = [periods EXCEPT ![k] = [status |-> "open", version |-> version, pause |-> pause]]
          /\ UNCHANGED <<facts, entry, late>>
      BY <1>4, <2>1 DEF OpenPeriod
    <2>4. /\ periods'[k].status = "open"
          /\ \A q \in Period : q # k => periods'[q] = periods[q]
      BY <2>2, <2>3 DEF FiguresInv, PeriodsNumbered
    <2>5. periods[k].status = "none"
      BY <2>2 DEF Opened
    <2>6. Closed' = Closed
      BY <2>2, <2>4, <2>5 DEF Closed
    <2>7. EntryFits'
      BY <2>3 DEF FiguresInv, EntryFits
    <2>8. QED
      BY <1>3, <2>3, <2>4, <2>5, <2>6, <2>7
  <1>5. ASSUME NEW p \in Period, Verify(p) PROVE FiguresInv'
    <2>1. /\ periods[p].status = "open" /\ periods' = [periods EXCEPT ![p].status = "verification"]
          /\ UNCHANGED <<facts, entry, late>>
      BY <1>5 DEF Verify
    <2>2. /\ periods'[p].status = "verification"
          /\ \A q \in Period : periods'[q].version = periods[q].version
          /\ \A q \in Period : q # p => periods'[q].status = periods[q].status
      BY <2>1 DEF FiguresInv, PeriodsNumbered, PeriodRow
    <2>3. Closed' = Closed
      BY <2>1, <2>2 DEF Closed
    <2>4. EntryFits'
      BY <2>1 DEF FiguresInv, EntryFits
    <2>5. QED
      BY <1>3, <2>1, <2>2, <2>3, <2>4
  <1>6. CASE NewVersion
    BY <1>3, <1>6 DEF NewVersion, Closed, FiguresInv, EntryFits
  <1>7. ASSUME NEW p \in Period, NEW l \in Line, NEW v \in Volume, NEW reply \in Reply,
               EnterRead(p, l, v, reply)
        PROVE  FiguresInv'
    <2>1. /\ entry' = [period |-> p, line |-> l, volume |-> v, reply |-> reply]
          /\ UNCHANGED <<periods, facts, late>>
      BY <1>7 DEF EnterRead
    <2>2. EntryFits'
      BY <2>1, AnalyticsAssumption DEF EntryFits
    <2>3. QED
      BY <1>3, <2>1, <2>2 DEF Closed
  <1>8. CASE EnterWrite
    <2>1. PICK p, l, v : p = entry.period /\ l = entry.line /\ v = entry.volume
      OBVIOUS
    <2>2. /\ entry # NoEntry /\ entry' = NoEntry /\ UNCHANGED periods
          /\ facts' = [facts EXCEPT ![p][l] = v]
          /\ late' = IF p \in Closed \/ l \in closing[p].measured THEN late \cup {l} ELSE late
      BY <1>8, <2>1 DEF EnterWrite
    <2>3. p \in Period /\ l \in Line /\ v \in Int
      BY <2>1, <2>2 DEF FiguresInv, EntryFits
    <2>4. /\ facts' \in [Period -> [Line -> Int]]
          /\ \A q \in Period, m \in Line : q # p \/ m # l => facts'[q][m] = facts[q][m]
      BY <2>2, <2>3 DEF FiguresInv
    <2>5. Closed' = Closed /\ EntryFits' /\ late \subseteq late'
      BY <2>2 DEF Closed, EntryFits
    <2>6. FiguresShaped'
      BY <1>1, <1>2, <2>4, <2>5 DEF FiguresInv, FiguresShaped
    <2>7. ASSUME NEW q \in Period, NEW m \in Line, m \notin late', Measured(q, m)
          PROVE  facts'[q][m] = facts[q][m] /\ periods'[q].version = periods[q].version
      <3>1. q # p \/ m # l
        BY <2>2, <2>7 DEF Measured
      <3>2. QED
        BY <2>2, <2>4, <3>1
    <2>8. \A q \in Period, m \in Line : Measured(q, m)' => Measured(q, m)
      BY <1>2, <2>5 DEF Measured
    <2>9. QED
      BY <1>1, <1>2, <2>5, <2>6, <2>7, <2>8, DeltasUntouched
  <1>9. QED
    BY <1>4, <1>5, <1>6, <1>7, <1>8 DEF SourceStep, CloseStep

LEMMA FiguresKept ==
  ASSUME FiguresInv, ClosesFit, [Next]_vars
  PROVE  FiguresInv'
  <1>1. CASE UNCHANGED source
    <2>1. UNCHANGED <<periods, version, facts, entry, closing, paces, previous, late>>
      BY <1>1 DEF source, results
    <2>2. PeriodsNumbered' /\ Closed' = Closed
      BY <2>1 DEF FiguresInv, PeriodsNumbered, Opened, Newest, Closed
    <2>3. FiguresShaped'
      BY <2>1, <2>2 DEF FiguresInv, FiguresShaped, EntryFits
    <2>4. \A p \in Period, l \in Line : Measured(p, l)' => Measured(p, l)
      BY <2>1, <2>2 DEF Measured
    <2>5. QED
      BY <2>1, <2>2, <2>3, <2>4, DeltasUntouched
  <1>2. CASE SourceStep
    <2>1. CASE \A p \in Period : ~CloseStep(p)
      BY <1>2, <2>1, OtherSourceKeeps
    <2>2. ASSUME NEW p \in Period, CloseStep(p) PROVE FiguresInv'
      BY <2>2, CloseKeeps, MeasuringKeeps DEF CloseStep
    <2>3. QED
      BY <2>1, <2>2
  <1>3. (HalfHourPasses \/ \E t \in Page : PageStep(t)) => UNCHANGED source
    BY DEF HalfHourPasses, PageStep, Click, TakeLock, Build, Commit, Abort, Succeeds, Fails,
       Refetch, ReadRow, ReadHistory, ReadMeta, Arrives, Errs
  <1>4. QED
    BY <1>1, <1>2, <1>3 DEF Next, vars

LEMMA FiguresHold == Spec => []FiguresInv
  <1>1. Init => FiguresInv
    <2> SUFFICES ASSUME Init PROVE FiguresInv
      OBVIOUS
    <2>1. PeriodsNumbered
      BY InitIInv DEF IInv
    <2>2. Closed = {} /\ EntryFits
      BY <2>1 DEF Init, Closed, EntryFits
    <2>3. /\ facts \in [Period -> [Line -> Int]] /\ paces \in [Period -> [Line -> Int]]
          /\ previous \in [Period -> [Line -> Period \cup {0}]]
      BY DEF Init, NoFact
    <2>4. \A p \in Period, l \in Line : ~Measured(p, l)
      BY <2>2 DEF Init, Measured, NotClosing
    <2>5. QED
      BY <2>1, <2>2, <2>3, <2>4 DEF FiguresInv
  <1>2. FiguresInv /\ ClosesFit /\ [Next]_vars => FiguresInv'
    BY FiguresKept
  <1>3. QED
    BY <1>1, <1>2, InductiveInvariant, PTL DEF Spec

\* recordWorkPaceDeltas: what work_pace holds of a closed period and a line is the
\* difference of two figures as they are now, its own and the one of the period that the
\* close found closed before it, whatever other closes went on meanwhile, unless a figure
\* was written after a close had read it.  It is the step of the sum in PaceTelescopes.
THEOREM DeltasAreDifferences == Spec => []DeltasStay
  <1>1. FiguresInv => DeltasStay
    BY DEF FiguresInv, Measured, DeltaStays, DeltasStay, Closed
  <1>2. QED
    BY <1>1, FiguresHold, PTL

-----------------------------------------------------------------------------
\* Sums and other folds.  The library's induction theorems take an operator; the
\* following takes a set, and the well-founded order of the naturals behind it.

Pick(s) == CHOOSE x \in s : TRUE

LEMMA PickIn == \A s : s # {} => Pick(s) \in s
  BY DEF Pick

\* What holds of the empty set, and of a set when it holds of all that lack one of its
\* elements, holds of all subsets of a finite set.
LEMMA SetsInduce ==
  ASSUME NEW T, IsFiniteSet(T), NEW X, {} \in X,
         \A s \in SUBSET T : s # {} /\ (\A x \in s : s \ {x} \in X) => s \in X
  PROVE  \A s \in SUBSET T : s \in X
  <1> DEFINE bad == {Cardinality(s) : s \in (SUBSET T) \ X}
  <1>1. \A s \in SUBSET T : IsFiniteSet(s) /\ Cardinality(s) \in Nat
    BY FS_Subset, FS_CardinalityType
  <1>2. SUFFICES ASSUME bad # {} PROVE FALSE
    OBVIOUS
  <1>3. bad \subseteq Nat
    BY <1>1
  <1>4. PICK n \in bad : \A m \in bad : <<m, n>> \notin OpToRel(<, Nat)
    BY <1>2, <1>3, WFMin, NatLessThanWellFounded, Zenon
  <1>5. \A m \in bad : ~(m < n)
    BY <1>3, <1>4, Zenon DEF OpToRel
  <1>6. PICK s \in (SUBSET T) \ X : n = Cardinality(s)
    OBVIOUS
  <1>7. s # {}
    BY <1>6
  <1>8. ASSUME NEW x \in s PROVE s \ {x} \in X
    <2>1. Cardinality(s \ {x}) = Cardinality(s) - 1 /\ s \ {x} \in SUBSET T
      BY <1>1, <1>6, FS_RemoveElement
    <2>2. Cardinality(s \ {x}) < n
      BY <1>1, <1>6, <2>1
    <2>3. Cardinality(s \ {x}) \notin bad
      BY <1>5, <2>2
    <2>4. QED
      BY <2>1, <2>3
  <1>9. QED
    BY <1>6, <1>7, <1>8

\* The same with the element that folds take first.
LEMMA PicksInduce ==
  ASSUME NEW T, IsFiniteSet(T), NEW X, {} \in X,
         \A s \in SUBSET T : s # {} /\ s \ {Pick(s)} \in X => s \in X
  PROVE  \A s \in SUBSET T : s \in X
  <1>1. ASSUME NEW s \in SUBSET T, s # {}, \A x \in s : s \ {x} \in X
        PROVE  s \in X
    <2>1. Pick(s) \in s
      BY <1>1, PickIn
    <2>2. s \ {Pick(s)} \in X
      BY <1>1, <2>1
    <2>3. QED
      BY <1>1, <2>2
  <1>2. QED
    BY <1>1, SetsInduce

\* g folds the elements of T and of its subsets by G, from b.
FoldsBy(g, T, V, b, G) ==
  /\ g \in [SUBSET T -> V]
  /\ \A s \in SUBSET T : g[s] = IF s = {} THEN b ELSE G[<<Pick(s), g[s \ {Pick(s)}]>>]

LEMMA FoldExists ==
  ASSUME NEW T, IsFiniteSet(T), NEW V, NEW b \in V, NEW G \in [T \X V -> V]
  PROVE  \E g : FoldsBy(g, T, V, b, G)
  <1> DEFINE Upto(n) == {s \in SUBSET T : Cardinality(s) <= n}
             Folds(g, n) == \A s \in Upto(n) :
               g[s] = IF s = {} THEN b ELSE G[<<Pick(s), g[s \ {Pick(s)}]>>]
             bad == {n \in Nat : ~\E g \in [Upto(n) -> V] : Folds(g, n)}
  <1>1. \A s \in SUBSET T : /\ IsFiniteSet(s) /\ Cardinality(s) \in Nat
                            /\ (Cardinality(s) = 0 <=> s = {})
    BY FS_Subset, FS_CardinalityType, FS_EmptySet
  <1>2. \A s \in SUBSET T : s # {} => /\ Pick(s) \in T /\ s \ {Pick(s)} \in SUBSET T
                                     /\ Cardinality(s \ {Pick(s)}) = Cardinality(s) - 1
    BY <1>1, PickIn, FS_RemoveElement
  <1>3. 0 \notin bad
    <2>1. PICK g : g = [s \in Upto(0) |-> b]
      OBVIOUS
    <2>2. g \in [Upto(0) -> V]
      BY <2>1
    <2>3. \A s \in Upto(0) : s = {}
      BY <1>1
    <2>4. Folds(g, 0)
      BY <2>1, <2>3
    <2>5. QED
      BY <2>2, <2>4
  <1>4. ASSUME NEW n \in Nat, n \notin bad PROVE n + 1 \notin bad
    <2>1. PICK g \in [Upto(n) -> V] : Folds(g, n)
      BY <1>4
    <2>2. PICK h : h = [s \in Upto(n + 1) |-> IF s = {} THEN b ELSE G[<<Pick(s), g[s \ {Pick(s)}]>>]]
      OBVIOUS
    <2>3. \A s \in Upto(n + 1) : s # {} => s \ {Pick(s)} \in Upto(n)
      BY <1>1, <1>2
    <2>4. Upto(n) \subseteq Upto(n + 1)
      BY <1>1
    <2>5. ASSUME NEW s \in Upto(n + 1) PROVE h[s] \in V
      BY <1>2, <2>1, <2>2, <2>3
    <2>6. h \in [Upto(n + 1) -> V]
      BY <2>2, <2>5
    <2>7. \A s \in Upto(n) : h[s] = g[s]
      BY <2>1, <2>2, <2>4
    <2>8. Folds(h, n + 1)
      BY <2>2, <2>3, <2>7
    <2>9. QED
      BY <2>6, <2>8
  <1>5. bad = {}
    <2>1. SUFFICES ASSUME bad # {} PROVE FALSE
      OBVIOUS
    <2>2. PICK n \in bad : \A m \in bad : <<m, n>> \notin OpToRel(<, Nat)
      <3> HIDE DEF bad
      <3>1. bad \subseteq Nat
        BY DEF bad
      <3>2. QED
        BY <2>1, <3>1, WFMin, NatLessThanWellFounded, Zenon
    <2> HIDE DEF bad
    <2>3. n \in Nat /\ bad \subseteq Nat
      BY DEF bad
    <2>4. \A m \in bad : ~(m < n)
      BY <2>2, <2>3, Zenon DEF OpToRel
    <2>5. n # 0
      BY <1>3
    <2>6. n - 1 \in Nat /\ n - 1 \notin bad
      BY <2>3, <2>4, <2>5
    <2>7. (n - 1) + 1 \notin bad
      BY <1>4, <2>6
    <2>8. QED
      BY <2>3, <2>7
  <1>6. PICK n \in Nat : n = Cardinality(T)
    BY FS_CardinalityType
  <1>7. Upto(n) = SUBSET T
    BY <1>6, FS_Subset
  <1>8. PICK g \in [Upto(n) -> V] : Folds(g, n)
    BY <1>5
  <1>9. QED
    BY <1>7, <1>8 DEF FoldsBy

\* What a fold starts from and each element keeps, all its values have.
LEMMA FoldTyped ==
  ASSUME NEW T, IsFiniteSet(T), NEW V, NEW h, h[{}] \in V,
         \A s \in SUBSET T : s # {} /\ h[s \ {Pick(s)}] \in V => h[s] \in V
  PROVE  \A s \in SUBSET T : h[s] \in V
  <1> DEFINE X == {s \in SUBSET T : h[s] \in V}
  <1>1. {} \in X
    OBVIOUS
  <1>2. ASSUME NEW s \in SUBSET T, s # {}, s \ {Pick(s)} \in X PROVE s \in X
    BY <1>2
  <1> HIDE DEF X
  <1>3. \A s \in SUBSET T : s \in X
    BY <1>1, <1>2, PicksInduce
  <1>4. QED
    BY <1>3 DEF X

\* The sums of the model are of a function F over a set.
SumOf(F, T) == MapThenSumSet(LAMBDA x : F[x], T)
SumBy(F, T) == CHOOSE g : g = [s \in SUBSET T |->
                 IF s = {} THEN 0 ELSE F[Pick(s)] + g[s \ {Pick(s)}]]

LEMMA SumByFolds ==
  ASSUME NEW T, IsFiniteSet(T), NEW F, \A x \in T : F[x] \in Int
  PROVE  /\ SumBy(F, T) = [s \in SUBSET T |->
                 IF s = {} THEN 0 ELSE F[Pick(s)] + SumBy(F, T)[s \ {Pick(s)}]]
         /\ \A s \in SUBSET T : SumBy(F, T)[s] \in Int
  <1>1. PICK G : G = [p \in T \X Int |-> F[p[1]] + p[2]]
    OBVIOUS
  <1>2. G \in [T \X Int -> Int]
    BY <1>1
  <1>3. PICK g : FoldsBy(g, T, Int, 0, G)
    BY <1>2, FoldExists
  <1>4. ASSUME NEW s \in SUBSET T, s # {}
        PROVE  G[<<Pick(s), g[s \ {Pick(s)}]>>] = F[Pick(s)] + g[s \ {Pick(s)}]
    <2>1. Pick(s) \in T /\ g[s \ {Pick(s)}] \in Int
      BY <1>3, <1>4, PickIn DEF FoldsBy
    <2>2. QED
      BY <1>1, <2>1
  <1>5. g = [s \in SUBSET T |-> IF s = {} THEN 0 ELSE F[Pick(s)] + g[s \ {Pick(s)}]]
    BY <1>3, <1>4 DEF FoldsBy
  <1>6. SumBy(F, T) = [s \in SUBSET T |->
                 IF s = {} THEN 0 ELSE F[Pick(s)] + SumBy(F, T)[s \ {Pick(s)}]]
    BY <1>5 DEF SumBy
  <1>7. ASSUME NEW s \in SUBSET T, s # {}, SumBy(F, T)[s \ {Pick(s)}] \in Int
        PROVE  SumBy(F, T)[s] \in Int
    <2>1. SumBy(F, T)[s] = F[Pick(s)] + SumBy(F, T)[s \ {Pick(s)}]
      BY <1>6, <1>7
    <2>2. F[Pick(s)] \in Int
      BY <1>7, PickIn
    <2>3. QED
      BY <1>7, <2>1, <2>2
  <1>8. SumBy(F, T)[{}] \in Int
    BY <1>6
  <1>9. \A s \in SUBSET T : SumBy(F, T)[s] \in Int
    BY <1>7, <1>8, FoldTyped
  <1>10. QED
    BY <1>6, <1>9

\* The sum over a part of T is the same whichever of the two is folded.
LEMMA SumByPart ==
  ASSUME NEW T, IsFiniteSet(T), NEW F, \A x \in T : F[x] \in Int, NEW U \in SUBSET T
  PROVE  SumBy(F, U)[U] = SumBy(F, T)[U]
  <1> DEFINE X == {s \in SUBSET U : SumBy(F, U)[s] = SumBy(F, T)[s]}
  <1>1. IsFiniteSet(U)
    BY FS_Subset
  <1>2. /\ SumBy(F, T) = [s \in SUBSET T |->
                 IF s = {} THEN 0 ELSE F[Pick(s)] + SumBy(F, T)[s \ {Pick(s)}]]
        /\ SumBy(F, U) = [s \in SUBSET U |->
                 IF s = {} THEN 0 ELSE F[Pick(s)] + SumBy(F, U)[s \ {Pick(s)}]]
    BY <1>1, SumByFolds
  <1>3. {} \in X
    BY <1>2
  <1>4. ASSUME NEW s \in SUBSET U, s # {}, s \ {Pick(s)} \in X PROVE s \in X
    BY <1>2, <1>4
  <1> HIDE DEF X
  <1>5. \A s \in SUBSET U : s \in X
    BY <1>1, <1>3, <1>4, PicksInduce
  <1>6. QED
    BY <1>5 DEF X

LEMMA SumIsSumBy ==
  ASSUME NEW T, NEW F PROVE SumOf(F, T) = SumBy(F, T)[T]
  BY DEF SumOf, SumBy, Pick, MapThenSumSet, MapThenFoldSet

\* A sum is one element's value and the sum of the others.
LEMMA SumSplits ==
  ASSUME NEW T, IsFiniteSet(T), NEW F, \A x \in T : F[x] \in Int
  PROVE  /\ SumOf(F, T) \in Int /\ SumOf(F, {}) = 0
         /\ \A x \in T : SumOf(F, T) = F[x] + SumOf(F, T \ {x})
  <1> DEFINE H == SumBy(F, T)
             X == {s \in SUBSET T : \A x \in s : H[s] = F[x] + H[s \ {x}]}
  <1>1. /\ H = [s \in SUBSET T |-> IF s = {} THEN 0 ELSE F[Pick(s)] + H[s \ {Pick(s)}]]
        /\ \A s \in SUBSET T : H[s] \in Int
    BY SumByFolds
  <1>2. \A U \in SUBSET T : SumOf(F, U) = H[U]
    BY SumByPart, SumIsSumBy
  <1> HIDE DEF H
  <1>3. {} \in X
    OBVIOUS
  <1>4. ASSUME NEW s \in SUBSET T, s # {}, \A x \in s : s \ {x} \in X PROVE s \in X
    <2>1. SUFFICES ASSUME NEW x \in s PROVE H[s] = F[x] + H[s \ {x}]
      OBVIOUS
    <2>2. PICK p \in s : p = Pick(s)
      BY <1>4, PickIn
    <2>3. H[s] = F[p] + H[s \ {p}]
      BY <1>1, <1>4, <2>2
    <2>4. CASE x # p
      <3>1. H[s \ {p}] = F[x] + H[(s \ {p}) \ {x}]
        BY <1>4, <2>4
      <3>2. H[s \ {x}] = F[p] + H[(s \ {x}) \ {p}]
        BY <1>4, <2>4
      <3>3. (s \ {x}) \ {p} = (s \ {p}) \ {x}
        OBVIOUS
      <3>4. F[x] \in Int /\ F[p] \in Int
        OBVIOUS
      <3>5. PICK r : r = H[(s \ {p}) \ {x}]
        OBVIOUS
      <3>6. r \in Int
        BY <1>1, <3>5
      <3>7. H[s] = F[p] + (F[x] + r) /\ H[s \ {x}] = F[p] + r
        BY <2>3, <3>1, <3>2, <3>3, <3>5
      <3>8. QED
        BY <3>4, <3>6, <3>7
    <2>5. QED
      BY <2>3, <2>4
  <1> HIDE DEF X
  <1>5. \A s \in SUBSET T : s \in X
    BY <1>3, <1>4, SetsInduce
  <1>6. \A x \in T : H[T] = F[x] + H[T \ {x}]
    BY <1>5 DEF X
  <1>7. H[{}] = 0
    BY <1>1
  <1>8. QED
    BY <1>1, <1>2, <1>6, <1>7

\* A sum depends on the values in its set.
LEMMA SumsAgree ==
  ASSUME NEW T, IsFiniteSet(T), NEW F, NEW G, \A x \in T : F[x] \in Int /\ F[x] = G[x]
  PROVE  SumOf(F, T) = SumOf(G, T)
  <1>1. \A s \in SUBSET T : s # {} => F[Pick(s)] = G[Pick(s)]
    BY PickIn
  <1>2. SumBy(F, T) = SumBy(G, T)
    BY <1>1 DEF SumBy
  <1>3. QED
    BY <1>2, SumIsSumBy

\* An inequality that holds of the values holds of the sums.
LEMMA SumsCompare ==
  ASSUME NEW T, IsFiniteSet(T), NEW F, NEW G, NEW c \in Int, NEW d \in Int,
         \A x \in T : F[x] \in Int /\ G[x] \in Int /\ c * F[x] <= d * G[x]
  PROVE  c * SumOf(F, T) <= d * SumOf(G, T)
  <1> DEFINE X == {s \in SUBSET T : c * SumOf(F, s) <= d * SumOf(G, s)}
  <1>1. \A s \in SUBSET T : IsFiniteSet(s)
    BY FS_Subset
  <1>2. \A s \in SUBSET T : /\ SumOf(F, s) \in Int /\ SumOf(G, s) \in Int
                            /\ \A x \in s : /\ SumOf(F, s) = F[x] + SumOf(F, s \ {x})
                                            /\ SumOf(G, s) = G[x] + SumOf(G, s \ {x})
    <2>1. SUFFICES ASSUME NEW s \in SUBSET T
                   PROVE  /\ SumOf(F, s) \in Int /\ SumOf(G, s) \in Int
                          /\ \A x \in s : /\ SumOf(F, s) = F[x] + SumOf(F, s \ {x})
                                          /\ SumOf(G, s) = G[x] + SumOf(G, s \ {x})
      OBVIOUS
    <2>2. SumOf(F, s) \in Int /\ \A x \in s : SumOf(F, s) = F[x] + SumOf(F, s \ {x})
      BY <1>1, SumSplits
    <2>3. SumOf(G, s) \in Int /\ \A x \in s : SumOf(G, s) = G[x] + SumOf(G, s \ {x})
      BY <1>1, SumSplits
    <2>4. QED
      BY <2>2, <2>3
  <1>3. {} \in X
    <2>1. SumOf(F, {}) = 0 /\ SumOf(G, {}) = 0
      BY SumSplits
    <2>2. QED
      BY <2>1
  <1>4. ASSUME NEW s \in SUBSET T, s # {}, \A x \in s : s \ {x} \in X PROVE s \in X
    <2>1. PICK x : x \in s
      BY <1>4
    <2>2. PICK f, g : f = SumOf(F, s \ {x}) /\ g = SumOf(G, s \ {x})
      OBVIOUS
    <2>3. f \in Int /\ g \in Int /\ c * f <= d * g
      BY <1>2, <1>4, <2>1, <2>2
    <2>4. PICK u, v : u = F[x] /\ v = G[x]
      OBVIOUS
    <2>5. u \in Int /\ v \in Int /\ c * u <= d * v
      BY <2>1, <2>4
    <2>6. c * (u + f) = c * u + c * f /\ d * (v + g) = d * v + d * g
      BY <2>3, <2>5
    <2>7. c * u \in Int /\ c * f \in Int /\ d * v \in Int /\ d * g \in Int
      BY <2>3, <2>5
    <2>8. c * (u + f) <= d * (v + g)
      BY <2>3, <2>5, <2>6, <2>7
    <2>9. SumOf(F, s) = u + f /\ SumOf(G, s) = v + g
      BY <1>2, <2>1, <2>2, <2>4
    <2>10. QED
      BY <2>8, <2>9
  <1> HIDE DEF X
  <1>5. \A s \in SUBSET T : s \in X
    BY <1>3, <1>4, SetsInduce
  <1>6. QED
    BY <1>5 DEF X

-----------------------------------------------------------------------------
\* The other folds keep their types.

AddBy(F, T) == CHOOSE g : g = [s \in SUBSET T |->
                 IF s = {} THEN <<0, 1>> ELSE Add(F[Pick(s)], g[s \ {Pick(s)}])]

\* Fractions added up are a fraction.
LEMMA AddTyped ==
  ASSUME NEW T, IsFiniteSet(T), NEW F, \A x \in T : F[x] \in Int \X Int
  PROVE  FoldFunctionOnSet(Add, <<0, 1>>, F, T) \in Int \X Int
  <1> DEFINE H == AddBy(F, T)
  <1>1. PICK G : G = [p \in T \X (Int \X Int) |-> Add(F[p[1]], p[2])]
    OBVIOUS
  <1>2. G \in [T \X (Int \X Int) -> Int \X Int]
    BY <1>1 DEF Add
  <1>3. <<0, 1>> \in Int \X Int
    OBVIOUS
  <1>4. PICK g : FoldsBy(g, T, Int \X Int, <<0, 1>>, G)
    BY <1>2, <1>3, FoldExists
  <1>5. ASSUME NEW s \in SUBSET T, s # {}
        PROVE  G[<<Pick(s), g[s \ {Pick(s)}]>>] = Add(F[Pick(s)], g[s \ {Pick(s)}])
    <2>1. Pick(s) \in T /\ g[s \ {Pick(s)}] \in Int \X Int
      BY <1>4, <1>5, PickIn DEF FoldsBy
    <2>2. QED
      BY <1>1, <2>1
  <1>6. g = [s \in SUBSET T |-> IF s = {} THEN <<0, 1>> ELSE Add(F[Pick(s)], g[s \ {Pick(s)}])]
    BY <1>4, <1>5 DEF FoldsBy
  <1>7. H = [s \in SUBSET T |-> IF s = {} THEN <<0, 1>> ELSE Add(F[Pick(s)], H[s \ {Pick(s)}])]
    BY <1>6 DEF AddBy
  <1> HIDE DEF H
  <1>8. ASSUME NEW s \in SUBSET T, s # {}, H[s \ {Pick(s)}] \in Int \X Int PROVE H[s] \in Int \X Int
    <2>1. H[s] = Add(F[Pick(s)], H[s \ {Pick(s)}])
      BY <1>7, <1>8
    <2>2. F[Pick(s)] \in Int \X Int
      BY <1>8, PickIn
    <2>3. QED
      BY <1>8, <2>1, <2>2 DEF Add
  <1>9. H[{}] \in Int \X Int
    BY <1>3, <1>7
  <1>10. H[T] \in Int \X Int
    BY <1>8, <1>9, FoldTyped
  <1>11. FoldFunctionOnSet(Add, <<0, 1>>, F, T) = H[T]
    BY DEF H, AddBy, Pick, FoldFunctionOnSet, MapThenFoldSet
  <1>12. QED
    BY <1>10, <1>11

LargestBy(F, T) == CHOOSE g : g = [s \in SUBSET T |->
                 IF s = {} THEN NoForecast ELSE Larger(F[Pick(s)], g[s \ {Pick(s)}])]

\* The largest of some fractions is one.
LEMMA LargerTyped ==
  ASSUME NEW T, IsFiniteSet(T), NEW F, \A x \in T : F[x] \in Int \X Int
  PROVE  FoldFunctionOnSet(Larger, NoForecast, F, T) \in Int \X Int
  <1> DEFINE H == LargestBy(F, T)
  <1>1. PICK G : G = [p \in T \X (Int \X Int) |-> Larger(F[p[1]], p[2])]
    OBVIOUS
  <1>2. G \in [T \X (Int \X Int) -> Int \X Int]
    BY <1>1 DEF Larger
  <1>3. NoForecast \in Int \X Int
    BY DEF NoForecast
  <1>4. PICK g : FoldsBy(g, T, Int \X Int, NoForecast, G)
    BY <1>2, <1>3, FoldExists
  <1>5. ASSUME NEW s \in SUBSET T, s # {}
        PROVE  G[<<Pick(s), g[s \ {Pick(s)}]>>] = Larger(F[Pick(s)], g[s \ {Pick(s)}])
    <2>1. Pick(s) \in T /\ g[s \ {Pick(s)}] \in Int \X Int
      BY <1>4, <1>5, PickIn DEF FoldsBy
    <2>2. QED
      BY <1>1, <2>1
  <1>6. g = [s \in SUBSET T |-> IF s = {} THEN NoForecast ELSE Larger(F[Pick(s)], g[s \ {Pick(s)}])]
    BY <1>4, <1>5 DEF FoldsBy
  <1>7. H = [s \in SUBSET T |-> IF s = {} THEN NoForecast ELSE Larger(F[Pick(s)], H[s \ {Pick(s)}])]
    BY <1>6 DEF LargestBy
  <1> HIDE DEF H
  <1>8. ASSUME NEW s \in SUBSET T, s # {}, H[s \ {Pick(s)}] \in Int \X Int PROVE H[s] \in Int \X Int
    <2>1. H[s] = Larger(F[Pick(s)], H[s \ {Pick(s)}])
      BY <1>7, <1>8
    <2>2. F[Pick(s)] \in Int \X Int
      BY <1>8, PickIn
    <2>3. QED
      BY <1>8, <2>1, <2>2 DEF Larger
  <1>9. H[{}] \in Int \X Int
    BY <1>3, <1>7
  <1>10. H[T] \in Int \X Int
    BY <1>8, <1>9, FoldTyped
  <1>11. FoldFunctionOnSet(Larger, NoForecast, F, T) = H[T]
    BY DEF H, LargestBy, Pick, FoldFunctionOnSet, MapThenFoldSet
  <1>12. QED
    BY <1>10, <1>11

ProductBy(F, T) == CHOOSE g : g = [s \in SUBSET T |->
                 IF s = {} THEN 1 ELSE F[Pick(s)] * g[s \ {Pick(s)}]]

\* A product of integers is one, and one of natural numbers too.
LEMMA ProductInt ==
  ASSUME NEW T, IsFiniteSet(T), NEW F, \A x \in T : F[x] \in Int
  PROVE  FoldFunctionOnSet(LAMBDA x, y : x * y, 1, F, T) \in Int
  <1> DEFINE H == ProductBy(F, T)
  <1>1. PICK G : G = [p \in T \X Int |-> F[p[1]] * p[2]]
    OBVIOUS
  <1>2. G \in [T \X Int -> Int]
    BY <1>1
  <1>3. 1 \in Int
    OBVIOUS
  <1>4. PICK g : FoldsBy(g, T, Int, 1, G)
    BY <1>2, <1>3, FoldExists
  <1>5. ASSUME NEW s \in SUBSET T, s # {}
        PROVE  G[<<Pick(s), g[s \ {Pick(s)}]>>] = F[Pick(s)] * g[s \ {Pick(s)}]
    <2>1. Pick(s) \in T /\ g[s \ {Pick(s)}] \in Int
      BY <1>4, <1>5, PickIn DEF FoldsBy
    <2>2. QED
      BY <1>1, <2>1
  <1>6. g = [s \in SUBSET T |-> IF s = {} THEN 1 ELSE F[Pick(s)] * g[s \ {Pick(s)}]]
    BY <1>4, <1>5 DEF FoldsBy
  <1>7. H = [s \in SUBSET T |-> IF s = {} THEN 1 ELSE F[Pick(s)] * H[s \ {Pick(s)}]]
    BY <1>6 DEF ProductBy
  <1> HIDE DEF H
  <1>8. ASSUME NEW s \in SUBSET T, s # {}, H[s \ {Pick(s)}] \in Int PROVE H[s] \in Int
    <2>1. H[s] = F[Pick(s)] * H[s \ {Pick(s)}]
      BY <1>7, <1>8
    <2>2. F[Pick(s)] \in Int
      BY <1>8, PickIn
    <2>3. QED
      BY <1>8, <2>1, <2>2
  <1>9. H[{}] \in Int
    BY <1>3, <1>7
  <1>10. H[T] \in Int
    BY <1>8, <1>9, FoldTyped
  <1>11. FoldFunctionOnSet(LAMBDA x, y : x * y, 1, F, T) = H[T]
    BY DEF H, ProductBy, Pick, FoldFunctionOnSet, MapThenFoldSet
  <1>12. QED
    BY <1>10, <1>11

LEMMA ProductNat ==
  ASSUME NEW T, IsFiniteSet(T), NEW F, \A x \in T : F[x] \in Nat
  PROVE  FoldFunctionOnSet(LAMBDA x, y : x * y, 1, F, T) \in Nat
  <1> DEFINE H == ProductBy(F, T)
  <1>1. PICK G : G = [p \in T \X Nat |-> F[p[1]] * p[2]]
    OBVIOUS
  <1>2. G \in [T \X Nat -> Nat]
    BY <1>1
  <1>3. 1 \in Nat
    OBVIOUS
  <1>4. PICK g : FoldsBy(g, T, Nat, 1, G)
    BY <1>2, <1>3, FoldExists
  <1>5. ASSUME NEW s \in SUBSET T, s # {}
        PROVE  G[<<Pick(s), g[s \ {Pick(s)}]>>] = F[Pick(s)] * g[s \ {Pick(s)}]
    <2>1. Pick(s) \in T /\ g[s \ {Pick(s)}] \in Nat
      BY <1>4, <1>5, PickIn DEF FoldsBy
    <2>2. QED
      BY <1>1, <2>1
  <1>6. g = [s \in SUBSET T |-> IF s = {} THEN 1 ELSE F[Pick(s)] * g[s \ {Pick(s)}]]
    BY <1>4, <1>5 DEF FoldsBy
  <1>7. H = [s \in SUBSET T |-> IF s = {} THEN 1 ELSE F[Pick(s)] * H[s \ {Pick(s)}]]
    BY <1>6 DEF ProductBy
  <1> HIDE DEF H
  <1>8. ASSUME NEW s \in SUBSET T, s # {}, H[s \ {Pick(s)}] \in Nat PROVE H[s] \in Nat
    <2>1. H[s] = F[Pick(s)] * H[s \ {Pick(s)}]
      BY <1>7, <1>8
    <2>2. F[Pick(s)] \in Nat
      BY <1>8, PickIn
    <2>3. QED
      BY <1>8, <2>1, <2>2
  <1>9. H[{}] \in Nat
    BY <1>3, <1>7
  <1>10. H[T] \in Nat
    BY <1>8, <1>9, FoldTyped
  <1>11. FoldFunctionOnSet(LAMBDA x, y : x * y, 1, F, T) = H[T]
    BY DEF H, ProductBy, Pick, FoldFunctionOnSet, MapThenFoldSet
  <1>12. QED
    BY <1>10, <1>11
-----------------------------------------------------------------------------
\* Paces

LEMMA PowerTyped ==
  ASSUME NEW n \in Int
  PROVE  /\ \A b \in Int : Power(b, n) \in Int
         /\ \A b \in Nat : Power(b, n) \in Nat
  <1>1. IsFiniteSet(1..n)
    BY FS_Interval
  <1>2. ASSUME NEW b \in Int PROVE Power(b, n) \in Int
    <2>1. PICK F : F = [i \in 1..n |-> b]
      OBVIOUS
    <2>2. Power(b, n) = FoldFunctionOnSet(LAMBDA x, y : x * y, 1, F, 1..n)
      BY <2>1 DEF Power
    <2>3. \A i \in 1..n : F[i] \in Int
      BY <2>1
    <2>4. QED
      BY <1>1, <2>2, <2>3, ProductInt
  <1>3. ASSUME NEW b \in Nat PROVE Power(b, n) \in Nat
    <2>1. PICK F : F = [i \in 1..n |-> b]
      OBVIOUS
    <2>2. Power(b, n) = FoldFunctionOnSet(LAMBDA x, y : x * y, 1, F, 1..n)
      BY <2>1 DEF Power
    <2>3. \A i \in 1..n : F[i] \in Nat
      BY <2>1
    <2>4. QED
      BY <1>1, <2>2, <2>3, ProductNat
  <1>4. QED
    BY <1>2, <1>3

LEMMA Ordered ==
  ASSUME NEW a \in Int, NEW b \in Int, a <= b, NEW x \in Nat
  PROVE  a * x <= b * x
  <1>1. (b - a) * x >= 0
    OBVIOUS
  <1>2. b * x = a * x + (b - a) * x
    OBVIOUS
  <1>3. QED
    BY <1>1, <1>2

LEMMA WeightTyped ==
  ASSUME NEW k \in Int, NEW i \in Int, NEW cut \in Nat
  PROVE  WeightAt(k, i, cut) \in Int /\ (DecayFactor[1] \in Nat => WeightAt(k, i, cut) \in Nat)
  <1>1. PICK a, c, d : a = Power(DecayFactor[1], i - 1) /\ c = Power(DecayFactor[2], k - i)
                       /\ d = IF i = 1 THEN 1 ELSE cut
    OBVIOUS
  <1>2. DecayFactor[1] \in Int /\ DecayFactor[2] \in Nat
    BY AnalyticsAssumption
  <1>3. /\ a \in Int /\ c \in Nat /\ d \in Nat
        /\ DecayFactor[1] \in Nat => a \in Nat
    <2>1. i - 1 \in Int /\ k - i \in Int
      OBVIOUS
    <2>2. a \in Int /\ (DecayFactor[1] \in Nat => a \in Nat)
      BY <1>1, <1>2, <2>1, PowerTyped
    <2>3. c \in Nat
      BY <1>1, <1>2, <2>1, PowerTyped
    <2>4. QED
      BY <1>1, <2>2, <2>3
  <1>4. WeightAt(k, i, cut) = a * c * d
    BY <1>1 DEF WeightAt
  <1>5. QED
    BY <1>3, <1>4

\* The two sums of a mean.
Weights(vs, cut) == [i \in 1..Len(vs) |-> WeightAt(Len(vs), i, cut)]
Weighed(vs, cut) == [i \in 1..Len(vs) |-> vs[i] * WeightAt(Len(vs), i, cut)]

LEMMA MeanOf ==
  ASSUME NEW vs \in Seq(Int), NEW cut \in Nat
  PROVE  /\ IsFiniteSet(1..Len(vs)) /\ Len(vs) \in Nat
         /\ \A i \in 1..Len(vs) : Weights(vs, cut)[i] \in Int /\ Weighed(vs, cut)[i] \in Int
         /\ SumOf(Weights(vs, cut), 1..Len(vs)) \in Int /\ SumOf(Weighed(vs, cut), 1..Len(vs)) \in Int
         /\ WeightedMean(vs, cut)
              = Mean(SumOf(Weighed(vs, cut), 1..Len(vs)), SumOf(Weights(vs, cut), 1..Len(vs)))
         /\ WeightedMean(vs, cut) \in Int \X (Nat \ {0})
  <1> DEFINE T == 1..Len(vs)
             W == Weights(vs, cut)
             G == Weighed(vs, cut)
  <1>1. IsFiniteSet(T) /\ Len(vs) \in Nat
    BY FS_Interval
  <1>2. \A i \in T : W[i] \in Int /\ G[i] \in Int
    <2>1. SUFFICES ASSUME NEW i \in T PROVE W[i] \in Int /\ G[i] \in Int
      OBVIOUS
    <2>2. vs[i] \in Int /\ Len(vs) \in Int /\ i \in Int
      BY <1>1
    <2>3. WeightAt(Len(vs), i, cut) \in Int
      BY <2>2, WeightTyped
    <2>4. QED
      BY <2>2, <2>3 DEF Weights, Weighed
  <1>3. SumOf(W, T) \in Int /\ SumOf(G, T) \in Int
    BY <1>1, <1>2, SumSplits
  <1>4. WeightedMean(vs, cut) = Mean(SumOf(G, T), SumOf(W, T))
    <2>1. MapThenSumSet(LAMBDA i : vs[i] * WeightAt(Len(vs), i, cut), T) = SumOf(G, T)
      BY DEF SumOf, Weighed, MapThenSumSet, MapThenFoldSet
    <2>2. MapThenSumSet(LAMBDA i : WeightAt(Len(vs), i, cut), T) = SumOf(W, T)
      BY DEF SumOf, Weights, MapThenSumSet, MapThenFoldSet
    <2>3. QED
      BY <2>1, <2>2 DEF WeightedMean
  <1>5. WeightedMean(vs, cut) \in Int \X (Nat \ {0})
    BY <1>3, <1>4 DEF Mean
  <1>6. QED
    BY <1>1, <1>2, <1>3, <1>4, <1>5

\* A mean with weights that are not negative lies between two of its values.
LEMMA MeanBetween ==
  ASSUME DecayFactor[1] \in Nat, NEW vs \in Seq(Int), NEW cut \in Nat,
         NEW m, m = WeightedMean(vs, cut), m[1] > 0
  PROVE  /\ \E i \in 1..Len(vs) : ~Less(m, <<vs[i], 1>>)
         /\ \E i \in 1..Len(vs) : ~Less(<<vs[i], 1>>, m)
  <1> DEFINE T == 1..Len(vs)
             W == Weights(vs, cut)
             G == Weighed(vs, cut)
  <1>1. PICK n, w : n = SumOf(G, T) /\ w = SumOf(W, T)
    OBVIOUS
  <1>2. /\ n \in Int /\ w \in Int /\ IsFiniteSet(T) /\ Len(vs) \in Nat
        /\ \A i \in T : W[i] \in Int /\ G[i] \in Int
    BY <1>1, MeanOf
  <1>3. m = <<n, w>> /\ w > 0
    <2>1. m = Mean(n, w)
      BY <1>1, MeanOf
    <2>2. QED
      BY <1>2, <2>1 DEF Mean
  <1>4. \A i \in T : W[i] \in Nat /\ vs[i] \in Int /\ G[i] = vs[i] * W[i]
    <2>1. SUFFICES ASSUME NEW i \in T PROVE W[i] \in Nat /\ vs[i] \in Int /\ G[i] = vs[i] * W[i]
      OBVIOUS
    <2>2. vs[i] \in Int /\ Len(vs) \in Int /\ i \in Int
      BY <1>2
    <2>3. WeightAt(Len(vs), i, cut) \in Nat
      BY <2>2, WeightTyped
    <2>4. QED
      BY <2>2, <2>3 DEF Weights, Weighed
  <1>5. \A i \in T : /\ Less(m, <<vs[i], 1>>) <=> n < vs[i] * w
                     /\ Less(<<vs[i], 1>>, m) <=> vs[i] * w < n
    BY <1>2, <1>3, <1>4 DEF Less
  <1> HIDE DEF W, G
  <1>6. ASSUME \A i \in T : n < vs[i] * w PROVE FALSE
    <2>1. ASSUME NEW i \in T PROVE (n + 1) * W[i] <= w * G[i]
      <3>1. PICK v, x : v = vs[i] /\ x = W[i]
        OBVIOUS
      <3>2. v \in Int /\ x \in Nat /\ n + 1 <= v * w /\ G[i] = v * x
        BY <1>2, <1>4, <1>6, <3>1
      <3>3. (n + 1) * x <= (v * w) * x
        BY <1>2, <3>2, Ordered
      <3>4. (v * w) * x = w * (v * x)
        BY <1>2, <3>2
      <3>5. QED
        BY <3>1, <3>2, <3>3, <3>4
    <2>2. PICK c \in Int : c = n + 1
      BY <1>2
    <2>3. c * w <= w * n
      BY <1>1, <1>2, <2>1, <2>2, SumsCompare
    <2>4. c * w = w * n + w
      BY <1>2, <2>2
    <2>5. QED
      BY <1>2, <1>3, <2>3, <2>4
  <1>7. ASSUME \A i \in T : vs[i] * w < n PROVE FALSE
    <2>1. ASSUME NEW i \in T PROVE w * G[i] <= (n - 1) * W[i]
      <3>1. PICK v, x : v = vs[i] /\ x = W[i]
        OBVIOUS
      <3>2. v \in Int /\ x \in Nat /\ v * w <= n - 1 /\ G[i] = v * x
        BY <1>2, <1>4, <1>7, <3>1
      <3>3. (v * w) * x <= (n - 1) * x
        BY <1>2, <3>2, Ordered
      <3>4. (v * w) * x = w * (v * x)
        BY <1>2, <3>2
      <3>5. QED
        BY <3>1, <3>2, <3>3, <3>4
    <2>2. PICK c \in Int : c = n - 1
      BY <1>2
    <2>3. w * n <= c * w
      BY <1>1, <1>2, <2>1, <2>2, SumsCompare
    <2>4. c * w = w * n - w
      BY <1>2, <2>2
    <2>5. QED
      BY <1>2, <1>3, <2>3, <2>4
  <1>8. QED
    BY <1>5, <1>6, <1>7

\* A pace that is not 0 lies between two of the volumes it was computed of.
LEMMA PaceBetween ==
  ASSUME DecayFactor[1] \in Nat, NEW vs \in Seq(Int), NEW reply, Pace(vs, reply)[1] > 0
  PROVE  /\ \E i \in 1..Len(vs) : ~Less(Pace(vs, reply), <<vs[i], 1>>)
         /\ \E i \in 1..Len(vs) : ~Less(<<vs[i], 1>>, Pace(vs, reply))
  <1>1. CASE IsSpike(vs) /\ reply = "data_entry_error"
    <2>1. vs # <<>>
      BY <1>1 DEF IsSpike
    <2>2. PICK rest \in Seq(Int) : rest = Tail(vs)
      <3>1. Tail(vs) \in Seq(Int)
        BY <2>1
      <3>2. QED
        BY <3>1
    <2>3. Len(rest) = Len(vs) - 1 /\ \A i \in 1..Len(rest) : rest[i] = vs[i + 1]
      BY <2>1, <2>2
    <2>4. PICK m : m = WeightedMean(rest, 1)
      OBVIOUS
    <2>5. Pace(vs, reply) = m
      BY <1>1, <2>2, <2>4 DEF Pace
    <2>6. /\ \E i \in 1..Len(rest) : ~Less(m, <<rest[i], 1>>)
          /\ \E i \in 1..Len(rest) : ~Less(<<rest[i], 1>>, m)
      BY <2>4, <2>5, MeanBetween
    <2>7. Len(rest) \in Nat /\ Len(vs) \in Nat
      OBVIOUS
    <2>8. \A i \in 1..Len(rest) : i + 1 \in 1..Len(vs) /\ rest[i] = vs[i + 1]
      BY <2>3, <2>7
    <2>9. QED
      BY <2>5, <2>6, <2>8
  <1>2. CASE ~(IsSpike(vs) /\ reply = "data_entry_error")
    <2>1. PICK cut \in Nat : cut = IF IsSpike(vs) THEN 2 ELSE 1
      OBVIOUS
    <2>2. Pace(vs, reply) = WeightedMean(vs, cut)
      BY <1>2, <2>1 DEF Pace
    <2>3. QED
      BY <2>2, MeanBetween
  <1>3. QED
    BY <1>1, <1>2

LEMMA PaceTyped ==
  ASSUME NEW vs \in Seq(Int), NEW reply
  PROVE  Pace(vs, reply) \in Int \X (Nat \ {0})
  <1>1. CASE IsSpike(vs) /\ reply = "data_entry_error"
    <2>1. vs # <<>>
      BY <1>1 DEF IsSpike
    <2>2. PICK rest \in Seq(Int) : rest = Tail(vs)
      <3>1. Tail(vs) \in Seq(Int)
        BY <2>1
      <3>2. QED
        BY <3>1
    <2>3. WeightedMean(rest, 1) \in Int \X (Nat \ {0})
      BY MeanOf
    <2>4. QED
      BY <1>1, <2>2, <2>3 DEF Pace
  <1>2. CASE ~(IsSpike(vs) /\ reply = "data_entry_error")
    <2>1. PICK cut \in Nat : cut = IF IsSpike(vs) THEN 2 ELSE 1
      OBVIOUS
    <2>2. Pace(vs, reply) = WeightedMean(vs, cut)
      BY <1>2, <2>1 DEF Pace
    <2>3. QED
      BY <2>2, MeanOf
  <1>3. QED
    BY <1>1, <1>2

-----------------------------------------------------------------------------
\* The window

\* From the i-th largest element of a set of numbers on there are i.
LEMMA RankExists ==
  ASSUME NEW n \in Nat, NEW W \in SUBSET (1..n), NEW i \in 1..Cardinality(W)
  PROVE  \E q \in W : Cardinality({r \in W : r >= q}) = i
  <1> DEFINE T == 1..n
             Ranked(s) == \A j \in 1..Cardinality(s) :
                            \E q \in s : Cardinality({r \in s : r >= q}) = j
             X == {s \in SUBSET T : Ranked(s)}
  <1>1. IsFiniteSet(T) /\ \A s \in SUBSET T : IsFiniteSet(s) /\ Cardinality(s) \in Nat
    <2>1. IsFiniteSet(T)
      BY FS_Interval
    <2>2. QED
      BY <2>1, FS_Subset, FS_CardinalityType
  <1>2. {} \in X
    <2>1. Cardinality({}) = 0
      BY FS_EmptySet
    <2>2. QED
      BY <2>1
  <1>3. ASSUME NEW s \in SUBSET T, s # {}, \A x \in s : s \ {x} \in X PROVE s \in X
    <2>1. PICK m \in s : \A r \in s : r <= m
      BY <1>3, LastExists
    <2>2. PICK u : u = s \ {m}
      OBVIOUS
    <2>3. u \in SUBSET T /\ Cardinality(u) = Cardinality(s) - 1
      BY <1>1, <2>2, FS_RemoveElement
    <2>4. SUFFICES ASSUME NEW j \in 1..Cardinality(s)
                   PROVE  \E q \in s : Cardinality({r \in s : r >= q}) = j
      OBVIOUS
    <2>5. CASE j = 1
      <3>1. {r \in s : r >= m} = {m}
        <4>1. ASSUME NEW r \in s, r >= m PROVE r = m
          <5>1. r \in Int /\ m \in Int /\ r <= m
            BY <2>1
          <5>2. QED
            BY <4>1, <5>1
        <4>2. m >= m
          OBVIOUS
        <4>3. \A r : r \in s /\ r >= m <=> r = m
          BY <4>1, <4>2
        <4>4. QED
          BY <4>3
      <3>2. Cardinality({m}) = 1
        BY FS_Singleton
      <3>3. QED
        BY <2>5, <3>1, <3>2
    <2>6. CASE j # 1
      <3>1. j - 1 \in 1..Cardinality(u)
        BY <1>1, <2>3, <2>6
      <3>2. Ranked(u)
        BY <1>3, <2>2
      <3>3. PICK q \in u : Cardinality({r \in u : r >= q}) = j - 1
        BY <3>1, <3>2
      <3>4. {r \in s : r >= q} = {r \in u : r >= q} \cup {m}
        <4>1. q \in s /\ m >= q /\ \A r \in s : r \in Int
          BY <2>1, <2>2
        <4>2. QED
          BY <2>2, <4>1
      <3>5. IsFiniteSet({r \in u : r >= q}) /\ m \notin {r \in u : r >= q}
        BY <1>1, <2>2, <2>3, FS_Subset
      <3>6. Cardinality({r \in s : r >= q}) = (j - 1) + 1
        BY <3>3, <3>4, <3>5, FS_AddElement
      <3>7. q \in s
        BY <2>2
      <3>8. (j - 1) + 1 = j
        OBVIOUS
      <3>9. QED
        BY <3>6, <3>7, <3>8
    <2>7. QED
      BY <2>5, <2>6
  <1> HIDE DEF X
  <1>4. \A s \in SUBSET T : s \in X
    BY <1>1, <1>2, <1>3, SetsInduce
  <1>5. QED
    BY <1>4 DEF X

\* The window is a sequence of the periods that have rows.
LEMMA WindowTyped ==
  ASSUME NEW done \in SUBSET Period, NEW p
  PROVE  CleanWindow(done, p) \in Seq(done)
  <1> DEFINE rows == {q \in done : q <= p /\ periods[q].version = periods[p].version}
             since(q) == Cardinality({r \in rows : r >= q})
             window == {q \in rows : since(q) <= AvgPacePeriods /\ ~periods[q].pause}
  <1>1. PICK W : W = window
    OBVIOUS
  <1>2. CleanWindow(done, p) = [i \in 1..Cardinality(W) |->
                                  CHOOSE q \in W : Cardinality({r \in W : r >= q}) = i]
    BY <1>1 DEF CleanWindow
  <1>3. W \subseteq done
    BY <1>1
  <1> HIDE DEF window
  <1>4. W \in SUBSET (1..MaxPeriod) /\ MaxPeriod \in Nat
    BY <1>3, AnalyticsAssumption DEF Period
  <1>5. Cardinality(W) \in Nat
    <2>1. IsFiniteSet(1..MaxPeriod)
      BY <1>4, FS_Interval
    <2>2. IsFiniteSet(W)
      BY <1>4, <2>1, FS_Subset
    <2>3. QED
      BY <2>2, FS_CardinalityType
  <1>6. \A i \in 1..Cardinality(W) : \E q \in W : Cardinality({r \in W : r >= q}) = i
    BY <1>4, RankExists
  <1>7. \A i \in 1..Cardinality(W) : CleanWindow(done, p)[i] \in done
    BY <1>2, <1>3, <1>6
  <1>8. QED
    <2>1. CleanWindow(done, p) \in [1..Cardinality(W) -> done]
      BY <1>2, <1>7
    <2>2. QED
      BY <1>5, <2>1

LEMMA VolumesTyped ==
  ASSUME NEW volume \in [Period -> [Line -> Int]], NEW window \in Seq(Period), NEW l \in Line
  PROVE  /\ Volumes(volume, window, l) \in Seq(Int)
         /\ Len(Volumes(volume, window, l)) = Len(window)
  <1>1. Len(window) \in Nat /\ DOMAIN window = 1..Len(window)
    OBVIOUS
  <1>2. \A i \in 1..Len(window) : volume[window[i]][l] \in Int
    OBVIOUS
  <1>3. QED
    BY <1>1, <1>2 DEF Volumes

-----------------------------------------------------------------------------
\* What closing computes is of the types of the tables.

FactsTyped == facts \in [Period -> [Line -> Volume \cup {NoFact}]]

LEMMA FigureNat ==
  ASSUME FactsTyped, NEW p \in Period, NEW l \in Line
  PROVE  Figure(p, l) \in Nat
  <1>1. Volume \subseteq Nat
    BY AnalyticsAssumption
  <1>2. facts[p][l] \in Volume \cup {NoFact}
    BY DEF FactsTyped
  <1>3. QED
    BY <1>1, <1>2 DEF Figure

LEMMA ReadinessTyped ==
  ASSUME FactsTyped, NEW p \in Period
  PROVE  ClosedReadiness(p) \in Nat
  <1> DEFINE done(l) == IF Figure(p, l) < Plan[l] THEN Figure(p, l) ELSE Plan[l]
             part(l) == (100 * Weight[l] * done(l)) \div Plan[l]
  <1>1. PICK F : F = [l \in Line |-> part(l)]
    OBVIOUS
  <1>2. ASSUME NEW l \in Line PROVE F[l] \in Nat
    <2>1. PICK w, c, d : w = Weight[l] /\ c = Plan[l] /\ d = done(l)
      OBVIOUS
    <2>2. w \in Nat /\ c \in Nat \ {0} /\ d \in Nat
      BY <2>1, AnalyticsAssumption, FigureNat
    <2>3. 100 * w * d \in Nat
      BY <2>2
    <2>4. (100 * w * d) \div c \in Nat
      BY <2>2, <2>3
    <2>5. QED
      BY <1>1, <2>1, <2>4
  <1>3. ClosedReadiness(p) = SumOf(F, Line)
    <2>1. ClosedReadiness(p) = MapThenSumSet(LAMBDA l : part(l), Line)
      BY DEF ClosedReadiness
    <2> HIDE DEF part
    <2>2. MapThenSumSet(LAMBDA l : part(l), Line) = SumOf([l \in Line |-> part(l)], Line)
      BY DEF SumOf, MapThenSumSet, MapThenFoldSet
    <2>3. F = [l \in Line |-> part(l)]
      BY <1>1
    <2>4. QED
      BY <2>1, <2>2, <2>3
  <1>4. IsFiniteSet(Line) /\ \A l \in Line : F[l] \in Int
    BY <1>2, AnalyticsAssumption
  <1>5. SumOf(F, Line) \in Int
    BY <1>4, SumSplits
  <1>6. 0 * SumOf(F, Line) <= 1 * SumOf(F, Line)
    <2>1. PICK c \in Int, d \in Int : c = 0 /\ d = 1
      OBVIOUS
    <2>2. \A l \in Line : F[l] \in Int /\ c * F[l] <= d * F[l]
      BY <1>2, <2>1
    <2>3. c * SumOf(F, Line) <= d * SumOf(F, Line)
      BY <1>4, <2>2, SumsCompare
    <2>4. QED
      BY <2>1, <2>3
  <1>7. QED
    BY <1>3, <1>5, <1>6

LEMMA LineForecastTyped ==
  ASSUME FactsTyped, NEW p \in Period, NEW l \in Line,
         NEW volume \in [Period -> [Line -> Int]], NEW window \in Seq(Period)
  PROVE  LineForecast(volume, window, p, l) \in Int \X Int
  <1>1. PICK pace : pace = LinePace(volume, window, l)
    OBVIOUS
  <1>2. pace \in Int \X Int
    <2>1. CASE window = <<>>
      BY <1>1, <2>1 DEF LinePace
    <2>2. CASE window # <<>>
      <3>1. Volumes(volume, window, l) \in Seq(Int)
        BY VolumesTyped
      <3>2. Pace(Volumes(volume, window, l), replies[window[1]][l]) \in Int \X (Nat \ {0})
        BY <3>1, PaceTyped
      <3>3. QED
        BY <1>1, <2>2, <3>2 DEF LinePace
    <2>3. QED
      BY <2>1, <2>2
  <1>3. PICK left : left = Plan[l] - Figure(p, l)
    OBVIOUS
  <1>4. left \in Int
    BY <1>3, FigureNat, AnalyticsAssumption
  <1>5. PeriodsLeft(left, pace) \in Int \X Int
    <2>1. pace[1] \in Int /\ pace[2] \in Int
      BY <1>2
    <2>2. left * pace[2] \in Int
      BY <1>4, <2>1
    <2>3. QED
      BY <2>1, <2>2 DEF PeriodsLeft, NoForecast
  <1>6. QED
    BY <1>1, <1>3, <1>5 DEF LineForecast, NoForecast

LEMMA ForecastTyped ==
  ASSUME NEW r \in Nat, NEW f \in [Line -> Int \X Int]
  PROVE  Forecast(r, f) \in Snapshot
  <1>1. \A S \in SUBSET Line : IsFiniteSet(S)
    BY AnalyticsAssumption, FS_Subset
  <1>2. ASSUME NEW known \in SUBSET Line PROVE WeightedForecast(f, known) \in Int \X Int
    <2>1. PICK F : F = [l \in known |-> Times(Weight[l], f[l])]
      OBVIOUS
    <2>2. ASSUME NEW l \in known PROVE F[l] \in Int \X Int
      <3>1. Weight[l] \in Int /\ f[l] \in Int \X Int
        BY AnalyticsAssumption
      <3>2. Weight[l] * f[l][1] \in Int /\ f[l][2] \in Int
        BY <3>1
      <3>3. QED
        BY <2>1, <3>2 DEF Times
    <2>3. PICK sum : sum = FoldFunctionOnSet(Add, <<0, 1>>, F, known)
      OBVIOUS
    <2>4. sum \in Int \X Int
      BY <1>1, <2>2, <2>3, AddTyped
    <2>5. PICK total : total = SumOf(Weight, known)
      OBVIOUS
    <2>6. total \in Int
      <3>1. \A l \in known : Weight[l] \in Int
        BY AnalyticsAssumption
      <3>2. QED
        BY <1>1, <2>5, <3>1, SumSplits
    <2>7. total = MapThenSumSet(LAMBDA l : Weight[l], known)
      BY <2>5 DEF SumOf
    <2>8. Divided(sum, total) \in Int \X Int
      BY <2>4, <2>6 DEF Divided
    <2>9. NoForecast \in Int \X Int
      BY DEF NoForecast
    <2>10. QED
      BY <2>1, <2>3, <2>7, <2>8, <2>9 DEF WeightedForecast
  <1>3. ASSUME NEW heavy \in SUBSET Line PROVE CriticalForecast(f, heavy) \in Int \X Int
    BY <1>1, LargerTyped DEF CriticalForecast
  <1>4. PICK a, b : /\ a = WeightedForecast(f, KnownLines(f))
                    /\ b = CriticalForecast(f, {l \in KnownLines(f) : Weight[l] >= WeightThreshold})
    OBVIOUS
  <1>5. a \in Int \X Int /\ b \in Int \X Int
    <2>1. KnownLines(f) \in SUBSET Line
      BY DEF KnownLines
    <2>2. {l \in KnownLines(f) : Weight[l] >= WeightThreshold} \in SUBSET Line
      BY <2>1
    <2>3. QED
      BY <1>2, <1>3, <1>4, <2>1, <2>2
  <1>6. SnapshotOf(r, a, b) \in Snapshot
    BY <1>5 DEF SnapshotOf, Snapshot, IsGap
  <1>7. QED
    BY <1>4, <1>6 DEF Forecast


-----------------------------------------------------------------------------
\* The source keeps its types.

\* A period keeps the version it was opened with, and versions only go up.
VersionsGrow ==
  /\ version \in 1..MaxVersion
  /\ \A p \in Opened : periods[p].version \in 1..version
  /\ \A p, q \in Opened : p <= q => periods[p].version <= periods[q].version

\* Figures are there from verification on, and an entry under way is of such a period.
FiguresFit ==
  /\ FactsTyped /\ replies \in [Period -> [Line -> Reply]]
  /\ \A p \in Period, l \in Line : periods[p].status \in {"none", "open"} => facts[p][l] = NoFact
  /\ entry = NoEntry \/ /\ entry.period \in Period /\ entry.line \in Line
                        /\ entry.volume \in Volume /\ entry.reply \in Reply
                        /\ periods[entry.period].status \in {"verification", "closed"}

\* What closing writes is of periods closed or being closed.
OutcomesFit ==
  /\ closing \in [Period -> Closing]
  /\ paces \in [Period -> [Line -> Int]] /\ previous \in [Period -> [Line -> Period \cup {0}]]
  /\ \A p \in Period \ Writers, l \in Line : paces[p][l] = 0 /\ previous[p][l] = 0
  /\ spikes \subseteq Writers \X Period \X Line /\ notices \subseteq Writers \X Line
  /\ \A x \in spikes : x[2] \in Closed \cup {x[1]}
  /\ snapshots \in [Period -> Snapshot]
  /\ \A p \in Period \ Closed : snapshots[p] = NoSnapshot

SourceTyped == PeriodsNumbered /\ VersionsGrow /\ FiguresFit /\ OutcomesFit /\ late \subseteq Line

\* A change of a period's status as Verify and CloseCommit make it.
LEMMA StatusEffect ==
  ASSUME SourceTyped, NEW p \in Period, NEW s \in {"verification", "closed"},
         periods[p].status \in {"open", "verification"},
         periods' = [periods EXCEPT ![p].status = s], version' = version
  PROVE  /\ periods'[p].status = s
         /\ \A q \in Period : periods'[q].version = periods[q].version
         /\ \A q \in Period : q # p => periods'[q].status = periods[q].status
         /\ Opened' = Opened /\ VersionsGrow'
  <1>1. /\ periods'[p].status = s
        /\ \A q \in Period : periods'[q].version = periods[q].version
        /\ \A q \in Period : q # p => periods'[q].status = periods[q].status
    BY DEF SourceTyped, PeriodsNumbered, PeriodRow
  <1>2. Opened' = Opened /\ Opened \subseteq Period
    BY <1>1 DEF Opened
  <1>3. VersionsGrow'
    BY <1>1, <1>2 DEF SourceTyped, VersionsGrow
  <1>4. QED
    BY <1>1, <1>2, <1>3

LEMMA OpenTyped ==
  ASSUME SourceTyped, NEW pause \in BOOLEAN, OpenPeriod(pause)
  PROVE  SourceTyped'
  <1>1. PICK k : k = Newest + 1
    OBVIOUS
  <1>2. /\ k \in Period /\ k \notin Opened /\ PeriodsNumbered' /\ Newest' = k
        /\ Opened = 1..Newest /\ Newest \in Nat
    <2>1. PeriodsNumbered
      BY DEF SourceTyped
    <2>2. PeriodsNumbered' /\ Newest' = k
      BY <1>1, <2>1, OpeningAdds
    <2>3. k \in Period /\ k \notin Opened /\ Opened = 1..Newest /\ Newest \in Nat
      BY <1>1, <2>1, AnalyticsAssumption DEF PeriodsNumbered, OpenPeriod, Period
    <2>4. QED
      BY <2>2, <2>3
  <1>3. /\ periods' = [periods EXCEPT ![k] = [status |-> "open", version |-> version, pause |-> pause]]
        /\ UNCHANGED <<version, facts, replies, entry, closing, paces, previous, spikes, notices,
                       snapshots, late>>
    BY <1>1 DEF OpenPeriod, results
  <1>4. /\ periods'[k].status = "open" /\ periods'[k].version = version
        /\ \A q \in Period : q # k => periods'[q] = periods[q]
    BY <1>2, <1>3 DEF SourceTyped, PeriodsNumbered
  <1>5. Opened' = Opened \cup {k} /\ Opened \subseteq Period
    BY <1>2, <1>4 DEF Opened
  <1>6. Closed' = Closed
    BY <1>2, <1>4 DEF Closed, Opened
  <1>7. periods[k].status = "none"
    BY <1>2 DEF Opened
  <1>8. VersionsGrow'
    <2>1. \A q \in Opened : q < k /\ q \in Int
      BY <1>1, <1>2
    <2>2. version' \in 1..MaxVersion /\ version' = version
      BY <1>3 DEF SourceTyped, VersionsGrow
    <2>3. \A q \in Opened : periods'[q].version = periods[q].version /\ periods[q].version \in 1..version
      BY <1>2, <1>4, <1>5 DEF SourceTyped, VersionsGrow
    <2>4. version \in 1..version
      BY <2>2
    <2>5. \A q \in Opened' : periods'[q].version \in 1..version'
      BY <1>4, <1>5, <2>2, <2>3, <2>4
    <2>6. ASSUME NEW p \in Opened', NEW q \in Opened', p <= q
          PROVE  periods'[p].version <= periods'[q].version
      <3>1. CASE q = k
        BY <1>4, <2>2, <2>5, <3>1
      <3>2. CASE q # k
        <4>1. q \in Opened /\ p \in Opened
          <5>1. q \in Opened /\ q < k
            BY <1>5, <2>1, <3>2
          <5>2. p # k
            <6>1. q \in Int /\ k \in Int
              BY <1>1, <1>2, <2>1, <5>1
            <6>2. QED
              BY <2>6, <5>1, <6>1
          <5>3. QED
            BY <1>5, <5>1, <5>2
        <4>2. QED
          BY <2>3, <2>6, <4>1 DEF SourceTyped, VersionsGrow
      <3>3. QED
        BY <3>1, <3>2
    <2>7. QED
      BY <2>2, <2>5, <2>6 DEF VersionsGrow
  <1>9. FiguresFit'
    <2>1. FactsTyped' /\ replies' \in [Period -> [Line -> Reply]]
      BY <1>3 DEF SourceTyped, FiguresFit, FactsTyped
    <2>2. \A p \in Period, l \in Line : periods'[p].status \in {"none", "open"} => facts'[p][l] = NoFact
      BY <1>3, <1>4, <1>7 DEF SourceTyped, FiguresFit
    <2>3. entry' = NoEntry \/ /\ entry'.period \in Period /\ entry'.line \in Line
                              /\ entry'.volume \in Volume /\ entry'.reply \in Reply
                              /\ periods'[entry'.period].status \in {"verification", "closed"}
      BY <1>3, <1>4, <1>7 DEF SourceTyped, FiguresFit
    <2>4. QED
      BY <2>1, <2>2, <2>3 DEF FiguresFit
  <1>10. OutcomesFit' /\ late' \subseteq Line
    BY <1>3, <1>6 DEF SourceTyped, OutcomesFit, Writers
  <1>11. QED
    BY <1>2, <1>8, <1>9, <1>10 DEF SourceTyped

LEMMA VerifyTyped ==
  ASSUME SourceTyped, ClosesFit, NEW p \in Period, Verify(p)
  PROVE  SourceTyped'
  <1>1. /\ periods[p].status = "open" /\ periods' = [periods EXCEPT ![p].status = "verification"]
        /\ UNCHANGED <<version, facts, replies, entry, closing, paces, previous, spikes, notices,
                       snapshots, late>>
    BY DEF Verify, results
  <1>2. /\ periods'[p].status = "verification"
        /\ \A q \in Period : q # p => periods'[q].status = periods[q].status
        /\ VersionsGrow'
    BY <1>1, StatusEffect
  <1>3. PeriodsNumbered'
    BY PeriodsGrow DEF SourceTyped, SourceStep
  <1>4. Closed' = Closed
    BY <1>1, <1>2 DEF Closed
  <1>5. FiguresFit'
    BY <1>1, <1>2 DEF SourceTyped, FiguresFit, FactsTyped
  <1>6. OutcomesFit' /\ late' \subseteq Line
    BY <1>1, <1>4 DEF SourceTyped, OutcomesFit, Writers
  <1>7. QED
    BY <1>2, <1>3, <1>5, <1>6 DEF SourceTyped

LEMMA DeltaTyped ==
  ASSUME FactsTyped, NEW p \in Period, NEW q \in Closed \cup {0}, NEW l \in Line
  PROVE  Delta(p, q, l) \in Int
  <1>1. Figure(p, l) \in Int /\ (q # 0 => Figure(q, l) \in Int)
    BY FigureNat DEF Closed
  <1>2. QED
    BY <1>1 DEF Delta

\* The newest volume of a window is of a period there is.
LEMMA NewestOfWindow ==
  ASSUME NEW volume \in [Period -> [Line -> Int]], NEW done \in SUBSET Period,
         NEW window \in Seq(done), NEW l \in Line, Volumes(volume, window, l) # <<>>
  PROVE  window[1] \in done
  <1>1. window \in Seq(Period)
    OBVIOUS
  <1>2. Volumes(volume, window, l) \in Seq(Int) /\ Len(Volumes(volume, window, l)) = Len(window)
    BY <1>1, VolumesTyped
  <1>3. Len(window) # 0
    BY <1>2
  <1>4. QED
    BY <1>3

\* The steps of a close but the last leave periods and figures alone.
LEMMA RestTyped ==
  ASSUME SourceTyped, UNCHANGED <<periods, version, facts, replies, entry, late>>, OutcomesFit'
  PROVE  SourceTyped'
  <1>1. Opened' = Opened /\ Newest' = Newest
    BY DEF Opened, Newest
  <1>2. PeriodsNumbered' /\ VersionsGrow'
    BY <1>1 DEF SourceTyped, PeriodsNumbered, VersionsGrow
  <1>3. FiguresFit' /\ late' \subseteq Line
    BY DEF SourceTyped, FiguresFit, FactsTyped
  <1>4. QED
    BY <1>2, <1>3 DEF SourceTyped

LEMMA BeginTyped ==
  ASSUME SourceTyped, ClosesFit, NEW p \in Period, CloseBegin(p)
  PROVE  SourceTyped'
  <1>1. UNCHANGED <<periods, version, facts, replies, entry, paces, previous, spikes, notices,
                    snapshots, late>>
    BY DEF CloseBegin, results
  <1>2. PICK r \in Nat : r = ClosedReadiness(p)
    BY ReadinessTyped DEF SourceTyped, FiguresFit
  <1>3. [NotClosing EXCEPT !.on = TRUE, !.readiness = r] \in Closing
    <2>1. NotClosing \in Closing
      BY DEF NotClosing, Closing, NoForecast
    <2>2. PICK n \in Closing : n = NotClosing
      BY <2>1
    <2>3. [n EXCEPT !.on = TRUE, !.readiness = r] \in Closing
      BY <1>2 DEF Closing
    <2>4. QED
      BY <2>2, <2>3
  <1>4. closing' = [closing EXCEPT ![p] = [NotClosing EXCEPT !.on = TRUE, !.readiness = r]]
    BY <1>2 DEF CloseBegin
  <1>5. closing' \in [Period -> Closing]
    BY <1>3, <1>4 DEF SourceTyped, OutcomesFit
  <1>6. Closed' = Closed /\ Writers' = Writers \cup {p}
    <2>1. PICK c : CloseBecomes(p, c) /\ c.on
      BY BeginEffect
    <2>2. Closed' = Closed
      BY <1>1 DEF Closed
    <2>3. QED
      BY <2>1, <2>2 DEF Writers, CloseBecomes
  <1>7. OutcomesFit'
    BY <1>1, <1>5, <1>6 DEF SourceTyped, OutcomesFit
  <1>8. QED
    BY <1>1, <1>7, RestTyped

LEMMA MeasureTyped ==
  ASSUME SourceTyped, ClosesFit, NEW p \in Period, NEW l \in Line, CloseDelta(p, l)
  PROVE  SourceTyped'
  <1>1. UNCHANGED <<periods, version, facts, replies, entry, spikes, notices, snapshots, late>>
    BY DEF CloseDelta
  <1>2. PICK q \in Closed \cup {0} : q = Preceding(p)
    BY PrecedingThere
  <1>3. /\ paces' = [paces EXCEPT ![p][l] = Delta(p, q, l)]
        /\ previous' = [previous EXCEPT ![p][l] = q]
    BY <1>2 DEF CloseDelta
  <1>4. Delta(p, q, l) \in Int
    BY DeltaTyped DEF SourceTyped, FiguresFit
  <1>5. /\ paces' \in [Period -> [Line -> Int]] /\ previous' \in [Period -> [Line -> Period \cup {0}]]
        /\ \A r \in Period : r # p => paces'[r] = paces[r] /\ previous'[r] = previous[r]
    BY <1>3, <1>4 DEF SourceTyped, OutcomesFit, Closed
  <1>6. closing' \in [Period -> Closing]
    <2>1. closing[p] \in Closing
      BY DEF SourceTyped, OutcomesFit
    <2>2. PICK n : n = [closing[p] EXCEPT !.measured = closing[p].measured \cup {l}]
      OBVIOUS
    <2>3. n \in Closing
      BY <2>1, <2>2 DEF Closing
    <2>4. closing' = [closing EXCEPT ![p] = n]
      BY <2>2 DEF CloseDelta
    <2>5. QED
      BY <2>3, <2>4 DEF SourceTyped, OutcomesFit
  <1>7. Closed' = Closed /\ Writers' = Writers /\ p \in Writers
    <2>1. PICK c : CloseBecomes(p, c) /\ c.on
      BY DeltaEffect
    <2>2. Closed' = Closed /\ closing[p].on
      BY <1>1 DEF Closed, CloseDelta
    <2>3. QED
      BY <2>1, <2>2 DEF Writers, CloseBecomes
  <1>8. \A r \in Period \ Writers', k \in Line : paces'[r][k] = 0 /\ previous'[r][k] = 0
    <2>1. SUFFICES ASSUME NEW r \in Period, r \notin Writers', NEW k \in Line
                   PROVE  paces'[r][k] = 0 /\ previous'[r][k] = 0
      OBVIOUS
    <2>2. r \notin Writers /\ r # p
      BY <1>7, <2>1
    <2>3. paces[r][k] = 0 /\ previous[r][k] = 0
      BY <2>2 DEF SourceTyped, OutcomesFit
    <2>4. paces'[r] = paces[r] /\ previous'[r] = previous[r]
      BY <1>5, <2>2
    <2>5. QED
      BY <2>3, <2>4
  <1>9. spikes' = spikes /\ notices' = notices /\ snapshots' = snapshots
    BY <1>1
  <1>10. OutcomesFit'
    BY <1>5, <1>6, <1>7, <1>8, <1>9 DEF SourceTyped, OutcomesFit
  <1>11. QED
    BY <1>1, <1>10, RestTyped

LEMMA LineTyped ==
  ASSUME SourceTyped, ClosesFit, NEW p \in Period, NEW l \in Line, CloseLine(p, l)
  PROVE  SourceTyped'
  <1>1. UNCHANGED <<periods, version, facts, replies, entry, paces, previous, snapshots, late>>
    BY DEF CloseLine
  <1>2. PICK window : window = CleanWindow(Closed \cup {p}, p)
    OBVIOUS
  <1>3. window \in Seq(Closed \cup {p}) /\ window \in Seq(Period)
    <2>1. Closed \cup {p} \in SUBSET Period
      BY DEF Closed
    <2>2. window \in Seq(Closed \cup {p})
      BY <1>2, <2>1, WindowTyped
    <2>3. QED
      BY <2>1, <2>2
  <1>4. PICK x \in Int \X Int : x = LineForecast(paces, window, p, l)
    BY <1>3, LineForecastTyped DEF SourceTyped, OutcomesFit, FiguresFit
  <1>5. closing' \in [Period -> Closing]
    <2>1. closing[p] \in Closing
      BY DEF SourceTyped, OutcomesFit
    <2>2. PICK m : m = [closing[p] EXCEPT !.paced = closing[p].paced \cup {l}]
      OBVIOUS
    <2>3. m \in Closing
      BY <2>1, <2>2 DEF Closing
    <2>4. PICK k : k = [closing EXCEPT ![p] = m]
      OBVIOUS
    <2>5. k \in [Period -> Closing] /\ k[p] = m
      BY <2>3, <2>4 DEF SourceTyped, OutcomesFit
    <2>6. closing' = [k EXCEPT ![p].forecast[l] = x]
      BY <1>2, <1>4, <2>2, <2>4 DEF CloseLine
    <2>7. PICK f : f = [m.forecast EXCEPT ![l] = x]
      OBVIOUS
    <2>8. f \in [Line -> Int \X Int]
      BY <2>3, <2>7 DEF Closing
    <2>9. [m EXCEPT !.forecast = f] \in Closing
      BY <2>3, <2>8 DEF Closing
    <2>10. closing' = [k EXCEPT ![p] = [m EXCEPT !.forecast = f]]
      BY <2>5, <2>6, <2>7
    <2>11. QED
      BY <2>5, <2>9, <2>10
  <1>6. Closed' = Closed /\ Writers' = Writers /\ p \in Writers
    <2>1. PICK c : CloseBecomes(p, c) /\ c.on
      BY LineEffect
    <2>2. Closed' = Closed /\ closing[p].on
      BY <1>1 DEF Closed, CloseLine
    <2>3. QED
      BY <2>1, <2>2 DEF Writers, CloseBecomes
  <1>7. ASSUME NEW y \in spikes', y \notin spikes
        PROVE  y \in Writers \X Period \X Line /\ y[2] \in Closed \cup {y[1]}
    <2>1. y = <<p, window[1], l>> /\ IsSpike(Volumes(paces, window, l))
      BY <1>2, <1>7 DEF CloseLine
    <2>2. Volumes(paces, window, l) # <<>>
      BY <2>1 DEF IsSpike
    <2>3. paces \in [Period -> [Line -> Int]] /\ Closed \cup {p} \in SUBSET Period
      BY DEF SourceTyped, OutcomesFit, Closed
    <2>4. window[1] \in Closed \cup {p}
      BY <1>3, <2>2, <2>3, NewestOfWindow
    <2>5. QED
      BY <1>6, <2>1, <2>3, <2>4
  <1>8. notices' \subseteq Writers \X Line
    <2>1. notices' \subseteq notices \cup {<<p, l>>}
      BY DEF CloseLine
    <2>2. QED
      BY <1>6, <2>1 DEF SourceTyped, OutcomesFit
  <1>9. OutcomesFit'
    <2>1. spikes' \subseteq Writers \X Period \X Line /\ \A y \in spikes' : y[2] \in Closed \cup {y[1]}
      BY <1>7 DEF SourceTyped, OutcomesFit
    <2>2. QED
      BY <1>1, <1>5, <1>6, <1>8, <2>1 DEF SourceTyped, OutcomesFit
  <1>10. QED
    BY <1>1, <1>9, RestTyped

LEMMA AbortTyped ==
  ASSUME SourceTyped, ClosesFit, NEW p \in Period, CloseAbort(p)
  PROVE  SourceTyped'
  <1>1. /\ UNCHANGED <<periods, version, facts, replies, entry, snapshots, late>>
        /\ closing' = [closing EXCEPT ![p] = NotClosing]
        /\ paces' = [paces EXCEPT ![p] = [l \in Line |-> 0]]
        /\ previous' = [previous EXCEPT ![p] = [l \in Line |-> 0]]
        /\ spikes' = {y \in spikes : y[1] # p} /\ notices' = {n \in notices : n[1] # p}
    BY DEF CloseAbort
  <1>2. NotClosing \in Closing
    BY DEF NotClosing, Closing, NoForecast
  <1>3. closing' \in [Period -> Closing]
    BY <1>1, <1>2 DEF SourceTyped, OutcomesFit
  <1>4. Closed' = Closed /\ Writers' = Writers \ {p} /\ p \notin Closed
    <2>1. CloseBecomes(p, NotClosing) /\ ~NotClosing.on
      BY EndEffect
    <2>2. Closed' = Closed /\ p \notin Closed
      BY <1>1 DEF Closed, CloseAbort, ClosesFit
    <2>3. QED
      BY <2>1, <2>2 DEF Writers, CloseBecomes
  <1>5. /\ paces' \in [Period -> [Line -> Int]] /\ previous' \in [Period -> [Line -> Period \cup {0}]]
        /\ \A q \in Period \ Writers', l \in Line : paces'[q][l] = 0 /\ previous'[q][l] = 0
    BY <1>1, <1>4 DEF SourceTyped, OutcomesFit
  <1>6. spikes' \subseteq Writers' \X Period \X Line /\ notices' \subseteq Writers' \X Line
    BY <1>1, <1>4 DEF SourceTyped, OutcomesFit
  <1>7. OutcomesFit'
    BY <1>1, <1>3, <1>4, <1>5, <1>6 DEF SourceTyped, OutcomesFit
  <1>8. QED
    BY <1>1, <1>7, RestTyped

LEMMA CommitTyped ==
  ASSUME SourceTyped, ClosesFit, NEW p \in Period, CloseCommit(p)
  PROVE  SourceTyped'
  <1>1. /\ closing[p].on /\ periods[p].status = "verification"
        /\ periods' = [periods EXCEPT ![p].status = "closed"]
        /\ snapshots' = [snapshots EXCEPT ![p] = Forecast(closing[p].readiness, closing[p].forecast)]
        /\ closing' = [closing EXCEPT ![p] = NotClosing]
        /\ UNCHANGED <<version, facts, replies, entry, paces, previous, spikes, notices, late>>
    BY DEF CloseCommit, ClosesFit, results
  <1>2. /\ periods'[p].status = "closed"
        /\ \A q \in Period : q # p => periods'[q].status = periods[q].status
        /\ VersionsGrow'
    BY <1>1, StatusEffect
  <1>3. PeriodsNumbered'
    BY PeriodsGrow DEF SourceTyped, SourceStep
  <1>4. p \notin Closed /\ Closed' = Closed \cup {p} /\ Closed \subseteq Period
    BY <1>1, <1>2 DEF Closed
  <1>5. Writers' = Writers
    <2>1. CloseBecomes(p, NotClosing) /\ ~NotClosing.on
      BY EndEffect
    <2>2. QED
      BY <1>1, <1>4, <2>1 DEF Writers, CloseBecomes
  <1>6. FiguresFit'
    BY <1>1, <1>2 DEF SourceTyped, FiguresFit, FactsTyped
  <1>7. closing' \in [Period -> Closing]
    BY <1>1 DEF SourceTyped, OutcomesFit, NotClosing, Closing, NoForecast
  <1>8. snapshots' \in [Period -> Snapshot] /\ \A q \in Period \ Closed' : snapshots'[q] = NoSnapshot
    <2>1. closing[p].readiness \in Nat /\ closing[p].forecast \in [Line -> Int \X Int]
      BY DEF SourceTyped, OutcomesFit, Closing
    <2>2. Forecast(closing[p].readiness, closing[p].forecast) \in Snapshot
      BY <2>1, ForecastTyped
    <2>3. QED
      BY <1>1, <1>4, <2>2 DEF SourceTyped, OutcomesFit
  <1>9. \A y \in spikes : y[2] \in Closed' \cup {y[1]}
    BY <1>4 DEF SourceTyped, OutcomesFit
  <1>10. OutcomesFit' /\ late' \subseteq Line
    BY <1>1, <1>5, <1>7, <1>8, <1>9 DEF SourceTyped, OutcomesFit
  <1>11. QED
    BY <1>2, <1>3, <1>6, <1>10 DEF SourceTyped

LEMMA VersionTyped ==
  ASSUME SourceTyped, ClosesFit, NewVersion
  PROVE  SourceTyped'
  <1>1. /\ version < MaxVersion /\ version' = version + 1
        /\ UNCHANGED <<periods, facts, replies, entry, closing, paces, previous, spikes, notices,
                       snapshots, late>>
    BY DEF NewVersion, results
  <1>2. PeriodsNumbered' /\ Opened' = Opened /\ Closed' = Closed
    BY <1>1, PeriodsGrow DEF SourceTyped, SourceStep, Opened, Closed
  <1>3. VersionsGrow'
    <2>1. version \in 1..MaxVersion /\ MaxVersion \in Nat
      BY AnalyticsAssumption DEF SourceTyped, VersionsGrow
    <2>2. version' \in 1..MaxVersion /\ 1..version \subseteq 1..version'
      BY <1>1, <2>1
    <2>3. QED
      BY <1>1, <1>2, <2>2 DEF SourceTyped, VersionsGrow
  <1>4. FiguresFit' /\ OutcomesFit' /\ late' \subseteq Line
    BY <1>1, <1>2 DEF SourceTyped, FiguresFit, FactsTyped, OutcomesFit, Writers
  <1>5. QED
    BY <1>2, <1>3, <1>4 DEF SourceTyped

LEMMA EntryTyped ==
  ASSUME SourceTyped,
         EnterWrite \/ \E p \in Period, l \in Line, v \in Volume, reply \in Reply :
                         EnterRead(p, l, v, reply)
  PROVE  SourceTyped'
  <1>1. UNCHANGED <<periods, version, closing, paces, previous, spikes, notices, snapshots>>
    BY DEF EnterWrite, EnterRead, results
  <1>2. PeriodsNumbered' /\ Opened' = Opened /\ Closed' = Closed
    BY <1>1 DEF SourceTyped, PeriodsNumbered, Opened, Closed, Newest
  <1>3. VersionsGrow' /\ OutcomesFit'
    BY <1>1, <1>2 DEF SourceTyped, VersionsGrow, OutcomesFit, Writers
  <1>4. ASSUME NEW p \in Period, NEW l \in Line, NEW v \in Volume, NEW reply \in Reply,
               EnterRead(p, l, v, reply)
        PROVE  FiguresFit' /\ late' \subseteq Line
    BY <1>1, <1>4 DEF EnterRead, SourceTyped, FiguresFit, FactsTyped
  <1>5. CASE EnterWrite
    <2>1. PICK p, l, v, r : p = entry.period /\ l = entry.line /\ v = entry.volume /\ r = entry.reply
      OBVIOUS
    <2>2. /\ entry # NoEntry /\ entry' = NoEntry
          /\ facts' = [facts EXCEPT ![p][l] = v] /\ replies' = [replies EXCEPT ![p][l] = r]
          /\ late' \subseteq late \cup {l}
      BY <1>5, <2>1 DEF EnterWrite
    <2>3. /\ p \in Period /\ l \in Line /\ v \in Volume /\ r \in Reply
          /\ periods[p].status \in {"verification", "closed"}
      BY <2>1, <2>2 DEF SourceTyped, FiguresFit
    <2>4. /\ FactsTyped' /\ replies' \in [Period -> [Line -> Reply]]
          /\ \A q \in Period, m \in Line : q # p => facts'[q][m] = facts[q][m]
      BY <2>2, <2>3 DEF SourceTyped, FiguresFit, FactsTyped
    <2>5. \A q \in Period, m \in Line : periods'[q].status \in {"none", "open"} => facts'[q][m] = NoFact
      BY <1>1, <2>3, <2>4 DEF SourceTyped, FiguresFit
    <2>6. QED
      BY <1>2, <1>3, <2>2, <2>3, <2>4, <2>5 DEF SourceTyped, FiguresFit
  <1>6. CASE ~EnterWrite
    <2>1. PICK p \in Period, l \in Line, v \in Volume, reply \in Reply : EnterRead(p, l, v, reply)
      BY <1>6
    <2>2. QED
      BY <1>2, <1>3, <1>4, <2>1 DEF SourceTyped
  <1>7. QED
    BY <1>5, <1>6

LEMMA SourceKept ==
  ASSUME SourceTyped, ClosesFit, [Next]_vars
  PROVE  SourceTyped'
  <1>1. CASE UNCHANGED source
    <2>1. UNCHANGED <<periods, version, facts, replies, entry, closing, paces, previous, spikes,
                      notices, snapshots, late>>
      BY <1>1 DEF source, results
    <2>2. Opened' = Opened /\ Closed' = Closed /\ Newest' = Newest
      BY <2>1 DEF Opened, Closed, Newest
    <2>3. PeriodsNumbered' /\ VersionsGrow'
      BY <2>1, <2>2 DEF SourceTyped, PeriodsNumbered, VersionsGrow
    <2>4. FiguresFit' /\ OutcomesFit' /\ late' \subseteq Line
      BY <2>1, <2>2 DEF SourceTyped, FiguresFit, FactsTyped, OutcomesFit, Writers
    <2>5. QED
      BY <2>3, <2>4 DEF SourceTyped
  <1>2. CASE SourceStep
    <2>1. CASE \E pause \in BOOLEAN : OpenPeriod(pause)
      BY <2>1, OpenTyped
    <2>2. CASE NewVersion
      BY <2>2, VersionTyped
    <2>3. CASE EnterWrite
      BY <2>3, EntryTyped
    <2>4. ASSUME NEW p \in Period, Verify(p) \/ CloseStep(p) PROVE SourceTyped'
      BY <2>4, VerifyTyped, BeginTyped, MeasureTyped, LineTyped, CommitTyped, AbortTyped DEF CloseStep
    <2>5. ASSUME NEW p \in Period, NEW l \in Line, NEW v \in Volume, NEW reply \in Reply,
                 EnterRead(p, l, v, reply)
          PROVE  SourceTyped'
      BY <2>5, EntryTyped
    <2>6. QED
      BY <1>2, <2>1, <2>2, <2>3, <2>4, <2>5 DEF SourceStep, CloseStep
  <1>3. (HalfHourPasses \/ \E t \in Page : PageStep(t)) => UNCHANGED source
    BY DEF HalfHourPasses, PageStep, Click, TakeLock, Build, Commit, Abort, Succeeds, Fails,
       Refetch, ReadRow, ReadHistory, ReadMeta, Arrives, Errs
  <1>4. QED
    BY <1>1, <1>2, <1>3 DEF Next, vars

LEMMA InitSource == Init => SourceTyped
  <1> SUFFICES ASSUME Init PROVE SourceTyped
    OBVIOUS
  <1>1. PeriodsNumbered /\ Opened = {} /\ Closed = {}
    BY InitIInv DEF IInv, Init, Opened, Closed
  <1>2. VersionsGrow
    BY <1>1, AnalyticsAssumption DEF Init, VersionsGrow
  <1>3. FiguresFit
    BY DEF Init, FiguresFit, FactsTyped, Reply
  <1>4. NoSnapshot \in Snapshot
    BY DEF NoSnapshot, Snapshot, NoForecast
  <1>5. OutcomesFit /\ late \subseteq Line
    BY <1>4 DEF Init, OutcomesFit, NotClosing, Closing, NoForecast
  <1>6. QED
    BY <1>1, <1>2, <1>3, <1>5 DEF SourceTyped

LEMMA SourceIsTyped == Spec => []SourceTyped
  <1>1. SourceTyped /\ ClosesFit /\ [Next]_vars => SourceTyped'
    BY SourceKept
  <1>2. QED
    BY <1>1, InitSource, InductiveInvariant, PTL DEF Spec

-----------------------------------------------------------------------------
\* calcItemPace: with a decay factor that is not negative, a pace lies between two of the
\* volumes of its window, also when a spike was cut down or taken out.  Nothing else is
\* asked of the configuration.
THEOREM PaceInWindow ==
  ASSUME DecayFactor[1] \in Nat
  PROVE  Spec => []PaceWithinWindow
  <1>1. SourceTyped => PaceWithinWindow
    <2> SUFFICES ASSUME SourceTyped, NEW p \in Closed, NEW l \in Line
                 PROVE  LET window == CleanWindow(Closed, p)
                            vs == Volumes(paces, window, l)
                            pace == Pace(vs, replies[window[1]][l])
                        IN window # <<>> /\ pace[1] > 0 =>
                             /\ \E i \in DOMAIN vs : ~Less(pace, <<vs[i], 1>>)
                             /\ \E i \in DOMAIN vs : ~Less(<<vs[i], 1>>, pace)
      BY DEF PaceWithinWindow
    <2>1. PICK window : window = CleanWindow(Closed, p)
      OBVIOUS
    <2>2. Closed \in SUBSET Period
      BY DEF Closed
    <2>3. window \in Seq(Closed) /\ window \in Seq(Period)
      <3>1. window \in Seq(Closed)
        BY <2>1, <2>2, WindowTyped
      <3>2. QED
        BY <2>2, <3>1
    <2>4. PICK vs : vs = Volumes(paces, window, l)
      OBVIOUS
    <2>5. vs \in Seq(Int)
      BY <2>3, <2>4, VolumesTyped DEF SourceTyped, OutcomesFit
    <2>6. DOMAIN vs = 1..Len(vs)
      BY <2>5
    <2>7. PICK reply : reply = replies[window[1]][l]
      OBVIOUS
    <2>8. Pace(vs, reply)[1] > 0 => /\ \E i \in DOMAIN vs : ~Less(Pace(vs, reply), <<vs[i], 1>>)
                                    /\ \E i \in DOMAIN vs : ~Less(<<vs[i], 1>>, Pace(vs, reply))
      BY <2>5, <2>6, PaceBetween
    <2>9. QED
      BY <2>1, <2>4, <2>7, <2>8
  <1>2. QED
    BY <1>1, SourceIsTyped, PTL

-----------------------------------------------------------------------------
\* The volumes add up.

PacesOf(l) == [q \in Period |-> paces[q][l]]

OfVersion(p) == {q \in Closed : q <= p /\ periods[q].version = periods[p].version}

\* The closed periods up to p of its version are p and, when that one has the version,
\* the ones up to the last closed before it: versions do not come back.
LEMMA VersionsChain ==
  ASSUME SourceTyped, NEW p \in Closed
  PROVE  /\ IsFiniteSet(OfVersion(p)) /\ OfVersion(p) \subseteq Period /\ p \in OfVersion(p)
         /\ IF Before(p) # {} /\ periods[LastBefore(p)].version = periods[p].version
            THEN /\ LastBefore(p) \in Closed /\ LastBefore(p) < p
                 /\ OfVersion(p) \ {p} = OfVersion(LastBefore(p))
            ELSE OfVersion(p) \ {p} = {}
  <1>1. Period \subseteq Int /\ IsFiniteSet(Period)
    BY AnalyticsAssumption, FS_Interval DEF Period
  <1>2. Closed \subseteq Opened /\ Closed \subseteq Period /\ p \in Int
    BY <1>1 DEF Closed, Opened
  <1>3. OfVersion(p) \subseteq Period /\ p \in OfVersion(p)
    <2>1. p <= p
      BY <1>2
    <2>2. QED
      BY <1>2, <2>1 DEF OfVersion
  <1>4. IsFiniteSet(OfVersion(p))
    BY <1>1, <1>3, FS_Subset
  <1>5. \A q, r \in Closed : q <= r => periods[q].version <= periods[r].version
    BY <1>2 DEF SourceTyped, VersionsGrow
  <1>6. \A q \in Closed : periods[q].version \in Int
    <2>1. \A q \in Closed : periods[q].version \in 1..version
      BY <1>2 DEF SourceTyped, VersionsGrow
    <2>2. QED
      BY <2>1
  <1>7. ASSUME Before(p) # {}
        PROVE  /\ LastBefore(p) \in Closed /\ LastBefore(p) < p
               /\ \A q \in Closed : q < p => q <= LastBefore(p)
    BY <1>2, <1>7, LastIsThere DEF Before
  <1>8. CASE Before(p) # {} /\ periods[LastBefore(p)].version = periods[p].version
    <2>1. PICK last \in Closed : last = LastBefore(p)
      BY <1>7, <1>8
    <2>2. last < p /\ last \in Int /\ \A q \in Closed : q < p <=> q <= last
      BY <1>1, <1>2, <1>7, <1>8, <2>1
    <2>3. \A q \in Closed : q <= p /\ q # p <=> q < p
      BY <1>1, <1>2
    <2>4. OfVersion(p) \ {p} = OfVersion(last)
      BY <1>8, <2>1, <2>2, <2>3 DEF OfVersion
    <2>5. QED
      BY <1>3, <1>4, <1>8, <2>1, <2>2, <2>4
  <1>9. CASE ~(Before(p) # {} /\ periods[LastBefore(p)].version = periods[p].version)
    <2>1. SUFFICES ASSUME NEW q \in OfVersion(p), q # p PROVE FALSE
      BY <1>3, <1>4, <1>9
    <2>2. q \in Closed /\ q < p /\ periods[q].version = periods[p].version
      BY <1>1, <1>2, <2>1 DEF OfVersion
    <2>3. Before(p) # {}
      BY <2>2 DEF Before
    <2>4. PICK last \in Closed : last = LastBefore(p) /\ last < p /\ q <= last
      BY <1>7, <2>2, <2>3
    <2>5. last <= p
      BY <1>1, <1>2, <2>4
    <2>6. /\ periods[q].version <= periods[last].version
          /\ periods[last].version <= periods[p].version
      BY <1>5, <2>2, <2>4, <2>5
    <2>7. periods[last].version = periods[p].version
      BY <1>6, <2>2, <2>6
    <2>8. QED
      BY <1>9, <2>3, <2>4, <2>7
  <1>10. QED
    BY <1>8, <1>9

\* Deltas each taken from the closed period before its own add up to the last figure, by
\* induction over the closed periods.
LEMMA DeltasAddUp ==
  ASSUME SourceTyped, NEW l \in Line, NEW top \in Closed,
         \A q \in Closed : q <= top => paces[q][l] = Delta(q, Preceding(q), l)
  PROVE  Figure(top, l) = SumOf(PacesOf(l), OfVersion(top))
  <1> DEFINE bad == {p \in Closed : p <= top /\ Figure(p, l) # SumOf(PacesOf(l), OfVersion(p))}
  <1>0. top <= top
    BY DEF Closed, Period
  <1>1. SUFFICES ASSUME bad # {} PROVE FALSE
    BY <1>0
  <1>2. Closed \subseteq Period /\ Period \subseteq Nat
    BY AnalyticsAssumption DEF Closed, Period
  <1>3. bad \subseteq Nat
    BY <1>2
  <1>4. PICK p \in bad : \A q \in bad : <<q, p>> \notin OpToRel(<, Nat)
    BY <1>1, <1>3, WFMin, NatLessThanWellFounded, Zenon
  <1>5. \A q \in bad : ~(q < p)
    BY <1>3, <1>4, Zenon DEF OpToRel
  <1>6. p \in Closed /\ p \in Period /\ p <= top /\ \A q \in Closed : q < p => q \notin bad /\ q <= top
    BY <1>2, <1>5
  <1>7. \A q \in Period : Figure(q, l) \in Int /\ PacesOf(l)[q] \in Int /\ PacesOf(l)[q] = paces[q][l]
    BY FigureNat DEF PacesOf, SourceTyped, FiguresFit, OutcomesFit
  <1>8. PICK S : S = OfVersion(p)
    OBVIOUS
  <1>9. IsFiniteSet(S) /\ S \subseteq Period /\ p \in S
    BY <1>6, <1>8, VersionsChain
  <1>10. SumOf(PacesOf(l), S) = paces[p][l] + SumOf(PacesOf(l), S \ {p})
    <2>1. \A q \in S : PacesOf(l)[q] \in Int
      BY <1>7, <1>9
    <2>2. SumOf(PacesOf(l), S) = PacesOf(l)[p] + SumOf(PacesOf(l), S \ {p})
      BY <1>9, <2>1, SumSplits
    <2>3. QED
      BY <1>6, <1>7, <2>2
  <1>11. paces[p][l] = Figure(p, l) -
           IF Before(p) # {} /\ periods[LastBefore(p)].version = periods[p].version
           THEN Figure(LastBefore(p), l) ELSE 0
    <2>1. paces[p][l] = Delta(p, Preceding(p), l)
      BY <1>6
    <2>2. QED
      BY <1>6, <2>1, PrecedingThere DEF Delta
  <1>12. Figure(p, l) = SumOf(PacesOf(l), S)
    <2>1. CASE Before(p) # {} /\ periods[LastBefore(p)].version = periods[p].version
      <3>1. PICK last \in Closed : last = LastBefore(p) /\ last < p /\ S \ {p} = OfVersion(last)
        BY <1>6, <1>8, <2>1, VersionsChain
      <3>2. Figure(last, l) = SumOf(PacesOf(l), OfVersion(last))
        BY <1>6, <3>1
      <3>3. Figure(last, l) \in Int /\ Figure(p, l) \in Int
        BY <1>2, <1>6, <1>7
      <3>4. SumOf(PacesOf(l), S) = (Figure(p, l) - Figure(last, l)) + Figure(last, l)
        BY <1>10, <1>11, <2>1, <3>1, <3>2
      <3>5. QED
        BY <3>3, <3>4
    <2>2. CASE ~(Before(p) # {} /\ periods[LastBefore(p)].version = periods[p].version)
      <3>1. S \ {p} = {}
        BY <1>6, <1>8, <2>2, VersionsChain
      <3>2. SumOf(PacesOf(l), {}) = 0
        <4>1. \A q \in {} : PacesOf(l)[q] \in Int
          OBVIOUS
        <4>2. IsFiniteSet({})
          BY FS_EmptySet
        <4>3. QED
          BY <4>1, <4>2, SumSplits
      <3>3. Figure(p, l) \in Int
        BY <1>6, <1>7
      <3>4. SumOf(PacesOf(l), S) = (Figure(p, l) - 0) + 0
        BY <1>10, <1>11, <2>2, <3>1, <3>2
      <3>5. QED
        BY <3>3, <3>4
    <2>3. QED
      BY <2>1, <2>2
  <1>13. QED
    BY <1>4, <1>8, <1>12

\* The sum of PaceTelescopes is of a function.
LEMMA SumOfColumn ==
  ASSUME NEW S, NEW M, NEW l
  PROVE  MapThenSumSet(LAMBDA q : M[q][l], S) = SumOf([q \in S |-> M[q][l]], S)
  BY DEF SumOf, MapThenSumSet, MapThenFoldSet

\* recordWorkPaceDeltas: where every delta was taken from the closed period just before its
\* own, the volumes that work_pace holds of a line, over the closed periods of one BoQ
\* version, add up to the figure of the last of them, unless a figure of the line was
\* written after a close had read it.
THEOREM VolumesAddUp == Spec => []PaceTelescopes
  <1>1. SourceTyped /\ DeltasStay => PaceTelescopes
    <2>1. SUFFICES ASSUME SourceTyped, DeltasStay, NEW p \in Closed, NEW l \in Line \ late,
                          Chained(p, l)
                   PROVE  Figure(p, l) = MapThenSumSet(LAMBDA q : paces[q][l], OfVersion(p))
      BY DEF PaceTelescopes, OfVersion
    <2>2. \A q \in Closed : q <= p => paces[q][l] = Delta(q, Preceding(q), l)
      BY <2>1 DEF DeltasStay, Chained
    <2>3. Figure(p, l) = SumOf(PacesOf(l), OfVersion(p))
      BY <2>1, <2>2, DeltasAddUp
    <2>4. PICK S : S = OfVersion(p) /\ S \subseteq Period
      BY <2>1 DEF OfVersion, Closed
    <2>5. SumOf(PacesOf(l), S) = SumOf([q \in S |-> paces[q][l]], S)
      <3>1. IsFiniteSet(S)
        BY <2>1, <2>4, VersionsChain
      <3>2. \A q \in S : PacesOf(l)[q] \in Int /\ PacesOf(l)[q] = [r \in S |-> paces[r][l]][q]
        BY <2>1, <2>4 DEF PacesOf, SourceTyped, OutcomesFit
      <3>3. QED
        BY <3>1, <3>2, SumsAgree
    <2>6. MapThenSumSet(LAMBDA q : paces[q][l], S) = SumOf([q \in S |-> paces[q][l]], S)
      BY SumOfColumn
    <2>7. QED
      BY <2>3, <2>4, <2>5, <2>6
  <1>2. QED
    BY <1>1, SourceIsTyped, DeltasAreDifferences, PTL

-----------------------------------------------------------------------------
\* View, pages and refreshes keep their types.

ScreenTyped ==
  /\ view \in ViewRow /\ old \in BOOLEAN
  /\ tabs \in [Page -> Tab] /\ refreshes \in [Page -> Refresh] /\ acked \in [Page -> SUBSET Period]

LEMMA NothingTyped == NoSnapshot \in Snapshot /\ NoRow \in ViewRow /\ NoData \in Data
  <1>1. NoSnapshot \in Snapshot
    BY DEF NoSnapshot, Snapshot, NoForecast
  <1>2. NoRow \in ViewRow
    BY <1>1, AnalyticsAssumption DEF NoRow, ViewRow
  <1>3. QED
    BY <1>1, <1>2 DEF NoData, Data

\* The row an administrator's refresh builds.
LEMMA CurrentTyped ==
  ASSUME SourceTyped
  PROVE  Current \in ViewRow
  <1>1. CASE Newest = 0
    BY <1>1, NothingTyped DEF Current
  <1>2. CASE Newest # 0
    <2>1. Newest \in 0..MaxPeriod /\ Newest \in Period
      BY <1>2, AnalyticsAssumption DEF SourceTyped, PeriodsNumbered, Period
    <2>2. snapshots[Newest] \in Snapshot /\ Closed \in SUBSET Period
      BY <2>1 DEF SourceTyped, OutcomesFit, Closed
    <2>3. QED
      BY <1>2, <2>1, <2>2 DEF Current, ViewRow
  <1>3. QED
    BY <1>1, <1>2

LEMMA TabsTyped ==
  ASSUME NEW tab \in Tab
  PROVE  /\ tab.part \in Data /\ Fetching(tab) \in Tab
         /\ \A d \in Data, q \in {"row", "history", "meta"} : Answered(tab, d, q) \in Tab
         /\ [tab EXCEPT !.fetch = "refused", !.part = NoData, !.read = {}] \in Tab
         /\ [tab EXCEPT !.failed = TRUE, !.fetch = "idle", !.read = {}, !.part = NoData] \in Tab
         /\ \A d \in Data :
              [known |-> TRUE, failed |-> FALSE, data |-> d, fetch |-> "idle", read |-> {},
               part |-> NoData] \in Tab
  <1>1. NoData \in Data
    BY NothingTyped
  <1>2. tab.part \in Data
    BY DEF Tab
  <1>3. Fetching(tab) \in Tab
    <2>1. Anew(tab) \in Tab
      BY <1>1 DEF Tab, Anew
    <2>2. QED
      BY <2>1 DEF Fetching
  <1>4. ASSUME NEW d \in Data, NEW q \in {"row", "history", "meta"}
        PROVE  Answered(tab, d, q) \in Tab
    BY DEF Tab, Answered
  <1>5. [tab EXCEPT !.fetch = "refused", !.part = NoData, !.read = {}] \in Tab
    BY <1>1 DEF Tab
  <1>6. [tab EXCEPT !.failed = TRUE, !.fetch = "idle", !.read = {}, !.part = NoData] \in Tab
    BY <1>1 DEF Tab
  <1>7. ASSUME NEW d \in Data
        PROVE  [known |-> TRUE, failed |-> FALSE, data |-> d, fetch |-> "idle", read |-> {},
                part |-> NoData] \in Tab
    BY <1>1 DEF Tab
  <1>8. QED
    BY <1>2, <1>3, <1>4, <1>5, <1>6, <1>7

LEMMA QueryTyped ==
  ASSUME ScreenTyped, NEW t \in Page,
         Refetch(t) \/ ReadRow(t) \/ ReadHistory(t) \/ ReadMeta(t) \/ Arrives(t) \/ Errs(t)
  PROVE  ScreenTyped'
  <1>1. UNCHANGED <<view, old, refreshes, acked>>
    BY DEF Refetch, ReadRow, ReadHistory, ReadMeta, Arrives, Errs
  <1>2. PICK tab \in Tab : tab = tabs[t]
    BY DEF ScreenTyped
  <1>3. DOMAIN tab = {"known", "failed", "data", "fetch", "read", "part"} /\ tab.part \in Data
    BY <1>2, TabsTyped DEF Tab
  <1>4. \E n \in Tab : tabs' = [tabs EXCEPT ![t] = n]
    <2>1. CASE Refetch(t)
      BY <1>2, <2>1, TabsTyped DEF Refetch
    <2>2. ASSUME NEW q \in {"row", "history", "meta"}, NEW d \in Data, NEW m,
                 m = [tab EXCEPT !.part = d], tabs' = [tabs EXCEPT ![t] = [m EXCEPT !.read = @ \cup {q}]]
          PROVE  \E n \in Tab : tabs' = [tabs EXCEPT ![t] = n]
      <3>1. Answered(tab, d, q) \in Tab
        BY TabsTyped
      <3>2. Answered(tab, d, q) = [m EXCEPT !.read = @ \cup {q}]
        BY <1>3, <2>2 DEF Answered
      <3>3. QED
        BY <2>2, <3>1, <3>2
    <2>3. CASE ReadRow(t)
      <3>1. CASE ViewColumn = "obj_readiness_pct"
        <4>1. PICK d : d = [tab.part EXCEPT !.row = view]
          OBVIOUS
        <4>2. d \in Data
          BY <1>3, <4>1 DEF Data, ScreenTyped
        <4>3. PICK m : m = [tab EXCEPT !.part = d]
          OBVIOUS
        <4>4. tabs' = [tabs EXCEPT ![t] = [m EXCEPT !.read = @ \cup {"row"}]]
          BY <1>2, <1>3, <2>3, <3>1, <4>1, <4>3 DEF ReadRow, ScreenTyped
        <4>5. QED
          BY <2>2, <4>2, <4>3, <4>4
      <3>2. CASE ViewColumn # "obj_readiness_pct"
        BY <1>2, <2>3, <3>2, TabsTyped DEF ReadRow
      <3>3. QED
        BY <3>1, <3>2
    <2>4. CASE ReadHistory(t)
      <3>1. PICK d : d = [tab.part EXCEPT !.history = Closed]
        OBVIOUS
      <3>2. d \in Data
        BY <1>3, <3>1 DEF Data, Closed
      <3>3. PICK m : m = [tab EXCEPT !.part = d]
        OBVIOUS
      <3>4. tabs' = [tabs EXCEPT ![t] = [m EXCEPT !.read = @ \cup {"history"}]]
        BY <1>2, <1>3, <2>4, <3>1, <3>3 DEF ReadHistory, ScreenTyped
      <3>5. QED
        BY <2>2, <3>2, <3>3, <3>4
    <2>5. CASE ReadMeta(t)
      <3>1. PICK d : d = [tab.part EXCEPT !.stale = old]
        OBVIOUS
      <3>2. d \in Data
        BY <1>3, <3>1 DEF Data, ScreenTyped
      <3>3. PICK m : m = [tab EXCEPT !.part = d]
        OBVIOUS
      <3>4. tabs' = [tabs EXCEPT ![t] = [m EXCEPT !.read = @ \cup {"meta"}]]
        BY <1>2, <1>3, <2>5, <3>1, <3>3 DEF ReadMeta, ScreenTyped
      <3>5. QED
        BY <2>2, <3>2, <3>3, <3>4
    <2>6. CASE Arrives(t)
      BY <1>2, <1>3, <2>6, TabsTyped DEF Arrives
    <2>7. CASE Errs(t)
      BY <1>2, <2>7, TabsTyped DEF Errs
    <2>8. QED
      BY <2>1, <2>3, <2>4, <2>5, <2>6, <2>7
  <1>5. QED
    BY <1>1, <1>4 DEF ScreenTyped

LEMMA RefreshTyped ==
  ASSUME SourceTyped, ScreenTyped, NEW t \in Page,
         Click(t) \/ TakeLock(t) \/ Build(t) \/ Commit(t) \/ Abort(t) \/ Succeeds(t) \/ Fails(t)
  PROVE  ScreenTyped'
  <1>1. PICK r \in Refresh : r = refreshes[t]
    BY DEF ScreenTyped
  <1>2. r.row \in ViewRow /\ r.row.closed \in SUBSET Period
    BY <1>1 DEF Refresh, ViewRow
  <1>3. \E n \in Refresh : refreshes' = [refreshes EXCEPT ![t] = n]
    <2>1. ASSUME NEW at \in {"sent", "locked", "refused", "done"}, Sets(t, at)
          PROVE  \E n \in Refresh : refreshes' = [refreshes EXCEPT ![t] = n]
      <3>1. [r EXCEPT !.at = at] \in Refresh
        BY DEF Refresh
      <3>2. QED
        BY <1>1, <2>1, <3>1 DEF Sets
    <2>2. CASE Build(t)
      <3>1. [at |-> "built", row |-> Current] \in Refresh
        BY CurrentTyped DEF Refresh
      <3>2. QED
        BY <2>2, <3>1 DEF Build
    <2>3. CASE Succeeds(t) \/ Fails(t)
      <3>1. [at |-> "idle", row |-> NoRow] \in Refresh
        BY NothingTyped DEF Refresh
      <3>2. QED
        BY <2>3, <3>1 DEF Succeeds, Fails
    <2>4. CASE Click(t) \/ TakeLock(t) \/ Commit(t) \/ Abort(t)
      <3>1. \E at \in {"sent", "locked", "refused", "done"} : Sets(t, at)
        BY <2>4 DEF Click, TakeLock, Commit, Abort
      <3>2. QED
        BY <2>1, <3>1
    <2>5. QED
      BY <2>2, <2>3, <2>4
  <1>4. refreshes' \in [Page -> Refresh]
    BY <1>3 DEF ScreenTyped
  <1>5. view' \in ViewRow /\ old' \in BOOLEAN
    BY <1>1, <1>2 DEF ScreenTyped, Click, TakeLock, Build, Commit, Abort, Succeeds, Fails
  <1>6. tabs' \in [Page -> Tab] /\ acked' \in [Page -> SUBSET Period]
    <2>1. CASE Succeeds(t)
      <3>1. Fetching(tabs[t]) \in Tab
        BY TabsTyped DEF ScreenTyped
      <3>2. tabs' \in [Page -> Tab]
        BY <2>1, <3>1 DEF Succeeds, ScreenTyped
      <3>3. acked' \in [Page -> SUBSET Period]
        BY <1>1, <1>2, <2>1 DEF Succeeds, ScreenTyped
      <3>4. QED
        BY <3>2, <3>3
    <2>2. CASE ~Succeeds(t)
      BY <2>2 DEF ScreenTyped, Click, TakeLock, Build, Commit, Abort, Fails
    <2>3. QED
      BY <2>1, <2>2
  <1>7. QED
    BY <1>4, <1>5, <1>6 DEF ScreenTyped

LEMMA ScreenKept ==
  ASSUME SourceTyped, ClosesFit, ScreenTyped, [Next]_vars
  PROVE  ScreenTyped'
  <1>1. CASE SourceStep \/ UNCHANGED vars
    <2>1. UNCHANGED screen
      BY <1>1, PeriodsGrow DEF SourceTyped, vars
    <2>2. QED
      BY <2>1 DEF screen, ScreenTyped
  <1>2. CASE HalfHourPasses
    BY <1>2 DEF HalfHourPasses, ScreenTyped
  <1>3. ASSUME NEW t \in Page, PageStep(t) PROVE ScreenTyped'
    BY <1>3, QueryTyped, RefreshTyped DEF PageStep
  <1>4. QED
    BY <1>1, <1>2, <1>3 DEF Next

\* Periods, figures and what closing computes of them (readiness, paces, forecasts), the
\* view, the pages and their refreshes keep their types, and what closing writes is there
\* only for periods that are closed or being closed, whatever the object and its history.
THEOREM TypeCorrect == Spec => []TypeOK
  <1>1. Init => ScreenTyped
    <2> SUFFICES ASSUME Init PROVE ScreenTyped
      OBVIOUS
    <2>1. [known |-> FALSE, failed |-> FALSE, data |-> NoData, fetch |-> "unopened", read |-> {},
           part |-> NoData] \in Tab
      BY NothingTyped DEF Tab
    <2>2. [at |-> "idle", row |-> NoRow] \in Refresh
      BY NothingTyped DEF Refresh
    <2>3. tabs \in [Page -> Tab] /\ refreshes \in [Page -> Refresh]
      BY <2>1, <2>2 DEF Init
    <2>4. view \in ViewRow /\ old \in BOOLEAN /\ acked \in [Page -> SUBSET Period]
      BY NothingTyped DEF Init
    <2>5. QED
      BY <2>3, <2>4 DEF ScreenTyped
  <1>2. Spec => []ScreenTyped
    BY <1>1, ScreenKept, SourceIsTyped, InductiveInvariant, PTL DEF Spec
  <1>3. SourceTyped /\ ClosesFit /\ ScreenTyped => TypeOK
    <2> SUFFICES ASSUME SourceTyped, ClosesFit, ScreenTyped PROVE TypeOK
      OBVIOUS
    <2>1. \A p \in Period : periods[p].status \in {"none", "open", "verification", "closed"}
                            /\ periods[p].pause \in BOOLEAN
      BY DEF SourceTyped, PeriodsNumbered, PeriodRow
    <2>2. Opened = 1..Newest /\ version \in 1..MaxVersion /\ Opened \subseteq Period
          /\ \A p \in Opened : periods[p].version \in 1..version
      BY DEF SourceTyped, PeriodsNumbered, VersionsGrow, Opened
    <2>3. /\ facts \in [Period -> [Line -> Volume \cup {NoFact}]]
          /\ \A p \in Period, l \in Line : periods[p].status = "open" => facts[p][l] = NoFact
          /\ replies \in [Period -> [Line -> Reply]]
      BY DEF SourceTyped, FiguresFit, FactsTyped
    <2>4. /\ closing \in [Period -> Closing] /\ notices \subseteq Writers \X Line /\ late \subseteq Line
          /\ \A p \in Period \ Writers, l \in Line : paces[p][l] = 0 /\ previous[p][l] = 0
          /\ \A p \in Period \ Closed : snapshots[p] = NoSnapshot
          /\ \A p \in Period : closing[p].on => periods[p].status = "verification"
      BY DEF SourceTyped, OutcomesFit, ClosesFit
    <2>5. spikes \subseteq Writers \X Writers \X Line
      <3>1. SUFFICES ASSUME NEW s \in spikes PROVE s \in Writers \X Writers \X Line
        OBVIOUS
      <3>2. PICK q \in Writers, r \in Period, l \in Line : s = <<q, r, l>>
        BY <3>1 DEF SourceTyped, OutcomesFit
      <3>3. r \in Closed \cup {q}
        BY <3>1, <3>2 DEF SourceTyped, OutcomesFit
      <3>4. QED
        BY <3>2, <3>3 DEF Writers
    <2>6. /\ view \in ViewRow /\ old \in BOOLEAN
          /\ \A t \in Page : tabs[t] \in Tab /\ refreshes[t] \in Refresh /\ acked[t] \subseteq Period
      BY DEF ScreenTyped
    <2>7. QED
      BY <2>1, <2>2, <2>3, <2>4, <2>5, <2>6 DEF TypeOK
  <1>4. QED
    BY <1>2, <1>3, SourceIsTyped, InductiveInvariant, PTL

=============================================================================
