------------------------------- MODULE Analytics -------------------------------
(***************************************************************************)
(* What closing a period computes for one object (readiness snapshot, pace *)
(* of every BoQ line, forecast) and how it reaches the dashboard: through  *)
(* the materialized view, which only an administrator's refresh renews,    *)
(* its log, and pages that read view, log and snapshots in separate        *)
(* queries.                                                                *)
(*                                                                         *)
(* How a period reaches verification is PeriodCycle's subject; here it     *)
(* gets there in one step.  Figures are cumulative; a fraction n/d is      *)
(* <<n, d>> with d > 0.                                                    *)
(***************************************************************************)
EXTENDS Integers, FiniteSets, Sequences, SequencesExt

CONSTANTS
  Line,            \* lines of the BoQ
  Weight,          \* weight_coef of each, as a natural number
  Plan,            \* plan_volume of each
  Volume,          \* bound: figures entered
  AvgPacePeriods, DecayFactor, SpikeThreshold, WeightThreshold, ForecastGap,
                   \* system_config: avg_pace_periods, decay_factor, spike_threshold,
                   \* weight_threshold and forecast_gap_alert
  Dashboards,      \* tabs with the dashboard
  ObjectPages,     \* tabs with the object's page
  ViewColumn,      \* the name the view gives the readiness
  MaxPeriod,       \* bound: periods
  MaxVersion       \* bound: BoQ versions

ASSUME AnalyticsAssumption ==
  /\ IsFiniteSet(Line) /\ Weight \in [Line -> Nat] /\ Plan \in [Line -> Nat \ {0}]
  /\ Volume \subseteq Nat
  /\ AvgPacePeriods \in Nat /\ WeightThreshold \in Nat /\ ForecastGap \in Int
  /\ DecayFactor \in Int \X (Nat \ {0}) /\ SpikeThreshold \in Int \X (Nat \ {0})
  /\ Dashboards \cap ObjectPages = {}
  /\ MaxPeriod \in Nat /\ MaxVersion \in Nat \ {0}

Period == 1..MaxPeriod
Page   == Dashboards \cup ObjectPages

NoFact     == -1
NoForecast == <<-1, 1>>

Reply == {"none", "planned_concentration", "data_entry_error"}

Snapshot == [readiness : Nat, weighted : Int \X Int, critical : Int \X Int, gap : BOOLEAN]
NoSnapshot == [readiness |-> 0, weighted |-> NoForecast, critical |-> NoForecast, gap |-> FALSE]

\* The object's row of the view: the last period, whether that one has a snapshot, and
\* the periods closed when the view was built.  hasAnalytics: there is a row.
ViewRow == [period : 0..MaxPeriod, ready : BOOLEAN, snapshot : Snapshot, closed : SUBSET Period]
NoRow   == [period |-> 0, ready |-> FALSE, snapshot |-> NoSnapshot, closed |-> {}]

\* What a page has been given: the view's row, the periods in the history, isStale.
Data   == [row : ViewRow, history : SUBSET Period, stale : BOOLEAN]
NoData == [row |-> NoRow, history |-> {}, stale |-> FALSE]

\* known: the query has data, which an error leaves in place.  failed: its last fetch
\* ended in an error; the dashboard says so beside the data, the object's page instead.
Tab == [known : BOOLEAN, failed : BOOLEAN, data : Data,
        fetch : {"unopened", "idle", "asked", "refused"},
        read  : SUBSET {"row", "history", "meta"},   \* queries answered so far
        part  : Data]

Refresh == [at : {"idle", "sent", "locked", "built", "done", "refused"}, row : ViewRow]

\* A close under way: the readiness it has read, the lines whose delta and whose
\* forecast it has taken, and the forecasts.
Closing == [on : BOOLEAN, readiness : Nat, measured : SUBSET Line, paced : SUBSET Line,
            forecast : [Line -> Int \X Int]]
NotClosing == [on |-> FALSE, readiness |-> 0, measured |-> {}, paced |-> {},
               forecast |-> [l \in Line |-> NoForecast]]

\* What the close of a period writes (paces, spikes, notices, previous) lies in the
\* variables from the statement that writes it; until the period is closed no other
\* transaction reads it, and CloseAbort takes it back.
VARIABLES
  periods,   \* status, BoQ version and planned pause of each
  version,   \* the active BoQ version
  facts,     \* accepted, or else the SC's, cumulative figure; NoFact
  replies,   \* spike_response of each fact
  entry,     \* an upsertPeriodFact between its check and its write
  closing,   \* the close under way of each period
  paces,     \* work_pace.period_volume
  previous,  \* history: the closed period each delta was taken from, 0 without one
  spikes,    \* facts with is_spike, as <<period whose close set it, period, line>>
  notices,   \* zero-pace notifications, by period and line
  snapshots, \* readiness_snapshots
  late,      \* history: lines a figure of which was written after a close had read it
  view,      \* mv_object_current_status
  old,       \* mv_refresh_log.refreshed_at lies 30 minutes back
  tabs,      \* the pages' query
  refreshes, \* each page's refresh mutation
  acked      \* history: periods in the view that was built by the page's last refresh
             \* to come back to a page with data

results == <<paces, previous, spikes, notices>>
source == <<periods, version, facts, replies, entry, closing, results, snapshots, late>>
screen == <<view, old, tabs, refreshes, acked>>
vars   == <<source, screen>>

NoEntry == [period |-> 0]

Init ==
  /\ periods = [p \in Period |-> [status |-> "none", version |-> 0, pause |-> FALSE]]
  /\ version = 1
  /\ facts = [p \in Period |-> [l \in Line |-> NoFact]]
  /\ replies = [p \in Period |-> [l \in Line |-> "none"]]
  /\ entry = NoEntry
  /\ closing = [p \in Period |-> NotClosing]
  /\ paces = [p \in Period |-> [l \in Line |-> 0]]
  /\ previous = [p \in Period |-> [l \in Line |-> 0]]
  /\ spikes = {} /\ notices = {}
  /\ snapshots = [p \in Period |-> NoSnapshot]
  /\ late = {}
  /\ view = NoRow
  /\ old = FALSE
  /\ tabs = [t \in Page |-> [known |-> FALSE, failed |-> FALSE, data |-> NoData,
                             fetch |-> "unopened", read |-> {}, part |-> NoData]]
  /\ refreshes = [t \in Page |-> [at |-> "idle", row |-> NoRow]]
  /\ acked = [t \in Page |-> {}]

Opened == {p \in Period : periods[p].status # "none"}
Closed == {p \in Period : periods[p].status = "closed"}
Newest == Cardinality(Opened)

-----------------------------------------------------------------------------
\* Arithmetic

Add(a, b)  == <<a[1] * b[2] + b[1] * a[2], a[2] * b[2]>>
Less(a, b) == a[1] * b[2] < b[1] * a[2]
Times(k, a) == <<k * a[1], a[2]>>
Divided(a, k) == <<a[1], a[2] * k>>
Larger(a, b) == IF Less(a, b) THEN b ELSE a

Power(b, n) == FoldFunctionOnSet(LAMBDA x, y : x * y, 1, [i \in 1..n |-> b], 1..n)

\* The weight DecayFactor^(i - 1) of the i-th of k volumes, over the divisor all have in
\* common; for the first to weigh less by cut, the others weigh cut times as much.
WeightAt(k, i, cut) ==
  Power(DecayFactor[1], i - 1) * Power(DecayFactor[2], k - i) * (IF i = 1 THEN 1 ELSE cut)

Mean(sum, total) == IF total > 0 THEN <<sum, total>> ELSE <<0, 1>>

\* Mutation: the divisor adds a weight up only after the first round.
MeanUnbalanced(vs, cut) ==
  LET k == Len(vs) IN
  Mean(MapThenSumSet(LAMBDA i : vs[i] * WeightAt(k, i, cut), 1..k),
       MapThenSumSet(LAMBDA i : WeightAt(k, i, cut), 2..k))

\* The mean of a sequence by weight; without a total weight above 0 it is 0.
WeightedMean(vs, cut) ==
  LET k == Len(vs) IN
  Mean(MapThenSumSet(LAMBDA i : vs[i] * WeightAt(k, i, cut), 1..k),
       MapThenSumSet(LAMBDA i : WeightAt(k, i, cut), 1..k))

-----------------------------------------------------------------------------
\* closePeriod

Figure(p, l) == IF facts[p][l] = NoFact THEN 0 ELSE facts[p][l]

\* calcReadiness, in units of a hundredth of the weight over the plan.
ClosedReadiness(p) ==
  LET done(l) == IF Figure(p, l) < Plan[l] THEN Figure(p, l) ELSE Plan[l] IN
  MapThenSumSet(LAMBDA l : (100 * Weight[l] * done(l)) \div Plan[l], Line)

\* The period a delta is taken from.
Before(p) == {q \in Closed : q < p}
LastBefore(p) == CHOOSE q \in Before(p) : \A r \in Before(p) : r <= q

\* Mutation: the previous period, closed or not.
PrecedingUnclosed(p) == p - 1

Preceding(p) == IF Before(p) = {} THEN 0 ELSE LastBefore(p)

\* A figure of q counts for the same BoQ line, which a new version does not have.
Delta(p, q, l) ==
  Figure(p, l) - IF q # 0 /\ periods[q].version = periods[p].version THEN Figure(q, l) ELSE 0

\* calcItemPace: the last rows of work_pace of the line, newest first, planned pauses
\* left out of what was taken; done holds the periods that have such rows.
CleanWindow(done, p) ==
  LET rows == {q \in done : q <= p /\ periods[q].version = periods[p].version}
      since(q) == Cardinality({r \in rows : r >= q})
      window == {q \in rows : since(q) <= AvgPacePeriods /\ ~periods[q].pause}
  IN [i \in 1..Cardinality(window) |->
        CHOOSE q \in window : Cardinality({r \in window : r >= q}) = i]

Volumes(volume, window, l) == [i \in DOMAIN window |-> volume[window[i]][l]]

Exceeds(v, mean) ==
  mean[1] > 0 /\ v * mean[2] * SpikeThreshold[2] > mean[1] * SpikeThreshold[1]

IsSpike(vs) == vs # <<>> /\ Exceeds(vs[1], WeightedMean(vs, 1))

\* A spike in the newest volume takes it out, if it was explained as an error, or
\* halves its weight.
Pace(vs, reply) ==
  IF IsSpike(vs) /\ reply = "data_entry_error" THEN WeightedMean(Tail(vs), 1)
  ELSE WeightedMean(vs, IF IsSpike(vs) THEN 2 ELSE 1)

\* calcItemPace: a window without any volume is reported to the directors.
IsAllZero(vs) == vs # <<>> /\ \A i \in DOMAIN vs : vs[i] = 0

\* The pace of a line, as of p; a line without rows has none.
LinePace(volume, window, l) ==
  IF window = <<>> THEN <<0, 1>>
  ELSE Pace(Volumes(volume, window, l), replies[window[1]][l])

\* Periods until a line is done that is left short of its plan at a pace.
PeriodsLeft(left, pace) ==
  IF pace[1] <= 0 THEN NoForecast
  ELSE <<IF left > 0 THEN left * pace[2] ELSE 0, pace[1]>>

LineForecast(volume, window, p, l) ==
  IF facts[p][l] = NoFact THEN NoForecast
  ELSE PeriodsLeft(Plan[l] - Figure(p, l), LinePace(volume, window, l))

\* calcObjectForecast: the mean of the lines' forecasts f by weight, the latest of a
\* heavy line, and whether the two are apart.
WeightedForecast(f, known) ==
  IF \A l \in known : Weight[l] = 0 THEN NoForecast
  ELSE Divided(FoldFunctionOnSet(Add, <<0, 1>>, [l \in known |-> Times(Weight[l], f[l])], known),
               MapThenSumSet(LAMBDA l : Weight[l], known))

CriticalForecast(f, heavy) == FoldFunctionOnSet(Larger, NoForecast, f, heavy)

IsGap(weighted, critical) ==
  /\ NoForecast \notin {weighted, critical}
  /\ \/ ~Less(critical, Add(weighted, <<ForecastGap, 1>>))
     \/ ~Less(weighted, Add(critical, <<ForecastGap, 1>>))

SnapshotOf(readiness, weighted, critical) ==
  [readiness |-> readiness, weighted |-> weighted, critical |-> critical,
   gap |-> IsGap(weighted, critical)]

KnownLines(f) == {l \in Line : f[l] # NoForecast}

Forecast(readiness, f) ==
  SnapshotOf(readiness, WeightedForecast(f, KnownLines(f)),
             CriticalForecast(f, {l \in KnownLines(f) : Weight[l] >= WeightThreshold}))

\* One transaction at READ COMMITTED: each statement reads what is committed by then, and
\* what the close itself has written.  The update of the status locks the period's own
\* row and no other, so that two periods may be closed at a time.  A second close of the
\* same period waits for the first and fails on the snapshot's UNIQUE (period_id).
CloseBegin(p) ==
  /\ periods[p].status = "verification" /\ ~closing[p].on
  /\ closing' = [closing EXCEPT ![p] =
                    [NotClosing EXCEPT !.on = TRUE, !.readiness = ClosedReadiness(p)]]
  /\ UNCHANGED <<periods, version, facts, replies, entry, results, snapshots, late, screen>>

\* recordWorkPaceDeltas, one line: its figure, the previous period, and that one's figure.
\* What comes between these reads is a commit of another close or a write of another
\* figure, which the step may as well follow or precede.
CloseDelta(p, l) ==
  /\ closing[p].on /\ l \notin closing[p].measured
  /\ closing' = [closing EXCEPT ![p].measured = @ \cup {l}]
  /\ paces' = [paces EXCEPT ![p][l] = Delta(p, Preceding(p), l)]
  /\ previous' = [previous EXCEPT ![p][l] = Preceding(p)]
  /\ UNCHANGED <<periods, version, facts, replies, entry, spikes, notices, snapshots, late,
                 screen>>

\* The mark of a spike is an update of the fact's row, which stays locked till the end.
HoldsRow(p, q, l) == closing[p].on /\ <<p, q, l>> \in spikes

\* calcItemPace, one line.  It marks the newest figure of the window, which is an earlier
\* period's when p is a planned pause, and tells the directors of a window without any
\* volume.
CloseLine(p, l) ==
  LET window == CleanWindow(Closed \cup {p}, p)
      vs == Volumes(paces, window, l)
      marked == IF IsSpike(vs) /\ facts[window[1]][l] # NoFact THEN {<<p, window[1], l>>} ELSE {}
  IN
  /\ closing[p].on /\ closing[p].measured = Line /\ l \notin closing[p].paced
  /\ \A m \in marked, r \in Period \ {p} : ~HoldsRow(r, m[2], l)
  /\ closing' = [closing EXCEPT ![p].paced = @ \cup {l},
                                ![p].forecast[l] = LineForecast(paces, window, p, l)]
  /\ spikes' = spikes \cup marked
  /\ notices' = notices \cup {n \in {<<p, l>>} : IsAllZero(vs)}
  /\ UNCHANGED <<periods, version, facts, replies, entry, paces, previous, snapshots, late,
                 screen>>

CloseCommit(p) ==
  /\ closing[p].on /\ closing[p].measured = Line /\ closing[p].paced = Line
  /\ periods' = [periods EXCEPT ![p].status = "closed"]
  /\ snapshots' = [snapshots EXCEPT ![p] = Forecast(closing[p].readiness, closing[p].forecast)]
  /\ closing' = [closing EXCEPT ![p] = NotClosing]
  /\ UNCHANGED <<version, facts, replies, entry, results, late, screen>>

\* An error, a deadlock with another close, or Prisma's timeout of a transaction.
CloseAbort(p) ==
  /\ closing[p].on
  /\ closing' = [closing EXCEPT ![p] = NotClosing]
  /\ paces' = [paces EXCEPT ![p] = [l \in Line |-> 0]]
  /\ previous' = [previous EXCEPT ![p] = [l \in Line |-> 0]]
  /\ spikes' = {s \in spikes : s[1] # p}
  /\ notices' = {n \in notices : n[1] # p}
  /\ UNCHANGED <<periods, version, facts, replies, entry, snapshots, late, screen>>

-----------------------------------------------------------------------------
\* The periods

\* Mutation: the number follows the closed periods.
OpenPeriodAgain(pause) ==
  /\ Cardinality(Closed) < MaxPeriod
  /\ \A p \in Period : periods[p].status # "open"
  /\ periods' = [periods EXCEPT ![Cardinality(Closed) + 1] =
                   [status |-> "open", version |-> version, pause |-> pause]]
  /\ UNCHANGED <<version, facts, replies, entry, closing, results, snapshots, late, screen>>

\* openPeriod asks for no period in status "open"; one under verification is no bar.
OpenPeriod(pause) ==
  /\ Newest < MaxPeriod
  /\ \A p \in Period : periods[p].status # "open"
  /\ periods' = [periods EXCEPT ![Newest + 1] =
                   [status |-> "open", version |-> version, pause |-> pause]]
  /\ UNCHANGED <<version, facts, replies, entry, closing, results, snapshots, late, screen>>

Verify(p) ==
  /\ periods[p].status = "open"
  /\ periods' = [periods EXCEPT ![p].status = "verification"]
  /\ UNCHANGED <<version, facts, replies, entry, closing, results, snapshots, late, screen>>

NewVersion ==
  /\ version < MaxVersion
  /\ \A p \in Period : periods[p].status # "open"
  /\ version' = version + 1
  /\ UNCHANGED <<periods, facts, replies, entry, closing, results, snapshots, late, screen>>

\* upsertPeriodFact: the period's status is read without a lock.
EnterRead(p, l, v, reply) ==
  /\ entry = NoEntry
  /\ periods[p].status = "verification"
  /\ entry' = [period |-> p, line |-> l, volume |-> v, reply |-> reply]
  /\ UNCHANGED <<periods, version, facts, replies, closing, results, snapshots, late, screen>>

\* The write waits for a close that has the fact's row locked.
EnterWrite ==
  /\ entry # NoEntry
  /\ LET p == entry.period  l == entry.line IN
     /\ \A r \in Period : ~HoldsRow(r, p, l)
     /\ facts' = [facts EXCEPT ![p][l] = entry.volume]
     /\ replies' = [replies EXCEPT ![p][l] = entry.reply]
     /\ late' = IF p \in Closed \/ l \in closing[p].measured THEN late \cup {l} ELSE late
  /\ entry' = NoEntry
  /\ UNCHANGED <<periods, version, closing, results, snapshots, screen>>

-----------------------------------------------------------------------------
\* refreshDashboard

Sets(t, at) == refreshes' = [refreshes EXCEPT ![t].at = at]

\* The dashboard has the button, also while its first load is under way.
Click(t) ==
  /\ t \in Dashboards
  /\ refreshes[t].at = "idle" /\ tabs[t].fetch # "unopened"
  /\ Sets(t, "sent")
  /\ UNCHANGED <<source, view, old, tabs, acked>>

Locked == \E t \in Page : refreshes[t].at \in {"locked", "built"}

\* Mutation: two refreshes at a time.
TakeLockAlways(t) ==
  /\ refreshes[t].at = "sent"
  /\ Sets(t, "locked")
  /\ UNCHANGED <<source, view, old, tabs, acked>>

\* pg_try_advisory_xact_lock
TakeLock(t) ==
  /\ refreshes[t].at = "sent"
  /\ Sets(t, IF Locked THEN "refused" ELSE "locked")
  /\ UNCHANGED <<source, view, old, tabs, acked>>

\* The snapshot of the object's last period; while that one is open there is none.
Current ==
  IF Newest = 0 THEN NoRow
  ELSE [period |-> Newest, ready |-> Newest \in Closed, snapshot |-> snapshots[Newest],
        closed |-> Closed]

Build(t) ==
  /\ refreshes[t].at = "locked"
  /\ refreshes' = [refreshes EXCEPT ![t] = [at |-> "built", row |-> Current]]
  /\ UNCHANGED <<source, view, old, tabs, acked>>

\* The view and mv_refresh_log change together.
Commit(t) ==
  /\ refreshes[t].at = "built"
  /\ view' = refreshes[t].row
  /\ old' = FALSE
  /\ Sets(t, "done")
  /\ UNCHANGED <<source, tabs, acked>>

\* REFRESH_FAILED, or the transaction outlives its timeout.
Abort(t) ==
  /\ refreshes[t].at \in {"locked", "built"}
  /\ Sets(t, "refused")
  /\ UNCHANGED <<source, view, old, tabs, acked>>

HalfHourPasses ==
  /\ ~old
  /\ old' = TRUE
  /\ UNCHANGED <<source, view, tabs, refreshes, acked>>

-----------------------------------------------------------------------------
\* The pages

Anew(tab) == [tab EXCEPT !.fetch = "asked", !.read = {}, !.part = NoData]

\* Mutation: a fetch under way is left to finish, data or not.
FetchingDeduplicated(tab) == IF tab.fetch = "asked" THEN tab ELSE Anew(tab)

\* A fetch anew: the answers to one under way are dropped if the query has data; a first
\* load is left to finish.
Fetching(tab) == IF tab.fetch = "asked" /\ ~tab.known THEN tab ELSE Anew(tab)

\* useRefreshDashboard invalidates the tab's queries.
Succeeds(t) ==
  /\ refreshes[t].at = "done"
  /\ refreshes' = [refreshes EXCEPT ![t] = [at |-> "idle", row |-> NoRow]]
  /\ tabs' = [tabs EXCEPT ![t] = Fetching(@)]
  /\ acked' = IF tabs[t].known THEN [acked EXCEPT ![t] = refreshes[t].row.closed] ELSE acked
  /\ UNCHANGED <<source, view, old>>

\* Refused, or the answer was lost.
Fails(t) ==
  /\ refreshes[t].at \in {"refused", "done"}
  /\ refreshes' = [refreshes EXCEPT ![t] = [at |-> "idle", row |-> NoRow]]
  /\ UNCHANGED <<source, view, old, tabs, acked>>

\* The page is opened, or its window regains focus with data older than the staleTime.
Refetch(t) ==
  /\ tabs[t].fetch \in {"unopened", "idle"}
  /\ tabs' = [tabs EXCEPT ![t] = Fetching(@)]
  /\ UNCHANGED <<source, view, old, refreshes, acked>>

\* Mutation: getDetail sends all its queries at once.
MayReadUnordered(t, q) == tabs[t].fetch = "asked" /\ q \notin tabs[t].read

\* getDashboard sends its queries at once; getDetail awaits the view's row first.
MayRead(t, q) ==
  /\ tabs[t].fetch = "asked" /\ q \notin tabs[t].read
  /\ t \in ObjectPages /\ q # "row" => "row" \in tabs[t].read

\* Both queries select obj_readiness_pct.
ReadRow(t) ==
  /\ MayRead(t, "row")
  /\ IF ViewColumn = "obj_readiness_pct"
     THEN tabs' = [tabs EXCEPT ![t].part.row = view, ![t].read = @ \cup {"row"}]
     ELSE tabs' = [tabs EXCEPT ![t] = [@ EXCEPT !.fetch = "refused", !.part = NoData, !.read = {}]]
  /\ UNCHANGED <<source, view, old, refreshes, acked>>

ReadHistory(t) ==
  /\ t \in ObjectPages /\ MayRead(t, "history")
  /\ tabs' = [tabs EXCEPT ![t].part.history = Closed, ![t].read = @ \cup {"history"}]
  /\ UNCHANGED <<source, view, old, refreshes, acked>>

\* getStalenessMeta; nothing sets mv_refresh_log.is_stale.
ReadMeta(t) ==
  /\ MayRead(t, "meta")
  /\ tabs' = [tabs EXCEPT ![t].part.stale = old, ![t].read = @ \cup {"meta"}]
  /\ UNCHANGED <<source, view, old, refreshes, acked>>

Queries(t) == IF t \in ObjectPages THEN {"row", "history", "meta"} ELSE {"row", "meta"}

Arrives(t) ==
  /\ tabs[t].fetch = "asked" /\ tabs[t].read = Queries(t)
  /\ tabs' = [tabs EXCEPT ![t] = [known |-> TRUE, failed |-> FALSE, data |-> tabs[t].part,
                                  fetch |-> "idle", read |-> {}, part |-> NoData]]
  /\ UNCHANGED <<source, view, old, refreshes, acked>>

\* Lost, or refused for good.
Errs(t) ==
  /\ tabs[t].fetch \in {"asked", "refused"}
  /\ tabs' = [tabs EXCEPT ![t] = [@ EXCEPT !.failed = TRUE, !.fetch = "idle", !.read = {},
                                         !.part = NoData]]
  /\ UNCHANGED <<source, view, old, refreshes, acked>>

-----------------------------------------------------------------------------
SourceStep ==
  \/ \E pause \in BOOLEAN : OpenPeriod(pause)
  \/ NewVersion \/ EnterWrite
  \/ \E p \in Period :
       \/ Verify(p) \/ CloseBegin(p) \/ CloseCommit(p) \/ CloseAbort(p)
       \/ \E l \in Line : CloseDelta(p, l) \/ CloseLine(p, l)
       \/ \E l \in Line, v \in Volume, reply \in Reply : EnterRead(p, l, v, reply)

PageStep(t) ==
  \/ Click(t) \/ TakeLock(t) \/ Build(t) \/ Commit(t) \/ Abort(t) \/ Succeeds(t) \/ Fails(t)
  \/ Refetch(t) \/ ReadRow(t) \/ ReadHistory(t) \/ ReadMeta(t) \/ Arrives(t) \/ Errs(t)

Next == SourceStep \/ HalfHourPasses \/ \E t \in Page : PageStep(t)

Spec == Init /\ [][Next]_vars
-----------------------------------------------------------------------------
Writers == Closed \cup {p \in Period : closing[p].on}

\* Rows, pages and refreshes keep their types; what closing writes is there for periods
\* that are closed or being closed, and a snapshot for closed ones only.
TypeOK ==
  /\ \A p \in Period : periods[p].status \in {"none", "open", "verification", "closed"}
  /\ Opened = 1..Newest /\ version \in 1..MaxVersion
  /\ \A p \in Opened : periods[p].version \in 1..version /\ periods[p].pause \in BOOLEAN
  /\ facts \in [Period -> [Line -> Volume \cup {NoFact}]]
  /\ \A p \in Period, l \in Line : periods[p].status = "open" => facts[p][l] = NoFact
  /\ replies \in [Period -> [Line -> Reply]]
  /\ closing \in [Period -> Closing]
  /\ \A p \in Period : closing[p].on => periods[p].status = "verification"
  /\ \A p \in Period \ Writers, l \in Line : paces[p][l] = 0 /\ previous[p][l] = 0
  /\ spikes \subseteq Writers \X Writers \X Line /\ notices \subseteq Writers \X Line
  /\ late \subseteq Line
  /\ \A p \in Period \ Closed : snapshots[p] = NoSnapshot
  /\ view \in ViewRow /\ old \in BOOLEAN
  /\ \A t \in Page : tabs[t] \in Tab /\ refreshes[t] \in Refresh /\ acked[t] \subseteq Period

\* recordWorkPaceDeltas: what work_pace holds is what the close would compute today from
\* the period it found before its own: no later close, opening, BoQ version or entry
\* takes the figures from under a stored delta, unless one was written after a close had
\* read it.
DeltasStay ==
  \A p \in Closed, l \in Line \ late : paces[p][l] = Delta(p, previous[p][l], l)

\* The deltas of a line up to p were taken from the closed period before each, as of now:
\* no period was closed before a lower one, or while a lower one was being closed.
Chained(p, l) == \A q \in Closed : q <= p => previous[q][l] = Preceding(q)

\* recordWorkPaceDeltas: the volumes of the closed periods of one BoQ version add up to
\* the figure of the last of them, where the deltas are chained and no figure was
\* written after a close had read it.
PaceTelescopes ==
  \A p \in Closed, l \in Line \ late :
    Chained(p, l) =>
      Figure(p, l) = MapThenSumSet(LAMBDA q : paces[q][l],
                       {q \in Closed : q <= p /\ periods[q].version = periods[p].version})

\* calcItemPace: a pace lies between the smallest and the largest volume of its window,
\* also when a spike was cut down or taken out.
PaceWithinWindow ==
  \A p \in Closed, l \in Line :
    LET window == CleanWindow(Closed, p)
        vs == Volumes(paces, window, l)
        pace == Pace(vs, replies[window[1]][l])
    IN window # <<>> /\ pace[1] > 0 =>
         /\ \E i \in DOMAIN vs : ~Less(pace, <<vs[i], 1>>)
         /\ \E i \in DOMAIN vs : ~Less(<<vs[i], 1>>, pace)

\* refreshDashboard: a refresh never puts back a view built before the one in place,
\* whatever two administrators press and however long each build takes.
ViewNeverGoesBack == [][view.closed \subseteq view'.closed /\ view.period <= view'.period]_vars

\* useRefreshDashboard: once a dashboard has data, what it shows at rest is at least what
\* its own last successful refresh built, whatever fetch was under way when that came back.
RefreshShown ==
  \A t \in Page :
    tabs[t].fetch = "idle" /\ tabs[t].known /\ ~tabs[t].failed => acked[t] \subseteq tabs[t].data.row.closed

\* getDetail: an object page that shows a period's readiness as the current one has
\* that period in its history.
CurrentInHistory ==
  \A t \in ObjectPages : tabs[t].known => tabs[t].data.row.closed \subseteq tabs[t].data.history

\* The dashboard of docs/delivery_plan_v1_0.md:442 is given its rows.
DashboardAnswered == \A t \in Dashboards : tabs[t].fetch # "refused"
=============================================================================
