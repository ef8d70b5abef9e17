----------------------------- MODULE SessionLog -----------------------------
(***************************************************************************)
(* token-session-record: what it writes of a session to history.jsonl and  *)
(* rolling-30.json when T-01 or T-02 runs it, any number of times in a     *)
(* session, with crashes between its two writes.  The trend and the        *)
(* quality of rolling-30.json are the gates of RuleSets.                   *)
(***************************************************************************)
EXTENDS Integers, Sequences

CONSTANTS
  Totals,      \* T_total of a session
  Estimates,   \* E_resp as the auditor estimates it, in 1/10000
  None,        \* no estimate, no mean, no trend
  MinTokens,   \* MIN_TOKENS: 500 in the code
  Window,      \* ROLLING_N: 30 in the code
  MaxSessions, \* bound
  MaxRuns,     \* bound: what rolling-30.json counts as skipped or inline
  MaxCrashes   \* bound

\* What is assumed of them where the module is used
Given ==
  /\ Totals \subseteq Nat /\ Estimates \subseteq Nat /\ None \notin Int
  /\ MinTokens \in Nat \ {0} /\ Window \in Nat \ {0}
  /\ MaxSessions \in Nat \ {0} /\ MaxRuns \in Nat /\ MaxCrashes \in Nat

VARIABLES
  session,  \* session-state.json and trigger-state.json
  history,  \* the rows of history.jsonl
  rolling,  \* rolling-30.json
  rec,      \* the recorder
  crashes

vars == <<session, history, rolling, rec, crashes>>

Row == [key : 1 .. MaxSessions, total : Nat, eResp : Estimates \cup {None}]

SessionState == [key : 1 .. MaxSessions, agents : BOOLEAN, total : Nat, active : BOOLEAN]

\* What a session has done so far: subagents, their tokens, and whether
\* inlineSignals sees tool calls, repeated readings or triggers.  The key is trigger-state's
\* session_key, taken to be readable whenever the recorder runs: the fallbacks, the start
\* or the date, would give one session a second key.
Fresh(key) == [key |-> key, agents |-> FALSE, total |-> 0, active |-> FALSE]

-----------------------------------------------------------------------------
\* recomputeRolling

\* n / d for d > 0, rounded half away from zero
RoundDiv(n, d) ==
  IF n >= 0 THEN (2 * n + d) \div (2 * d) ELSE -((-(2 * n) + d) \div (2 * d))

SumOf(s) ==
  LET sum[n \in 0 .. Len(s)] == IF n = 0 THEN 0 ELSE sum[n - 1] + s[n]
  IN  sum[Len(s)]

Known(x) == x # None

Mean(vals) ==
  LET known == SelectSeq(vals, Known)
  IN  IF known = <<>> THEN None ELSE RoundDiv(SumOf(known), Len(known))

\* delta_T_trend, in 1/100 %: how the newest row compares with the oldest
Trend(rows) ==
  IF Len(rows) < 2 THEN None
  ELSE LET first == rows[1].total
           last == rows[Len(rows)].total
       IN  RoundDiv(10000 * (last - first), IF first = 0 THEN 1 ELSE first)

LastRows(rows) == IF Len(rows) <= Window THEN rows
                  ELSE SubSeq(rows, Len(rows) - Window + 1, Len(rows))

Aggregates(rows) == LET w == LastRows(rows) IN
  [count |-> Len(w), eResp |-> Mean([i \in DOMAIN w |-> w[i].eResp]), trend |-> Trend(w)]

RecomputeRolling(rows, skipped, inline) ==
  [skipped |-> skipped, inline |-> inline, aggregates |-> Aggregates(rows)]

\* The recorder between two runs
NoRun == [pc |-> "idle", seen |-> Fresh(1), rows |-> <<>>,
          rolling |-> RecomputeRolling(<<>>, 0, 0)]

-----------------------------------------------------------------------------
Init ==
  /\ session = Fresh(1)
  /\ history = <<>>
  /\ rolling = RecomputeRolling(<<>>, 0, 0)
  /\ rec = NoRun
  /\ crashes = 0

\* SessionStart stamps a new session_key.
NewSession ==
  /\ session.key < MaxSessions
  /\ session' = Fresh(session.key + 1)
  /\ UNCHANGED <<history, rolling, rec, crashes>>

\* A subagent ends, with or without its tokens, or the main agent works.
Work ==
  /\ \/ \E total \in Totals :
          total >= session.total /\ session' = [session EXCEPT !.agents = TRUE, !.total = total]
     \/ session' = [session EXCEPT !.active = TRUE]
  /\ UNCHANGED <<history, rolling, rec, crashes>>

StartRecord ==
  /\ rec.pc = "idle" /\ rolling.skipped + rolling.inline < MaxRuns
  /\ rec' = [NoRun EXCEPT !.pc = "read", !.seen = session]
  /\ UNCHANGED <<session, history, rolling, crashes>>

EffectivelyInline(s) == ~s.agents \/ s.total = 0

\* Such a session gets no row: rolling-30.json counts it.
Inline(s) == EffectivelyInline(s) /\ s.active
Trivial(s) == ~Inline(s) /\ (~s.agents \/ s.total < MinTokens)

\* A mutated Recorded: without the check of the last row.
RecordedAgain(s) == FALSE

\* The same session_key in the last row: the run is skipped.
Recorded(s) == history # <<>> /\ history[Len(history)].key = s.key

Skip ==
  /\ rec.pc = "read" /\ Recorded(rec.seen)
  /\ rec' = NoRun
  /\ UNCHANGED <<session, history, rolling, crashes>>

\* Only the recorder writes the two files, so they are read in one step.
CountSession == LET s == rec.seen IN
  /\ rec.pc = "read" /\ ~Recorded(s)
  /\ Inline(s) \/ Trivial(s)
  /\ rec' = [rec EXCEPT !.pc = "rolling", !.rolling =
       IF Inline(s) THEN RecomputeRolling(history, rolling.skipped, rolling.inline + 1)
                    ELSE RecomputeRolling(history, rolling.skipped + 1, rolling.inline)]
  /\ UNCHANGED <<session, history, rolling, crashes>>

NewRows(s, e) == Append(history, [key |-> s.key, total |-> s.total, eResp |-> e])

\* A mutated RecordSession: rolling-30.json without the new row.
RecordSessionLate == LET s == rec.seen IN
  /\ rec.pc = "read" /\ ~Recorded(s) /\ ~Inline(s) /\ ~Trivial(s)
  /\ \E e \in Estimates \cup {None} :
       rec' = [rec EXCEPT !.pc = "history", !.rows = NewRows(s, e),
         !.rolling = RecomputeRolling(history, rolling.skipped, rolling.inline)]
  /\ UNCHANGED <<session, history, rolling, crashes>>

RecordSession == LET s == rec.seen IN
  /\ rec.pc = "read" /\ ~Recorded(s) /\ ~Inline(s) /\ ~Trivial(s)
  /\ \E e \in Estimates \cup {None} :
       rec' = [rec EXCEPT !.pc = "history", !.rows = NewRows(s, e),
         !.rolling = RecomputeRolling(NewRows(s, e), rolling.skipped, rolling.inline)]
  /\ UNCHANGED <<session, history, rolling, crashes>>

WriteHistory ==
  /\ rec.pc = "history"
  /\ history' = rec.rows
  /\ rec' = [rec EXCEPT !.pc = "rolling"]
  /\ UNCHANGED <<session, rolling, crashes>>

WriteRolling ==
  /\ rec.pc = "rolling"
  /\ rolling' = rec.rolling
  /\ rec' = NoRun
  /\ UNCHANGED <<session, history, crashes>>

\* The recorder is killed: the files stay as they are.
Crash ==
  /\ rec.pc # "idle" /\ crashes < MaxCrashes
  /\ crashes' = crashes + 1 /\ rec' = NoRun
  /\ UNCHANGED <<session, history, rolling>>

Next ==
  \/ NewSession \/ Work
  \/ StartRecord \/ Skip \/ CountSession \/ RecordSession
  \/ WriteHistory \/ WriteRolling \/ Crash

Spec == Init /\ [][Next]_vars

-----------------------------------------------------------------------------
\* However often a session is recorded, it has one row at most, and the rows are
\* in the order of the sessions.
OneRowPerSession == \A i, j \in DOMAIN history :
  i < j => history[i].key < history[j].key

\* rolling-30.json is what recomputeRolling gives for the history, or for the
\* history before the row being written and those whose recorder was killed.
RollingBehind ==
  \E k \in 0 .. crashes + (IF rec.pc = "rolling" THEN 1 ELSE 0) :
    /\ k <= Len(history)
    /\ rolling.aggregates = Aggregates(SubSeq(history, 1, Len(history) - k))

\* history.jsonl is append-only, although every row rewrites it.
HistoryGrows == [][
  /\ Len(history) <= Len(history')
  /\ SubSeq(history', 1, Len(history)) = history]_vars
=============================================================================
