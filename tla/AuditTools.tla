------------------------------ MODULE AuditTools ------------------------------
(***************************************************************************)
(* The tools of tools/audit that keep state: the rule sets of the token    *)
(* auditor (RuleSets) beside its session recorder (Log).  The recorder's   *)
(* trend and quality are the gates of token-rules-propose; RuleSets lets   *)
(* them be any of Trends and Responses, so that the two share no variable. *)
(***************************************************************************)
EXTENDS RuleSets

CONSTANTS
  Totals, Estimates, MinTokens, Window, \* the recorder's
  MaxLogged, MaxRuns, MaxKills          \* its bounds

VARIABLES session, history, rolling, rec, kills

logVars == <<session, history, rolling, rec, kills>>

Log == INSTANCE SessionLog WITH
  MaxSessions <- MaxLogged, MaxCrashes <- MaxKills, crashes <- kills

ASSUME LogAssumption == Log!Given

ToolsInit == Init /\ Log!Init

ToolsNext ==
  \/ Next /\ UNCHANGED logVars
  \/ Log!Next /\ UNCHANGED vars

ToolsSpec == ToolsInit /\ [][ToolsNext]_<<vars, logVars>>

-----------------------------------------------------------------------------
\* No two commands of the rule sets run at the same time.
OneAtATime == \A p, q \in Procs : p = q

\* token-session-record: however often a session is recorded it has one row at
\* most, and the rows are in the order of the sessions.
OneRowPerSession == Log!OneRowPerSession

\* token-session-record: rolling-30.json is behind history.jsonl by the row being
\* written and those whose recorder was killed, and by no other.
RollingBehind == Log!RollingBehind

\* token-session-record: history.jsonl is append-only, although every row
\* rewrites it.
HistoryGrows == Log!HistoryGrows
=============================================================================
