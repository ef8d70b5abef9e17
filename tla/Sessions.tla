------------------------------- MODULE Sessions -------------------------------
(***************************************************************************)
(* The sessions of one user in one browser: AuthService's refresh tokens,  *)
(* the cookie that carries them and the access token.  Requests overlap,   *)
(* the statements of each are separate transactions, answers are reordered *)
(* or lost, and an API process dies between two statements.                *)
(***************************************************************************)
EXTENDS Naturals

CONSTANTS
  Request,    \* bound: requests under way at a time
  MaxToken    \* bound: rows of refresh_tokens

ASSUME SessionsAssumption == MaxToken \in Nat

\* Rows are numbered in the order of their creation; 0 is no token.
Token   == 1..MaxToken
NoToken == 0

Row == [state : {"free", "live", "revoked"},     \* revoked_at IS NULL
        from  : Token \cup {NoToken}]            \* history: the token it was refreshed from

Stage == {"sent",                    \* not yet handled
          "read", "revoked",         \* between the statements of login and refresh
          "answered", "refused"}     \* on its way back

Call == [op : {"none", "login", "refresh", "logout"},
         at : Stage,
         token : Token \cup {NoToken},       \* the cookie its handler reads
         made  : Token \cup {NoToken}]       \* the token its answer sets

NoCall == [op |-> "none", at |-> "sent", token |-> NoToken, made |-> NoToken]

VARIABLES
  rows,         \* refresh_tokens
  expired,      \* rows whose expires_at has passed
  active,       \* users.is_active
  cookie,       \* the browser's refresh_token cookie
  access,       \* its access token
  calls,        \* its requests under way
  interrupted,  \* history: cookies carried by a request whose answer never came
  stray         \* history: tokens whose answer was lost, or that the answer to a
                \* request not carrying them took out of the cookie

vars == <<rows, expired, active, cookie, access, calls, interrupted, stray>>

Init ==
  /\ rows = [t \in Token |-> [state |-> "free", from |-> NoToken]]
  /\ expired = {}
  /\ active = TRUE
  /\ cookie = NoToken
  /\ access = "none"
  /\ calls = [r \in Request |-> NoCall]
  /\ interrupted = {}
  /\ stray = {}

Live == {t \in Token : rows[t].state = "live"}

Moves(r, at) == calls' = [calls EXCEPT ![r] = [@ EXCEPT !.at = at]]

-----------------------------------------------------------------------------
\* The browser

\* login does not read the cookie, so a session already there is not ended by it.
Send(r, op) ==
  /\ calls[r].op = "none"
  /\ calls' = [calls EXCEPT ![r] = [NoCall EXCEPT
       !.op = op, !.token = IF op = "login" THEN NoToken ELSE cookie]]
  /\ UNCHANGED <<rows, expired, active, cookie, access, interrupted, stray>>

\* The token in the cookie is taken out of it by an answer to a request that did not
\* carry it: nobody holds it any longer.
Displaced(r) == IF cookie \in {NoToken, calls[r].token} THEN {} ELSE {cookie}

\* A mutated Receive: the answer to a logout leaves the cookie.
ReceiveKeeps(r) ==
  /\ calls[r].at = "answered"
  /\ IF calls[r].op = "logout"
     THEN UNCHANGED <<cookie, access>>
     ELSE cookie' = calls[r].made /\ access' = "valid"
  /\ stray' = stray \cup Displaced(r)
  /\ calls' = [calls EXCEPT ![r] = NoCall]
  /\ UNCHANGED <<rows, expired, active, interrupted>>

Receive(r) ==
  /\ calls[r].at = "answered"
  /\ IF calls[r].op = "logout"
     THEN cookie' = NoToken /\ UNCHANGED access
     ELSE cookie' = calls[r].made /\ access' = "valid"
  /\ stray' = stray \cup Displaced(r)
  /\ calls' = [calls EXCEPT ![r] = NoCall]
  /\ UNCHANGED <<rows, expired, active, interrupted>>

ReceiveRefusal(r) ==
  /\ calls[r].at = "refused"
  /\ calls' = [calls EXCEPT ![r] = NoCall]
  /\ UNCHANGED <<rows, expired, active, cookie, access, interrupted, stray>>

\* No answer comes: the request or the answer was lost, or the process handling it died.
\* A refusal that is lost leaves what one that arrives leaves.
Lose(r) ==
  /\ calls[r].op # "none" /\ calls[r].at # "refused"
  /\ interrupted' = interrupted \cup ({calls[r].token} \ {NoToken})
  /\ stray' = stray \cup ({calls[r].made} \ {NoToken})
  /\ calls' = [calls EXCEPT ![r] = NoCall]
  /\ UNCHANGED <<rows, expired, active, cookie, access>>

AccessExpires ==
  /\ access = "valid"
  /\ access' = "expired"
  /\ UNCHANGED <<rows, expired, active, cookie, calls, interrupted, stray>>

-----------------------------------------------------------------------------
\* AuthService

\* refreshToken.create
Create(r, parent) ==
  \E t \in Token :
    /\ rows[t].state = "free"
    /\ \A s \in 1..(t - 1) : rows[s].state # "free"
    /\ rows' = [rows EXCEPT ![t] = [state |-> "live", from |-> parent]]
    /\ calls' = [calls EXCEPT ![r] = [@ EXCEPT !.at = "answered", !.made = t]]

\* The user is found and active, the password compared.
LoginRead(r) ==
  /\ calls[r].op = "login" /\ calls[r].at = "sent"
  /\ \/ active /\ Moves(r, "read")
     \/ Moves(r, "refused")
  /\ UNCHANGED <<rows, expired, active, cookie, access, interrupted, stray>>

LoginCreate(r) ==
  /\ calls[r].op = "login" /\ calls[r].at = "read"
  /\ Create(r, NoToken)
  /\ UNCHANGED <<expired, active, cookie, access, interrupted, stray>>

\* A mutated Usable: without the check of revokedAt.
UsableRevoked(t) == t \in Token \ expired /\ active

Usable(t) == t \in Live \ expired /\ active

RefreshRead(r) ==
  /\ calls[r].op = "refresh" /\ calls[r].at = "sent"
  /\ Moves(r, IF Usable(calls[r].token) THEN "read" ELSE "refused")
  /\ UNCHANGED <<rows, expired, active, cookie, access, interrupted, stray>>

\* A mutated RefreshRevoke: the old token stays live.
RefreshKeeps(r) ==
  /\ calls[r].op = "refresh" /\ calls[r].at = "read"
  /\ Moves(r, "revoked")
  /\ UNCHANGED <<rows, expired, active, cookie, access, interrupted, stray>>

\* refreshToken.update by id, whatever has become of the row since the read.
RefreshRevoke(r) ==
  /\ calls[r].op = "refresh" /\ calls[r].at = "read"
  /\ rows' = [rows EXCEPT ![calls[r].token] = [@ EXCEPT !.state = "revoked"]]
  /\ Moves(r, "revoked")
  /\ UNCHANGED <<expired, active, cookie, access, interrupted, stray>>

RefreshCreate(r) ==
  /\ calls[r].op = "refresh" /\ calls[r].at = "revoked"
  /\ Create(r, calls[r].token)
  /\ UNCHANGED <<expired, active, cookie, access, interrupted, stray>>

\* The route is not @Public(): JwtAuthGuard turns away an access token that expired.
LogoutRefused(r) ==
  /\ calls[r].op = "logout" /\ calls[r].at = "sent"
  /\ access # "valid"
  /\ Moves(r, "refused")
  /\ UNCHANGED <<rows, expired, active, cookie, access, interrupted, stray>>

\* updateMany of the row with this hash and revoked_at IS NULL.
Logout(r) ==
  /\ calls[r].op = "logout" /\ calls[r].at = "sent"
  /\ access = "valid"
  /\ rows' = [t \in Token |-> IF t = calls[r].token /\ rows[t].state = "live"
                              THEN [rows[t] EXCEPT !.state = "revoked"] ELSE rows[t]]
  /\ Moves(r, "answered")
  /\ UNCHANGED <<expired, active, cookie, access, interrupted, stray>>

\* The expiry of a revoked row changes nothing.
Expire(t) ==
  /\ t \in Live \ expired
  /\ expired' = expired \cup {t}
  /\ UNCHANGED <<rows, active, cookie, access, calls, interrupted, stray>>

\* No route changes users.is_active; it is set in the database.
Deactivate ==
  /\ active
  /\ active' = FALSE
  /\ UNCHANGED <<rows, expired, cookie, access, calls, interrupted, stray>>

-----------------------------------------------------------------------------
Step(r) ==
  \/ \E op \in {"login", "refresh", "logout"} : Send(r, op)
  \/ Receive(r) \/ ReceiveRefusal(r) \/ Lose(r)
  \/ LoginRead(r) \/ LoginCreate(r)
  \/ RefreshRead(r) \/ RefreshRevoke(r) \/ RefreshCreate(r)
  \/ LogoutRefused(r) \/ Logout(r)

Next ==
  \/ \E r \in Request : Step(r)
  \/ AccessExpires
  \/ \E t \in Token : Expire(t)
  \/ Deactivate

Spec == Init /\ [][Next]_vars

-----------------------------------------------------------------------------
\* Every row, request and cookie is of its type, and no row is ever taken away.
TypeOK ==
  /\ rows \in [Token -> Row]
  /\ \A t \in Token : rows[t].state = "free" => \A s \in t..MaxToken : rows[s].state = "free"
  /\ expired \subseteq Token
  /\ active \in BOOLEAN
  /\ cookie \in Token \cup {NoToken}
  /\ access \in {"none", "valid", "expired"}
  /\ calls \in [Request -> Call]
  /\ interrupted \subseteq Token
  /\ stray \subseteq Token

\* refresh and logout: a live token that no cookie holds and no answer is bringing was
\* left behind by a lost answer, by a login over it, or by two requests that
\* overlapped: refreshes and a logout one after the other end all that came before.
NoSilentOrphan ==
  \A t \in Live : \/ t = cookie
                  \/ \E r \in Request : calls[r].made = t
                  \/ t \in stray

\* refresh and logout: the browser holds a revoked token only while the request that
\* revoked it is under way, or after one whose answer never came.
CookieUsable ==
  \A t \in Token : t = cookie /\ rows[t].state = "revoked" =>
    \/ \E r \in Request : calls[r].token = t
    \/ t \in interrupted

Successors(t) == {s \in Token : rows[s].from = t}

Reading(t) == {r \in Request : calls[r].token = t /\ calls[r].at \in {"read", "revoked"}}

\* refresh: a token has successors only once it is revoked, each of them made by a refresh
\* that had read the token before, and from then on no further refresh gets to read it:
\* several successors of one token come from refreshes that were all under way when the
\* first of them revoked it, and from nothing else.
ForksAreConcurrent ==
  [][\A t \in Token :
       /\ Successors(t)' # Successors(t) =>
            /\ rows[t].state = "revoked"
            /\ \E r \in Reading(t) \ Reading(t)' :
                 Successors(t)' = Successors(t) \cup {calls'[r].made}
       /\ rows[t].state = "revoked" => Reading(t)' \subseteq Reading(t)]_vars
=============================================================================
