---------------------------- MODULE SessionsProofs ----------------------------
(***************************************************************************)
(* Proofs about Sessions for any number of overlapping requests and of     *)
(* refresh tokens.                                                         *)
(***************************************************************************)
EXTENDS Sessions, TLAPS

\* A request that has ended the token it carries.
Ended(c) == \/ c.op = "refresh" /\ c.at \in {"revoked", "answered"}
            \/ c.op = "logout" /\ c.at = "answered"

\* What a request under way may rely on, with the rows as they are.
CallOK(c, rs) ==
  /\ c.op = "none" => c.token = NoToken /\ c.at = "sent"
  /\ c.op = "login" => c.token = NoToken
  /\ c.made # NoToken <=> c.at = "answered" /\ c.op \in {"login", "refresh"}
  /\ c.at \in {"read", "revoked"} => c.op \in {"login", "refresh"}
  /\ c.op = "refresh" /\ c.at \in {"read", "revoked", "answered"} => c.token # NoToken
  /\ c.token # NoToken => rs[c.token].state # "free"
  /\ c.made # NoToken => rs[c.made].state = "live"
  /\ Ended(c) /\ c.token # NoToken => rs[c.token].state = "revoked"

CallsOK == \A r \in Request : CallOK(calls[r], rows)

\* A token on its way to the browser is known to nobody else.
Fresh ==
  /\ cookie # NoToken => rows[cookie].state # "free"
  /\ \A r \in Request : calls[r].made # NoToken =>
       /\ calls[r].made # cookie
       /\ \A s \in Request : /\ calls[s].token # calls[r].made
                             /\ calls[s].made = calls[r].made => s = r

\* A token has successors only once it is revoked.
Lineage ==
  \A s \in Token : /\ rows[s].state = "free" => rows[s].from = NoToken
                   /\ rows[s].from # NoToken => rows[rows[s].from].state = "revoked"

\* The request that ended the token in the cookie is under way, or was cut off.
CookieHeld ==
  \A t \in Token : t = cookie /\ rows[t].state = "revoked" =>
    \/ \E r \in Request : calls[r].token = t /\ Ended(calls[r])
    \/ t \in interrupted

IInv == TypeOK /\ CallsOK /\ Fresh /\ Lineage /\ CookieHeld /\ NoSilentOrphan

-----------------------------------------------------------------------------
\* Steps of one request

\* No request is well formed and relies on nothing.
LEMMA NoCallOK == NoCall \in Call /\ \A rs : CallOK(NoCall, rs)
  BY DEF NoCall, Call, Stage, CallOK, Ended, NoToken

\* Rows that did not change and a request that goes on well formed.
LEMMA CallsStay ==
  ASSUME TypeOK, CallsOK, NEW r \in Request, NEW c \in Call, CallOK(c, rows),
         rows' = rows, calls' = [calls EXCEPT ![r] = c]
  PROVE  calls' \in [Request -> Call] /\ CallsOK'
  BY DEF TypeOK, CallsOK

\* A step that changes one request and neither rows nor cookie.
LEMMA CallStep ==
  ASSUME IInv, NEW r \in Request, NEW c \in Call, CallOK(c, rows),
         calls' = [calls EXCEPT ![r] = c], UNCHANGED <<rows, expired, active, cookie, access>>,
         interrupted \subseteq interrupted', stray \subseteq stray',
         interrupted' \subseteq Token, stray' \subseteq Token,
         c.token \in {NoToken, cookie, calls[r].token}, c.made \in {NoToken, calls[r].made},
         c.made = NoToken => calls[r].made \in stray' \cup {NoToken},
         Ended(calls[r]) => \/ Ended(c) /\ c.token = calls[r].token
                            \/ calls[r].token \in interrupted' \cup {NoToken}
  PROVE  IInv'
  <1>1. calls' \in [Request -> Call] /\ CallsOK'
    BY CallsStay DEF IInv
  <1>2. TypeOK'
    BY <1>1 DEF IInv, TypeOK
  <1>3. Lineage'
    BY DEF IInv, Lineage
  <1>4. \A s \in Request : calls'[s] = IF s = r THEN c ELSE calls[s]
    BY DEF IInv, TypeOK
  <1>5. Fresh'
    BY <1>4 DEF IInv, Fresh
  <1>6. CookieHeld'
    <2> SUFFICES ASSUME NEW t \in Token, t = cookie, rows[t].state = "revoked",
                        t \notin interrupted'
                 PROVE  \E s \in Request : calls'[s].token = t /\ Ended(calls'[s])
      BY DEF CookieHeld
    <2>1. PICK s \in Request : calls[s].token = t /\ Ended(calls[s])
      BY DEF IInv, CookieHeld
    <2>2. t # NoToken
      BY SessionsAssumption DEF Token, NoToken
    <2>3. calls'[s].token = t /\ Ended(calls'[s])
      <3>1. CASE s = r
        BY <1>4, <2>1, <2>2, <3>1
      <3>2. CASE s # r
        BY <1>4, <2>1, <3>2
      <3>3. QED
        BY <3>1, <3>2
    <2>4. QED
      BY <2>3
  <1>7. NoSilentOrphan'
    BY <1>4 DEF IInv, NoSilentOrphan, Live, TypeOK, Token, NoToken
  <1>8. QED
    BY <1>1, <1>2, <1>3, <1>5, <1>6, <1>7 DEF IInv

\* The steps that touch neither rows nor the cookie keep the invariant.
LEMMA QuietInv ==
  ASSUME IInv, NEW r \in Request,
         \/ \E op \in {"login", "refresh", "logout"} : Send(r, op)
         \/ ReceiveRefusal(r) \/ Lose(r) \/ LoginRead(r) \/ RefreshRead(r) \/ LogoutRefused(r)
  PROVE  IInv'
  <1>1. /\ calls[r] \in Call /\ CallOK(calls[r], rows)
        /\ cookie \in Token \cup {NoToken} /\ (cookie # NoToken => rows[cookie].state # "free")
        /\ interrupted \subseteq Token /\ stray \subseteq Token
    BY DEF IInv, TypeOK, CallsOK, Fresh
  <1>2. ASSUME NEW op \in {"login", "refresh", "logout"}, Send(r, op) PROVE IInv'
    <2> DEFINE c == [NoCall EXCEPT !.op = op, !.token = IF op = "login" THEN NoToken ELSE cookie]
    <2>1. /\ c \in Call /\ c.op = op /\ c.at = "sent" /\ c.made = NoToken
          /\ c.token = IF op = "login" THEN NoToken ELSE cookie
      BY <1>1 DEF NoCall, Call, Stage
    <2>2. calls' = [calls EXCEPT ![r] = c] /\ calls[r].op = "none"
            /\ UNCHANGED <<rows, expired, active, cookie, access, interrupted, stray>>
      BY <1>2 DEF Send
    <2> HIDE DEF c
    <2>3. CallOK(c, rows)
      BY <1>1, <2>1 DEF CallOK, Ended
    <2>4. calls[r].made = NoToken /\ ~Ended(calls[r])
      BY <1>1, <2>2 DEF CallOK, Ended
    <2>5. QED
      BY <1>1, <2>1, <2>2, <2>3, <2>4, CallStep
  <1>3. CASE ReceiveRefusal(r) \/ Lose(r)
    <2>1. /\ calls' = [calls EXCEPT ![r] = NoCall]
          /\ UNCHANGED <<rows, expired, active, cookie, access>>
      BY <1>3 DEF ReceiveRefusal, Lose
    <2>2. NoCall.token = NoToken /\ NoCall.made = NoToken /\ NoCall \in Call
            /\ CallOK(NoCall, rows)
      BY NoCallOK DEF NoCall
    <2>3. /\ calls[r].made \in stray' \cup {NoToken}
          /\ Ended(calls[r]) => calls[r].token \in interrupted' \cup {NoToken}
          /\ interrupted \subseteq interrupted' /\ stray \subseteq stray'
          /\ interrupted' \subseteq Token /\ stray' \subseteq Token
      BY <1>1, <1>3 DEF ReceiveRefusal, Lose, CallOK, Ended, Call
    <2>4. QED
      BY <2>1, <2>2, <2>3, CallStep
  <1>4. CASE LoginRead(r) \/ RefreshRead(r) \/ LogoutRefused(r)
    <2>1. PICK at \in {"read", "refused"} :
            /\ calls' = [calls EXCEPT ![r] = [calls[r] EXCEPT !.at = at]]
            /\ at = "read" => \/ calls[r].op = "login"
                              \/ calls[r].op = "refresh" /\ calls[r].token # NoToken
      BY <1>4, SessionsAssumption DEF LoginRead, RefreshRead, LogoutRefused, Moves, Usable,
         Live, Token, NoToken
    <2> DEFINE c == [calls[r] EXCEPT !.at = at]
    <2>2. /\ calls[r].op \in {"login", "refresh", "logout"} /\ calls[r].at = "sent"
          /\ UNCHANGED <<rows, expired, active, cookie, access, interrupted, stray>>
      BY <1>4 DEF LoginRead, RefreshRead, LogoutRefused
    <2>3. c \in Call /\ c.op = calls[r].op /\ c.at = at /\ c.token = calls[r].token
            /\ c.made = calls[r].made
      BY <1>1 DEF Call, Stage
    <2>4. calls' = [calls EXCEPT ![r] = c]
      BY <2>1
    <2> HIDE DEF c
    <2>5. CallOK(c, rows) /\ ~Ended(calls[r]) /\ c.made = NoToken
      BY <1>1, <2>1, <2>2, <2>3 DEF CallOK, Ended
    <2>6. QED
      BY <1>1, <2>2, <2>3, <2>4, <2>5, CallStep
  <1>5. QED
    BY <1>2, <1>3, <1>4

\* An answer reaches the browser: its token replaces the cookie, which a request that
\* carried it had ended, or which becomes stray.
LEMMA ReceiveInv ==
  ASSUME IInv, NEW r \in Request, Receive(r)
  PROVE  IInv'
  <1> DEFINE new == IF calls[r].op = "logout" THEN NoToken ELSE calls[r].made
  <1>1. /\ calls[r] \in Call /\ CallOK(calls[r], rows) /\ calls[r].at = "answered"
        /\ rows' = rows /\ interrupted' = interrupted
        /\ calls' = [calls EXCEPT ![r] = NoCall]
        /\ cookie' = new /\ access' \in {access, "valid"}
        /\ stray' = stray \cup Displaced(r)
        /\ cookie \in Token \cup {NoToken}
    BY DEF IInv, TypeOK, CallsOK, Receive
  <1>2. NoCall.token = NoToken /\ NoCall.made = NoToken /\ NoCall \in Call /\ CallOK(NoCall, rows)
    BY NoCallOK DEF NoCall
  <1>3. \A s \in Request : calls'[s] = IF s = r THEN NoCall ELSE calls[s]
    BY <1>1 DEF IInv, TypeOK
  <1>4. calls' \in [Request -> Call] /\ CallsOK'
    BY <1>1, <1>2, CallsStay DEF IInv
  <1>5. calls[r].op \in {"login", "refresh", "logout"}
    BY <1>1 DEF CallOK, Call
  <1>6. /\ new \in Token \cup {NoToken} /\ (new # NoToken => rows[new].state = "live")
        /\ new # NoToken => new = calls[r].made
        /\ calls[r].made \in {new, NoToken}
    BY <1>1, <1>5 DEF CallOK, Call
  <1> HIDE DEF new
  <1>7. TypeOK'
    BY <1>1, <1>4, <1>6 DEF IInv, TypeOK, Receive, Displaced
  <1>8. Fresh'
    BY <1>1, <1>2, <1>3, <1>6 DEF IInv, Fresh
  <1>9. Lineage'
    BY <1>1 DEF IInv, Lineage
  <1>10. CookieHeld'
    BY <1>1, <1>6, SessionsAssumption DEF CookieHeld, Token, NoToken
  <1>11. NoSilentOrphan'
    <2> SUFFICES ASSUME NEW t \in Token, rows[t].state = "live", t # cookie', t \notin stray'
                 PROVE  \E s \in Request : calls'[s].made = t
      BY <1>1 DEF NoSilentOrphan, Live
    <2>1. t # NoToken
      BY SessionsAssumption DEF Token, NoToken
    <2>2. t # cookie
      <3>1. cookie # NoToken /\ cookie = calls[r].token => rows[cookie].state = "revoked"
        BY <1>1, <1>5 DEF CallOK, Ended
      <3>2. QED
        BY <1>1, <2>1, <3>1 DEF Displaced
    <2>3. PICK s \in Request : calls[s].made = t
      BY <1>1, <2>2 DEF IInv, NoSilentOrphan, Live
    <2>4. s # r
      BY <1>1, <1>6, <2>1, <2>3
    <2>5. QED
      BY <1>3, <2>3, <2>4
  <1>12. QED
    BY <1>4, <1>7, <1>8, <1>9, <1>10, <1>11 DEF IInv

-----------------------------------------------------------------------------
\* Steps that write refresh_tokens

\* A token is created: nobody knows it yet, and its answer is on its way.
LEMMA CreateInv ==
  ASSUME IInv, NEW r \in Request, LoginCreate(r) \/ RefreshCreate(r)
  PROVE  IInv'
  <1>1. /\ calls[r] \in Call /\ CallOK(calls[r], rows)
        /\ calls \in [Request -> Call] /\ rows \in [Token -> Row]
        /\ \/ calls[r].op = "login" /\ calls[r].at = "read"
           \/ calls[r].op = "refresh" /\ calls[r].at = "revoked"
        /\ UNCHANGED <<expired, active, cookie, access, interrupted, stray>>
    <2>1. calls[r] \in Call /\ CallOK(calls[r], rows) /\ calls \in [Request -> Call]
            /\ rows \in [Token -> Row]
      BY DEF IInv, TypeOK, CallsOK
    <2>2. /\ \/ calls[r].op = "login" /\ calls[r].at = "read"
             \/ calls[r].op = "refresh" /\ calls[r].at = "revoked"
          /\ UNCHANGED <<expired, active, cookie, access, interrupted, stray>>
      BY DEF LoginCreate, RefreshCreate
    <2>3. QED
      BY <2>1, <2>2
  <1>2. PICK parent \in {NoToken, calls[r].token} :
          /\ Create(r, parent)
          /\ parent # NoToken => calls[r].op = "refresh" /\ parent = calls[r].token
    <2>1. CASE LoginCreate(r)
      BY <2>1 DEF LoginCreate
    <2>2. CASE RefreshCreate(r)
      BY <2>2 DEF RefreshCreate
    <2>3. QED
      BY <2>1, <2>2
  <1>3. PICK t \in Token :
          /\ rows[t].state = "free" /\ (\A s \in 1..(t - 1) : rows[s].state # "free")
          /\ rows' = [rows EXCEPT ![t] = [state |-> "live", from |-> parent]]
          /\ calls' = [calls EXCEPT ![r] = [calls[r] EXCEPT !.at = "answered", !.made = t]]
    BY <1>2 DEF Create
  <1> DEFINE c == [calls[r] EXCEPT !.at = "answered", !.made = t]
  <1>4. /\ c \in Call /\ c.op = calls[r].op /\ c.at = "answered" /\ c.token = calls[r].token
        /\ c.made = t
    BY <1>1 DEF Call, Stage
  <1>5. \A s \in Request : calls'[s] = IF s = r THEN c ELSE calls[s]
    BY <1>1, <1>3
  <1> HIDE DEF c
  <1>6. t # NoToken /\ parent \in Token \cup {NoToken}
    BY <1>1, <1>2, SessionsAssumption DEF Token, NoToken, Call
  <1>7. /\ rows' \in [Token -> Row]
        /\ \A s \in Token : /\ s # t => rows'[s] = rows[s]
                            /\ s = t => rows'[s].state = "live" /\ rows'[s].from = parent
    BY <1>1, <1>3, <1>6 DEF Row
  <1>8. calls' \in [Request -> Call]
    BY <1>1, <1>4, <1>5, <1>3 DEF c
  <1>9. TypeOK'
    <2>1. \A u \in Token : rows'[u].state = "free" => \A s \in u..MaxToken : rows'[s].state = "free"
      <3> SUFFICES ASSUME NEW u \in Token, rows'[u].state = "free", NEW s \in u..MaxToken
                   PROVE  rows'[s].state = "free"
        OBVIOUS
      <3>1. u # t /\ rows[u].state = "free" /\ s \in Token /\ rows[s].state = "free"
        BY <1>7, SessionsAssumption DEF IInv, TypeOK, Token
      <3>2. u > t
        BY <1>3, <3>1, SessionsAssumption DEF Token
      <3>3. s # t
        BY <3>2, SessionsAssumption DEF Token
      <3>4. QED
        BY <1>7, <3>1, <3>3
    <2>2. QED
      BY <1>1, <1>7, <1>8, <2>1 DEF IInv, TypeOK
  <1>10. ASSUME NEW s \in Request PROVE calls[s].token # t /\ calls[s].made # t
    <2>1. CallOK(calls[s], rows)
      BY DEF IInv, CallsOK
    <2>2. QED
      BY <1>3, <1>6, <2>1 DEF CallOK
  <1>11. cookie # t
    BY <1>3, <1>6 DEF IInv, Fresh
  <1>12. CallsOK'
    <2> SUFFICES ASSUME NEW s \in Request PROVE CallOK(calls'[s], rows')
      BY DEF CallsOK
    <2>1. CallOK(calls[s], rows) /\ calls[s] \in Call
      BY <1>1 DEF IInv, CallsOK
    <2>2. CASE s # r
      <3>1. calls'[s] = calls[s]
        BY <1>5, <2>2
      <3>2. /\ calls[s].token # NoToken => rows'[calls[s].token] = rows[calls[s].token]
            /\ calls[s].made # NoToken => rows'[calls[s].made] = rows[calls[s].made]
        BY <1>7, <1>10, <2>1 DEF Call
      <3>3. CallOK(calls[s], rows')
        BY <2>1, <3>2 DEF CallOK
      <3>4. QED
        BY <3>1, <3>3
    <2>3. CASE s = r
      <3>1. calls'[s] = c
        BY <1>5, <2>3
      <3>2. calls[r].token # NoToken => rows'[calls[r].token] = rows[calls[r].token]
        BY <1>1, <1>7, <1>10 DEF Call
      <3>3. CallOK(c, rows')
        BY <1>1, <1>4, <1>6, <1>7, <3>2 DEF CallOK, Ended
      <3>4. QED
        BY <3>1, <3>3
    <2>4. QED
      BY <2>2, <2>3
  <1>13. Fresh'
    <2>1. cookie' # NoToken => rows'[cookie'].state # "free"
      BY <1>1, <1>7, <1>11 DEF IInv, Fresh, TypeOK
    <2>2. calls[r].made = NoToken
      BY <1>1 DEF CallOK
    <2>3. QED
      BY <1>1, <1>4, <1>5, <1>10, <1>11, <2>1, <2>2 DEF IInv, Fresh
  <1>14. Lineage'
    <2> SUFFICES ASSUME NEW s \in Token
                 PROVE  /\ rows'[s].state = "free" => rows'[s].from = NoToken
                        /\ rows'[s].from # NoToken => rows'[rows'[s].from].state = "revoked"
      BY DEF Lineage
    <2>1. parent # NoToken => rows[parent].state = "revoked" /\ parent # t
      BY <1>1, <1>2, <1>3 DEF CallOK, Ended
    <2>2. CASE s = t
      BY <1>6, <1>7, <2>1, <2>2
    <2>3. CASE s # t
      <3>1. rows'[s] = rows[s] /\ rows[s] \in Row
        BY <1>1, <1>7, <2>3
      <3>2. rows[s].from # NoToken => rows[rows[s].from].state = "revoked" /\ rows[s].from # t
        BY <1>3 DEF IInv, Lineage
      <3>3. rows[s].state = "free" => rows[s].from = NoToken
        BY DEF IInv, Lineage
      <3>4. QED
        BY <1>7, <3>1, <3>2, <3>3 DEF Row
    <2>4. QED
      BY <2>2, <2>3
  <1>15. CookieHeld'
    <2> SUFFICES ASSUME NEW u \in Token, u = cookie', rows'[u].state = "revoked",
                        u \notin interrupted'
                 PROVE  \E s \in Request : calls'[s].token = u /\ Ended(calls'[s])
      BY DEF CookieHeld
    <2>1. u = cookie /\ rows[u].state = "revoked" /\ u \notin interrupted
      BY <1>1, <1>7, <1>11
    <2>2. PICK s \in Request : calls[s].token = u /\ Ended(calls[s])
      BY <2>1 DEF IInv, CookieHeld
    <2>3. calls'[s].token = u /\ Ended(calls'[s])
      BY <1>1, <1>4, <1>5, <2>2 DEF Ended
    <2>4. QED
      BY <2>3
  <1>16. NoSilentOrphan'
    <2> SUFFICES ASSUME NEW u \in Token, rows'[u].state = "live", u # cookie', u \notin stray'
                 PROVE  \E s \in Request : calls'[s].made = u
      BY DEF NoSilentOrphan, Live
    <2>1. CASE u = t
      BY <1>4, <1>5, <2>1
    <2>2. CASE u # t
      <3>1. rows[u].state = "live"
        BY <1>7, <2>2
      <3>2. PICK s \in Request : calls[s].made = u
        BY <1>1, <3>1 DEF IInv, NoSilentOrphan, Live
      <3>3. calls[r].made = NoToken /\ u # NoToken
        BY <1>1, SessionsAssumption DEF CallOK, Token, NoToken
      <3>4. QED
        BY <1>5, <3>2, <3>3
    <2>3. QED
      BY <2>1, <2>2
  <1>17. QED
    BY <1>9, <1>12, <1>13, <1>14, <1>15, <1>16 DEF IInv

\* A row is revoked by the request that carries its token, which holds no new one.
LEMMA RevokeInv ==
  ASSUME IInv, NEW r \in Request, NEW c \in Call,
         calls' = [calls EXCEPT ![r] = c],
         c.op = calls[r].op, c.token = calls[r].token, c.made = NoToken,
         calls[r].made = NoToken, Ended(c), c.at \in {"revoked", "answered"},
         c.op = "refresh" => c.at = "revoked" /\ c.token # NoToken,
         UNCHANGED <<expired, active, cookie, access, interrupted, stray>>,
         rows' \in [Token -> Row],
         \A t \in Token : /\ rows'[t].from = rows[t].from
                          /\ t # calls[r].token => rows'[t] = rows[t],
         calls[r].token # NoToken => rows'[calls[r].token].state = "revoked"
  PROVE  IInv'
  <1>1. /\ calls \in [Request -> Call] /\ rows \in [Token -> Row]
        /\ calls[r] \in Call /\ CallOK(calls[r], rows)
    BY DEF IInv, TypeOK, CallsOK
  <1>2. \A s \in Request : calls'[s] = IF s = r THEN c ELSE calls[s]
    BY <1>1
  <1>3. \A t \in Token : /\ rows'[t].state = "free" <=> rows[t].state = "free"
                         /\ rows'[t].state = "live" => rows[t].state = "live"
                         /\ rows[t].state = "revoked" => rows'[t].state = "revoked"
                         /\ rows'[t].state = "revoked"
                              => rows[t].state = "revoked" \/ t = calls[r].token
    <2> TAKE t \in Token
    <2>1. CASE t # calls[r].token
      BY <2>1
    <2>2. CASE t = calls[r].token
      <3>1. t # NoToken
        BY SessionsAssumption DEF Token, NoToken
      <3>2. QED
        BY <1>1, <2>2, <3>1 DEF CallOK
    <2>3. QED
      BY <2>1, <2>2
  <1>4. TypeOK'
    <2>1. calls' \in [Request -> Call]
      BY <1>1
    <2>2. \A t \in Token : t..MaxToken \subseteq Token
      BY SessionsAssumption DEF Token
    <2>3. \A t \in Token : rows'[t].state = "free" => \A s \in t..MaxToken : rows'[s].state = "free"
      BY <1>3, <2>2 DEF IInv, TypeOK
    <2>4. QED
      BY <2>1, <2>3 DEF IInv, TypeOK
  <1>5. CallsOK'
    <2> SUFFICES ASSUME NEW s \in Request PROVE CallOK(calls'[s], rows')
      BY DEF CallsOK
    <2>1. CallOK(calls[s], rows) /\ calls[s] \in Call
      BY <1>1 DEF IInv, CallsOK
    <2>2. CASE s # r
      <3>1. calls'[s] = calls[s]
        BY <1>2, <2>2
      <3>2. calls[s].made # NoToken => rows'[calls[s].made] = rows[calls[s].made]
        BY <2>1 DEF IInv, Fresh, Call
      <3>3. calls[s].token \in Token \cup {NoToken}
        BY <2>1 DEF Call
      <3>4. CallOK(calls[s], rows')
        BY <1>3, <2>1, <3>2, <3>3 DEF CallOK
      <3>5. QED
        BY <3>1, <3>4
    <2>3. CASE s = r
      <3>1. calls'[s] = c
        BY <1>2, <2>3
      <3>2. CallOK(c, rows')
        BY <1>1, <1>3 DEF CallOK, Ended
      <3>3. QED
        BY <3>1, <3>2
    <2>4. QED
      BY <2>2, <2>3
  <1>6. Fresh'
    <2>1. cookie' # NoToken => rows'[cookie'].state # "free"
      BY <1>3 DEF IInv, Fresh, TypeOK
    <2>2. QED
      BY <1>2, <2>1 DEF IInv, Fresh
  <1>7. Lineage'
    <2>1. \A s \in Token : rows[s].from \in Token \cup {NoToken}
      BY <1>1 DEF Row
    <2>2. QED
      BY <1>3, <2>1 DEF IInv, Lineage
  <1>8. CookieHeld'
    <2> SUFFICES ASSUME NEW t \in Token, t = cookie', rows'[t].state = "revoked",
                        t \notin interrupted'
                 PROVE  \E s \in Request : calls'[s].token = t /\ Ended(calls'[s])
      BY DEF CookieHeld
    <2>1. CASE t = calls[r].token
      BY <1>2, <2>1
    <2>2. CASE t # calls[r].token
      <3>1. PICK s \in Request : calls[s].token = t /\ Ended(calls[s])
        BY <1>3, <2>2 DEF IInv, CookieHeld
      <3>2. QED
        BY <1>2, <2>2, <3>1
    <2>3. QED
      BY <2>1, <2>2
  <1>9. NoSilentOrphan'
    <2> SUFFICES ASSUME NEW t \in Token, rows'[t].state = "live", t # cookie', t \notin stray'
                 PROVE  \E s \in Request : calls'[s].made = t
      BY DEF NoSilentOrphan, Live
    <2>1. PICK s \in Request : calls[s].made = t
      BY <1>3 DEF IInv, NoSilentOrphan, Live
    <2>2. t # NoToken
      BY SessionsAssumption DEF Token, NoToken
    <2>3. QED
      BY <1>2, <2>1, <2>2
  <1>10. QED
    BY <1>4, <1>5, <1>6, <1>7, <1>8, <1>9 DEF IInv

\* RefreshRevoke and Logout are such steps.
LEMMA EndingInv ==
  ASSUME IInv, NEW r \in Request, RefreshRevoke(r) \/ Logout(r)
  PROVE  IInv'
  <1> DEFINE at == IF calls[r].op = "refresh" THEN "revoked" ELSE "answered"
             c == [calls[r] EXCEPT !.at = at]
  <1>1. /\ calls \in [Request -> Call] /\ rows \in [Token -> Row]
        /\ calls[r] \in Call /\ CallOK(calls[r], rows)
    BY DEF IInv, TypeOK, CallsOK
  <1>2. /\ calls' = [calls EXCEPT ![r] = c]
        /\ UNCHANGED <<expired, active, cookie, access, interrupted, stray>>
        /\ \/ calls[r].op = "refresh" /\ calls[r].at = "read"
           \/ calls[r].op = "logout" /\ calls[r].at = "sent"
    <2>1. CASE RefreshRevoke(r)
      BY <2>1 DEF RefreshRevoke, Moves
    <2>2. CASE Logout(r)
      BY <2>2 DEF Logout, Moves
    <2>3. QED
      BY <2>1, <2>2
  <1>3. /\ c \in Call /\ c.op = calls[r].op /\ c.at = at /\ c.token = calls[r].token
        /\ c.made = calls[r].made /\ at \in {"revoked", "answered"}
    BY <1>1 DEF Call, Stage
  <1>4. calls[r].made = NoToken /\ (calls[r].op = "refresh" => calls[r].token # NoToken)
    BY <1>1, <1>2 DEF CallOK
  <1>5. Ended(c) /\ (c.op = "refresh" => c.at = "revoked")
    BY <1>2, <1>3 DEF Ended
  <1>6. /\ rows' \in [Token -> Row]
        /\ \A t \in Token : /\ rows'[t].from = rows[t].from
                            /\ t # calls[r].token => rows'[t] = rows[t]
        /\ calls[r].token # NoToken => rows'[calls[r].token].state = "revoked"
    <2>1. CASE RefreshRevoke(r)
      <3>1. rows' = [rows EXCEPT ![calls[r].token] = [rows[calls[r].token] EXCEPT !.state = "revoked"]]
              /\ calls[r].token \in Token
        BY <1>1, <1>4, <2>1 DEF RefreshRevoke, Call
      <3>2. QED
        BY <1>1, <3>1 DEF Row
    <2>2. CASE Logout(r)
      <3>1. rows' = [t \in Token |-> IF t = calls[r].token /\ rows[t].state = "live"
                                     THEN [rows[t] EXCEPT !.state = "revoked"] ELSE rows[t]]
        BY <2>2 DEF Logout
      <3>2. /\ rows' \in [Token -> Row]
            /\ \A t \in Token : /\ rows'[t].from = rows[t].from
                                /\ t # calls[r].token => rows'[t] = rows[t]
                                /\ t = calls[r].token /\ rows[t].state # "free"
                                     => rows'[t].state = "revoked"
        BY <1>1, <3>1 DEF Row
      <3>3. calls[r].token # NoToken => calls[r].token \in Token /\ rows[calls[r].token].state # "free"
        BY <1>1 DEF CallOK, Call
      <3>4. QED
        BY <3>2, <3>3
    <2>3. QED
      BY <2>1, <2>2
  <1> HIDE DEF at, c
  <1>7. QED
    BY <1>2, <1>3, <1>4, <1>5, <1>6, RevokeInv

\* IInv holds at the start and every step keeps it.
LEMMA Induction ==
  /\ Init => IInv
  /\ IInv /\ [Next]_vars => IInv'
  <1>1. Init => IInv
    <2> SUFFICES ASSUME Init PROVE IInv
      OBVIOUS
    <2>1. TypeOK
      <3>1. rows \in [Token -> Row]
        BY DEF Init, Row
      <3>2. \A t \in Token : t..MaxToken \subseteq Token
        BY SessionsAssumption DEF Token
      <3>3. calls \in [Request -> Call]
        BY NoCallOK DEF Init
      <3>4. QED
        BY <3>1, <3>2, <3>3 DEF Init, TypeOK
    <2>2. CallsOK
      BY NoCallOK DEF Init, CallsOK
    <2>3. Fresh /\ Lineage /\ CookieHeld /\ NoSilentOrphan
      BY SessionsAssumption DEF Init, Fresh, Lineage, CookieHeld, NoSilentOrphan, Live, NoCall,
         Token, NoToken
    <2>4. QED
      BY <2>1, <2>2, <2>3 DEF IInv
  <1>2. ASSUME IInv, [Next]_vars PROVE IInv'
    <2>1. CASE UNCHANGED vars
      BY <1>2, <2>1 DEF vars, IInv, TypeOK, CallsOK, Fresh, Lineage, CookieHeld,
         NoSilentOrphan, Live
    <2>2. CASE AccessExpires \/ (\E t \in Token : Expire(t)) \/ Deactivate
      BY <1>2, <2>2, ZenonT(60) DEF AccessExpires, Expire, Deactivate, IInv, TypeOK, CallsOK, Fresh,
         Lineage, CookieHeld, NoSilentOrphan, Live
    <2>3. ASSUME NEW r \in Request, Step(r) PROVE IInv'
      BY <1>2, <2>3, QuietInv, ReceiveInv, CreateInv, EndingInv DEF Step
    <2>4. QED
      BY <1>2, <2>1, <2>2, <2>3 DEF Next
  <1>3. QED
    BY <1>1, <1>2

-----------------------------------------------------------------------------
\* The results

\* IInv holds in every state, whatever requests overlap, lose their answers or die.
THEOREM InductiveInvariant == Spec => []IInv
  BY Induction, PTL DEF Spec

\* Rows, requests and the cookie keep their types, and no row is taken away.
THEOREM TypeCorrect == Spec => []TypeOK
  BY InductiveInvariant, PTL DEF IInv

\* AuthService: no live token is left behind but by a lost answer, a login over it or
\* overlapping requests.
THEOREM NoOrphan == Spec => []NoSilentOrphan
  BY InductiveInvariant, PTL DEF IInv

\* AuthService.refresh and logout: a revoked token stays in the browser only while the
\* request that revoked it is under way, or after one whose answer never came.
THEOREM CookieWorks == Spec => []CookieUsable
  <1>1. CookieHeld => CookieUsable
    BY DEF CookieHeld, CookieUsable
  <1>2. QED
    BY <1>1, InductiveInvariant, PTL DEF IInv

-----------------------------------------------------------------------------
\* Where the successors of a token come from

\* What a step may do to the successors and the readers of token t.
Forks(t) ==
  /\ Successors(t)' # Successors(t) =>
       /\ rows[t].state = "revoked"
       /\ \E r \in Reading(t) \ Reading(t)' :
            Successors(t)' = Successors(t) \cup {calls'[r].made}
  /\ rows[t].state = "revoked" => Reading(t)' \subseteq Reading(t)

\* A step that changes no lineage and at which no request reads a revoked token.
LEMMA QuietForks ==
  ASSUME NEW r \in Request, NEW t \in Token,
         \A s \in Token : rows'[s].from = rows[s].from,
         \A q \in Request : q # r => calls'[q] = calls[q],
         rows[t].state = "revoked" /\ r \in Reading(t)' => r \in Reading(t)
  PROVE  Forks(t)
  <1>1. Successors(t)' = Successors(t)
    BY DEF Successors
  <1>2. rows[t].state = "revoked" => Reading(t)' \subseteq Reading(t)
    BY DEF Reading
  <1>3. QED
    BY <1>1, <1>2 DEF Forks

\* Creating a token gives a successor to the token it was refreshed from, and to no other.
LEMMA CreateForks ==
  ASSUME IInv, NEW r \in Request, LoginCreate(r) \/ RefreshCreate(r), NEW t \in Token
  PROVE  Forks(t)
  <1>1. /\ calls \in [Request -> Call] /\ rows \in [Token -> Row] /\ CallOK(calls[r], rows)
    BY DEF IInv, TypeOK, CallsOK
  <1>2. PICK parent \in {NoToken, calls[r].token} :
          /\ Create(r, parent)
          /\ parent = NoToken => calls[r].op = "login"
          /\ parent # NoToken => /\ calls[r].at = "revoked" /\ parent = calls[r].token
    <2>1. CASE LoginCreate(r)
      BY <2>1 DEF LoginCreate
    <2>2. CASE RefreshCreate(r)
      <3>1. calls[r].token # NoToken
        BY <1>1, <2>2 DEF RefreshCreate, CallOK
      <3>2. QED
        BY <2>2, <3>1 DEF RefreshCreate
    <2>3. QED
      BY <2>1, <2>2
  <1>3. PICK s \in Token :
          /\ rows[s].state = "free"
          /\ rows' = [rows EXCEPT ![s] = [state |-> "live", from |-> parent]]
          /\ calls' = [calls EXCEPT ![r] = [calls[r] EXCEPT !.at = "answered", !.made = s]]
    BY <1>2 DEF Create
  <1>4. t # NoToken
    BY SessionsAssumption DEF Token, NoToken
  <1>5. rows[s].from # t
    BY <1>3, <1>4 DEF IInv, Lineage
  <1>6. /\ rows'[s].from = parent
        /\ \A u \in Token : u # s => rows'[u].from = rows[u].from
    BY <1>1, <1>3
  <1>7. /\ \A q \in Request : q # r => calls'[q] = calls[q]
        /\ calls'[r].at = "answered" /\ calls'[r].made = s
    BY <1>1, <1>3 DEF Call
  <1>8. Reading(t)' = Reading(t) \ {r}
    BY <1>7 DEF Reading
  <1>9. CASE parent = t
    <2>1. Successors(t)' = Successors(t) \cup {s}
      BY <1>6, <1>9 DEF Successors
    <2>2. r \in Reading(t) \ Reading(t)'
      BY <1>2, <1>4, <1>8, <1>9 DEF Reading
    <2>3. rows[t].state = "revoked"
      BY <1>1, <1>2, <1>4, <1>9 DEF CallOK, Ended
    <2>4. QED
      BY <1>7, <1>8, <2>1, <2>2, <2>3 DEF Forks
  <1>10. CASE parent # t
    <2>1. Successors(t)' = Successors(t)
      BY <1>5, <1>6, <1>10 DEF Successors
    <2>2. QED
      BY <1>8, <2>1 DEF Forks
  <1>11. QED
    BY <1>9, <1>10

\* Every step gives a token successors in that way only.
LEMMA ForksStep ==
  ASSUME IInv, [Next]_vars, NEW t \in Token
  PROVE  Forks(t)
  <1>1. calls \in [Request -> Call] /\ rows \in [Token -> Row]
    BY DEF IInv, TypeOK
  <1>2. t # NoToken
    BY SessionsAssumption DEF Token, NoToken
  <1>3. CASE \/ UNCHANGED vars \/ AccessExpires \/ (\E u \in Token : Expire(u)) \/ Deactivate
    <2>1. rows' = rows /\ calls' = calls
      BY <1>3 DEF vars, AccessExpires, Expire, Deactivate
    <2>2. Successors(t)' = Successors(t) /\ Reading(t)' = Reading(t)
      BY <2>1 DEF Successors, Reading
    <2>3. QED
      BY <2>2 DEF Forks
  <1>4. ASSUME NEW r \in Request,
               \/ \E op \in {"login", "refresh", "logout"} : Send(r, op)
               \/ Receive(r) \/ ReceiveRefusal(r) \/ Lose(r)
        PROVE  Forks(t)
    <2>1. PICK c : calls' = [calls EXCEPT ![r] = c] /\ c.at = "sent" /\ rows' = rows
      <3>1. ASSUME NEW op \in {"login", "refresh", "logout"}, Send(r, op)
            PROVE  \E c : calls' = [calls EXCEPT ![r] = c] /\ c.at = "sent" /\ rows' = rows
        <4> DEFINE c == [NoCall EXCEPT
              !.op = op, !.token = IF op = "login" THEN NoToken ELSE cookie]
        <4>1. calls' = [calls EXCEPT ![r] = c] /\ rows' = rows
          BY <3>1 DEF Send
        <4>2. c.at = "sent"
          BY DEF NoCall
        <4> HIDE DEF c
        <4>3. QED
          BY <4>1, <4>2
      <3>2. CASE Receive(r) \/ ReceiveRefusal(r) \/ Lose(r)
        <4>1. calls' = [calls EXCEPT ![r] = NoCall] /\ rows' = rows
          BY <3>2 DEF Receive, ReceiveRefusal, Lose
        <4>2. NoCall.at = "sent"
          BY DEF NoCall
        <4>3. QED
          BY <4>1, <4>2
      <3>3. QED
        BY <1>4, <3>1, <3>2
    <2>2. /\ \A q \in Request : q # r => calls'[q] = calls[q]
          /\ calls'[r].at = "sent"
      BY <1>1, <2>1
    <2>3. r \notin Reading(t)'
      BY <2>2 DEF Reading
    <2>4. QED
      BY <2>1, <2>2, <2>3, QuietForks
  <1>5. ASSUME NEW r \in Request,
               LoginRead(r) \/ RefreshRead(r) \/ RefreshRevoke(r) \/ LogoutRefused(r) \/ Logout(r)
        PROVE  Forks(t)
    <2>1. PICK at \in Stage : calls' = [calls EXCEPT ![r] = [calls[r] EXCEPT !.at = at]]
      <3>1. CASE LoginRead(r) \/ RefreshRead(r) \/ LogoutRefused(r)
        BY <3>1 DEF LoginRead, RefreshRead, LogoutRefused, Moves, Stage
      <3>2. CASE RefreshRevoke(r) \/ Logout(r)
        BY <3>2 DEF RefreshRevoke, Logout, Moves, Stage
      <3>3. QED
        BY <1>5, <3>1, <3>2
    <2>2. /\ \A q \in Request : q # r => calls'[q] = calls[q]
          /\ calls'[r].at = at /\ calls'[r].token = calls[r].token
      BY <1>1, <2>1 DEF Call
    <2>3. CallOK(calls[r], rows) /\ calls[r] \in Call
      BY <1>1 DEF IInv, CallsOK
    <2>4. \A s \in Token : rows'[s].from = rows[s].from
      <3>1. CASE LoginRead(r) \/ RefreshRead(r) \/ LogoutRefused(r)
        BY <3>1 DEF LoginRead, RefreshRead, LogoutRefused
      <3>2. CASE RefreshRevoke(r)
        BY <1>1, <3>2 DEF RefreshRevoke, Row
      <3>3. CASE Logout(r)
        BY <1>1, <3>3 DEF Logout, Row
      <3>4. QED
        BY <1>5, <3>1, <3>2, <3>3
    <2>5. rows[t].state = "revoked" => ~Usable(t)
      BY DEF Usable, Live
    <2>6. rows[t].state = "revoked" /\ r \in Reading(t)' => r \in Reading(t)
      <3> SUFFICES ASSUME rows[t].state = "revoked",
                          calls[r].token = t, at \in {"read", "revoked"}
                   PROVE  calls[r].at \in {"read", "revoked"}
        BY <2>2 DEF Reading
      <3>1. ~LoginRead(r)
        BY <1>2, <2>3 DEF LoginRead, CallOK
      <3>2. CASE RefreshRead(r)
        <4>1. calls'[r].at = "refused"
          BY <1>1, <2>3, <2>5, <3>2 DEF RefreshRead, Moves, Call
        <4>2. QED
          BY <2>2, <4>1
      <3>3. CASE RefreshRevoke(r)
        BY <3>3 DEF RefreshRevoke
      <3>4. ~LogoutRefused(r) /\ ~Logout(r)
        BY <1>1, <2>2, <2>3 DEF LogoutRefused, Logout, Moves, Call
      <3>5. QED
        BY <1>5, <3>1, <3>2, <3>3, <3>4
    <2>7. QED
      BY <2>2, <2>4, <2>6, QuietForks
  <1>6. ASSUME NEW r \in Request, LoginCreate(r) \/ RefreshCreate(r)
        PROVE  Forks(t)
    BY <1>6, CreateForks
  <1>7. QED
    BY <1>3, <1>4, <1>5, <1>6 DEF Next, Step

\* AuthService.refresh: only refreshes that had read a token before it was revoked make its
\* successors, however many requests overlap and however long the user stays.
THEOREM ForksAreFromReaders == Spec => ForksAreConcurrent
  <1>1. IInv /\ [Next]_vars => [\A t \in Token : Forks(t)]_vars
    BY ForksStep
  <1>2. QED
    BY <1>1, InductiveInvariant, PTL DEF Spec, ForksAreConcurrent, Forks
=============================================================================
