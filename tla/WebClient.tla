------------------------------ MODULE WebClient ------------------------------
(***************************************************************************)
(* The browsers around one reporting period: the general contractor's form *)
(* behind the link with the GP token, and the site control's object and    *)
(* period pages with their React Query cache.  Requests and answers travel *)
(* separately and are lost at any point, an access token expires under an  *)
(* open page, and every page acts on what it last received.                *)
(*                                                                         *)
(* The server's handlers are those of PeriodCycle.  Here each is one step, *)
(* except submitGp, whose unlocked check and write one page can run twice  *)
(* at a time.                                                              *)
(***************************************************************************)
EXTENDS Naturals, FiniteSets

CONSTANTS
  GpTabs,      \* tabs opened from the GP's link
  ScTabs,      \* browsers of the site control
  Signed,      \* browsers that start with a live access token in localStorage
  Forms,       \* contents of a completed GP form, signatory included
  MaxSubmits,  \* bound: submissions of one tab under way at a time
  NoForm,
  DetailRuns,  \* the view has the column the object page's query selects (see Analytics)
  MaxRev       \* bound: writes to the period

ASSUME WebAssumption ==
  /\ Signed \subseteq GpTabs \cup ScTabs
  /\ NoForm \notin Forms
  /\ DetailRuns \in BOOLEAN
  /\ MaxSubmits \in Nat /\ MaxRev \in Nat

Slots == 1..MaxSubmits

Status == {"none", "open", "gp_submitted", "verification", "closed"}

\* A state of the period, numbered in the order of the writes that made it, and
\* whether a discrepancy is open.
Snapshot == [rev : 0..MaxRev, status : Status, disputed : BOOLEAN]

NoSnapshot == [rev |-> 0, status |-> "none", disputed |-> FALSE]

\* GpFormPage: the query's answer before it arrives, and what the page shows.
GpAnswer == {"none", "unauthorized", "expired", "already", "valid"}
GpPhase  == {"unopened", "loading", "form", "expired", "already", "success"}

GpPage == [phase  : GpPhase,
           answer : GpAnswer,
           form   : Forms \cup {NoForm},     \* what is filled in, or shown as sent
           sent   : Forms \cup {NoForm},     \* what the latest submission holds
           edited : BOOLEAN,                 \* history: changed while that was under way
           latest : 0..MaxSubmits]           \* the mutation the page observes

Unopened == [phase |-> "unopened", answer |-> "none", form |-> NoForm,
             sent |-> NoForm, edited |-> FALSE, latest |-> 0]

Submission == [state : {"idle", "sent", "checked", "ok", "refused"},
               form  : Forms \cup {NoForm}]

NoSubmission == [state |-> "idle", form |-> NoForm]

\* A query of the cache: its data and the fetch that may be replacing them.
Query == {"objectDetail", "period"}

Entry == [known   : BOOLEAN,
          data    : Snapshot,
          failed  : BOOLEAN,                 \* isError
          invalid : BOOLEAN,                 \* isInvalidated
          fetch   : {"idle", "asked", "read", "answered", "refused"},
          part    : Snapshot]                \* the answer under way

Empty == [known |-> FALSE, data |-> NoSnapshot, failed |-> FALSE, invalid |-> FALSE,
          fetch |-> "idle", part |-> NoSnapshot]

\* The site control's mutations, one at a time of each: isPending disables the button.
Mutation == {"open", "fact", "close"}
Call     == [state : {"idle", "sent", "ok", "refused"}, rev : 0..MaxRev]

NoCall == [state |-> "idle", rev |-> 0]

VARIABLES
  period,     \* the server's period
  gp,         \* the GP's accepted data; NoForm: gpSubmittedAt is null
  accepted,   \* history: every form a submission stored
  expired,    \* gpTokenExpiresAt has passed
  signed,     \* browsers whose access token JwtAuthGuard accepts
  pages,      \* the GP tabs
  submits,    \* their submissions under way
  view,       \* the page each site control browser shows
  cache,      \* its query cache
  calls,      \* its mutations
  acked       \* history: newest own write acknowledged to the page in view

server == <<period, gp, accepted, expired, signed>>
gpSide == <<pages, submits>>
scSide == <<view, cache, calls, acked>>
vars   == <<server, gpSide, scSide>>

Init ==
  /\ period = NoSnapshot
  /\ gp = NoForm /\ accepted = {} /\ expired = FALSE
  /\ signed = Signed
  /\ pages = [t \in GpTabs |-> Unopened]
  /\ submits = [t \in GpTabs |-> [s \in Slots |-> NoSubmission]]
  /\ view = [t \in ScTabs |-> "objectDetail"]
  /\ cache = [t \in ScTabs |-> [q \in Query |-> Empty]]
  /\ calls = [t \in ScTabs |-> [m \in Mutation |-> NoCall]]
  /\ acked = [t \in ScTabs |-> 0]

\* A write to the period's row and facts.
Write(status) ==
  /\ period.rev < MaxRev
  /\ period' = [period EXCEPT !.rev = @ + 1, !.status = status]

-----------------------------------------------------------------------------
\* The GP's page

\* assertGpTokenValid.
TokenCheck ==
  IF expired THEN "expired" ELSE IF gp # NoForm THEN "already" ELSE "valid"

\* The GP routes carry no @Public, so the global JwtAuthGuard comes first.
GpRoute(t) == IF t \in signed THEN TokenCheck ELSE "unauthorized"

\* The link exists once openPeriod has made the token; loading it anew leaves the
\* submissions of the old page to the server.
OpenGpPage(t) ==
  /\ period.status # "none"
  /\ pages' = [pages EXCEPT ![t] = [Unopened EXCEPT !.phase = "loading"]]
  /\ UNCHANGED <<server, submits, scSide>>

GetGpForm(t) ==
  /\ pages[t].phase = "loading" /\ pages[t].answer = "none"
  /\ pages' = [pages EXCEPT ![t].answer = GpRoute(t)]
  /\ UNCHANGED <<server, submits, scSide>>

\* getGpError: whatever is not "already submitted" is shown as an expired link.
GpShown(answer) ==
  CASE answer = "valid" -> "form" [] answer = "already" -> "already" [] OTHER -> "expired"

GpFormArrives(t) ==
  /\ pages[t].phase = "loading" /\ pages[t].answer # "none"
  /\ pages' = [pages EXCEPT ![t].phase = GpShown(pages[t].answer)]
  /\ UNCHANGED <<server, submits, scSide>>

GpFormLost(t) ==
  /\ pages[t].phase = "loading"
  /\ pages' = [pages EXCEPT ![t].phase = "expired"]
  /\ UNCHANGED <<server, submits, scSide>>

\* The inputs stay open while a submission is under way.
UnderWay(t) == \E s \in Slots : pages[t].latest = s /\ submits[t][s].state # "idle"

FillForm(t, f) ==
  /\ pages[t].phase = "form"
  /\ pages' = [pages EXCEPT ![t].form = f, ![t].edited = @ \/ UnderWay(t)]
  /\ UNCHANGED <<server, submits, scSide>>

\* handleSubmit: a pending submission does not disable the button.
SubmitForm(t, s) ==
  /\ pages[t].phase = "form" /\ pages[t].form # NoForm
  /\ submits[t][s].state = "idle" /\ \A u \in 1..(s - 1) : submits[t][u].state # "idle"
  /\ submits' = [submits EXCEPT ![t][s] = [state |-> "sent", form |-> pages[t].form]]
  /\ pages' = [pages EXCEPT ![t].sent = pages[t].form, ![t].edited = FALSE, ![t].latest = s]
  /\ UNCHANGED <<server, scSide>>

SubmitRead(t, s) ==
  /\ submits[t][s].state = "sent"
  /\ submits' = [submits EXCEPT ![t][s].state =
                   IF GpRoute(t) = "valid" /\ period.status = "open" THEN "checked"
                   ELSE "refused"]
  /\ UNCHANGED <<server, pages, scSide>>

\* Nothing is locked between the check and this write.
SubmitCommit(t, s) ==
  /\ submits[t][s].state = "checked"
  /\ Write("gp_submitted")
  /\ gp' = submits[t][s].form
  /\ accepted' = accepted \cup {submits[t][s].form}
  /\ submits' = [submits EXCEPT ![t][s].state = "ok"]
  /\ UNCHANGED <<expired, signed, pages, scSide>>

\* setSuccess: the inputs are gone for good, and the page shows what they held last.
Succeeded(page) == [page EXCEPT !.phase = "success", !.answer = "none", !.latest = 0]

\* Mutation: the page observes every mutation, not the latest.
SubmitAnswerAny(t, s) ==
  /\ submits[t][s].state \in {"ok", "refused"}
  /\ submits' = [submits EXCEPT ![t][s] = NoSubmission]
  /\ pages' = IF submits[t][s].state = "ok" /\ pages[t].phase = "form"
              THEN [pages EXCEPT ![t] = Succeeded(@)] ELSE pages
  /\ UNCHANGED <<server, scSide>>

\* mutate's own onSuccess is called for the latest mutation only; a refusal is
\* shown nowhere.
SubmitAnswer(t, s) ==
  /\ submits[t][s].state \in {"ok", "refused"}
  /\ submits' = [submits EXCEPT ![t][s] = NoSubmission]
  /\ pages' = IF submits[t][s].state = "ok" /\ pages[t].latest = s
              THEN [pages EXCEPT ![t] = Succeeded(@)] ELSE pages
  /\ UNCHANGED <<server, scSide>>

\* The request never reached the server, or its answer never came back.
SubmitLost(t, s) ==
  /\ submits[t][s].state \in {"sent", "ok", "refused"}
  /\ submits' = [submits EXCEPT ![t][s] = NoSubmission]
  /\ UNCHANGED <<server, pages, scSide>>

-----------------------------------------------------------------------------
\* The site control's queries

\* Mutation: a fetch under way is left to finish.
FetchingDeduplicated(e) ==
  IF e.fetch = "idle" THEN [e EXCEPT !.fetch = "asked"] ELSE e

\* A fresh fetch; the answer of one that was under way is dropped if the query has data,
\* and waited for if this is its first load.
Fetching(e) ==
  IF e.fetch # "idle" /\ ~e.known THEN e
  ELSE [e EXCEPT !.fetch = "asked", !.part = NoSnapshot]

\* invalidateQueries in the onSuccess of the hooks: a mounted query is fetched
\* anew, another one only marked.
Invalidated(t, qs) ==
  [q \in Query |->
     IF q \notin qs THEN cache[t][q]
     ELSE IF q = view[t] THEN Fetching(cache[t][q])
     ELSE [cache[t][q] EXCEPT !.invalid = TRUE]]

\* Mounting a page: a query without good data is fetched, and so is one older
\* than its staleTime, unless a fetch is under way.
Mounted(e, aged) ==
  IF e.fetch = "idle" /\ (~e.known \/ e.failed \/ e.invalid \/ aged)
  THEN [e EXCEPT !.fetch = "asked"] ELSE e

Navigate(t, q) ==
  /\ q = "period" => cache[t]["objectDetail"].data.status # "none"
  /\ \E aged \in BOOLEAN :
       cache' = [cache EXCEPT ![t][q] = Mounted(cache[t][q], aged)]
  /\ view' = [view EXCEPT ![t] = q]
  /\ acked' = [acked EXCEPT ![t] = 0]
  /\ UNCHANGED <<server, gpSide, calls>>

\* The window regains focus and the data are older than the staleTime.
Refocus(t) ==
  /\ cache[t][view[t]].fetch = "idle"
  /\ cache' = [cache EXCEPT ![t][view[t]] = Fetching(cache[t][view[t]])]
  /\ UNCHANGED <<server, gpSide, view, calls, acked>>

\* What the two pages are given of the period: its status, or its positions too,
\* whose discrepancies are counted next.
Answer(q) == [rev |-> IF q = "period" THEN period.rev ELSE 0,
              status |-> period.status, disputed |-> FALSE]

QueryRead(t, q) ==
  /\ cache[t][q].fetch = "asked"
  /\ cache' = [cache EXCEPT ![t][q] =
                 IF t \notin signed \/ (q = "objectDetail" /\ ~DetailRuns)
                 THEN [cache[t][q] EXCEPT !.fetch = "refused"]
                 ELSE [cache[t][q] EXCEPT
                         !.fetch = IF q = "period" THEN "read" ELSE "answered",
                         !.part  = Answer(q)]]
  /\ UNCHANGED <<server, gpSide, view, calls, acked>>

\* getDetail counts the open discrepancies in a statement of its own.
QueryCount(t) ==
  /\ cache[t]["period"].fetch = "read"
  /\ cache' = [cache EXCEPT ![t]["period"].fetch = "answered",
                            ![t]["period"].part.disputed = period.disputed]
  /\ UNCHANGED <<server, gpSide, view, calls, acked>>

QueryArrives(t, q) ==
  /\ cache[t][q].fetch = "answered"
  /\ cache' = [cache EXCEPT ![t][q] = [Empty EXCEPT !.known = TRUE, !.data = cache[t][q].part]]
  /\ UNCHANGED <<server, gpSide, view, calls, acked>>

\* Refused or lost, the retry included (a fetch is its last attempt): the page says
\* "not found", whatever data it had.
QueryFails(t, q) ==
  /\ cache[t][q].fetch # "idle"
  /\ cache' = [cache EXCEPT ![t][q] = [@ EXCEPT !.fetch = "idle", !.part = NoSnapshot,
                                                !.failed = TRUE]]
  /\ UNCHANGED <<server, gpSide, view, calls, acked>>

-----------------------------------------------------------------------------
\* The site control's buttons and what the server makes of them

\* What the page in view shows: isError hides data the cache still has.
Shows(t, q) == view[t] = q /\ cache[t][q].known /\ ~cache[t][q].failed

\* The buttons, as far as the cached data enable them.
Enabled(t, m) ==
  LET object == cache[t]["objectDetail"].data  detail == cache[t]["period"].data IN
  \/ m = "open" /\ Shows(t, "objectDetail") /\ object.status = "none"
  \/ m = "fact" /\ Shows(t, "period") /\ detail.status \in {"gp_submitted", "verification"}
  \/ m = "close" /\ Shows(t, "period") /\ detail.status = "verification" /\ ~detail.disputed

Click(t, m) ==
  /\ Enabled(t, m)
  /\ calls[t][m].state = "idle"
  /\ calls' = [calls EXCEPT ![t][m].state = "sent"]
  /\ UNCHANGED <<server, gpSide, view, cache, acked>>

\* openPeriod, upsertPeriodFact and closePeriod, by the status they ask for.
\* Bound: one period, so a second opening stays on its way.
Accepts(m) ==
  \/ m = "open" /\ period.status = "none"
  \/ m = "fact" /\ period.status \in {"gp_submitted", "verification"}
  \/ m = "fact" /\ period.status = "open" /\ expired
  \/ m = "close" /\ period.status = "verification" /\ ~period.disputed

After(m) ==
  CASE m = "open" -> "open" [] m = "close" -> "closed"
    [] m = "fact" -> IF period.status = "gp_submitted" THEN "verification" ELSE period.status

Serve(t, m) ==
  /\ calls[t][m].state = "sent"
  /\ m = "open" => period.status # "closed"
  /\ IF t \in signed /\ Accepts(m)
     THEN /\ Write(After(m))
          /\ calls' = [calls EXCEPT ![t][m] = [state |-> "ok", rev |-> period.rev + 1]]
     ELSE /\ calls' = [calls EXCEPT ![t][m].state = "refused"]
          /\ UNCHANGED period
  /\ UNCHANGED <<gp, accepted, expired, signed, gpSide, view, cache, acked>>

\* Mutation: useClosePeriod invalidates the object page alone.
InvalidatesObject(m) == IF m = "fact" THEN {"period"} ELSE {"objectDetail"}

\* The queries each hook invalidates; the dashboard is not in view here.
Invalidates(m) ==
  CASE m = "open" -> {"objectDetail"} [] m = "fact" -> {"period"}
    [] m = "close" -> {"period", "objectDetail"}

\* The object page follows a successful opening to the period's page.
Succeeds(t, m) ==
  LET opens == m = "open" /\ view[t] = "objectDetail"
      fresh == Invalidated(t, Invalidates(m)) IN
  /\ calls[t][m].state = "ok"
  /\ calls' = [calls EXCEPT ![t][m] = NoCall]
  /\ cache' = [cache EXCEPT ![t] =
                 IF opens THEN [fresh EXCEPT !["period"] = Mounted(@, FALSE)] ELSE fresh]
  /\ view' = [view EXCEPT ![t] = IF opens THEN "period" ELSE @]
  /\ acked' = [acked EXCEPT ![t] =
                 IF view[t] = "period" /\ m # "open" /\ calls[t][m].rev > @
                 THEN calls[t][m].rev ELSE @]
  /\ UNCHANGED <<server, gpSide>>

\* A refusal, a lost request or a lost answer: an error text, and no invalidation.
Fails(t, m) ==
  /\ calls[t][m].state # "idle"
  /\ calls' = [calls EXCEPT ![t][m] = NoCall]
  /\ UNCHANGED <<server, gpSide, view, cache, acked>>

-----------------------------------------------------------------------------
\* What happens to a period apart from these pages

DisputeOpened ==
  /\ period.status = "verification"
  /\ period' = [period EXCEPT !.disputed = TRUE]
  /\ UNCHANGED <<gp, accepted, expired, signed, gpSide, scSide>>

DisputeEnds ==
  /\ period.disputed
  /\ period' = [period EXCEPT !.disputed = FALSE]
  /\ UNCHANGED <<gp, accepted, expired, signed, gpSide, scSide>>

LinkExpires ==
  /\ period.status # "none"
  /\ expired' = TRUE
  /\ UNCHANGED <<period, gp, accepted, signed, gpSide, scSide>>

\* 15 minutes after the login; the web client never refreshes its token.
AccessExpires(b) ==
  /\ b \in signed
  /\ signed' = signed \ {b}
  /\ UNCHANGED <<period, gp, accepted, expired, gpSide, scSide>>

-----------------------------------------------------------------------------
GpStep(t) ==
  \/ OpenGpPage(t) \/ GetGpForm(t) \/ GpFormArrives(t) \/ GpFormLost(t)
  \/ \E f \in Forms : FillForm(t, f)
  \/ \E s \in Slots : \/ SubmitForm(t, s) \/ SubmitRead(t, s) \/ SubmitCommit(t, s)
                      \/ SubmitAnswer(t, s) \/ SubmitLost(t, s)

ScStep(t) ==
  \/ Refocus(t) \/ QueryCount(t)
  \/ \E q \in Query : \/ Navigate(t, q) \/ QueryRead(t, q)
                      \/ QueryArrives(t, q) \/ QueryFails(t, q)
  \/ \E m \in Mutation : Click(t, m) \/ Serve(t, m) \/ Succeeds(t, m) \/ Fails(t, m)

Next ==
  \/ \E t \in GpTabs : GpStep(t)
  \/ \E t \in ScTabs : ScStep(t)
  \/ \E b \in GpTabs \cup ScTabs : AccessExpires(b)
  \/ DisputeOpened \/ DisputeEnds \/ LinkExpires

Spec == Init /\ [][Next]_vars

\* A query that was started is answered or fails: the browser and the server see
\* to it.  Nothing obliges a user to click, to stay or to come back.
QueryStep(t, q) ==
  \/ QueryRead(t, q) \/ QueryArrives(t, q)
  \/ q = "period" /\ QueryCount(t)
  \/ cache[t][q].fetch = "refused" /\ QueryFails(t, q)

FairSpec == Spec /\ \A t \in ScTabs, q \in Query : WF_vars(QueryStep(t, q))

-----------------------------------------------------------------------------
\* Pages, caches and requests keep their types, and the period says it was submitted
\* exactly when a form was stored.
TypeOK ==
  /\ period \in Snapshot
  /\ gp \in Forms \cup {NoForm} /\ accepted \subseteq Forms /\ expired \in BOOLEAN
  /\ signed \subseteq Signed
  /\ pages \in [GpTabs -> GpPage]
  /\ submits \in [GpTabs -> [Slots -> Submission]]
  /\ view \in [ScTabs -> Query]
  /\ cache \in [ScTabs -> [Query -> Entry]]
  /\ calls \in [ScTabs -> [Mutation -> Call]]
  /\ acked \in [ScTabs -> 0..MaxRev]
  /\ gp = NoForm <=> accepted = {}

\* "Данные переданы" is shown only when the server stored what the page sent last, and
\* the signatory it is shown over is the stored one, unless the inputs were changed while
\* that submission was under way; neither an earlier submission's answer nor a refusal
\* raises it.
SuccessMeansAccepted ==
  \A t \in GpTabs :
    LET page == pages[t] IN
    page.phase = "success" =>
      /\ page.sent \in accepted
      /\ page.form \in accepted \/ page.edited

\* A period page at rest that was told of its own accepted fact or close shows a
\* state at least that new, whatever fetch was under way when it was told.
ReadsItsWrites ==
  \A t \in ScTabs :
    LET e == cache[t]["period"] IN
    view[t] = "period" /\ e.fetch = "idle" /\ ~e.failed => e.data.rev >= acked[t]

\* A period page left in view gets to show its own acknowledged write, or says that
\* it could not load.
OwnWriteShown ==
  \A t \in ScTabs :
    LET e == cache[t]["period"] IN
    e.data.rev < acked[t] ~> e.data.rev >= acked[t] \/ e.failed \/ view[t] # "period"
=============================================================================
