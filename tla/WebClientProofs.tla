---------------------------- MODULE WebClientProofs ----------------------------
(***************************************************************************)
(* Proofs about WebClient for any number of tabs, forms, submissions and   *)
(* writes.  The link's side and the site control's side meet in the period *)
(* only, so each has an inductive invariant of its own.                    *)
(***************************************************************************)
EXTENDS WebClient, TLAPS

-----------------------------------------------------------------------------
\* The GP's side

\* A submission holds the form it was sent with until its slot is free again, and
\* has been stored once it says so; the one that the page observes is the page's own, and
\* what is filled in is what it holds until it is changed.
Submitted(t, s) ==
  /\ submits[t][s].state # "idle" => submits[t][s].form \in Forms
  /\ submits[t][s].state = "ok" => submits[t][s].form \in accepted
  /\ submits[t][s].state # "idle" /\ pages[t].latest = s =>
       /\ submits[t][s].form = pages[t].sent
       /\ pages[t].form = pages[t].sent \/ pages[t].edited

\* What page may say of a success.
Stored(page) == page.sent \in accepted /\ (page.form \in accepted \/ page.edited)

GpTyped ==
  /\ gp \in Forms \cup {NoForm} /\ accepted \subseteq Forms
  /\ gp = NoForm <=> accepted = {}
  /\ pages \in [GpTabs -> GpPage]
  /\ submits \in [GpTabs -> [Slots -> Submission]]

GpInv ==
  /\ GpTyped
  /\ \A t \in GpTabs, s \in Slots : Submitted(t, s)
  /\ SuccessMeansAccepted

\* The submission of tab t in slot s goes over to state x.
StateBecomes(t, s, x) == submits' = [submits EXCEPT ![t][s].state = x]

LEMMA SubmissionChanges ==
  ASSUME GpTyped, NEW t \in GpTabs, NEW s \in Slots, NEW n \in Submission,
         submits' = [submits EXCEPT ![t][s] = n]
  PROVE  /\ submits' \in [GpTabs -> [Slots -> Submission]]
         /\ submits'[t][s] = n
         /\ \A u \in GpTabs, z \in Slots : u # t \/ z # s => submits'[u][z] = submits[u][z]
  BY DEF GpTyped

LEMMA StateChanges ==
  ASSUME GpTyped, NEW t \in GpTabs, NEW s \in Slots,
         NEW x \in {"idle", "sent", "checked", "ok", "refused"},
         StateBecomes(t, s, x)
  PROVE  /\ submits' \in [GpTabs -> [Slots -> Submission]]
         /\ submits'[t][s].state = x /\ submits'[t][s].form = submits[t][s].form
         /\ \A u \in GpTabs, z \in Slots : u # t \/ z # s => submits'[u][z] = submits[u][z]
  <1>0. submits[t][s] \in Submission
    BY DEF GpTyped
  <1>1. PICK n : n = [submits[t][s] EXCEPT !.state = x]
    OBVIOUS
  <1>2. n \in Submission /\ n.state = x /\ n.form = submits[t][s].form
    BY <1>0, <1>1 DEF Submission
  <1>3. submits' = [submits EXCEPT ![t][s] = n]
    BY <1>1 DEF StateBecomes
  <1>4. QED
    BY <1>2, <1>3 DEF GpTyped

\* One page changes.
LEMMA PageChanges ==
  ASSUME GpTyped, NEW t \in GpTabs, NEW n \in GpPage, pages' = [pages EXCEPT ![t] = n]
  PROVE  /\ pages' \in [GpTabs -> GpPage] /\ pages'[t] = n
         /\ \A u \in GpTabs : u # t => pages'[u] = pages[u]
  BY DEF GpTyped

LEMMA PagesTyped ==
  /\ Unopened \in GpPage /\ Unopened.latest = 0 /\ Unopened.phase = "unopened"
  /\ [Unopened EXCEPT !.phase = "loading"] \in GpPage
  /\ [Unopened EXCEPT !.phase = "loading"].phase = "loading"
  /\ [Unopened EXCEPT !.phase = "loading"].latest = 0
  /\ NoSubmission \in Submission /\ NoSubmission.state = "idle"
  <1>1. 0 \in 0..MaxSubmits
    BY WebAssumption
  <1>2. Unopened \in GpPage /\ Unopened.latest = 0 /\ Unopened.phase = "unopened"
    BY <1>1 DEF Unopened, GpPage, GpPhase, GpAnswer
  <1>3. [Unopened EXCEPT !.phase = "loading"] \in GpPage
        /\ [Unopened EXCEPT !.phase = "loading"].phase = "loading"
        /\ [Unopened EXCEPT !.phase = "loading"].latest = 0
    BY <1>2 DEF GpPage, GpPhase
  <1>4. QED
    BY <1>2, <1>3 DEF NoSubmission, Submission

LEMMA SucceededTyped ==
  ASSUME NEW page \in GpPage
  PROVE  /\ Succeeded(page) \in GpPage
         /\ Succeeded(page).phase = "success" /\ Succeeded(page).latest = 0
         /\ Stored(page) => Stored(Succeeded(page))
  <1>1. PICK n : n = [page EXCEPT !.phase = "success", !.answer = "none"]
    OBVIOUS
  <1>2. /\ n \in GpPage /\ n.phase = "success"
        /\ n.sent = page.sent /\ n.form = page.form /\ n.edited = page.edited
    BY <1>1 DEF GpPage, GpPhase, GpAnswer
  <1>3. PICK k : k = [n EXCEPT !.latest = 0]
    OBVIOUS
  <1>4. /\ k \in GpPage /\ k.phase = "success" /\ k.latest = 0
        /\ k.sent = page.sent /\ k.form = page.form /\ k.edited = page.edited
    BY <1>2, <1>3, WebAssumption DEF GpPage
  <1>5. Succeeded(page) = k
    BY <1>1, <1>3 DEF Succeeded, GpPage
  <1>6. QED
    BY <1>4, <1>5 DEF Stored

\* A step that stores no form and leaves the submissions alone moves a page on, to
\* success never.
LEMMA PageStepKeeps ==
  ASSUME GpInv, NEW t \in GpTabs, NEW n \in GpPage, pages' = [pages EXCEPT ![t] = n],
         n.phase # "success",
         \/ n.latest = 0
         \/ /\ n.latest = pages[t].latest /\ n.sent = pages[t].sent
            /\ \/ n.form = pages[t].form /\ n.edited = pages[t].edited
               \/ UnderWay(t) => n.edited,
         UNCHANGED <<gp, accepted, submits>>
  PROVE  GpInv'
  <1>1. /\ pages' \in [GpTabs -> GpPage] /\ pages'[t] = n
        /\ \A u \in GpTabs : u # t => pages'[u] = pages[u]
    BY PageChanges DEF GpInv
  <1>2. 0 \notin Slots
    BY DEF Slots
  <1>3. \A u \in GpTabs, z \in Slots : Submitted(u, z)'
    <2> SUFFICES ASSUME NEW u \in GpTabs, NEW z \in Slots PROVE Submitted(u, z)'
      OBVIOUS
    <2>1. Submitted(u, z)
      BY DEF GpInv
    <2>2. CASE u = t
      BY <1>1, <1>2, <2>1, <2>2 DEF Submitted, UnderWay
    <2>3. CASE u # t
      BY <1>1, <2>1, <2>3 DEF Submitted
    <2>4. QED
      BY <2>2, <2>3
  <1>4. SuccessMeansAccepted'
    BY <1>1 DEF GpInv, SuccessMeansAccepted
  <1>5. QED
    BY <1>1, <1>3, <1>4 DEF GpInv, GpTyped

\* One submission goes on with its form: it is stored if it says so.
LEMMA SubmissionStepKeeps ==
  ASSUME GpInv, NEW t \in GpTabs, NEW s \in Slots,
         NEW x \in {"idle", "sent", "checked", "ok", "refused"},
         StateBecomes(t, s, x),
         submits[t][s].state # "idle", UNCHANGED pages,
         gp' \in Forms \cup {NoForm}, accepted' \subseteq Forms,
         gp' = NoForm <=> accepted' = {}, accepted \subseteq accepted',
         x = "ok" => submits[t][s].form \in accepted'
  PROVE  GpInv'
  <1>1. /\ submits' \in [GpTabs -> [Slots -> Submission]]
        /\ submits'[t][s].state = x /\ submits'[t][s].form = submits[t][s].form
        /\ \A u \in GpTabs, z \in Slots : u # t \/ z # s => submits'[u][z] = submits[u][z]
    <2>1. GpTyped
      BY DEF GpInv
    <2>2. QED
      BY <2>1, StateChanges
  <1>2. ASSUME NEW u \in GpTabs, NEW z \in Slots PROVE Submitted(u, z)'
    <2>1. Submitted(u, z)
      BY DEF GpInv
    <2>2. CASE u = t /\ z = s
      BY <1>1, <2>1, <2>2 DEF Submitted
    <2>3. CASE u # t \/ z # s
      BY <1>1, <2>1, <2>3 DEF Submitted
    <2>4. QED
      BY <2>2, <2>3
  <1>3. SuccessMeansAccepted'
    BY DEF GpInv, SuccessMeansAccepted
  <1>4. QED
    BY <1>1, <1>2, <1>3 DEF GpInv, GpTyped

\* A slot becomes free.
LEMMA SlotFreed ==
  ASSUME GpInv, NEW t \in GpTabs, NEW s \in Slots,
         submits' = [submits EXCEPT ![t][s] = NoSubmission], UNCHANGED <<gp, accepted>>,
         pages' = pages \/ (pages' = [pages EXCEPT ![t] = Succeeded(@)] /\ Stored(pages[t]))
  PROVE  GpInv'
  <1>1. /\ submits' \in [GpTabs -> [Slots -> Submission]] /\ submits'[t][s].state = "idle"
        /\ \A u \in GpTabs, z \in Slots : u # t \/ z # s => submits'[u][z] = submits[u][z]
    <2>1. GpTyped /\ NoSubmission \in Submission /\ NoSubmission.state = "idle"
      BY PagesTyped DEF GpInv
    <2>2. PICK n \in Submission : n = NoSubmission
      BY <2>1
    <2>3. QED
      BY <2>1, <2>2, SubmissionChanges, ZenonT(60)
  <1>2. pages[t] \in GpPage
    BY DEF GpInv, GpTyped
  <1>3. /\ pages' \in [GpTabs -> GpPage]
        /\ \A u \in GpTabs : u # t => pages'[u] = pages[u]
        /\ pages'[t] = pages[t] \/ pages'[t].latest = 0
        /\ pages'[t].phase = "success" => Stored(pages'[t])
    <2>1. CASE pages' = pages
      BY <2>1 DEF GpInv, GpTyped, SuccessMeansAccepted, Stored
    <2>2. CASE pages' = [pages EXCEPT ![t] = Succeeded(pages[t])] /\ Stored(pages[t])
      BY <1>2, <2>2, SucceededTyped, PageChanges DEF GpInv
    <2>3. QED
      BY <2>1, <2>2
  <1>4. 0 \notin Slots
    BY DEF Slots
  <1>5. ASSUME NEW u \in GpTabs, NEW z \in Slots PROVE Submitted(u, z)'
    <2>1. Submitted(u, z)
      BY DEF GpInv
    <2>2. CASE u = t /\ z = s
      BY <1>1, <2>2 DEF Submitted
    <2>3. CASE u # t
      BY <1>1, <1>3, <2>1, <2>3 DEF Submitted
    <2>4. CASE u = t /\ z # s
      BY <1>1, <1>3, <1>4, <2>1, <2>4 DEF Submitted
    <2>5. QED
      BY <2>2, <2>3, <2>4
  <1>6. SuccessMeansAccepted'
    BY <1>3 DEF GpInv, SuccessMeansAccepted, Stored
  <1>7. QED
    BY <1>1, <1>3, <1>5, <1>6 DEF GpInv, GpTyped

LEMMA GpStepKeeps ==
  ASSUME GpInv, NEW t \in GpTabs, GpStep(t)
  PROVE  GpInv'
  <1>0. pages[t] \in GpPage
    BY DEF GpInv, GpTyped
  <1>1. CASE OpenGpPage(t)
    BY <1>1, PagesTyped, PageStepKeeps DEF OpenGpPage, server
  <1>2. CASE GetGpForm(t)
    <2>1. PICK a \in GpAnswer : a = GpRoute(t)
      BY DEF GpRoute, TokenCheck, GpAnswer
    <2>2. PICK n : n = [pages[t] EXCEPT !.answer = a]
      OBVIOUS
    <2>3. n \in GpPage /\ n.phase = pages[t].phase /\ n.latest = pages[t].latest
          /\ n.sent = pages[t].sent /\ n.form = pages[t].form /\ n.edited = pages[t].edited
      BY <1>0, <2>2 DEF GpPage
    <2>4. pages' = [pages EXCEPT ![t] = n]
      BY <1>2, <2>1, <2>2 DEF GetGpForm
    <2>5. QED
      BY <1>2, <2>3, <2>4, PageStepKeeps DEF GetGpForm, server
  <1>3. CASE GpFormArrives(t) \/ GpFormLost(t)
    <2>1. PICK x \in {"form", "already", "expired"} : pages' = [pages EXCEPT ![t].phase = x]
      BY <1>3 DEF GpFormArrives, GpFormLost, GpShown
    <2>2. PICK n : n = [pages[t] EXCEPT !.phase = x]
      OBVIOUS
    <2>3. /\ n \in GpPage /\ n.phase = x /\ n.latest = pages[t].latest
          /\ n.sent = pages[t].sent /\ n.form = pages[t].form /\ n.edited = pages[t].edited
      BY <1>0, <2>2 DEF GpPage, GpPhase
    <2>4. pages' = [pages EXCEPT ![t] = n]
      BY <2>1, <2>2
    <2>5. QED
      BY <1>3, <2>3, <2>4, PageStepKeeps DEF GpFormArrives, GpFormLost, server
  <1>4. ASSUME NEW f \in Forms, FillForm(t, f) PROVE GpInv'
    <2>1. PICK e \in BOOLEAN : e = (pages[t].edited \/ UnderWay(t))
      OBVIOUS
    <2>2. PICK n : n = [pages[t] EXCEPT !.form = f, !.edited = e]
      OBVIOUS
    <2>3. /\ n \in GpPage /\ n.phase = pages[t].phase /\ n.latest = pages[t].latest
          /\ n.sent = pages[t].sent /\ (UnderWay(t) => n.edited)
      BY <1>0, <2>1, <2>2 DEF GpPage
    <2>4. pages' = [pages EXCEPT ![t] = n]
      BY <1>4, <2>1, <2>2 DEF FillForm
    <2>5. QED
      BY <1>4, <2>3, <2>4, PageStepKeeps DEF FillForm, server
  <1>5. ASSUME NEW s \in Slots, SubmitForm(t, s) PROVE GpInv'
    <2>1. PICK n, f : n = [state |-> "sent", form |-> f] /\ f = pages[t].form
      OBVIOUS
    <2>2. n \in Submission /\ n.state = "sent" /\ n.form = f /\ f \in Forms
      BY <1>0, <1>5, <2>1 DEF Submission, SubmitForm, GpPage
    <2>3. /\ submits' \in [GpTabs -> [Slots -> Submission]] /\ submits'[t][s] = n
          /\ \A u \in GpTabs, z \in Slots : u # t \/ z # s => submits'[u][z] = submits[u][z]
      <3>1. submits' = [submits EXCEPT ![t][s] = n]
        BY <1>5, <2>1 DEF SubmitForm
      <3>2. GpTyped
        BY DEF GpInv
      <3>3. QED
        BY <2>2, <3>1, <3>2, SubmissionChanges, ZenonT(60)
    <2>4. PICK m : m = [pages[t] EXCEPT !.sent = f]
      OBVIOUS
    <2>5. m \in GpPage /\ m.sent = f /\ m.form = f /\ m.phase = pages[t].phase
      BY <1>0, <2>1, <2>2, <2>4 DEF GpPage
    <2>6. PICK k : k = [m EXCEPT !.edited = FALSE, !.latest = s]
      OBVIOUS
    <2>7. /\ k \in GpPage /\ k.sent = f /\ k.form = f
          /\ k.phase = pages[t].phase /\ k.latest = s
      <3>1. s \in 0..MaxSubmits
        BY WebAssumption DEF Slots
      <3>2. QED
        BY <2>5, <2>6, <3>1 DEF GpPage
    <2>8. pages' = [pages EXCEPT ![t] = k]
      BY <1>0, <1>5, <2>1, <2>4, <2>6 DEF SubmitForm, GpInv, GpTyped, GpPage
    <2>9. /\ pages' \in [GpTabs -> GpPage] /\ pages'[t] = k
          /\ \A u \in GpTabs : u # t => pages'[u] = pages[u]
      BY <2>7, <2>8, PageChanges DEF GpInv
    <2>10. gp' = gp /\ accepted' = accepted /\ pages[t].phase = "form"
      BY <1>5 DEF SubmitForm, server
    <2>11. ASSUME NEW u \in GpTabs, NEW z \in Slots PROVE Submitted(u, z)'
      <3>1. Submitted(u, z)
        BY DEF GpInv
      <3>2. CASE u = t /\ z = s
        BY <2>2, <2>3, <2>7, <2>9, <2>10, <3>2 DEF Submitted
      <3>3. CASE u = t /\ z # s
        BY <2>3, <2>7, <2>9, <2>10, <3>1, <3>3 DEF Submitted
      <3>4. CASE u # t
        BY <2>3, <2>9, <2>10, <3>1, <3>4 DEF Submitted
      <3>5. QED
        BY <3>2, <3>3, <3>4
    <2>12. SuccessMeansAccepted'
      BY <2>7, <2>9, <2>10 DEF GpInv, SuccessMeansAccepted
    <2>13. QED
      BY <2>3, <2>9, <2>10, <2>11, <2>12 DEF GpInv, GpTyped
  <1>6. ASSUME NEW s \in Slots, SubmitRead(t, s) PROVE GpInv'
    <2>1. PICK x \in {"checked", "refused"} : StateBecomes(t, s, x)
      BY <1>6 DEF SubmitRead, StateBecomes
    <2>2. QED
      BY <1>6, <2>1, SubmissionStepKeeps DEF SubmitRead, server, GpInv, GpTyped
  <1>7. ASSUME NEW s \in Slots, SubmitCommit(t, s) PROVE GpInv'
    <2>1. Submitted(t, s) /\ submits[t][s].state = "checked"
      BY <1>7 DEF GpInv, SubmitCommit
    <2>2. /\ submits[t][s].form \in Forms /\ gp' = submits[t][s].form
          /\ accepted' = accepted \cup {submits[t][s].form}
      BY <1>7, <2>1 DEF SubmitCommit, Submitted
    <2>3. /\ gp' \in Forms \cup {NoForm} /\ accepted' \subseteq Forms
          /\ gp' = NoForm <=> accepted' = {}
      BY <2>2, WebAssumption DEF GpInv, GpTyped
    <2>4. QED
      BY <1>7, <2>1, <2>2, <2>3, SubmissionStepKeeps DEF SubmitCommit, StateBecomes
  <1>8. ASSUME NEW s \in Slots, SubmitAnswer(t, s) PROVE GpInv'
    <2>1. Submitted(t, s)
      BY DEF GpInv
    <2>2. pages' = pages \/ (pages' = [pages EXCEPT ![t] = Succeeded(@)] /\ Stored(pages[t]))
      <3>1. CASE submits[t][s].state = "ok" /\ pages[t].latest = s
        <4>1. Stored(pages[t])
          BY <2>1, <3>1 DEF Submitted, Stored
        <4>2. QED
          BY <1>8, <3>1, <4>1 DEF SubmitAnswer
      <3>2. CASE ~(submits[t][s].state = "ok" /\ pages[t].latest = s)
        BY <1>8, <3>2 DEF SubmitAnswer
      <3>3. QED
        BY <3>1, <3>2
    <2>3. QED
      BY <1>8, <2>2, SlotFreed DEF SubmitAnswer, server
  <1>9. ASSUME NEW s \in Slots, SubmitLost(t, s) PROVE GpInv'
    BY <1>9, SlotFreed DEF SubmitLost, server
  <1>10. QED
    BY <1>1, <1>2, <1>3, <1>4, <1>5, <1>6, <1>7, <1>8, <1>9 DEF GpStep

\* The rest of the system leaves the link's side alone.
LEMMA GpInvariant == Spec => []GpInv
  <1>1. Init => GpInv
    BY PagesTyped, WebAssumption DEF Init, GpInv, GpTyped, Submitted, SuccessMeansAccepted
  <1>2. ASSUME GpInv, [Next]_vars PROVE GpInv'
    <2>1. CASE UNCHANGED <<gp, accepted, gpSide>>
      BY <1>2, <2>1 DEF gpSide, GpInv, GpTyped, Submitted, SuccessMeansAccepted
    <2>2. ASSUME NEW t \in ScTabs, ScStep(t) PROVE UNCHANGED <<gp, accepted, gpSide>>
      BY <2>2 DEF server, ScStep, Refocus, QueryCount, Navigate, QueryRead, QueryArrives,
           QueryFails, Click, Serve, Succeeds, Fails
    <2>4. \/ \E t \in GpTabs : GpStep(t)
          \/ UNCHANGED <<gp, accepted, gpSide>>
      BY <1>2, <2>2 DEF Next, vars, server, AccessExpires, DisputeOpened, DisputeEnds, LinkExpires
    <2>3. QED
      BY <1>2, <2>1, <2>4, GpStepKeeps
  <1>3. QED
    BY <1>1, <1>2, PTL DEF Spec

\* GpFormPage's success says that submitGp stored what the page sent last, and that it is
\* what the page shows unless the inputs were changed meanwhile, whichever of several
\* submissions the answer was of.
THEOREM SuccessIsStored == Spec => []SuccessMeansAccepted
  BY GpInvariant, PTL DEF GpInv
-----------------------------------------------------------------------------
\* The site control's side

\* What a tab knows of its own writes, when the period is at r: with e its entry of
\* the period, v the page in view, c its mutations and a the newest own write it was
\* told of.  An answer read after that is as new as a, and what the user wrote to was
\* on the page, so that the entry has data.
Acknowledged(r, e, v, c, a) ==
  /\ a <= r
  /\ v # "period" => a = 0
  /\ \A m \in Mutation : c[m].state = "ok" => c[m].rev <= r
  /\ e.fetch \in {"read", "answered"} => e.part.rev >= a
  /\ e.fetch = "idle" /\ ~e.failed => e.data.rev >= a
  /\ \A m \in Mutation : m # "open" /\ c[m].state # "idle" => e.known

ScTyped ==
  /\ period \in Snapshot
  /\ view \in [ScTabs -> Query]
  /\ cache \in [ScTabs -> [Query -> Entry]]
  /\ calls \in [ScTabs -> [Mutation -> Call]]
  /\ acked \in [ScTabs -> 0..MaxRev]

ScInv ==
  /\ ScTyped
  /\ \A t \in ScTabs :
       Acknowledged(period.rev, cache[t]["period"], view[t], calls[t], acked[t])

\* Tab t has cache h, page v in view, mutations c and acknowledgement a.
TabBecomes(t, h, v, c, a) ==
  /\ cache' = [cache EXCEPT ![t] = h] /\ view' = [view EXCEPT ![t] = v]
  /\ calls' = [calls EXCEPT ![t] = c] /\ acked' = [acked EXCEPT ![t] = a]

LEMMA TabStepKeeps ==
  ASSUME ScInv, NEW t \in ScTabs, NEW h \in [Query -> Entry], NEW v \in Query,
         NEW c \in [Mutation -> Call], NEW a \in 0..MaxRev, TabBecomes(t, h, v, c, a),
         period' \in Snapshot, period.rev <= period'.rev,
         NEW r, r = period'.rev, Acknowledged(r, h["period"], v, c, a)
  PROVE  ScInv'
  <1>1. ScTyped'
    BY DEF TabBecomes, ScInv, ScTyped
  <1>2. ASSUME NEW u \in ScTabs
        PROVE  Acknowledged(period'.rev, cache'[u]["period"], view'[u], calls'[u], acked'[u])
    <2>1. CASE u = t
      BY <2>1 DEF TabBecomes, ScInv, ScTyped
    <2>2. CASE u # t
      <3>1. Acknowledged(period.rev, cache[u]["period"], view[u], calls[u], acked[u])
        BY DEF ScInv
      <3>2. /\ cache'[u] = cache[u] /\ view'[u] = view[u]
            /\ calls'[u] = calls[u] /\ acked'[u] = acked[u]
        BY <2>2 DEF TabBecomes, ScInv, ScTyped
      <3>3. /\ period.rev \in Nat /\ period'.rev \in Nat /\ acked[u] \in Nat
            /\ \A m \in Mutation : calls[u][m].rev \in Nat
        BY WebAssumption DEF ScInv, ScTyped, Snapshot, Call
      <3>4. QED
        BY <3>1, <3>2, <3>3 DEF Acknowledged
    <2>3. QED
      BY <2>1, <2>2
  <1>3. QED
    BY <1>1, <1>2 DEF ScInv

\* A step that changes nothing of the tabs lets the period grow.
LEMMA PeriodStepKeeps ==
  ASSUME ScInv, UNCHANGED scSide, period' \in Snapshot, period.rev <= period'.rev
  PROVE  ScInv'
  <1>1. ASSUME NEW u \in ScTabs
        PROVE  Acknowledged(period'.rev, cache[u]["period"], view[u], calls[u], acked[u])
    <2>1. Acknowledged(period.rev, cache[u]["period"], view[u], calls[u], acked[u])
      BY DEF ScInv
    <2>2. /\ period.rev \in Nat /\ period'.rev \in Nat /\ acked[u] \in Nat
          /\ \A m \in Mutation : calls[u][m].rev \in Nat
      BY WebAssumption DEF ScInv, ScTyped, Snapshot, Call
    <2>3. QED
      BY <2>1, <2>2 DEF Acknowledged
  <1>2. QED
    BY <1>1 DEF ScInv, ScTyped, scSide

\* A write gives the period the next number.
LEMMA WriteTyped ==
  ASSUME period \in Snapshot, NEW status \in Status, Write(status)
  PROVE  period' \in Snapshot /\ period'.rev = period.rev + 1
  <1>1. PICK n : n = [period EXCEPT !.rev = period.rev + 1]
    OBVIOUS
  <1>2. n \in Snapshot /\ n.rev = period.rev + 1
    BY <1>1, WebAssumption DEF Write, Snapshot
  <1>3. period' = [n EXCEPT !.status = status]
    BY <1>1 DEF Write, Snapshot
  <1>4. QED
    BY <1>2, <1>3 DEF Snapshot

LEMMA FetchingTyped ==
  ASSUME NEW e \in Entry
  PROVE  /\ Fetching(e) \in Entry
         /\ Fetching(e).known = e.known
         /\ e.fetch = "idle" \/ e.known => Fetching(e).fetch = "asked"
  <1>1. NoSnapshot \in Snapshot
    BY WebAssumption DEF NoSnapshot, Snapshot, Status
  <1>2. PICK n : n = [e EXCEPT !.fetch = "asked"]
    OBVIOUS
  <1>3. n \in Entry /\ n.fetch = "asked" /\ n.known = e.known
    BY <1>2 DEF Entry
  <1>4. PICK k : k = [n EXCEPT !.part = NoSnapshot]
    OBVIOUS
  <1>5. k \in Entry /\ k.fetch = "asked" /\ k.known = e.known
    BY <1>1, <1>3, <1>4 DEF Entry
  <1>6. Fetching(e) = IF e.fetch # "idle" /\ ~e.known THEN e ELSE k
    BY <1>2, <1>4 DEF Fetching, Entry
  <1>7. QED
    BY <1>5, <1>6

LEMMA MountedTyped ==
  ASSUME NEW e \in Entry, NEW aged \in BOOLEAN
  PROVE  /\ Mounted(e, aged) \in Entry
         /\ Mounted(e, aged) = e \/ Mounted(e, aged).fetch = "asked"
         /\ Mounted(e, aged).known = e.known
  BY DEF Mounted, Entry

\* What an invalidation leaves of a page's entry: if it is in view and has data it is
\* fetched anew, and otherwise its data and the answer under way are kept.
LEMMA InvalidatedTyped ==
  ASSUME ScTyped, NEW t \in ScTabs, NEW qs \in SUBSET Query
  PROVE  /\ Invalidated(t, qs) \in [Query -> Entry]
         /\ \A q \in Query :
           /\ Invalidated(t, qs)[q].known = cache[t][q].known
           /\ \/ Invalidated(t, qs)[q].fetch = "asked"
              \/ /\ view[t] # q \/ q \notin qs \/ ~cache[t][q].known
                 /\ Invalidated(t, qs)[q].fetch = cache[t][q].fetch
                 /\ Invalidated(t, qs)[q].part = cache[t][q].part
                 /\ Invalidated(t, qs)[q].data = cache[t][q].data
                 /\ Invalidated(t, qs)[q].failed = cache[t][q].failed
  <1>1. \A q \in Query : cache[t][q] \in Entry
    BY DEF ScTyped
  <1>2. ASSUME NEW e \in Entry
        PROVE  /\ [e EXCEPT !.invalid = TRUE] \in Entry
               /\ [e EXCEPT !.invalid = TRUE].fetch = e.fetch
               /\ [e EXCEPT !.invalid = TRUE].part = e.part
               /\ [e EXCEPT !.invalid = TRUE].data = e.data
               /\ [e EXCEPT !.invalid = TRUE].failed = e.failed
               /\ [e EXCEPT !.invalid = TRUE].known = e.known
    BY DEF Entry
  <1>3. \A q \in Query :
          /\ Fetching(cache[t][q]) \in Entry /\ Fetching(cache[t][q]).known = cache[t][q].known
          /\ \/ Fetching(cache[t][q]).fetch = "asked"
             \/ ~cache[t][q].known /\ Fetching(cache[t][q]) = cache[t][q]
    BY <1>1, FetchingTyped DEF Fetching
  <1>4. QED
    BY <1>1, <1>2, <1>3 DEF Invalidated

\* One entry of a tab's cache changes.
EntryBecomes(t, q, n) == cache' = [cache EXCEPT ![t][q] = n]

LEMMA EntryStepKeeps ==
  ASSUME ScInv, NEW t \in ScTabs, NEW q \in Query, NEW n \in Entry, EntryBecomes(t, q, n),
         UNCHANGED <<period, view, calls, acked>>,
         q = "period" /\ n.fetch \in {"read", "answered"} => n.part.rev >= acked[t],
         q = "period" /\ n.fetch = "idle" /\ ~n.failed => n.data.rev >= acked[t],
         cache[t][q].known => n.known
  PROVE  ScInv'
  <1>0. /\ cache[t] \in [Query -> Entry] /\ view[t] \in Query
        /\ calls[t] \in [Mutation -> Call] /\ acked[t] \in 0..MaxRev /\ period \in Snapshot
        /\ Acknowledged(period.rev, cache[t]["period"], view[t], calls[t], acked[t])
    BY DEF ScInv, ScTyped
  <1>1. PICK h : h = [cache[t] EXCEPT ![q] = n]
    OBVIOUS
  <1>2. /\ h \in [Query -> Entry] /\ h[q] = n
        /\ q # "period" => h["period"] = cache[t]["period"]
    BY <1>0, <1>1 DEF Query
  <1>3. Acknowledged(period.rev, h["period"], view[t], calls[t], acked[t])
    BY <1>0, <1>2 DEF Acknowledged
  <1>4. TabBecomes(t, h, view[t], calls[t], acked[t])
    BY <1>1 DEF TabBecomes, EntryBecomes, ScInv, ScTyped
  <1>5. period' = period /\ period.rev <= period.rev
    BY <1>0, WebAssumption DEF Snapshot
  <1>6. QED
    BY <1>0, <1>2, <1>3, <1>4, <1>5, TabStepKeeps

\* The mutations of a tab, and with them the period, change.
LEMMA CallStepKeeps ==
  ASSUME ScInv, NEW t \in ScTabs, NEW m \in Mutation, NEW n \in Call,
         calls' = [calls EXCEPT ![t] = [calls[t] EXCEPT ![m] = n]],
         period' \in Snapshot, period.rev <= period'.rev,
         n.state = "ok" => n.rev <= period'.rev, UNCHANGED <<view, cache, acked>>,
         m # "open" /\ n.state # "idle" => cache[t]["period"].known
  PROVE  ScInv'
  <1>0. /\ cache[t] \in [Query -> Entry] /\ view[t] \in Query
        /\ calls[t] \in [Mutation -> Call] /\ acked[t] \in 0..MaxRev /\ period \in Snapshot
        /\ Acknowledged(period.rev, cache[t]["period"], view[t], calls[t], acked[t])
    BY DEF ScInv, ScTyped
  <1>1. PICK c : c = [calls[t] EXCEPT ![m] = n]
    OBVIOUS
  <1>2. /\ c \in [Mutation -> Call] /\ c[m] = n
        /\ \A k \in Mutation : k # m => c[k] = calls[t][k]
    BY <1>0, <1>1
  <1>3. PICK r : r = period'.rev
    OBVIOUS
  <1>4. r \in Nat /\ period.rev \in Nat /\ \A k \in Mutation : calls[t][k].rev \in Nat
    BY <1>0, <1>3, WebAssumption DEF Snapshot, Call
  <1>5. Acknowledged(r, cache[t]["period"], view[t], c, acked[t])
    BY <1>0, <1>2, <1>3, <1>4 DEF Acknowledged
  <1>6. TabBecomes(t, cache[t], view[t], c, acked[t])
    BY <1>1 DEF TabBecomes, ScInv, ScTyped
  <1>7. QED
    BY <1>0, <1>2, <1>3, <1>5, <1>6, TabStepKeeps

LEMMA QueryStepKeeps ==
  ASSUME ScInv, NEW t \in ScTabs, NEW q \in Query,
         QueryRead(t, q) \/ (q = "period" /\ QueryCount(t)) \/ QueryArrives(t, q) \/ QueryFails(t, q)
  PROVE  ScInv'
  <1> DEFINE e == cache[t][q]
  <1>0. /\ e \in Entry /\ acked[t] \in 0..MaxRev /\ period \in Snapshot
        /\ q = "period" => Acknowledged(period.rev, e, view[t], calls[t], acked[t])
        /\ cache \in [ScTabs -> [Query -> Entry]]
    BY DEF ScInv, ScTyped
  <1>1. UNCHANGED <<period, view, calls, acked>>
    BY DEF QueryRead, QueryCount, QueryArrives, QueryFails, server
  <1>2. CASE QueryRead(t, q)
    <2>1. CASE t \notin signed \/ (q = "objectDetail" /\ ~DetailRuns)
      <3>1. PICK n : n = [e EXCEPT !.fetch = "refused"]
        OBVIOUS
      <3>2. n \in Entry /\ n.fetch = "refused" /\ n.known = e.known
        BY <1>0, <3>1 DEF Entry
      <3>3. EntryBecomes(t, q, n)
        BY <1>2, <2>1, <3>1 DEF QueryRead, EntryBecomes
      <3>4. QED
        BY <1>1, <3>2, <3>3, EntryStepKeeps
    <2>2. CASE ~(t \notin signed \/ (q = "objectDetail" /\ ~DetailRuns))
      <3>1. PICK f, a : f = (IF q = "period" THEN "read" ELSE "answered") /\ a = Answer(q)
        OBVIOUS
      <3>2. a \in Snapshot /\ (q = "period" => a.rev = period.rev)
        BY <1>0, <3>1, WebAssumption DEF Answer, Snapshot, Status
      <3>3. PICK n : n = [e EXCEPT !.fetch = f, !.part = a]
        OBVIOUS
      <3>4. n \in Entry /\ n.fetch \in {"read", "answered"} /\ n.part = a /\ n.known = e.known
        BY <1>0, <3>1, <3>2, <3>3 DEF Entry
      <3>5. EntryBecomes(t, q, n)
        BY <1>2, <2>2, <3>1, <3>3 DEF QueryRead, EntryBecomes
      <3>6. q = "period" => n.part.rev >= acked[t]
        BY <1>0, <3>2, <3>4, WebAssumption DEF Acknowledged, Snapshot
      <3>7. QED
        BY <1>1, <3>4, <3>5, <3>6, EntryStepKeeps
    <2>3. QED
      BY <2>1, <2>2
  <1>3. CASE q = "period" /\ QueryCount(t)
    <2>1. PICK d : d = [e.part EXCEPT !.disputed = period.disputed]
      OBVIOUS
    <2>2. e.part \in Snapshot /\ d \in Snapshot /\ d.rev = e.part.rev
      BY <1>0, <2>1 DEF Entry, Snapshot
    <2>3. PICK n : n = [e EXCEPT !.fetch = "answered", !.part = d]
      OBVIOUS
    <2>4. n \in Entry /\ n.fetch = "answered" /\ n.part = d /\ n.known = e.known
      BY <1>0, <2>2, <2>3 DEF Entry
    <2>5. EntryBecomes(t, q, n)
      BY <1>0, <1>3, <2>1, <2>3 DEF QueryCount, EntryBecomes, Entry
    <2>6. n.part.rev >= acked[t]
      BY <1>0, <1>3, <2>2, <2>4 DEF Acknowledged, QueryCount
    <2>7. QED
      BY <1>1, <2>4, <2>5, <2>6, EntryStepKeeps
  <1>4. CASE QueryArrives(t, q)
    <2>1. PICK d : d = e.part
      OBVIOUS
    <2>2. PICK n : n = [Empty EXCEPT !.known = TRUE, !.data = d]
      OBVIOUS
    <2>3. NoSnapshot \in Snapshot
      BY WebAssumption DEF NoSnapshot, Snapshot, Status
    <2>4. n \in Entry /\ n.fetch = "idle" /\ n.data = d /\ n.known
      BY <1>0, <2>1, <2>2, <2>3 DEF Entry, Empty
    <2>5. EntryBecomes(t, q, n)
      BY <1>4, <2>1, <2>2 DEF QueryArrives, EntryBecomes
    <2>6. q = "period" => n.data.rev >= acked[t]
      BY <1>0, <1>4, <2>1, <2>4 DEF Acknowledged, QueryArrives
    <2>7. QED
      BY <1>1, <2>4, <2>5, <2>6, EntryStepKeeps
  <1>5. CASE QueryFails(t, q)
    <2>1. PICK n : n = [e EXCEPT !.fetch = "idle", !.part = NoSnapshot, !.failed = TRUE]
      OBVIOUS
    <2>2. NoSnapshot \in Snapshot
      BY WebAssumption DEF NoSnapshot, Snapshot, Status
    <2>3. n \in Entry /\ n.fetch = "idle" /\ n.failed /\ n.known = e.known
      BY <1>0, <2>1, <2>2 DEF Entry
    <2>4. EntryBecomes(t, q, n)
      BY <1>5, <2>1 DEF QueryFails, EntryBecomes
    <2>5. QED
      BY <1>1, <2>3, <2>4, EntryStepKeeps
  <1>6. QED
    BY <1>2, <1>3, <1>4, <1>5

\* The hook's onSuccess: the page in view is fetched anew when its query is
\* invalidated, so that what it shows next is as new as what it was told.
LEMMA SucceedsKeeps ==
  ASSUME ScInv, NEW t \in ScTabs, NEW m \in Mutation, Succeeds(t, m)
  PROVE  ScInv'
  <1>0. /\ cache[t] \in [Query -> Entry] /\ view[t] \in Query
        /\ calls[t] \in [Mutation -> Call] /\ acked[t] \in 0..MaxRev /\ period \in Snapshot
        /\ Acknowledged(period.rev, cache[t]["period"], view[t], calls[t], acked[t])
        /\ period' = period
    BY DEF ScInv, ScTyped, Succeeds, server
  <1>1. PICK fresh : fresh = Invalidated(t, Invalidates(m))
    OBVIOUS
  <1>2. Invalidates(m) \in SUBSET Query
        /\ (m # "open" => "period" \in Invalidates(m))
        /\ (m = "open" => "period" \notin Invalidates(m))
    BY DEF Invalidates, Mutation, Query
  <1>3. /\ fresh \in [Query -> Entry] /\ fresh["period"].known = cache[t]["period"].known
        /\ \/ fresh["period"].fetch = "asked"
           \/ /\ view[t] # "period" \/ m = "open"
              /\ fresh["period"].fetch = cache[t]["period"].fetch
              /\ fresh["period"].part = cache[t]["period"].part
              /\ fresh["period"].data = cache[t]["period"].data
              /\ fresh["period"].failed = cache[t]["period"].failed
    <2>1. m # "open" => cache[t]["period"].known
      BY <1>0 DEF Acknowledged, Succeeds
    <2>2. QED
      BY <1>1, <1>2, <2>1, InvalidatedTyped DEF ScInv, Query
  <1>4. NoCall \in Call /\ NoCall.state = "idle"
    BY WebAssumption DEF NoCall, Call
  <1>5. PICK k : k = NoCall
    OBVIOUS
  <1>6. PICK c : c = [calls[t] EXCEPT ![m] = k]
    OBVIOUS
  <1>7. /\ c \in [Mutation -> Call] /\ c[m].state = "idle"
        /\ \A z \in Mutation : z # m => c[z] = calls[t][z]
    BY <1>0, <1>4, <1>5, <1>6
  <1>8. calls[t][m].state = "ok" /\ calls[t][m].rev <= period.rev /\ calls[t][m].rev \in 0..MaxRev
    BY <1>0 DEF Succeeds, Acknowledged, Call
  <1>9. calls' = [calls EXCEPT ![t] = c]
    BY <1>5, <1>6 DEF Succeeds
  <1>10. period.rev \in Nat /\ acked[t] \in Nat /\ period.rev <= period.rev
         /\ calls[t][m].rev \in Nat
    BY <1>0, <1>8, WebAssumption DEF Snapshot
  <1>11. CASE m = "open" /\ view[t] = "objectDetail"
    <2>1. PICK n : n = Mounted(fresh["period"], FALSE)
      OBVIOUS
    <2>2. /\ n \in Entry /\ n.known = fresh["period"].known
          /\ n = fresh["period"] \/ n.fetch = "asked"
      BY <1>3, <2>1, MountedTyped DEF Query
    <2>3. PICK h : h = [fresh EXCEPT !["period"] = n]
      OBVIOUS
    <2>4. h \in [Query -> Entry] /\ h["period"] = n
      BY <1>3, <2>2, <2>3 DEF Query
    <2>5. cache' = [cache EXCEPT ![t] = h] /\ view' = [view EXCEPT ![t] = "period"]
      BY <1>1, <1>3, <1>11, <2>1, <2>3 DEF Succeeds, ScInv, ScTyped
    <2>6. acked' = [acked EXCEPT ![t] = acked[t]] /\ acked[t] = 0
      BY <1>0, <1>11 DEF Succeeds, Acknowledged
    <2>7. TabBecomes(t, h, "period", c, acked[t])
      BY <1>9, <2>5, <2>6 DEF TabBecomes
    <2>8. Acknowledged(period.rev, h["period"], "period", c, acked[t])
      BY <1>0, <1>3, <1>7, <2>2, <2>4, <2>6 DEF Acknowledged
    <2>9. QED
      BY <1>0, <1>7, <1>10, <2>4, <2>7, <2>8, TabStepKeeps DEF Query
  <1>12. CASE ~(m = "open" /\ view[t] = "objectDetail")
    <2>1. cache' = [cache EXCEPT ![t] = fresh] /\ view' = [view EXCEPT ![t] = view[t]]
      BY <1>1, <1>12 DEF Succeeds
    <2>2. CASE view[t] = "period" /\ m # "open" /\ calls[t][m].rev > acked[t]
      <3>1. PICK a : a = calls[t][m].rev
        OBVIOUS
      <3>2. acked' = [acked EXCEPT ![t] = a]
        BY <2>2, <3>1 DEF Succeeds
      <3>3. TabBecomes(t, fresh, view[t], c, a)
        BY <1>9, <2>1, <3>2 DEF TabBecomes
      <3>4. Acknowledged(period.rev, fresh["period"], view[t], c, a)
        BY <1>0, <1>3, <1>7, <1>8, <2>2, <3>1 DEF Acknowledged
      <3>5. QED
        BY <1>0, <1>3, <1>7, <1>8, <1>10, <3>1, <3>3, <3>4, TabStepKeeps
    <2>3. CASE ~(view[t] = "period" /\ m # "open" /\ calls[t][m].rev > acked[t])
      <3>1. acked' = [acked EXCEPT ![t] = acked[t]]
        BY <2>3 DEF Succeeds
      <3>2. TabBecomes(t, fresh, view[t], c, acked[t])
        BY <1>9, <2>1, <3>1 DEF TabBecomes
      <3>3. Acknowledged(period.rev, fresh["period"], view[t], c, acked[t])
        BY <1>0, <1>3, <1>7 DEF Acknowledged
      <3>4. QED
        BY <1>0, <1>3, <1>7, <1>10, <3>2, <3>3, TabStepKeeps
    <2>4. QED
      BY <2>2, <2>3
  <1>13. QED
    BY <1>11, <1>12

LEMMA ScStepKeeps ==
  ASSUME ScInv, NEW t \in ScTabs, ScStep(t)
  PROVE  ScInv'
  <1>0. /\ cache[t] \in [Query -> Entry] /\ view[t] \in Query
        /\ calls[t] \in [Mutation -> Call] /\ acked[t] \in 0..MaxRev /\ period \in Snapshot
        /\ Acknowledged(period.rev, cache[t]["period"], view[t], calls[t], acked[t])
    BY DEF ScInv, ScTyped
  <1>1. CASE Refocus(t)
    <2>1. PICK n : n = Fetching(cache[t][view[t]])
      OBVIOUS
    <2>2. n \in Entry /\ n.fetch = "asked" /\ n.known = cache[t][view[t]].known
      BY <1>0, <1>1, <2>1, FetchingTyped DEF Refocus
    <2>3. EntryBecomes(t, view[t], n)
      BY <1>1, <2>1 DEF Refocus, EntryBecomes
    <2>4. QED
      BY <1>0, <1>1, <2>2, <2>3, EntryStepKeeps DEF Refocus, server
  <1>2. ASSUME NEW q \in Query, Navigate(t, q) PROVE ScInv'
    <2>1. PICK aged \in BOOLEAN : cache' = [cache EXCEPT ![t][q] = Mounted(cache[t][q], aged)]
      BY <1>2 DEF Navigate
    <2>2. PICK n : n = Mounted(cache[t][q], aged)
      OBVIOUS
    <2>3. n \in Entry /\ n.known = cache[t][q].known
      BY <1>0, <2>2, MountedTyped
    <2>4. PICK h : h = [cache[t] EXCEPT ![q] = n]
      OBVIOUS
    <2>5. h \in [Query -> Entry] /\ h["period"] \in Entry
          /\ h["period"].known = cache[t]["period"].known
      BY <1>0, <2>3, <2>4 DEF Query
    <2>6. /\ h["period"].part.rev \in Nat /\ h["period"].data.rev \in Nat /\ period.rev \in Nat
          /\ 0 \in 0..MaxRev /\ period.rev <= period.rev
      BY <1>0, <2>5, WebAssumption DEF Entry, Snapshot
    <2>7. TabBecomes(t, h, q, calls[t], 0)
      BY <1>2, <2>1, <2>2, <2>4 DEF TabBecomes, Navigate, ScInv, ScTyped
    <2>8. Acknowledged(period.rev, h["period"], q, calls[t], 0)
      BY <1>0, <2>5, <2>6 DEF Acknowledged
    <2>9. period' = period
      BY <1>2 DEF Navigate, server
    <2>10. QED
      BY <1>0, <2>5, <2>6, <2>7, <2>8, <2>9, TabStepKeeps
  <1>3. ASSUME NEW m \in Mutation, Click(t, m) \/ Fails(t, m) PROVE ScInv'
    <2>1. NoCall \in Call /\ NoCall.state = "idle"
      BY WebAssumption DEF NoCall, Call
    <2>2. PICK n \in Call : /\ n.state # "ok" /\ calls' = [calls EXCEPT ![t][m] = n]
                            /\ m # "open" /\ n.state # "idle" => cache[t]["period"].known
      <3>1. CASE Click(t, m)
        <4>1. PICK n : n = [calls[t][m] EXCEPT !.state = "sent"]
          OBVIOUS
        <4>2. n \in Call /\ n.state = "sent"
          BY <1>0, <4>1 DEF Call
        <4>3. calls' = [calls EXCEPT ![t][m] = n]
          BY <3>1, <4>1 DEF Click
        <4>4. m # "open" => cache[t]["period"].known
          BY <3>1 DEF Click, Enabled, Shows
        <4>5. QED
          BY <4>2, <4>3, <4>4
      <3>2. CASE Fails(t, m)
        BY <2>1, <3>2 DEF Fails
      <3>3. QED
        BY <1>3, <3>1, <3>2
    <2>3. calls' = [calls EXCEPT ![t] = [calls[t] EXCEPT ![m] = n]]
      BY <2>2
    <2>4. /\ period' = period /\ period.rev <= period.rev
          /\ UNCHANGED <<view, cache, acked>>
      BY <1>0, <1>3, WebAssumption DEF Click, Fails, server, Snapshot
    <2>5. QED
      BY <1>0, <2>2, <2>3, <2>4, CallStepKeeps
  <1>4. ASSUME NEW m \in Mutation, Serve(t, m) PROVE ScInv'
    <2>1. /\ UNCHANGED <<view, cache, acked>>
          /\ m # "open" => cache[t]["period"].known
      BY <1>0, <1>4 DEF Serve, Acknowledged
    <2>2. CASE t \in signed /\ Accepts(m)
      <3>1. After(m) \in Status
        BY <1>0 DEF After, Mutation, Status, Snapshot
      <3>2. Write(After(m))
        BY <1>4, <2>2 DEF Serve
      <3>3. period' \in Snapshot /\ period'.rev = period.rev + 1 /\ period.rev \in 0..MaxRev
            /\ period'.rev \in 0..MaxRev
        BY <1>0, <3>1, <3>2, WriteTyped DEF Snapshot
      <3>4. PICK n : n = [state |-> "ok", rev |-> period.rev + 1]
        OBVIOUS
      <3>5. n \in Call /\ n.rev = period.rev + 1
        BY <3>3, <3>4 DEF Call
      <3>6. calls' = [calls EXCEPT ![t] = [calls[t] EXCEPT ![m] = n]]
        BY <1>4, <2>2, <3>4 DEF Serve
      <3>7. period.rev <= period'.rev /\ n.rev <= period'.rev
        BY <3>3, <3>5, WebAssumption
      <3>8. QED
        BY <2>1, <3>3, <3>5, <3>6, <3>7, CallStepKeeps
    <2>3. CASE ~(t \in signed /\ Accepts(m))
      <3>1. PICK n : n = [calls[t][m] EXCEPT !.state = "refused"]
        OBVIOUS
      <3>2. n \in Call /\ n.state = "refused"
        BY <1>0, <3>1 DEF Call
      <3>3. calls' = [calls EXCEPT ![t] = [calls[t] EXCEPT ![m] = n]]
        BY <1>4, <2>3, <3>1 DEF Serve
      <3>4. period' = period /\ period.rev <= period.rev
        BY <1>0, <1>4, <2>3, WebAssumption DEF Serve, Snapshot
      <3>5. QED
        BY <1>0, <2>1, <3>2, <3>3, <3>4, CallStepKeeps
    <2>4. QED
      BY <2>2, <2>3
  <1>5. QED
    BY <1>1, <1>2, <1>3, <1>4, QueryStepKeeps, SucceedsKeeps DEF ScStep, Query

LEMMA ScInvariant == Spec => []ScInv
  <1>1. Init => ScInv
    <2> SUFFICES ASSUME Init PROVE ScInv
      OBVIOUS
    <2>1. NoSnapshot \in Snapshot /\ NoSnapshot.rev = 0 /\ 0 \in 0..MaxRev
      BY WebAssumption DEF NoSnapshot, Snapshot, Status
    <2>2. Empty \in Entry /\ Empty.data.rev = 0 /\ Empty.fetch = "idle"
      BY <2>1 DEF Empty, Entry
    <2>3. NoCall \in Call /\ NoCall.state = "idle"
      BY <2>1 DEF NoCall, Call
    <2>4. ScTyped
      BY <2>1, <2>2, <2>3 DEF Init, ScTyped, Query
    <2>5. QED
      BY <2>1, <2>2, <2>3, <2>4 DEF Init, ScInv, Acknowledged, Query
  <1>2. ASSUME ScInv, [Next]_vars PROVE ScInv'
    <2>0. period \in Snapshot /\ period.rev <= period.rev
      BY <1>2, WebAssumption DEF ScInv, ScTyped, Snapshot
    <2>1. CASE UNCHANGED scSide /\ period' \in Snapshot /\ period.rev <= period'.rev
      BY <1>2, <2>1, PeriodStepKeeps
    <2>2. ASSUME NEW t \in GpTabs, GpStep(t)
          PROVE  UNCHANGED scSide /\ period' \in Snapshot /\ period.rev <= period'.rev
      <3>1. ASSUME NEW s \in Slots, SubmitCommit(t, s)
            PROVE  UNCHANGED scSide /\ period' \in Snapshot /\ period.rev <= period'.rev
        <4>1. period' \in Snapshot /\ period'.rev = period.rev + 1
          BY <2>0, <3>1, WriteTyped DEF SubmitCommit, Status
        <4>2. QED
          BY <2>0, <3>1, <4>1, WebAssumption DEF SubmitCommit, Snapshot
      <3>2. QED
        BY <2>0, <2>2, <3>1 DEF GpStep, server, OpenGpPage, GetGpForm, GpFormArrives, GpFormLost,
             FillForm, SubmitForm, SubmitRead, SubmitAnswer, SubmitLost
    <2>3. CASE DisputeOpened \/ DisputeEnds
      <3>1. PICK d \in BOOLEAN : period' = [period EXCEPT !.disputed = d]
        BY <2>3 DEF DisputeOpened, DisputeEnds
      <3>2. period' \in Snapshot /\ period'.rev = period.rev
        BY <2>0, <3>1 DEF Snapshot
      <3>3. QED
        BY <2>0, <2>1, <2>3, <3>2 DEF DisputeOpened, DisputeEnds
    <2>4. CASE LinkExpires \/ (\E b \in GpTabs \cup ScTabs : AccessExpires(b)) \/ UNCHANGED vars
      BY <2>0, <2>1, <2>4 DEF LinkExpires, AccessExpires, vars, server
    <2>5. QED
      BY <1>2, <2>1, <2>2, <2>3, <2>4, ScStepKeeps DEF Next
  <1>3. QED
    BY <1>1, <1>2, PTL DEF Spec

\* A period page at rest shows a state as new as the write it was told of: the hook's
\* invalidation drops a fetch that was under way.
THEOREM OwnWritesRead == Spec => []ReadsItsWrites
  <1>1. ScInv => ReadsItsWrites
    BY DEF ScInv, Acknowledged, ReadsItsWrites
  <1>2. QED
    BY <1>1, ScInvariant, PTL

\* Link and logins expire.
ExpiryTyped == expired \in BOOLEAN /\ signed \subseteq Signed

\* Pages, submissions, caches and mutations keep their types, and a period says that
\* it was submitted exactly when a form was stored.
THEOREM TypeCorrect == Spec => []TypeOK
  <1>1. Init => ExpiryTyped
    BY DEF Init, ExpiryTyped
  <1>2. ExpiryTyped /\ [Next]_vars => ExpiryTyped'
    <2> SUFFICES ASSUME ExpiryTyped, [Next]_vars PROVE ExpiryTyped'
      OBVIOUS
    <2>1. ASSUME NEW t \in GpTabs, GpStep(t) PROVE expired' = expired /\ signed' = signed
      BY <2>1 DEF GpStep, server, OpenGpPage, GetGpForm, GpFormArrives, GpFormLost,
           FillForm, SubmitForm, SubmitRead, SubmitCommit, SubmitAnswer, SubmitLost
    <2>2. ASSUME NEW t \in ScTabs, ScStep(t) PROVE expired' = expired /\ signed' = signed
      BY <2>2 DEF ScStep, server, Refocus, QueryCount, Navigate, QueryRead, QueryArrives,
           QueryFails, Click, Serve, Succeeds, Fails
    <2>3. QED
      BY <2>1, <2>2 DEF Next, vars, server, AccessExpires, DisputeOpened, DisputeEnds, LinkExpires,
           ExpiryTyped
  <1>3. ExpiryTyped /\ GpInv /\ ScInv => TypeOK
    BY DEF ExpiryTyped, GpInv, GpTyped, ScInv, ScTyped, TypeOK
  <1>4. QED
    BY <1>1, <1>2, <1>3, GpInvariant, ScInvariant, PTL DEF Spec

=============================================================================
