----------------------------- MODULE ObjectSetup -----------------------------
(***************************************************************************)
(* From a new construction object to one whose periods can be reported:    *)
(* BoQ, zero report and its approval, participants, baseline updates, the  *)
(* configured threshold, and openPeriod, which waits for all of it.        *)
(*                                                                         *)
(* Requests run concurrently.  BoqService.createInitial, approve,          *)
(* approveRequest, changeGeneralContractor and openPeriod are transactions *)
(* at READ COMMITTED, the other handlers run statement by statement; no    *)
(* handler locks what it reads.  A handler is a step for the reads it acts *)
(* on later and a step for each write the others can see.                  *)
(***************************************************************************)
EXTENDS Naturals, FiniteSets, FiniteSetsExt

CONSTANTS
  Workers,        \* requests being served at the same time
  Items,          \* lines of the bill of quantities
  ContractValue,  \* the contract value of each line
  Critical,       \* the lines marked isCritical
  Thresholds,     \* values of weight_threshold, in percent
  Orgs,           \* organisations that can be general contractor
  MaxVersions,    \* bound: boq_versions rows
  MaxReports,     \* bound: zero_reports rows
  MaxUpdates      \* bound: baseline_update_requests rows

ASSUME SetupAssumption ==
  /\ IsFiniteSet(Items) /\ Items # {}
  /\ ContractValue \in [Items -> Nat \ {0}]
  /\ Critical \subseteq Items
  /\ Thresholds \subseteq Nat
  /\ MaxVersions \in Nat /\ MaxReports \in Nat /\ MaxUpdates \in Nat
  /\ "none" \notin Orgs /\ "vacant" \notin Orgs

VersionNo == 1..MaxVersions
ReportId  == 1..MaxReports
UpdateId  == 1..MaxUpdates

\* A zero_report_items row, by whether all three documents were given.
ItemState == {"none", "plain", "verified"}

\* Status rejected is looked for by create and written by no handler.
Report == [status  : {"none", "draft", "pending_approval", "approved"},
           version : 0..MaxVersions,
           items   : [Items -> ItemState]]

NoReport == [status |-> "none", version |-> 0, items |-> [i \in Items |-> "none"]]

PC == {"idle", "boqCommit", "reportCommit", "itemCommit", "itemAudit",
       "submitCommit", "approveCheck", "approveCommit", "openCommit",
       "updateCommit", "participantInsert", "contractorCommit"}

\* What a request remembers between its steps.
Request == [pc      : PC,
            row     : Nat,                       \* version, report or update it read
            item    : Items \cup {"none"},
            docs    : ItemState,
            existed : BOOLEAN,                   \* the item had a row when it looked
            org     : Orgs \cup {"none"}]

Idle == [pc |-> "idle", row |-> 0, item |-> "none", docs |-> "none",
         existed |-> FALSE, org |-> "none"]

VARIABLES
  object,       \* the construction object exists
  versions,     \* boq_versions rows, numbered in the order of their creation
  active,       \* those with is_active
  threshold,    \* system_config weight_threshold of the organisation
  reports,      \* zero_reports by id, with their items
  unlogged,     \* items overwritten without their audit row so far
  contractor,   \* the current general contractor; "vacant": the row was closed
  updates,      \* baseline_update_requests by id
  periods,      \* "none"; "open": one is in status open; else "past", or
                \* "disputed" when a discrepancy is open
  requests,     \* the request each worker is serving
  overlapped,   \* history: two requests were served at the same time
  torn          \* history: a request died between two of its statements

rows == <<object, versions, active, threshold, reports, unlogged, contractor,
          updates, periods>>
vars == <<rows, requests, overlapped, torn>>

Init ==
  /\ object = FALSE
  /\ versions = 0 /\ active = {}
  /\ threshold \in Thresholds
  /\ reports = [r \in ReportId |-> NoReport]
  /\ unlogged = {}
  /\ contractor = "none"
  /\ updates = [u \in UpdateId |-> "none"]
  /\ periods = "none"
  /\ requests = [w \in Workers |-> Idle]
  /\ overlapped = FALSE /\ torn = FALSE

-----------------------------------------------------------------------------
Busy == \E w \in Workers : requests[w].pc # "idle"

Begin(w, q) ==
  /\ object
  /\ requests[w].pc = "idle"
  /\ requests' = [requests EXCEPT ![w] = q]
  /\ overlapped' = (overlapped \/ Busy)
  /\ UNCHANGED torn

Step(w, q) ==
  /\ requests' = [requests EXCEPT ![w] = q]
  /\ UNCHANGED <<overlapped, torn>>

Done(w) == Step(w, Idle)

\* A handler that is one statement needs no worker of its own.
AtOnce ==
  /\ overlapped' = (overlapped \/ Busy)
  /\ UNCHANGED <<requests, torn>>

Filed == {r \in ReportId : reports[r].status # "none"}

\* findFirst by id descending.
IsNewest(r) == r \in Filed /\ \A q \in Filed : q <= r

\* trg_boq_items_weight_coef: an item weighs its share of the total value.
TotalValue == MapThenSumSet(LAMBDA i : ContractValue[i], Items)

Heavy(i) == i \in Critical \/ 100 * ContractValue[i] >= threshold * TotalValue

\* INSERT of an active boq_versions row: the CHECK of change_type and the partial
\* unique index uq_boq_versions_active.
InsertVersionAllowed(changeType) ==
  /\ changeType \in {"initial", "volume", "cost", "structural"}
  /\ active = {}

-----------------------------------------------------------------------------
\* The object, its configuration and its BoQ

CreateObject ==
  /\ ~object
  /\ object' = TRUE
  /\ AtOnce
  /\ UNCHANGED <<versions, active, threshold, reports, unlogged, contractor,
                 updates, periods>>

UpdateConfig(percent) ==
  /\ threshold' = percent
  /\ AtOnce
  /\ UNCHANGED <<object, versions, active, reports, unlogged, contractor,
                 updates, periods>>

BoqRead(w) ==
  /\ active = {}
  /\ Begin(w, [Idle EXCEPT !.pc = "boqCommit"])
  /\ UNCHANGED rows

\* The sum of the weights is 1: the DTO takes only positive contract values.
BoqCommit(w) ==
  /\ requests[w].pc = "boqCommit"
  /\ Done(w)
  /\ \/ /\ InsertVersionAllowed("initial")
        /\ versions < MaxVersions
        /\ versions' = versions + 1
        /\ active' = active \cup {versions + 1}
        /\ UNCHANGED <<object, threshold, reports, unlogged, contractor,
                       updates, periods>>
     \/ ~InsertVersionAllowed("initial") /\ UNCHANGED rows

-----------------------------------------------------------------------------
\* Zero report

CreateReportRead(w, v) ==
  /\ v <= versions
  /\ Filed = {}
  /\ Begin(w, [Idle EXCEPT !.pc = "reportCommit", !.row = v])
  /\ UNCHANGED rows

\* The sequence gives ids in the order of the INSERTs, not of the commits.
CreateReportCommit(w) ==
  /\ requests[w].pc = "reportCommit"
  /\ \E r \in ReportId :
       /\ r \notin Filed
       /\ reports' = [reports EXCEPT ![r] =
                        [NoReport EXCEPT !.status = "draft", !.version = requests[w].row]]
  /\ Done(w)
  /\ UNCHANGED <<object, versions, active, threshold, unlogged, contractor,
                 updates, periods>>

\* Mutation: any item counts as new.
ItemReadNew(w, i, docs) ==
  /\ \E r \in ReportId :
       /\ IsNewest(r)
       /\ reports[r].status = "draft"
       /\ Begin(w, [Idle EXCEPT !.pc = "itemCommit", !.row = r, !.item = i,
                                !.docs = docs])
  /\ UNCHANGED rows

ItemRead(w, i, docs) ==
  /\ \E r \in ReportId :
       /\ IsNewest(r)
       /\ reports[r].status = "draft"
       /\ Begin(w, [Idle EXCEPT !.pc = "itemCommit", !.row = r, !.item = i,
                                !.docs = docs, !.existed = reports[r].items[i] # "none"])
  /\ UNCHANGED rows

ItemCommit(w) ==
  LET q == requests[w] IN
  /\ q.pc = "itemCommit"
  /\ reports' = [reports EXCEPT ![q.row] =
                   [@ EXCEPT !.items = [reports[q.row].items EXCEPT ![q.item] = q.docs]]]
  /\ unlogged' = IF reports[q.row].items[q.item] = "none" THEN unlogged
                 ELSE unlogged \cup {<<q.row, q.item>>}
  /\ Step(w, IF q.existed THEN [q EXCEPT !.pc = "itemAudit"] ELSE Idle)
  /\ UNCHANGED <<object, versions, active, threshold, contractor, updates,
                 periods>>

ItemAudit(w) ==
  /\ requests[w].pc = "itemAudit"
  /\ unlogged' = unlogged \ {<<requests[w].row, requests[w].item>>}
  /\ Done(w)
  /\ UNCHANGED <<object, versions, active, threshold, reports, contractor,
                 updates, periods>>

\* Mutation: a report can be submitted in any status.
SubmitReadAny(w) ==
  /\ \E r \in ReportId :
       /\ IsNewest(r)
       /\ \E i \in Items : reports[r].items[i] # "none"
       /\ Begin(w, [Idle EXCEPT !.pc = "submitCommit", !.row = r])
  /\ UNCHANGED rows

\* Items are never deleted, so the count can be taken with the status.
SubmitRead(w) ==
  /\ \E r \in ReportId :
       /\ IsNewest(r)
       /\ reports[r].status = "draft"
       /\ \E i \in Items : reports[r].items[i] # "none"
       /\ Begin(w, [Idle EXCEPT !.pc = "submitCommit", !.row = r])
  /\ UNCHANGED rows

\* The update names the id and not the status.
SubmitCommit(w) ==
  /\ requests[w].pc = "submitCommit"
  /\ reports' = [reports EXCEPT ![requests[w].row] =
                   [@ EXCEPT !.status = "pending_approval"]]
  /\ Done(w)
  /\ UNCHANGED <<object, versions, active, threshold, unlogged, contractor,
                 updates, periods>>

ApproveRead(w) ==
  /\ \E r \in ReportId :
       /\ IsNewest(r)
       /\ reports[r].status = "pending_approval"
       /\ Begin(w, [Idle EXCEPT !.pc = "approveCheck", !.row = r])
  /\ UNCHANGED rows

\* Mutation: a weight equal to the threshold counts as light.
ApproveCheckAbove(w) ==
  LET r == requests[w].row IN
  /\ requests[w].pc = "approveCheck"
  /\ \A q \in ReportId : reports[q].status # "approved"
  /\ \A i \in Items :
       /\ reports[r].items[i] # "none"
       /\ i \in Critical \/ 100 * ContractValue[i] > threshold * TotalValue
            => reports[r].items[i] = "verified"
  /\ Step(w, [requests[w] EXCEPT !.pc = "approveCommit"])
  /\ UNCHANGED rows

\* Mutation: an item that is missing is passed over.
ApproveCheckPresent(w) ==
  LET r == requests[w].row IN
  /\ requests[w].pc = "approveCheck"
  /\ \A q \in ReportId : reports[q].status # "approved"
  /\ \A i \in Items : Heavy(i) => reports[r].items[i] = "verified"
  /\ Step(w, [requests[w] EXCEPT !.pc = "approveCommit"])
  /\ UNCHANGED rows

ApproveCheck(w) ==
  LET r == requests[w].row IN
  /\ requests[w].pc = "approveCheck"
  /\ \A q \in ReportId : reports[q].status # "approved"
  /\ \A i \in Items :
       /\ reports[r].items[i] # "none"
       /\ Heavy(i) => reports[r].items[i] = "verified"
  /\ Step(w, [requests[w] EXCEPT !.pc = "approveCommit"])
  /\ UNCHANGED rows

\* uq_zero_reports_approved refuses a second approved report.
ApproveCommit(w) ==
  LET r == requests[w].row IN
  /\ requests[w].pc = "approveCommit"
  /\ \A q \in ReportId \ {r} : reports[q].status # "approved"
  /\ reports' = [reports EXCEPT ![r] = [@ EXCEPT !.status = "approved"]]
  /\ Done(w)
  /\ UNCHANGED <<object, versions, active, threshold, unlogged, contractor,
                 updates, periods>>

-----------------------------------------------------------------------------
\* Periods, as far as the setup sees them

OpenRead(w) ==
  /\ \E r \in ReportId : reports[r].status = "approved"
  /\ periods # "open"
  /\ active # {}
  /\ Begin(w, [Idle EXCEPT !.pc = "openCommit"])
  /\ UNCHANGED rows

\* The advisory lock leaves one opener at a time (PeriodCycle).
OpenCommit(w) ==
  /\ requests[w].pc = "openCommit"
  /\ periods # "open"
  /\ periods' = "open"
  /\ Done(w)
  /\ UNCHANGED <<object, versions, active, threshold, reports, unlogged,
                 contractor, updates>>

\* submitGp, createDispute and the ways a dispute ends, for this module's needs.
PeriodGoesOn ==
  /\ periods # "none"
  /\ periods' \in {"past", "disputed"}
  /\ AtOnce
  /\ UNCHANGED <<object, versions, active, threshold, reports, unlogged,
                 contractor, updates>>

-----------------------------------------------------------------------------
\* Baseline updates

RequestUpdate(u) ==
  /\ active # {}
  /\ updates[u] = "none"
  /\ updates' = [updates EXCEPT ![u] = "pending"]
  /\ AtOnce
  /\ UNCHANGED <<object, versions, active, threshold, reports, unlogged,
                 contractor, periods>>

\* The status of the request is read outside the transaction.
ApproveUpdateRead(w, u) ==
  /\ updates[u] = "pending"
  /\ periods # "open"
  /\ active # {}
  /\ Begin(w, [Idle EXCEPT !.pc = "updateCommit", !.row = u])
  /\ UNCHANGED rows

\* The new version is inserted as active, with change type baseline_update,
\* before the old one is deactivated: a refused INSERT undoes the transaction.
ApproveUpdateCommit(w) ==
  LET u == requests[w].row IN
  /\ requests[w].pc = "updateCommit"
  /\ IF InsertVersionAllowed("baseline_update") /\ versions < MaxVersions
     THEN /\ versions' = versions + 1
          /\ active' = {versions + 1}
          /\ updates' = [updates EXCEPT ![u] = "approved"]
     ELSE UNCHANGED <<versions, active, updates>>
  /\ Done(w)
  /\ UNCHANGED <<object, threshold, reports, unlogged, contractor, periods>>

-----------------------------------------------------------------------------
\* The general contractor

\* addParticipant: the current row of the role is closed in a statement of its
\* own.  It asks neither for an open period nor for disputes.
CloseParticipant(w, org) ==
  /\ Begin(w, [Idle EXCEPT !.pc = "participantInsert", !.org = org])
  /\ contractor' = IF contractor \in Orgs THEN "vacant" ELSE contractor
  /\ UNCHANGED <<object, versions, active, threshold, reports, unlogged,
                 updates, periods>>

\* Mutation: the row is not inserted as the current one.
InsertParticipantPast(w) ==
  /\ requests[w].pc = "participantInsert"
  /\ Done(w)
  /\ UNCHANGED rows

\* uq_object_participants_current refuses a second current row.
InsertParticipant(w) ==
  /\ requests[w].pc = "participantInsert"
  /\ contractor' = IF contractor \in Orgs THEN contractor ELSE requests[w].org
  /\ Done(w)
  /\ UNCHANGED <<object, versions, active, threshold, reports, unlogged,
                 updates, periods>>

ContractorRead(w, org) ==
  /\ periods \notin {"open", "disputed"}
  /\ Begin(w, [Idle EXCEPT !.pc = "contractorCommit", !.org = org])
  /\ UNCHANGED rows

\* The change is committed before its audit row, whose action the CHECK of
\* audit_log refuses: the answer is an error and no row is left.
ContractorCommit(w) ==
  /\ requests[w].pc = "contractorCommit"
  /\ contractor' = requests[w].org
  /\ Done(w)
  /\ UNCHANGED <<object, versions, active, threshold, reports, unlogged,
                 updates, periods>>

-----------------------------------------------------------------------------
\* A check fails, the connection is lost or the process dies: a transaction is
\* rolled back, statements already committed stay.
RequestFails(w) ==
  /\ requests[w].pc # "idle"
  /\ requests' = [requests EXCEPT ![w] = Idle]
  /\ torn' = (torn \/ requests[w].pc \in {"itemAudit", "participantInsert"})
  /\ UNCHANGED <<rows, overlapped>>

RequestStep(w) ==
  \/ BoqCommit(w)
  \/ CreateReportCommit(w)
  \/ ItemCommit(w) \/ ItemAudit(w)
  \/ SubmitCommit(w)
  \/ ApproveCheck(w) \/ ApproveCommit(w)
  \/ OpenCommit(w)
  \/ ApproveUpdateCommit(w)
  \/ InsertParticipant(w)
  \/ ContractorCommit(w)

RequestStart(w) ==
  \/ BoqRead(w)
  \/ \E v \in VersionNo : CreateReportRead(w, v)
  \/ \E i \in Items, docs \in {"plain", "verified"} : ItemRead(w, i, docs)
  \/ SubmitRead(w) \/ ApproveRead(w) \/ OpenRead(w)
  \/ \E u \in UpdateId : ApproveUpdateRead(w, u)
  \/ \E org \in Orgs : CloseParticipant(w, org) \/ ContractorRead(w, org)

Next ==
  \/ CreateObject
  \/ \E percent \in Thresholds : UpdateConfig(percent)
  \/ \E u \in UpdateId : RequestUpdate(u)
  \/ PeriodGoesOn
  \/ \E w \in Workers : RequestStart(w) \/ RequestStep(w) \/ RequestFails(w)

Spec == Init /\ [][Next]_vars

-----------------------------------------------------------------------------
\* Safety

\* Every row and every request keeps its type.
TypeOK ==
  /\ object \in BOOLEAN
  /\ versions \in 0..MaxVersions
  /\ active \subseteq 1..versions
  /\ threshold \in Thresholds
  /\ reports \in [ReportId -> Report]
  /\ unlogged \subseteq ReportId \X Items
  /\ contractor \in Orgs \cup {"none", "vacant"}
  /\ updates \in [UpdateId -> {"none", "pending", "approved"}]
  /\ periods \in {"none", "open", "past", "disputed"}
  /\ requests \in [Workers -> Request]
  /\ overlapped \in BOOLEAN
  /\ torn \in BOOLEAN

\* docs/architecture_v1_0.md, "one active BoQ version": two imports or a baseline
\* update beside an import never leave two versions active, though each handler
\* looks before it inserts without a lock.
OneActiveVersion == \A v1, v2 \in active : v1 = v2

\* uq_zero_reports_approved and algorithm block B: whatever requests overlap, an
\* object has one approved zero report at most, and it states every BoQ item.
ApprovedIsComplete ==
  \A r \in ReportId : reports[r].status = "approved" =>
    /\ \A i \in Items : reports[r].items[i] # "none"
    /\ \A q \in ReportId : reports[q].status = "approved" => q = r

\* Block B3: a report is approved with all three documents for every heavy item.
\* An entry that overlaps the approval can still replace them.
ApprovedIsVerified ==
  [][\A r \in ReportId :
       reports[r].status # "approved" /\ reports'[r].status = "approved" /\ ~overlapped'
         => \A i \in Items : Heavy(i) => reports[r].items[i] = "verified"]_vars

\* Block B, LOCK ZeroReport: an approved report stays approved and as it was.  A
\* submit or an entry that read the draft before the approval can break it.
ApprovalStands ==
  [][\A r \in ReportId :
       reports[r].status = "approved" /\ ~overlapped' => reports'[r] = reports[r]]_vars

\* Block B, LOG ZeroReportCorrection: an item that was overwritten has its audit
\* row, or its request is about to write it; two first entries that overlap hide
\* a correction.
CorrectionsLogged ==
  ~overlapped /\ ~torn =>
    \A x \in unlogged :
      \E w \in Workers :
        requests[w].pc = "itemAudit" /\ <<requests[w].row, requests[w].item>> = x

\* object_participants is a history without gaps: once an object had a general
\* contractor it has one, unless a replacement is under way or died halfway.
RoleNeverVacant ==
  contractor = "vacant" =>
    torn \/ \E w \in Workers : requests[w].pc = "participantInsert"

-----------------------------------------------------------------------------
\* What the documentation promises and the code does not keep

\* Fairness: requests are served, an administrator keeps approving what waits, no
\* request is cut off for ever.
ReviewsGoOn ==
  \A w \in Workers :
    /\ WF_vars(RequestStep(w) \/ RequestFails(w))
    /\ SF_vars(ApproveUpdateCommit(w))
    /\ \A u \in UpdateId : SF_vars(ApproveUpdateRead(w, u))

ReviewedSpec == Spec /\ ReviewsGoOn

\* object-lifecycle.md, "UpdateBaseline creates a new version": a request that an
\* administrator keeps approving outside open periods is carried out.
UpdatesCarriedOut ==
  \A u \in UpdateId : updates[u] = "pending" ~> updates[u] = "approved" \/ periods = "open"
=============================================================================
