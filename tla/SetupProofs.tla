----------------------------- MODULE SetupProofs -----------------------------
(***************************************************************************)
(* Proofs about ObjectSetup for any number of requests, items, versions,   *)
(* reports and updates.  IInv is inductive under any overlap of requests;  *)
(* Serial adds what holds as long as requests have not overlapped.         *)
(***************************************************************************)
EXTENDS ObjectSetup, TLAPS

Given == {"plain", "verified"}

\* The steps of a request that hold the id of a report they read.
Holding == {"itemCommit", "itemAudit", "submitCommit", "approveCheck", "approveCommit"}

\* What request q may rely on, whatever the others did to the reports rs since.
Sound(q, rs) ==
  /\ q.pc = "reportCommit" => q.row \in VersionNo
  /\ q.pc \in Holding => q.row \in ReportId /\ rs[q.row].status # "none"
  /\ q.pc \in {"itemCommit", "itemAudit"} => q.item \in Items /\ q.docs \in Given
  /\ q.pc = "updateCommit" => q.row \in UpdateId
  /\ q.pc \in {"participantInsert", "contractorCommit"} => q.org \in Orgs
  /\ q.pc = "approveCommit" => \A i \in Items : rs[q.row].items[i] # "none"

InFlight == \A w \in Workers : Sound(requests[w], reports)

\* Heavy, for a given threshold.
HeavyAt(i, percent) == i \in Critical \/ 100 * ContractValue[i] >= percent * TotalValue

\* What request q may rely on besides while no other was served beside it.
Careful(q, rs, percent) ==
  /\ q.pc \in {"itemCommit", "submitCommit"} => rs[q.row].status = "draft"
  /\ q.pc = "itemCommit" => q.existed = (rs[q.row].items[q.item] # "none")
  /\ q.pc = "approveCommit" =>
       \A i \in Items : HeavyAt(i, percent) => rs[q.row].items[i] = "verified"

\* Requests that did not overlap are one at a time.
Serial ==
  ~overlapped =>
    /\ \A v, w \in Workers : requests[v].pc # "idle" /\ requests[w].pc # "idle" => v = w
    /\ \A w \in Workers : Careful(requests[w], reports, threshold)

IInv == TypeOK /\ InFlight /\ OneActiveVersion /\ ApprovedIsComplete /\ RoleNeverVacant

\* Reports are filed and never withdrawn, and their items are never deleted.
Grows(rs, new) ==
  \A r \in ReportId : rs[r].status # "none" =>
    /\ new[r].status # "none"
    /\ \A i \in Items : rs[r].items[i] # "none" => new[r].items[i] # "none"

-----------------------------------------------------------------------------
\* The shapes of the steps

\* An idle request is well formed and relies on nothing.
LEMMA IdleSound == Idle \in Request /\ \A rs : Sound(Idle, rs)
  BY DEF Idle, Request, PC, Sound, Holding, ItemState

\* What a request relies on survives the growth of the reports.
LEMMA SoundStays ==
  ASSUME NEW q \in Request, NEW rs, NEW new, Sound(q, rs), Grows(rs, new)
  PROVE  Sound(q, new)
  BY DEF Sound, Grows, Holding

\* Reports that did not change have grown.
LEMMA GrowsItself == \A rs : Grows(rs, rs)
  BY DEF Grows

\* Where a request goes on to a sound record and the reports grow, all stay sound.
LEMMA InFlightStays ==
  ASSUME TypeOK, InFlight, NEW w \in Workers, NEW q \in Request, Sound(q, reports'),
         requests' = [requests EXCEPT ![w] = q], Grows(reports, reports')
  PROVE  requests' \in [Workers -> Request] /\ InFlight'
  <1>1. requests' \in [Workers -> Request]
    BY DEF TypeOK
  <1>2. ASSUME NEW v \in Workers PROVE Sound(requests'[v], reports')
    <2>1. CASE v = w
      BY <2>1 DEF TypeOK
    <2>2. CASE v # w
      <3>1. requests'[v] = requests[v] /\ requests[v] \in Request /\ Sound(requests[v], reports)
        BY <2>2 DEF TypeOK, InFlight
      <3>2. QED
        BY <3>1, SoundStays
    <2>3. QED
      BY <2>1, <2>2
  <1>3. QED
    BY <1>1, <1>2 DEF InFlight

\* Every request starts as a well-formed record that is sound, and the only row its
\* first step writes is the contractor's.
StartsAs(w, q) ==
  /\ q \in Request /\ q.pc # "idle" /\ Sound(q, reports) /\ Careful(q, reports, threshold)
  /\ requests[w].pc = "idle"
  /\ requests' = [requests EXCEPT ![w] = q]
  /\ overlapped' = (overlapped \/ Busy) /\ torn' = torn
  /\ UNCHANGED <<object, versions, active, threshold, reports, unlogged, updates, periods>>
  /\ \/ contractor' = contractor
     \/ contractor' = "vacant" /\ q.pc = "participantInsert"

\* RequestStart has that shape.
LEMMA StartShape ==
  ASSUME TypeOK, NEW w \in Workers, RequestStart(w)
  PROVE  \E q : StartsAs(w, q)
  <1>1. CASE BoqRead(w)
    <2>1. StartsAs(w, [Idle EXCEPT !.pc = "boqCommit"])
      BY <1>1 DEF BoqRead, Begin, rows, StartsAs, Idle, Request, PC, ItemState, Sound,
         Holding, Careful
    <2>2. QED
      BY <2>1
  <1>2. ASSUME NEW v \in VersionNo, CreateReportRead(w, v) PROVE \E q : StartsAs(w, q)
    <2>1. v \in Nat
      BY SetupAssumption DEF VersionNo
    <2>2. StartsAs(w, [Idle EXCEPT !.pc = "reportCommit", !.row = v])
      BY <1>2, <2>1 DEF CreateReportRead, Begin, rows, StartsAs, Idle, Request, PC, ItemState,
         Sound, Holding, Careful
    <2>3. QED
      BY <2>2
  <1>3. ASSUME NEW i \in Items, NEW docs \in {"plain", "verified"}, ItemRead(w, i, docs)
        PROVE  \E q : StartsAs(w, q)
    <2>1. PICK r \in ReportId :
            /\ reports[r].status = "draft"
            /\ Begin(w, [Idle EXCEPT !.pc = "itemCommit", !.row = r, !.item = i,
                                     !.docs = docs, !.existed = reports[r].items[i] # "none"])
      BY <1>3 DEF ItemRead
    <2>2. r \in Nat
      BY SetupAssumption DEF ReportId
    <2>3. StartsAs(w, [Idle EXCEPT !.pc = "itemCommit", !.row = r, !.item = i,
                                   !.docs = docs, !.existed = reports[r].items[i] # "none"])
      BY <1>3, <2>1, <2>2 DEF ItemRead, Begin, rows, StartsAs, Idle, Request, PC, ItemState,
         Sound, Holding, Given, Careful
    <2>4. QED
      BY <2>3
  <1>4. CASE SubmitRead(w)
    <2>1. PICK r \in ReportId :
            /\ reports[r].status = "draft"
            /\ Begin(w, [Idle EXCEPT !.pc = "submitCommit", !.row = r])
      BY <1>4 DEF SubmitRead
    <2>2. r \in Nat
      BY SetupAssumption DEF ReportId
    <2>3. StartsAs(w, [Idle EXCEPT !.pc = "submitCommit", !.row = r])
      BY <1>4, <2>1, <2>2 DEF SubmitRead, Begin, rows, StartsAs, Idle, Request, PC, ItemState,
         Sound, Holding, Careful
    <2>4. QED
      BY <2>3
  <1>5. CASE ApproveRead(w)
    <2>1. PICK r \in ReportId :
            /\ reports[r].status = "pending_approval"
            /\ Begin(w, [Idle EXCEPT !.pc = "approveCheck", !.row = r])
      BY <1>5 DEF ApproveRead
    <2>2. r \in Nat
      BY SetupAssumption DEF ReportId
    <2>3. StartsAs(w, [Idle EXCEPT !.pc = "approveCheck", !.row = r])
      BY <1>5, <2>1, <2>2 DEF ApproveRead, Begin, rows, StartsAs, Idle, Request, PC, ItemState,
         Sound, Holding, Careful
    <2>4. QED
      BY <2>3
  <1>6. CASE OpenRead(w)
    <2>1. StartsAs(w, [Idle EXCEPT !.pc = "openCommit"])
      BY <1>6 DEF OpenRead, Begin, rows, StartsAs, Idle, Request, PC, ItemState, Sound,
         Holding, Careful
    <2>2. QED
      BY <2>1
  <1>7. ASSUME NEW u \in UpdateId, ApproveUpdateRead(w, u) PROVE \E q : StartsAs(w, q)
    <2>1. u \in Nat
      BY SetupAssumption DEF UpdateId
    <2>2. StartsAs(w, [Idle EXCEPT !.pc = "updateCommit", !.row = u])
      BY <1>7, <2>1 DEF ApproveUpdateRead, Begin, rows, StartsAs, Idle, Request, PC, ItemState,
         Sound, Holding, Careful
    <2>3. QED
      BY <2>2
  <1>8. ASSUME NEW org \in Orgs, CloseParticipant(w, org) PROVE \E q : StartsAs(w, q)
    <2>1. StartsAs(w, [Idle EXCEPT !.pc = "participantInsert", !.org = org])
      BY <1>8 DEF CloseParticipant, Begin, rows, StartsAs, Idle, Request, PC, ItemState,
         Sound, Holding, Careful
    <2>2. QED
      BY <2>1
  <1>9. ASSUME NEW org \in Orgs, ContractorRead(w, org) PROVE \E q : StartsAs(w, q)
    <2>1. StartsAs(w, [Idle EXCEPT !.pc = "contractorCommit", !.org = org])
      BY <1>9 DEF ContractorRead, Begin, rows, StartsAs, Idle, Request, PC, ItemState,
         Sound, Holding, Careful
    <2>2. QED
      BY <2>1
  <1>10. QED
    BY <1>1, <1>2, <1>3, <1>4, <1>5, <1>6, <1>7, <1>8, <1>9 DEF RequestStart

-----------------------------------------------------------------------------
\* The inductive invariant

\* The role stays filled unless the request that empties it is the one that ends.
LEMMA RoleStays ==
  ASSUME TypeOK, RoleNeverVacant, NEW w \in Workers, NEW q \in Request,
         requests' = [requests EXCEPT ![w] = q], torn => torn',
         contractor' = "vacant" =>
           contractor = "vacant" /\ (requests[w].pc # "participantInsert" \/ torn')
  PROVE  RoleNeverVacant'
  BY DEF RoleNeverVacant, TypeOK

\* The first step of a request keeps the invariant.
LEMMA StartInv ==
  ASSUME IInv, NEW w \in Workers, RequestStart(w)
  PROVE  IInv'
  <1>1. PICK q : StartsAs(w, q)
    BY StartShape DEF IInv
  <1>2. q \in Request /\ reports' = reports /\ Sound(q, reports') /\ Grows(reports, reports')
    BY <1>1, GrowsItself DEF StartsAs
  <1>3. requests' \in [Workers -> Request] /\ InFlight'
    BY <1>1, <1>2, InFlightStays DEF IInv, StartsAs
  <1>4. TypeOK'
    BY <1>1, <1>3 DEF IInv, TypeOK, StartsAs, Busy
  <1>5. RoleNeverVacant'
    BY <1>1 DEF IInv, TypeOK, StartsAs, RoleNeverVacant
  <1>6. OneActiveVersion' /\ ApprovedIsComplete'
    BY <1>1 DEF IInv, StartsAs, OneActiveVersion, ApprovedIsComplete
  <1>7. QED
    BY <1>3, <1>4, <1>5, <1>6 DEF IInv

\* So does a handler that is one statement.
LEMMA AtOnceInv ==
  ASSUME IInv,
         \/ CreateObject \/ (\E percent \in Thresholds : UpdateConfig(percent))
         \/ (\E u \in UpdateId : RequestUpdate(u)) \/ PeriodGoesOn
  PROVE  IInv'
  <1> USE DEF CreateObject, UpdateConfig, RequestUpdate, PeriodGoesOn, AtOnce
  <1>1. TypeOK'
    BY DEF IInv, TypeOK, Busy
  <1>2. InFlight' /\ OneActiveVersion' /\ ApprovedIsComplete' /\ RoleNeverVacant'
    BY DEF IInv, InFlight, OneActiveVersion, ApprovedIsComplete, RoleNeverVacant
  <1>3. QED
    BY <1>1, <1>2 DEF IInv

\* A step that leaves reports and contractor alone keeps what is said of them.
LEMMA QuietStep ==
  ASSUME IInv, NEW w \in Workers, NEW q \in Request, Sound(q, reports),
         requests' = [requests EXCEPT ![w] = q],
         UNCHANGED <<reports, contractor>>, torn => torn',
         requests[w].pc # "participantInsert" \/ torn'
  PROVE  /\ requests' \in [Workers -> Request]
         /\ InFlight' /\ ApprovedIsComplete' /\ RoleNeverVacant'
  <1>1. reports' = reports /\ Grows(reports, reports') /\ Sound(q, reports')
    BY GrowsItself
  <1>2. requests' \in [Workers -> Request] /\ InFlight'
    BY <1>1, InFlightStays DEF IInv
  <1>3. ApprovedIsComplete'
    BY <1>1 DEF IInv, ApprovedIsComplete
  <1>4. RoleNeverVacant'
    BY RoleStays DEF IInv
  <1>5. QED
    BY <1>2, <1>3, <1>4

\* A step of a request that writes no report and no participant keeps the invariant.
LEMMA QuietInv ==
  ASSUME IInv, NEW w \in Workers,
         \/ BoqCommit(w) \/ ItemAudit(w) \/ ApproveCheck(w) \/ OpenCommit(w)
         \/ ApproveUpdateCommit(w) \/ RequestFails(w)
  PROVE  IInv'
  <1> DEFINE Kept == /\ requests' \in [Workers -> Request]
                     /\ InFlight' /\ ApprovedIsComplete' /\ RoleNeverVacant'
  <1> HIDE DEF Kept
  <1>1. CASE ApproveCheck(w)
    <2> DEFINE q == [requests[w] EXCEPT !.pc = "approveCommit"]
    <2>1. requests[w] \in Request /\ requests[w].pc = "approveCheck"
            /\ Sound(requests[w], reports)
      BY <1>1 DEF ApproveCheck, IInv, InFlight, TypeOK
    <2>2. \A i \in Items : reports[requests[w].row].items[i] # "none"
      BY <1>1 DEF ApproveCheck
    <2>3. q \in Request /\ Sound(q, reports)
      BY <2>1, <2>2 DEF Request, PC, Sound, Holding
    <2>4. requests' = [requests EXCEPT ![w] = q] /\ UNCHANGED rows /\ torn' = torn
            /\ overlapped' = overlapped
      BY <1>1 DEF ApproveCheck, Step
    <2> HIDE DEF q
    <2>5. Kept
      BY <2>1, <2>3, <2>4, QuietStep DEF rows, Kept
    <2>6. QED
      BY <2>4, <2>5 DEF rows, Kept, IInv, TypeOK, OneActiveVersion
  <1>2. CASE BoqCommit(w) \/ ItemAudit(w) \/ OpenCommit(w) \/ ApproveUpdateCommit(w)
               \/ RequestFails(w)
    <2>1. /\ requests' = [requests EXCEPT ![w] = Idle]
          /\ UNCHANGED <<reports, contractor, overlapped>> /\ torn' \in BOOLEAN
          /\ torn => torn'
          /\ requests[w].pc # "participantInsert" \/ torn'
      BY <1>2 DEF BoqCommit, ItemAudit, OpenCommit, ApproveUpdateCommit, RequestFails, Done,
         Step, rows, IInv, TypeOK
    <2>2. Kept
      BY <2>1, IdleSound, QuietStep DEF Kept
    <2>3. /\ versions' \in 0..MaxVersions /\ active' \subseteq 1..versions'
          /\ OneActiveVersion'
      <3>1. CASE UNCHANGED <<versions, active>>
        BY <3>1 DEF IInv, TypeOK, OneActiveVersion
      <3>2. CASE /\ versions' = versions + 1 /\ versions < MaxVersions
                 /\ active' = {versions + 1}
        BY <3>2, SetupAssumption DEF IInv, TypeOK, OneActiveVersion
      <3>3. BoqCommit(w) => \/ UNCHANGED <<versions, active>>
                            \/ /\ versions' = versions + 1 /\ versions < MaxVersions
                               /\ active' = {versions + 1}
        BY DEF BoqCommit, InsertVersionAllowed, rows
      <3>4. QED
        BY <1>2, <3>1, <3>2, <3>3 DEF ItemAudit, OpenCommit, ApproveUpdateCommit,
           RequestFails, rows
    <2>4. /\ object' \in BOOLEAN /\ threshold' \in Thresholds
          /\ unlogged' \subseteq ReportId \X Items
          /\ periods' \in {"none", "open", "past", "disputed"}
      BY <1>2 DEF BoqCommit, ItemAudit, OpenCommit, ApproveUpdateCommit, RequestFails, rows,
         IInv, TypeOK
    <2>5. updates' \in [UpdateId -> {"none", "pending", "approved"}]
      BY <1>2 DEF BoqCommit, ItemAudit, OpenCommit, ApproveUpdateCommit, RequestFails, rows,
         IInv, TypeOK
    <2>6. QED
      BY <2>1, <2>2, <2>3, <2>4, <2>5 DEF Kept, IInv, TypeOK
  <1>3. QED
    BY <1>1, <1>2

\* A step that writes a report or the contractor keeps the invariant: items and
\* statuses are only ever replaced, and an approval comes after the check of every
\* item.
LEMMA WritingInv ==
  ASSUME IInv, NEW w \in Workers,
         \/ CreateReportCommit(w) \/ ItemCommit(w) \/ SubmitCommit(w) \/ ApproveCommit(w)
         \/ InsertParticipant(w) \/ ContractorCommit(w)
  PROVE  IInv'
  <1>1. requests[w] \in Request /\ Sound(requests[w], reports)
          /\ reports \in [ReportId -> Report]
    BY DEF IInv, TypeOK, InFlight
  <1>2. /\ UNCHANGED <<object, versions, active, threshold, updates, periods, overlapped, torn>>
        /\ OneActiveVersion'
    BY DEF CreateReportCommit, ItemCommit, SubmitCommit, ApproveCommit, InsertParticipant,
       ContractorCommit, Done, Step, IInv, OneActiveVersion
  <1>3. CASE InsertParticipant(w) \/ ContractorCommit(w)
    <2>1. requests' = [requests EXCEPT ![w] = Idle] /\ UNCHANGED <<reports, unlogged>>
      BY <1>3 DEF InsertParticipant, ContractorCommit, Done, Step
    <2>2. requests' \in [Workers -> Request] /\ InFlight'
      BY <2>1, IdleSound, GrowsItself, InFlightStays DEF IInv
    <2>3. contractor' \in Orgs
      BY <1>1, <1>3 DEF InsertParticipant, ContractorCommit, Sound
    <2>4. TypeOK'
      BY <1>2, <2>1, <2>2, <2>3 DEF IInv, TypeOK
    <2>5. RoleNeverVacant' /\ ApprovedIsComplete'
      BY <2>1, <2>3, SetupAssumption DEF RoleNeverVacant, ApprovedIsComplete, IInv
    <2>6. QED
      BY <1>2, <2>2, <2>4, <2>5 DEF IInv
  <1>4. ASSUME NEW q \in Request, q = Idle \/ q = [requests[w] EXCEPT !.pc = "itemAudit"],
               Sound(q, reports'), requests' = [requests EXCEPT ![w] = q],
               requests[w].pc # "participantInsert",
               reports' \in [ReportId -> Report], Grows(reports, reports'),
               contractor' = contractor, unlogged' \subseteq ReportId \X Items,
               ApprovedIsComplete'
        PROVE  IInv'
    <2>1. requests' \in [Workers -> Request] /\ InFlight'
      BY <1>4, InFlightStays DEF IInv
    <2>2. TypeOK'
      BY <1>2, <1>4, <2>1 DEF IInv, TypeOK
    <2>3. RoleNeverVacant'
      BY <1>2, <1>4, RoleStays DEF IInv
    <2>4. QED
      BY <1>2, <1>4, <2>1, <2>2, <2>3 DEF IInv
  <1>5. CASE CreateReportCommit(w)
    <2>1. PICK r \in ReportId :
            /\ reports[r].status = "none"
            /\ reports' = [reports EXCEPT ![r] =
                 [NoReport EXCEPT !.status = "draft", !.version = requests[w].row]]
      BY <1>5 DEF CreateReportCommit, Filed
    <2>2. requests[w].row \in 0..MaxVersions
      BY <1>1, <1>5, SetupAssumption DEF CreateReportCommit, Sound, VersionNo
    <2>3. [NoReport EXCEPT !.status = "draft", !.version = requests[w].row] \in Report
      BY <2>2 DEF NoReport, Report, ItemState
    <2>4. reports' \in [ReportId -> Report] /\ Grows(reports, reports')
      BY <1>1, <2>1, <2>3 DEF Grows
    <2>5. ApprovedIsComplete'
      BY <1>1, <2>1 DEF IInv, ApprovedIsComplete, NoReport
    <2>6. requests' = [requests EXCEPT ![w] = Idle] /\ UNCHANGED <<unlogged, contractor>>
            /\ requests[w].pc # "participantInsert"
      BY <1>5 DEF CreateReportCommit, Done, Step
    <2>7. unlogged' \subseteq ReportId \X Items
      BY <2>6 DEF IInv, TypeOK
    <2>8. QED
      BY <1>4, <2>4, <2>5, <2>6, <2>7, IdleSound
  <1>6. CASE ItemCommit(w)
    <2> DEFINE r == requests[w].row
               i == requests[w].item
               d == requests[w].docs
               new == [reports[r] EXCEPT !.items = [reports[r].items EXCEPT ![i] = d]]
    <2>1. /\ r \in ReportId /\ i \in Items /\ d \in Given /\ reports[r].status # "none"
          /\ reports' = [reports EXCEPT ![r] = new]
      <3>1. requests[w].pc = "itemCommit"
        BY <1>6 DEF ItemCommit
      <3>2. r \in ReportId /\ i \in Items /\ d \in Given /\ reports[r].status # "none"
        BY <1>1, <3>1 DEF Sound, Holding
      <3>3. reports' = [reports EXCEPT ![r] = new]
        BY <1>1, <1>6, <3>2 DEF ItemCommit
      <3>4. QED
        BY <3>2, <3>3
    <2>2. /\ new \in Report /\ new.status = reports[r].status
          /\ \A j \in Items : new.items[j] = IF j = i THEN d ELSE reports[r].items[j]
      BY <1>1, <2>1 DEF Report, ItemState, Given
    <2> HIDE DEF new
    <2>3. reports' \in [ReportId -> Report]
      BY <1>1, <2>1, <2>2
    <2>4. /\ \A s \in ReportId : reports'[s].status = reports[s].status
          /\ \A s \in ReportId, j \in Items : reports[s].items[j] # "none"
               => reports'[s].items[j] # "none"
      BY <1>1, <2>1, <2>2 DEF Given
    <2>5. Grows(reports, reports') /\ ApprovedIsComplete'
      BY <2>4 DEF Grows, ApprovedIsComplete, IInv
    <2>6. /\ contractor' = contractor /\ requests[w].pc = "itemCommit"
          /\ unlogged' \subseteq ReportId \X Items
      BY <1>6, <2>1 DEF ItemCommit, IInv, TypeOK
    <2>7. CASE requests' = [requests EXCEPT ![w] = Idle]
      BY <1>4, <2>3, <2>5, <2>6, <2>7, IdleSound
    <2>8. CASE requests' = [requests EXCEPT ![w] = [requests[w] EXCEPT !.pc = "itemAudit"]]
      <3> DEFINE q == [requests[w] EXCEPT !.pc = "itemAudit"]
      <3>1. q \in Request
        BY <1>1 DEF Request, PC
      <3>2. /\ q.pc = "itemAudit" /\ q.row = r /\ q.item = i /\ q.docs = d
        BY <1>1 DEF Request
      <3>3. reports'[r].status # "none"
        BY <2>1, <2>4
      <3> HIDE DEF q, r, i, d
      <3>4. Sound(q, reports')
        BY <2>1, <3>2, <3>3 DEF Sound, Holding
      <3>5. q = [requests[w] EXCEPT !.pc = "itemAudit"]
        BY DEF q
      <3>6. requests' = [requests EXCEPT ![w] = q]
        BY <2>8 DEF q
      <3>7. QED
        BY <1>4, <2>3, <2>5, <2>6, <3>1, <3>4, <3>5, <3>6
    <2>9. QED
      BY <1>6, <2>7, <2>8 DEF ItemCommit, Step
  <1>7. CASE SubmitCommit(w) \/ ApproveCommit(w)
    <2> DEFINE r == requests[w].row
    <2>1. PICK st \in {"pending_approval", "approved"} :
            /\ reports' = [reports EXCEPT ![r] = [reports[r] EXCEPT !.status = st]]
            /\ st = "approved" => /\ \A i \in Items : reports[r].items[i] # "none"
                                  /\ \A q \in ReportId \ {r} : reports[q].status # "approved"
      BY <1>1, <1>7 DEF SubmitCommit, ApproveCommit, Sound
    <2>2. r \in ReportId /\ reports[r].status # "none"
      BY <1>1, <1>7 DEF SubmitCommit, ApproveCommit, Sound, Holding
    <2>3. [reports[r] EXCEPT !.status = st] \in Report
      BY <1>1, <2>2 DEF Report
    <2>4. /\ reports' \in [ReportId -> Report]
          /\ \A s \in ReportId : reports'[s].items = reports[s].items
          /\ \A s \in ReportId : reports'[s].status = IF s = r THEN st ELSE reports[s].status
      BY <1>1, <2>1, <2>2, <2>3 DEF Report
    <2>5. Grows(reports, reports')
      BY <2>4 DEF Grows
    <2>6. ApprovedIsComplete'
      BY <2>1, <2>2, <2>4 DEF IInv, ApprovedIsComplete
    <2>7. /\ requests' = [requests EXCEPT ![w] = Idle] /\ UNCHANGED <<unlogged, contractor>>
          /\ requests[w].pc # "participantInsert"
      BY <1>7 DEF SubmitCommit, ApproveCommit, Done, Step
    <2>8. unlogged' \subseteq ReportId \X Items
      BY <2>7 DEF IInv, TypeOK
    <2>9. QED
      BY <1>4, <2>4, <2>5, <2>6, <2>7, <2>8, IdleSound
  <1>8. QED
    BY <1>3, <1>5, <1>6, <1>7

\* IInv holds of a new object and every step keeps it.
LEMMA Induction ==
  /\ Init => IInv
  /\ IInv /\ [Next]_vars => IInv'
  <1>1. Init => IInv
    <2> SUFFICES ASSUME Init PROVE IInv
      OBVIOUS
    <2>1. NoReport \in Report
      BY SetupAssumption DEF NoReport, Report, ItemState
    <2>2. TypeOK
      <3>1. Idle \in Request
        BY IdleSound
      <3>2. requests \in [Workers -> Request] /\ reports \in [ReportId -> Report]
        BY <2>1, <3>1 DEF Init
      <3>3. versions \in 0..MaxVersions /\ updates \in [UpdateId -> {"none", "pending", "approved"}]
        BY SetupAssumption DEF Init
      <3>4. object \in BOOLEAN /\ overlapped \in BOOLEAN /\ torn \in BOOLEAN
        BY DEF Init
      <3>5. /\ active \subseteq 1..versions /\ threshold \in Thresholds
            /\ unlogged \subseteq ReportId \X Items /\ contractor \in Orgs \cup {"none", "vacant"}
            /\ periods \in {"none", "open", "past", "disputed"}
        BY DEF Init
      <3>6. QED
        BY <3>2, <3>3, <3>4, <3>5 DEF TypeOK
    <2>3. InFlight
      BY IdleSound DEF Init, InFlight
    <2>4. OneActiveVersion /\ ApprovedIsComplete /\ RoleNeverVacant
      BY DEF Init, OneActiveVersion, ApprovedIsComplete, RoleNeverVacant, NoReport
    <2>5. QED
      BY <2>2, <2>3, <2>4 DEF IInv
  <1>2. ASSUME IInv, [Next]_vars PROVE IInv'
    <2>1. CASE UNCHANGED vars
      BY <1>2, <2>1 DEF vars, rows, IInv, TypeOK, InFlight, OneActiveVersion,
         ApprovedIsComplete, RoleNeverVacant
    <2>2. ASSUME NEW w \in Workers, RequestStart(w) \/ RequestStep(w) \/ RequestFails(w)
          PROVE  IInv'
      BY <1>2, <2>2, StartInv, QuietInv, WritingInv DEF RequestStep
    <2>3. QED
      BY <1>2, <2>1, <2>2, AtOnceInv DEF Next
  <1>3. QED
    BY <1>1, <1>2

-----------------------------------------------------------------------------
\* The results

\* IInv holds in every state, whatever requests overlap, fail or die.
THEOREM InductiveInvariant == Spec => []IInv
  BY Induction, PTL DEF Spec

\* Rows and requests keep their types.
THEOREM TypeCorrect == Spec => []TypeOK
  BY InductiveInvariant, PTL DEF IInv

\* BoqService and BaselineService: two versions are never active together.
THEOREM OneActive == Spec => []OneActiveVersion
  BY InductiveInvariant, PTL DEF IInv

\* ZeroReportService.approve: the approved report of an object is the only one and
\* states every BoQ item, whatever overlapped its approval.
THEOREM Complete == Spec => []ApprovedIsComplete
  BY InductiveInvariant, PTL DEF IInv

\* addParticipant: the role of general contractor is vacant only inside a replacement
\* or after one that died.
THEOREM RoleFilled == Spec => []RoleNeverVacant
  BY InductiveInvariant, PTL DEF IInv

-----------------------------------------------------------------------------
\* One request at a time

\* The lines that are heavy, by the threshold in force.
LEMMA HeavyByThreshold == \A i \in Items : Heavy(i) <=> HeavyAt(i, threshold)
  BY DEF Heavy, HeavyAt

\* An idle request relies on nothing.
LEMMA IdleCareful == \A rs, percent : Careful(Idle, rs, percent)
  BY DEF Careful, Idle

\* A busy request is the only one, or requests overlapped; the others are idle.
LEMMA AloneThen ==
  ASSUME TypeOK, Serial, ~overlapped', overlapped' = overlapped,
         NEW w \in Workers, NEW q \in Request, requests[w].pc # "idle",
         requests' = [requests EXCEPT ![w] = q], Careful(q, reports', threshold')
  PROVE  Serial'
  <1>1. ASSUME NEW v \in Workers, v # w PROVE requests[v].pc = "idle" /\ requests'[v] = requests[v]
    BY <1>1 DEF Serial, TypeOK
  <1>2. requests'[w] = q
    BY DEF TypeOK
  <1>3. \A v \in Workers : requests'[v].pc # "idle" => v = w
    BY <1>1
  <1>4. ASSUME NEW v \in Workers PROVE Careful(requests'[v], reports', threshold')
    <2>1. CASE v = w
      BY <1>2, <2>1
    <2>2. CASE v # w
      BY <1>1, <2>2 DEF Careful
    <2>3. QED
      BY <2>1, <2>2
  <1>5. QED
    BY <1>3, <1>4 DEF Serial

\* A step that stays alone leaves every correction with its row or its request.
LEMMA NothingUnlogged ==
  ASSUME Serial, CorrectionsLogged, ~overlapped, ~torn,
         \/ \A w \in Workers : requests[w].pc = "idle"
         \/ \E w \in Workers : requests[w].pc \notin {"idle", "itemAudit"}
  PROVE  unlogged = {}
  <1>1. ASSUME NEW x \in unlogged PROVE FALSE
    <2>1. PICK v \in Workers : requests[v].pc = "itemAudit"
      BY <1>1 DEF CorrectionsLogged
    <2>2. QED
      BY <2>1 DEF Serial
  <1>2. QED
    BY <1>1

\* A first step that no other request is beside, and one of a handler that is one
\* statement.
LEMMA SerialStart ==
  ASSUME IInv, Serial, CorrectionsLogged,
         \/ \E w \in Workers : RequestStart(w)
         \/ CreateObject \/ (\E percent \in Thresholds : UpdateConfig(percent))
         \/ (\E u \in UpdateId : RequestUpdate(u)) \/ PeriodGoesOn
  PROVE  Serial' /\ CorrectionsLogged'
  <1> SUFFICES ASSUME ~overlapped' PROVE Serial' /\ CorrectionsLogged'
    BY DEF Serial, CorrectionsLogged
  <1>1. /\ ~overlapped /\ torn' = torn /\ unlogged' = unlogged
        /\ \A v \in Workers : requests[v].pc = "idle"
    <2>1. ASSUME NEW w \in Workers, RequestStart(w)
          PROVE  /\ overlapped' = (overlapped \/ Busy) /\ torn' = torn /\ unlogged' = unlogged
      BY <2>1, StartShape DEF IInv, StartsAs
    <2>2. overlapped' = (overlapped \/ Busy) /\ torn' = torn /\ unlogged' = unlogged
      BY <2>1 DEF CreateObject, UpdateConfig, RequestUpdate, PeriodGoesOn, AtOnce
    <2>3. QED
      BY <2>2 DEF Busy
  <1>2. CorrectionsLogged'
    <2>1. torn \/ unlogged = {}
      BY <1>1, NothingUnlogged
    <2>2. QED
      BY <1>1, <2>1 DEF CorrectionsLogged
  <1>3. Serial'
    <2>1. ASSUME NEW w \in Workers, RequestStart(w) PROVE Serial'
      <3>1. PICK q : StartsAs(w, q)
        BY <2>1, StartShape DEF IInv
      <3>2. reports' = reports /\ threshold' = threshold /\ Careful(q, reports, threshold)
              /\ requests' = [requests EXCEPT ![w] = q]
        BY <3>1 DEF StartsAs
      <3>3. \A v \in Workers : v # w => requests'[v] = requests[v]
        BY <3>2 DEF IInv, TypeOK
      <3>4. requests'[w] = q
        BY <3>2 DEF IInv, TypeOK
      <3>5. \A v \in Workers : requests'[v].pc # "idle" => v = w
        BY <1>1, <3>3
      <3>6. \A v \in Workers : Careful(requests'[v], reports', threshold')
        BY <1>1, <3>2, <3>3, <3>4 DEF Careful
      <3>7. QED
        BY <3>5, <3>6 DEF Serial
    <2>2. ASSUME \A w \in Workers : ~RequestStart(w) PROVE Serial'
      <3>1. requests' = requests
        BY <2>2 DEF CreateObject, UpdateConfig, RequestUpdate, PeriodGoesOn, AtOnce
      <3>2. QED
        BY <1>1, <3>1 DEF Serial, Careful
    <2>3. QED
      BY <2>1, <2>2
  <1>4. QED
    BY <1>2, <1>3

\* A later step of the one request under way.
LEMMA SerialStep ==
  ASSUME IInv, Serial, CorrectionsLogged, NEW w \in Workers, RequestStep(w) \/ RequestFails(w)
  PROVE  Serial' /\ CorrectionsLogged'
  <1>1. requests[w].pc # "idle" /\ overlapped' = overlapped
    BY DEF RequestStep, RequestFails, BoqCommit, CreateReportCommit, ItemCommit, ItemAudit,
       SubmitCommit, ApproveCheck, ApproveCommit, OpenCommit, ApproveUpdateCommit,
       InsertParticipant, ContractorCommit, Done, Step
  <1> SUFFICES ASSUME ~overlapped PROVE Serial' /\ CorrectionsLogged'
    BY <1>1 DEF Serial, CorrectionsLogged
  <1>2. TypeOK /\ requests[w] \in Request
    BY DEF IInv, TypeOK
  <1>3. CASE ApproveCheck(w)
    <2> DEFINE q == [requests[w] EXCEPT !.pc = "approveCommit"]
    <2>1. /\ requests' = [requests EXCEPT ![w] = q] /\ torn' = torn
          /\ reports' = reports /\ threshold' = threshold /\ unlogged' = unlogged
          /\ requests[w].pc = "approveCheck"
          /\ \A i \in Items : Heavy(i) => reports[requests[w].row].items[i] = "verified"
      BY <1>3 DEF ApproveCheck, Step, rows
    <2>2. q \in Request /\ q.pc = "approveCommit" /\ q.row = requests[w].row
      BY <1>2 DEF Request, PC
    <2> HIDE DEF q
    <2>3. Careful(q, reports', threshold')
      BY <2>1, <2>2, HeavyByThreshold DEF Careful
    <2>4. Serial'
      BY <1>1, <1>2, <2>1, <2>2, <2>3, AloneThen
    <2>5. torn \/ unlogged = {}
      BY <2>1, NothingUnlogged
    <2>6. QED
      BY <2>1, <2>4, <2>5 DEF CorrectionsLogged
  <1>4. CASE ItemCommit(w)
    <2>1. /\ requests[w].pc = "itemCommit" /\ torn' = torn
          /\ requests[w].existed = (reports[requests[w].row].items[requests[w].item] # "none")
      BY <1>4 DEF ItemCommit, Step, Serial, Careful
    <2>2. torn \/ unlogged = {}
      BY <2>1, NothingUnlogged
    <2>3. CASE requests[w].existed
      <3> DEFINE q == [requests[w] EXCEPT !.pc = "itemAudit"]
      <3>1. requests' = [requests EXCEPT ![w] = q]
              /\ unlogged' \subseteq unlogged \cup {<<requests[w].row, requests[w].item>>}
        BY <1>4, <2>3 DEF ItemCommit, Step
      <3>2. q \in Request /\ q.pc = "itemAudit" /\ q.row = requests[w].row
              /\ q.item = requests[w].item
        BY <1>2 DEF Request, PC
      <3> HIDE DEF q
      <3>3. Serial'
        BY <1>1, <1>2, <3>1, <3>2, AloneThen DEF Careful
      <3>4. requests'[w] = q
        BY <1>2, <3>1 DEF TypeOK
      <3>5. CorrectionsLogged'
        BY <2>1, <2>2, <3>1, <3>2, <3>4 DEF CorrectionsLogged
      <3>6. QED
        BY <3>3, <3>5
    <2>4. CASE ~requests[w].existed
      <3>1. requests' = [requests EXCEPT ![w] = Idle] /\ unlogged' = unlogged
        BY <1>4, <2>1, <2>4 DEF ItemCommit, Step
      <3>2. Serial'
        BY <1>1, <1>2, <3>1, IdleSound, IdleCareful, AloneThen
      <3>3. QED
        BY <2>1, <2>2, <3>1, <3>2 DEF CorrectionsLogged
    <2>5. QED
      BY <2>3, <2>4
  <1>5. CASE ~ApproveCheck(w) /\ ~ItemCommit(w)
    <2>1. requests' = [requests EXCEPT ![w] = Idle]
      BY <1>5 DEF RequestStep, RequestFails, BoqCommit, CreateReportCommit, ItemAudit,
         SubmitCommit, ApproveCommit, OpenCommit, ApproveUpdateCommit, InsertParticipant,
         ContractorCommit, Done, Step
    <2>2. Serial'
      BY <1>1, <1>2, <2>1, IdleSound, IdleCareful, AloneThen
    <2>3. CASE requests[w].pc # "itemAudit"
      <3>1. unlogged' = unlogged /\ (torn => torn')
        <4>1. RequestFails(w) => unlogged' = unlogged /\ (torn => torn')
          BY <1>2 DEF RequestFails, rows, TypeOK
        <4>2. RequestStep(w) => unlogged' = unlogged /\ torn' = torn
          BY <1>5, <2>3 DEF RequestStep, BoqCommit, CreateReportCommit, ItemAudit,
             SubmitCommit, ApproveCommit, OpenCommit, ApproveUpdateCommit, InsertParticipant,
             ContractorCommit, Done, Step, rows
        <4>3. QED
          BY <4>1, <4>2
      <3>2. torn \/ unlogged = {}
        BY <1>1, <2>3, NothingUnlogged
      <3>3. QED
        BY <2>2, <3>1, <3>2 DEF CorrectionsLogged
    <2>4. CASE requests[w].pc = "itemAudit"
      <3>1. RequestFails(w) \/ ItemAudit(w)
        BY <1>5, <2>4 DEF RequestStep, BoqCommit, CreateReportCommit, SubmitCommit,
           ApproveCommit, OpenCommit, ApproveUpdateCommit, InsertParticipant, ContractorCommit
      <3>2. CASE RequestFails(w)
        BY <2>2, <2>4, <3>2 DEF RequestFails, CorrectionsLogged
      <3>3. CASE ItemAudit(w)
        <4>1. unlogged' = unlogged \ {<<requests[w].row, requests[w].item>>} /\ torn' = torn
          BY <3>3 DEF ItemAudit, Done, Step
        <4>2. ASSUME ~torn, NEW x \in unlogged PROVE x = <<requests[w].row, requests[w].item>>
          <5>1. PICK v \in Workers : requests[v].pc = "itemAudit"
                                       /\ <<requests[v].row, requests[v].item>> = x
            BY <4>2 DEF CorrectionsLogged
          <5>2. v = w
            BY <1>1, <5>1 DEF Serial
          <5>3. QED
            BY <5>1, <5>2
        <4>3. torn' \/ unlogged' = {}
          BY <4>1, <4>2
        <4>4. QED
          BY <2>2, <4>3 DEF CorrectionsLogged
      <3>4. QED
        BY <3>1, <3>2, <3>3
    <2>5. QED
      BY <2>3, <2>4
  <1>6. QED
    BY <1>3, <1>4, <1>5

\* Serial and what it says of corrections, on top of IInv.
LEMMA SerialInduction ==
  /\ Init => Serial /\ CorrectionsLogged
  /\ IInv /\ Serial /\ CorrectionsLogged /\ [Next]_vars => Serial' /\ CorrectionsLogged'
  <1>1. Init => Serial /\ CorrectionsLogged
    BY IdleCareful DEF Init, Serial, CorrectionsLogged, Idle
  <1>2. ASSUME IInv, Serial, CorrectionsLogged, [Next]_vars
        PROVE  Serial' /\ CorrectionsLogged'
    <2>1. CASE UNCHANGED vars
      BY <1>2, <2>1 DEF vars, rows, Serial, CorrectionsLogged
    <2>2. CASE Next
      BY <1>2, <2>2, SerialStart, SerialStep DEF Next
    <2>3. QED
      BY <1>2, <2>1, <2>2
  <1>3. QED
    BY <1>1, <1>2

\* What holds while requests have not overlapped holds in every state.
THEOREM SerialInvariant == Spec => [](Serial /\ CorrectionsLogged)
  BY SerialInduction, InductiveInvariant, PTL DEF Spec

\* ZeroReportService.upsertItem: with one request at a time every overwritten item gets
\* its audit row.
THEOREM Logged == Spec => []CorrectionsLogged
  BY SerialInvariant, PTL

\* A report becomes approved by ApproveCommit only.
LEMMA BecomesApproved ==
  ASSUME IInv, [Next]_vars, NEW r \in ReportId,
         reports[r].status # "approved", reports'[r].status = "approved"
  PROVE  \E w \in Workers : requests[w].row = r /\ requests[w].pc = "approveCommit"
                              /\ overlapped' = overlapped
  <1>1. reports' # reports
    OBVIOUS
  <1>2. PICK w \in Workers : CreateReportCommit(w) \/ ItemCommit(w) \/ SubmitCommit(w)
                               \/ ApproveCommit(w)
    <2>1. ~UNCHANGED vars
      BY <1>1 DEF vars, rows
    <2>2. PICK w \in Workers : RequestStart(w) \/ RequestStep(w) \/ RequestFails(w)
      BY <1>1, <2>1 DEF Next, CreateObject, UpdateConfig, RequestUpdate, PeriodGoesOn
    <2>3. ~RequestStart(w)
      BY <1>1, StartShape DEF IInv, StartsAs
    <2>4. QED
      BY <1>1, <2>2, <2>3 DEF RequestStep, RequestFails, BoqCommit, ItemAudit, ApproveCheck,
         OpenCommit, ApproveUpdateCommit, InsertParticipant, ContractorCommit, rows
  <1>3. reports \in [ReportId -> Report] /\ requests[w] \in Request
          /\ Sound(requests[w], reports)
    BY DEF IInv, TypeOK, InFlight
  <1>4. ~CreateReportCommit(w)
    BY <1>3 DEF CreateReportCommit, NoReport
  <1>5. ~ItemCommit(w)
    <2> SUFFICES ASSUME ItemCommit(w) PROVE FALSE
      OBVIOUS
    <2>1. requests[w].pc = "itemCommit"
      BY DEF ItemCommit
    <2>2. requests[w].row \in ReportId
      BY <1>3, <2>1 DEF Sound, Holding
    <2>3. reports'[r].status = reports[r].status
      BY <1>3, <2>2 DEF ItemCommit, Report
    <2>4. QED
      BY <2>3
  <1>6. ~SubmitCommit(w)
    <2> SUFFICES ASSUME SubmitCommit(w) PROVE FALSE
      OBVIOUS
    <2>1. requests[w].row \in ReportId
      BY <1>3 DEF SubmitCommit, Sound, Holding
    <2>2. reports'[r].status \in {reports[r].status, "pending_approval"}
      BY <1>3, <2>1 DEF SubmitCommit, Report
    <2>3. QED
      BY <2>2
  <1>7. ApproveCommit(w)
    BY <1>2, <1>4, <1>5, <1>6
  <1>8. requests[w].pc = "approveCommit" /\ overlapped' = overlapped
    BY <1>7 DEF ApproveCommit, Done, Step
  <1>9. requests[w].row = r
    BY <1>3, <1>7 DEF ApproveCommit
  <1>10. QED
    BY <1>8, <1>9

\* ZeroReportService.approve: the threshold the items were checked against is the one in
\* force when the report is approved.
THEOREM ApprovalIsVerified == Spec => ApprovedIsVerified
  <1> DEFINE Checked ==
        \A r \in ReportId :
          reports[r].status # "approved" /\ reports'[r].status = "approved" /\ ~overlapped'
            => \A i \in Items : Heavy(i) => reports[r].items[i] = "verified"
  <1>1. IInv /\ Serial /\ [Next]_vars => Checked
    <2> SUFFICES ASSUME IInv, Serial, [Next]_vars, NEW r \in ReportId,
                        reports[r].status # "approved", reports'[r].status = "approved",
                        ~overlapped'
                 PROVE  \A i \in Items : Heavy(i) => reports[r].items[i] = "verified"
      OBVIOUS
    <2>1. PICK w \in Workers : requests[w].row = r /\ requests[w].pc = "approveCommit"
                                 /\ overlapped' = overlapped
      BY BecomesApproved
    <2>2. Careful(requests[w], reports, threshold)
      BY <2>1 DEF Serial
    <2>3. QED
      BY <2>1, <2>2, HeavyByThreshold DEF Careful
  <1>2. QED
    BY <1>1, InductiveInvariant, SerialInvariant, PTL DEF Spec, ApprovedIsVerified

\* ZeroReportService: an approved report is never changed by requests served one at a
\* time, in whatever order they come.
THEOREM ApprovalIsFinal == Spec => ApprovalStands
  <1> DEFINE Final ==
        \A r \in ReportId :
          reports[r].status = "approved" /\ ~overlapped' => reports'[r] = reports[r]
  <1>1. IInv /\ Serial /\ [Next]_vars => Final
    <2> SUFFICES ASSUME IInv, Serial, [Next]_vars, NEW r \in ReportId,
                        reports[r].status = "approved", ~overlapped', reports' # reports
                 PROVE  reports'[r] = reports[r]
      OBVIOUS
    <2>1. reports \in [ReportId -> Report]
      BY DEF IInv, TypeOK
    <2>2. PICK w \in Workers : RequestStep(w)
      <3>1. ~UNCHANGED vars
        BY DEF vars, rows
      <3>2. PICK w \in Workers : RequestStart(w) \/ RequestStep(w) \/ RequestFails(w)
        BY <3>1 DEF Next, CreateObject, UpdateConfig, RequestUpdate, PeriodGoesOn
      <3>3. ~RequestStart(w)
        BY StartShape DEF IInv, StartsAs
      <3>4. QED
        BY <3>2, <3>3 DEF RequestFails, rows
    <2>3. /\ requests[w] \in Request /\ Sound(requests[w], reports)
          /\ overlapped' = overlapped => Careful(requests[w], reports, threshold)
      BY DEF IInv, TypeOK, InFlight, Serial
    <2>4. CASE CreateReportCommit(w)
      BY <2>1, <2>4 DEF CreateReportCommit, Filed
    <2>5. CASE ItemCommit(w) \/ SubmitCommit(w)
      <3>1. requests[w].pc \in {"itemCommit", "submitCommit"} /\ overlapped' = overlapped
        BY <2>5 DEF ItemCommit, SubmitCommit, Done, Step
      <3>2. reports[requests[w].row].status = "draft"
        BY <2>3, <3>1 DEF Careful
      <3>3. r # requests[w].row
        BY <3>2
      <3>4. QED
        BY <2>1, <2>5, <3>3 DEF ItemCommit, SubmitCommit
    <2>6. CASE ApproveCommit(w)
      <3>1. CASE requests[w].row # r
        BY <2>6, <3>1 DEF ApproveCommit
      <3>2. CASE requests[w].row = r
        <4>1. reports'[r] = [reports[r] EXCEPT !.status = "approved"]
          BY <2>1, <2>6, <3>2 DEF ApproveCommit
        <4>2. QED
          BY <2>1, <4>1 DEF Report
      <3>3. QED
        BY <3>1, <3>2
    <2>7. QED
      BY <2>2, <2>4, <2>5, <2>6 DEF RequestStep, BoqCommit, ItemAudit, ApproveCheck, OpenCommit,
         ApproveUpdateCommit, InsertParticipant, ContractorCommit, rows
  <1>2. QED
    BY <1>1, InductiveInvariant, SerialInvariant, PTL DEF Spec, ApprovalStands
=============================================================================
