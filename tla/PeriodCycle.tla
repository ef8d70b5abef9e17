----------------------------- MODULE PeriodCycle -----------------------------
(***************************************************************************)
(* The reporting periods of one construction object, as PeriodService      *)
(* drives them: open, GP submission, SC facts, dispute, close.             *)
(*                                                                         *)
(* Requests run concurrently.  Every handler of PeriodService is a Prisma  *)
(* transaction at READ COMMITTED: a read sees what is committed when the   *)
(* statement runs, and writes become visible together at commit.  So a     *)
(* handler is a step for each group of reads whose result it uses later    *)
(* and one step for its writes, and other requests run between them.       *)
(* UPDATEs of one period row exclude each other until commit (rowLock);    *)
(* only closePeriod reads anything after taking that lock.  The locks of   *)
(* fact rows are left out: between its writes and its commit a handler     *)
(* only logs, and no handler reads the log.  The audit row is written on   *)
(* another connection: it is there before the commit, and stays after a    *)
(* rollback.                                                               *)
(***************************************************************************)
EXTENDS Naturals, FiniteSets

CONSTANTS
  Workers,      \* requests being served at the same time
  Items,        \* BoQ items of the active version
  Vols,         \* volumes that can be claimed or measured
  MaxPeriods,   \* bound: periods opened
  MaxVersion,   \* bound: no request is made on a period_facts row this far
  Null,         \* SQL NULL
  NoOne         \* nobody holds the lock

ASSUME PeriodAssumption ==
  /\ MaxPeriods \in Nat \ {0}
  /\ MaxVersion \in Nat \ {0}
  /\ Vols \subseteq Nat
  /\ Null \notin Nat
  /\ Null \notin Items
  /\ Null \notin [Items -> Vols \cup {0, Null}]
  /\ NoOne \notin Workers

PeriodNo == 1..MaxPeriods
Status   == {"none", "open", "gp_submitted", "verification", "closed"}
MaybeVol == Vols \cup {Null}

\* A period_facts row; version 0 stands for a row that does not exist, the
\* value upsertPeriodFact gives a missing row in its version check.
Fact == [version : Nat, gp : MaybeVol, sc : MaybeVol,
         type : {0, 1, 2}, accepted : MaybeVol]
NoFact == [version |-> 0, gp |-> Null, sc |-> Null, type |-> 0, accepted |-> Null]

PC == {"idle", "openLock", "openCheck", "openInsert", "openCommit",
       "submitUpdate", "submitCommit", "factRead", "factCommit",
       "closeCount", "closeCompute", "closeSnapshot", "closeCommit",
       "disputeMark", "disputeInsert", "forceFact"}

Volumes == [Items -> Vols \cup {0, Null}]
Figures == [Items -> Vols \cup {0}]

\* What a handler remembers between its steps.
Tx == [pc      : PC,
       p       : 0..MaxPeriods,
       item    : Items \cup {Null},
       vol     : MaybeVol,             \* scVolume of the request, or as it was read
       expect  : Nat \cup {Null},      \* expectedVersion, Null when not given
       seen    : Status,               \* period.status as it was read
       gp      : MaybeVol,             \* gpVolume as it was read
       volumes : Volumes \cup {Null}]  \* the GP's volumes; the readiness figures

IdleTx == [pc |-> "idle", p |-> 0, item |-> Null, vol |-> Null, expect |-> Null,
           seen |-> "none", gp |-> Null, volumes |-> Null]

VARIABLES
  zeroApproved,  \* the object has an approved zero report
  status,        \* periods.status, "none" while there is no such row
  submitted,     \* periods.gp_submitted_at is not null
  expired,       \* periods.gp_token_expires_at is past
  facts,         \* period_facts by period and item
  disputes,      \* items with a discrepancies row in status open
  late,          \* history: those opened after a close of the period had counted
  snapshots,     \* readiness_snapshots: the volumes the figure was computed from
  audit,         \* audit_log rows of a period's own changes, not of its facts
  advisory,      \* holder of pg_advisory_xact_lock(object)
  rowLock,       \* holder of the row lock on a period
  tx             \* the request each worker is serving

vars == <<zeroApproved, status, submitted, expired, facts, disputes, late,
          snapshots, audit, advisory, rowLock, tx>>
rows == <<zeroApproved, status, submitted, expired, facts, disputes, late, snapshots>>

Init ==
  /\ zeroApproved = FALSE
  /\ status = [n \in PeriodNo |-> "none"]
  /\ submitted = [n \in PeriodNo |-> FALSE]
  /\ expired = [n \in PeriodNo |-> FALSE]
  /\ facts = [n \in PeriodNo |-> [i \in Items |-> NoFact]]
  /\ disputes = [n \in PeriodNo |-> {}]
  /\ late = [n \in PeriodNo |-> {}]
  /\ snapshots = [n \in PeriodNo |-> Null]
  /\ audit = {}
  /\ advisory = NoOne
  /\ rowLock = [n \in PeriodNo |-> NoOne]
  /\ tx = [w \in Workers |-> IdleTx]

-----------------------------------------------------------------------------
Opened == {n \in PeriodNo : status[n] # "none"}

\* Mutation: the numbering starts from a count that is one ahead.
IsLastAhead(k) == (k = 1 \/ k - 1 \in Opened) /\ \A n \in Opened : n < k

\* k is the largest period_number of the object, 0 when it has no period.
IsLast(k) == (k = 0 \/ k \in Opened) /\ \A n \in Opened : n <= k

\* The period openPeriod refuses to open beside: only one in status open.
NoOpenPeriod == \A n \in PeriodNo : status[n] # "open"

Editable(n) == status[n] \notin {"none", "closed"}

\* Mutation: the trigger overlooks sc_volume.
BumpOnTypeOnly(old, new, noteChanged) ==
  [new EXCEPT !.version = IF new.type # old.type \/ noteChanged
                          THEN old.version + 1 ELSE old.version]

\* trg_period_facts_bump_version: the version moves with sc_volume,
\* discrepancy_type and gp_note, and not with gp_volume.
Bump(old, new, noteChanged) ==
  [new EXCEPT !.version =
     IF new.sc # old.sc \/ new.type # old.type \/ noteChanged
     THEN old.version + 1 ELSE old.version]

Insert(new) == [new EXCEPT !.version = 1]

\* INSERT ... ON CONFLICT DO UPDATE of one fact, through the trigger.
Upsert(old, new, noteChanged) ==
  IF old.version = 0 THEN Insert(new) ELSE Bump(old, new, noteChanged)

\* The volume readiness counts: accepted, else measured, else 0.
CountedVolume(f) == IF f.accepted # Null THEN f.accepted
                    ELSE IF f.sc # Null THEN f.sc ELSE 0

PeriodVolumes(n) == [i \in Items |-> CountedVolume(facts[n][i])]

\* AuditLogService.log, awaited before the commit but not part of it.
Log(action, n) == audit' = audit \cup {<<action, n>>}

Begin(w, t) == tx[w].pc = "idle" /\ tx' = [tx EXCEPT ![w] = t]
Step(w, t)  == tx' = [tx EXCEPT ![w] = t]
Done(w)     == tx' = [tx EXCEPT ![w] = IdleTx]

\* A commit, a rollback or a lost connection ends the transaction and frees
\* its advisory lock and its row locks.
Release(w) ==
  /\ advisory' = IF advisory = w THEN NoOne ELSE advisory
  /\ rowLock' = [n \in PeriodNo |-> IF rowLock[n] = w THEN NoOne ELSE rowLock[n]]

-----------------------------------------------------------------------------
\* openPeriod

OpenRequest(w) ==
  /\ Begin(w, [IdleTx EXCEPT !.pc = "openLock"])
  /\ UNCHANGED <<rows, audit, advisory, rowLock>>

\* Mutation: the advisory lock is not waited for.
OpenLockFree(w) ==
  /\ tx[w].pc = "openLock"
  /\ Step(w, [tx[w] EXCEPT !.pc = "openCheck"])
  /\ UNCHANGED <<rows, audit, advisory, rowLock>>

OpenLock(w) ==
  /\ tx[w].pc = "openLock"
  /\ advisory = NoOne
  /\ advisory' = w
  /\ Step(w, [tx[w] EXCEPT !.pc = "openCheck"])
  /\ UNCHANGED <<rows, audit, rowLock>>

\* The three reads under the lock.  Only a holder of the lock inserts a period,
\* so nothing they return can change between them to the handler's harm.
OpenCheck(w) ==
  /\ tx[w].pc = "openCheck"
  /\ zeroApproved
  /\ NoOpenPeriod
  /\ \E last \in 0..(MaxPeriods - 1) :
       /\ IsLast(last)
       /\ Step(w, [tx[w] EXCEPT !.pc = "openInsert", !.p = last + 1])
  /\ UNCHANGED <<rows, audit, advisory, rowLock>>

\* UNIQUE (object_id, period_number) refuses a second row with the number.
OpenInsert(w) ==
  LET n == tx[w].p IN
  /\ tx[w].pc = "openInsert"
  /\ status[n] = "none"
  /\ Log("period_opened", n)
  /\ Step(w, [tx[w] EXCEPT !.pc = "openCommit"])
  /\ UNCHANGED <<rows, advisory, rowLock>>

OpenCommit(w) ==
  /\ tx[w].pc = "openCommit"
  /\ status' = [status EXCEPT ![tx[w].p] = "open"]
  /\ Release(w)
  /\ Done(w)
  /\ UNCHANGED <<zeroApproved, submitted, expired, facts, disputes, late, snapshots, audit>>

-----------------------------------------------------------------------------
\* submitGp

SubmitRead(w, n, volumes) ==
  /\ status[n] = "open"
  /\ ~expired[n]
  /\ ~submitted[n]
  /\ Begin(w, [IdleTx EXCEPT !.pc = "submitUpdate", !.p = n, !.volumes = volumes])
  /\ UNCHANGED <<rows, audit, advisory, rowLock>>

\* Mutation: the log is written after the commit, or its write is not awaited.
SubmitUpdateUnlogged(w) ==
  LET n == tx[w].p IN
  /\ tx[w].pc = "submitUpdate"
  /\ rowLock[n] = NoOne
  /\ rowLock' = [rowLock EXCEPT ![n] = w]
  /\ Step(w, [tx[w] EXCEPT !.pc = "submitCommit"])
  /\ UNCHANGED <<rows, audit, advisory>>

SubmitUpdate(w) ==
  LET n == tx[w].p IN
  /\ tx[w].pc = "submitUpdate"
  /\ rowLock[n] = NoOne
  /\ rowLock' = [rowLock EXCEPT ![n] = w]
  /\ Log("gp_submitted", n)
  /\ Step(w, [tx[w] EXCEPT !.pc = "submitCommit"])
  /\ UNCHANGED <<rows, advisory>>

\* Items the GP left out of the form have Null.
GpFact(old, v, noteChanged) ==
  IF v = Null THEN old ELSE Upsert(old, [old EXCEPT !.gp = v], noteChanged)

SubmitCommit(w) ==
  LET t == tx[w] IN
  /\ t.pc = "submitCommit"
  /\ \E noteChanged \in BOOLEAN :
       facts' = [facts EXCEPT ![t.p] =
                   [i \in Items |-> GpFact(facts[t.p][i], t.volumes[i], noteChanged)]]
  /\ status' = [status EXCEPT ![t.p] = "gp_submitted"]
  /\ submitted' = [submitted EXCEPT ![t.p] = TRUE]
  /\ Release(w)
  /\ Done(w)
  /\ UNCHANGED <<zeroApproved, expired, disputes, late, snapshots, audit>>

-----------------------------------------------------------------------------
\* upsertPeriodFact

\* SC enters facts after the GP submitted, or without a template once the
\* token of an open period has expired.
ScMayEnter(n) ==
  \/ status[n] \in {"gp_submitted", "verification"}
  \/ status[n] = "open" /\ expired[n]

FactRequest(w, n, i, vol, expect) ==
  /\ Editable(n)
  /\ ScMayEnter(n)
  /\ facts[n][i].version < MaxVersion
  /\ Begin(w, [IdleTx EXCEPT !.pc = "factRead", !.p = n, !.item = i, !.vol = vol,
                             !.expect = expect, !.seen = status[n]])
  /\ UNCHANGED <<rows, audit, advisory, rowLock>>

\* Reads the row for gp_volume; the ADR-003 version check is made on this read.
FactRead(w) ==
  LET t == tx[w]
      row == facts[t.p][t.item]
  IN
  /\ t.pc = "factRead"
  /\ t.expect # Null => row.version = t.expect
  /\ Step(w, [t EXCEPT !.pc = "factCommit", !.gp = row.gp])
  /\ UNCHANGED <<rows, audit, advisory, rowLock>>

\* The fact with the SC's volume, classified against the gp_volume that was
\* read: equal is confirmed (type NULL, accepted), anything else is type 1.
ScFact(old, gp, vol) ==
  LET equal == gp # Null /\ gp = vol
  IN  [old EXCEPT !.sc = vol, !.type = IF equal THEN 0 ELSE 1,
                  !.accepted = IF equal THEN vol ELSE Null]

\* Mutation: an entry without a template starts the verification too.
EntryVerifiesOpen(seen) == seen \in {"open", "gp_submitted"}

\* Mutation: only an entry without a template does.
EntryNeverVerifies(seen) == seen = "open"

\* The first entry after the GP's submission moves the period to verification,
\* as the status was read; an entry without a template does not.
StartsVerification(seen) == seen = "gp_submitted"

FactCommit(w) ==
  LET t == tx[w]
      old == facts[t.p][t.item]
  IN
  /\ t.pc = "factCommit"
  /\ facts' = [facts EXCEPT ![t.p][t.item] =
                 Upsert(old, ScFact(old, t.gp, t.vol), FALSE)]
  /\ IF StartsVerification(t.seen)
     THEN /\ rowLock[t.p] = NoOne
          /\ status' = [status EXCEPT ![t.p] = "verification"]
     ELSE UNCHANGED status
  /\ Done(w)
  /\ UNCHANGED <<zeroApproved, submitted, expired, disputes, late, snapshots,
                 audit, advisory, rowLock>>

-----------------------------------------------------------------------------
\* closePeriod

\* Mutation: any period that is not closed may be closed.
CloseReadAnyStatus(w, n) ==
  /\ Editable(n)
  /\ Begin(w, [IdleTx EXCEPT !.pc = "closeCount", !.p = n])
  /\ UNCHANGED <<rows, audit, advisory, rowLock>>

CloseRead(w, n) ==
  /\ Editable(n)
  /\ status[n] = "verification"
  /\ Begin(w, [IdleTx EXCEPT !.pc = "closeCount", !.p = n])
  /\ UNCHANGED <<rows, audit, advisory, rowLock>>

\* Mutation: open discrepancies are not counted.
CloseCountSkipped(w) ==
  /\ tx[w].pc = "closeCount"
  /\ Step(w, [tx[w] EXCEPT !.pc = "closeCompute"])
  /\ UNCHANGED <<rows, audit, advisory, rowLock>>

CloseCount(w) ==
  /\ tx[w].pc = "closeCount"
  /\ disputes[tx[w].p] = {}
  /\ Step(w, [tx[w] EXCEPT !.pc = "closeCompute"])
  /\ UNCHANGED <<rows, audit, advisory, rowLock>>

\* Mutation: readiness counts what the GP claimed where nothing is accepted.
CloseComputeClaimed(w) ==
  LET n == tx[w].p
      Claimed(f) == IF f.accepted = Null /\ f.gp # Null THEN f.gp ELSE CountedVolume(f)
  IN
  /\ tx[w].pc = "closeCompute"
  /\ rowLock[n] = NoOne
  /\ rowLock' = [rowLock EXCEPT ![n] = w]
  /\ Step(w, [tx[w] EXCEPT !.pc = "closeSnapshot",
                           !.volumes = [i \in Items |-> Claimed(facts[n][i])]])
  /\ UNCHANGED <<rows, audit, advisory>>

\* period.update takes the row lock, then readiness reads the facts.
CloseCompute(w) ==
  LET n == tx[w].p IN
  /\ tx[w].pc = "closeCompute"
  /\ rowLock[n] = NoOne
  /\ rowLock' = [rowLock EXCEPT ![n] = w]
  /\ Step(w, [tx[w] EXCEPT !.pc = "closeSnapshot", !.volumes = PeriodVolumes(n)])
  /\ UNCHANGED <<rows, audit, advisory>>

\* Mutation: an earlier snapshot is replaced.
CloseSnapshotReplaces(w) ==
  /\ tx[w].pc = "closeSnapshot"
  /\ Log("period_closed", tx[w].p)
  /\ Step(w, [tx[w] EXCEPT !.pc = "closeCommit"])
  /\ UNCHANGED <<rows, advisory, rowLock>>

\* readiness_snapshots.period_id is UNIQUE: a second snapshot aborts the close.
CloseSnapshot(w) ==
  /\ tx[w].pc = "closeSnapshot"
  /\ snapshots[tx[w].p] = Null
  /\ Log("period_closed", tx[w].p)
  /\ Step(w, [tx[w] EXCEPT !.pc = "closeCommit"])
  /\ UNCHANGED <<rows, advisory, rowLock>>

CloseCommit(w) ==
  LET n == tx[w].p IN
  /\ tx[w].pc = "closeCommit"
  /\ status' = [status EXCEPT ![n] = "closed"]
  /\ snapshots' = [snapshots EXCEPT ![n] = tx[w].volumes]
  /\ Release(w)
  /\ Done(w)
  /\ UNCHANGED <<zeroApproved, submitted, expired, facts, disputes, late, audit>>

-----------------------------------------------------------------------------
\* DisputeService.createDispute: not a transaction, three awaited steps.

DisputeRead(w, n, i) ==
  LET f == facts[n][i] IN
  /\ status[n] = "verification"
  /\ f.version \in 1..(MaxVersion - 1)
  /\ f.gp # Null /\ f.sc # Null /\ f.gp # f.sc
  /\ Begin(w, [IdleTx EXCEPT !.pc = "disputeMark", !.p = n, !.item = i])
  /\ UNCHANGED <<rows, audit, advisory, rowLock>>

Disputed(old) == [old EXCEPT !.type = 2]

DisputeMark(w) ==
  LET t == tx[w]
      old == facts[t.p][t.item]
  IN
  /\ t.pc = "disputeMark"
  /\ facts' = [facts EXCEPT ![t.p][t.item] = Bump(old, Disputed(old), FALSE)]
  /\ Step(w, [t EXCEPT !.pc = "disputeInsert"])
  /\ UNCHANGED <<zeroApproved, status, submitted, expired, disputes, late, snapshots,
                 audit, advisory, rowLock>>

Counted == {"closeCompute", "closeSnapshot", "closeCommit"}

\* A close of period n has counted its open discrepancies.
CloseHasCounted(n) ==
  \/ status[n] = "closed"
  \/ \E w \in Workers : tx[w].pc \in Counted /\ tx[w].p = n

DisputeInsert(w) ==
  LET t == tx[w]
      overlooked == IF CloseHasCounted(t.p) THEN {t.item} \ disputes[t.p] ELSE {}
  IN
  /\ t.pc = "disputeInsert"
  /\ disputes' = [disputes EXCEPT ![t.p] = @ \cup {t.item}]
  /\ late' = [late EXCEPT ![t.p] = @ \cup overlooked]
  /\ Done(w)
  /\ UNCHANGED <<zeroApproved, status, submitted, expired, facts, snapshots,
                 audit, advisory, rowLock>>

\* DisputeSlaWorker.handleForceClose, in another process and not a transaction:
\* it finds an open discrepancy with its fact, closes the discrepancy, then
\* gives the fact the SC's figure it had read.
ForceDiscrepancy(w, n, i) ==
  /\ i \in disputes[n]
  /\ disputes' = [disputes EXCEPT ![n] = @ \ {i}]
  /\ late' = [late EXCEPT ![n] = @ \ {i}]
  /\ Begin(w, [IdleTx EXCEPT !.pc = "forceFact", !.p = n, !.item = i,
                             !.vol = facts[n][i].sc])
  /\ UNCHANGED <<zeroApproved, status, submitted, expired, facts, snapshots,
                 audit, advisory, rowLock>>

\* Mutation: the forced figure is the GP's.
ForcedGp(old, vol) == [old EXCEPT !.accepted = old.gp]

\* accepted_volume is no column the version trigger watches.
Forced(old, vol) == [old EXCEPT !.accepted = vol]

ForceFact(w) ==
  LET t == tx[w] IN
  /\ t.pc = "forceFact"
  /\ facts' = [facts EXCEPT ![t.p][t.item] = Forced(@, t.vol)]
  /\ Done(w)
  /\ UNCHANGED <<zeroApproved, status, submitted, expired, disputes, late, snapshots,
                 audit, advisory, rowLock>>

-----------------------------------------------------------------------------
\* Time, the zero report, failures

ApproveZeroReport ==
  /\ ~zeroApproved
  /\ zeroApproved' = TRUE
  /\ UNCHANGED <<status, submitted, expired, facts, disputes, late, snapshots,
                 audit, advisory, rowLock, tx>>

TokenExpires(n) ==
  /\ status[n] # "none"
  /\ ~expired[n]
  /\ expired' = [expired EXCEPT ![n] = TRUE]
  /\ UNCHANGED <<zeroApproved, status, submitted, facts, disputes, late, snapshots,
                 audit, advisory, rowLock, tx>>

\* A refusal, a constraint violation, a lock timeout, the transaction's time
\* limit or a lost connection: the writes are rolled back, and an audit row that
\* was written stays.
Abort(w) ==
  /\ tx[w].pc # "idle"
  /\ Release(w)
  /\ Done(w)
  /\ UNCHANGED <<rows, audit>>

TxStep(w) ==
  \/ OpenLock(w) \/ OpenCheck(w) \/ OpenInsert(w) \/ OpenCommit(w)
  \/ SubmitUpdate(w) \/ SubmitCommit(w)
  \/ FactRead(w) \/ FactCommit(w)
  \/ CloseCount(w) \/ CloseCompute(w) \/ CloseSnapshot(w) \/ CloseCommit(w)
  \/ DisputeMark(w) \/ DisputeInsert(w) \/ ForceFact(w)
  \/ Abort(w)

Request(w) ==
  \/ OpenRequest(w)
  \/ \E n \in PeriodNo :
       \/ \E volumes \in [Items -> MaybeVol] : SubmitRead(w, n, volumes)
       \/ \E i \in Items, vol \in Vols, expect \in (0..MaxVersion) \cup {Null} :
            FactRequest(w, n, i, vol, expect)
       \/ CloseRead(w, n)
       \/ \E i \in Items : DisputeRead(w, n, i) \/ ForceDiscrepancy(w, n, i)

Next ==
  \/ ApproveZeroReport
  \/ \E n \in PeriodNo : TokenExpires(n)
  \/ \E w \in Workers : Request(w) \/ TxStep(w)

Spec == Init /\ [][Next]_vars

-----------------------------------------------------------------------------
\* Safety that holds however requests interleave

\* Every variable keeps its type; a table row is what its columns allow.
TypeOK ==
  /\ zeroApproved \in BOOLEAN
  /\ status \in [PeriodNo -> Status]
  /\ submitted \in [PeriodNo -> BOOLEAN]
  /\ expired \in [PeriodNo -> BOOLEAN]
  /\ facts \in [PeriodNo -> [Items -> Fact]]
  /\ disputes \in [PeriodNo -> SUBSET Items]
  /\ late \in [PeriodNo -> SUBSET Items]
  /\ snapshots \in [PeriodNo -> Figures \cup {Null}]
  /\ advisory \in Workers \cup {NoOne}
  /\ rowLock \in [PeriodNo -> Workers \cup {NoOne}]
  /\ tx \in [Workers -> Tx]

\* ADR-002: an object never has two open periods, however many openPeriod
\* requests race; the open check is made and used under the advisory lock.
OneOpenPeriod ==
  \A m, n \in PeriodNo : status[m] = "open" /\ status[n] = "open" => m = n

\* No period number is skipped or given twice: the periods of an object are
\* numbered 1, 2, 3, ... and only the latest can be open (openPeriod, last + 1).
NumbersContiguous ==
  \A n \in PeriodNo : status[n] # "none" =>
    \A m \in 1..n : m < n => status[m] \notin {"none", "open"}

\* ADR-002: the advisory lock alone decides the race of two openPeriod requests;
\* the UNIQUE (object_id, period_number) behind it is never hit.
UniqueNeverHit ==
  \A w \in Workers : tx[w].pc = "openInsert" => status[tx[w].p] = "none"

\* ADR-011: closePeriod closes and writes the readiness snapshot in one
\* transaction, so no closed period is without a snapshot, even if the
\* request dies between the two writes.
ClosedHasSnapshot == \A n \in PeriodNo : status[n] = "closed" => snapshots[n] # Null

\* Past 'open' a period carries a GP submission, also when handlers act on a
\* status that is no longer current; in particular none closes without one.
PastOpenMeansSubmitted ==
  \A n \in PeriodNo : status[n] \in {"gp_submitted", "verification", "closed"}
                        => submitted[n]

\* The audit row is written on another connection than the change it records and
\* neither waits for the other's commit; still no opening, submission or close is
\* ever committed without its row, whatever fails in between (every handler
\* awaits auditLog.log inside its transaction).
CommittedIsAudited ==
  \A n \in PeriodNo :
    /\ status[n] # "none" => <<"period_opened", n>> \in audit
    /\ submitted[n] => <<"gp_submitted", n>> \in audit
    /\ snapshots[n] # Null => <<"period_closed", n>> \in audit

\* period-engine.md section 6 lets no period be closed over an open discrepancy.
\* closePeriod counts them without a lock, so one inserted while the close is on
\* its way, or by a createDispute that read the period before, is overlooked; it
\* is the only kind a closed period can have open.
OnlyLateDisputesOverlooked ==
  \A n \in PeriodNo : status[n] = "closed" => disputes[n] \subseteq late[n]

\* The snapshot of a period is written once and never replaced, even when a
\* late write has brought the period back from 'closed' and it is closed again
\* (UNIQUE on readiness_snapshots.period_id).
SnapshotWrittenOnce ==
  [][\A n \in PeriodNo : snapshots[n] # Null => snapshots'[n] = snapshots[n]]_vars

\* Offline clients detect a conflict by version alone, so no commit may change
\* the SC's volume and leave the version, nor move the version back.
ScChangeBumpsVersion ==
  [][\A n \in PeriodNo, i \in Items :
       /\ facts'[n][i].version >= facts[n][i].version
       /\ facts'[n][i].sc # facts[n][i].sc
            => facts'[n][i].version > facts[n][i].version]_vars

-----------------------------------------------------------------------------
\* The inductive invariant of the safety above

Opening == {"openCheck", "openInsert", "openCommit"}
Submitting == {"submitUpdate", "submitCommit"}
Entering == {"factRead", "factCommit"}
Closing == {"closeCount"} \cup Counted
Disputing == {"disputeMark", "disputeInsert", "forceFact"}
OnPeriod == {"disputeMark", "disputeInsert"} \cup Submitting \cup Entering \cup Closing

\* What a handler on its way still carries: a period that exists, an item and
\* volumes of the right kind.
InFlight ==
  \A w \in Workers :
    LET t == tx[w] IN
    /\ t.pc \in OnPeriod => t.p \in PeriodNo /\ status[t.p] # "none"
    /\ t.pc \in Entering \cup Disputing => t.p \in PeriodNo /\ t.item \in Items
    /\ t.pc \in Entering => t.vol \in Vols
    /\ t.pc \in Submitting => t.volumes \in [Items -> MaybeVol]
    /\ t.pc \in {"closeSnapshot", "closeCommit"} => t.volumes \in Figures

\* An opener past the lock holds it; past the checks, its number is next and
\* nothing is open.
OpenersHoldLock ==
  \A w \in Workers :
    LET t == tx[w] IN
    /\ t.pc \in Opening => advisory = w
    /\ t.pc \in {"openInsert", "openCommit"} =>
         /\ t.p \in PeriodNo
         /\ \A n \in PeriodNo : IF n < t.p THEN status[n] \notin {"none", "open"}
                              ELSE status[n] = "none"

\* A handler that will leave or close a period knows of its submission.
InFlightSubmitted ==
  \A w \in Workers :
    LET t == tx[w] IN
    (t.pc \in Entering /\ t.seen = "gp_submitted") \/ t.pc \in Closing
      => submitted[t.p]

\* A handler about to commit has its audit row.
LoggedFirst ==
  \A w \in Workers :
    LET t == tx[w] IN
    /\ t.pc = "openCommit" => <<"period_opened", t.p>> \in audit
    /\ t.pc = "submitCommit" => <<"gp_submitted", t.p>> \in audit
    /\ t.pc = "closeCommit" => <<"period_closed", t.p>> \in audit

\* A snapshot is written under the row lock, by the one close that holds it.
ClosersHoldLock ==
  \A w \in Workers :
    LET t == tx[w] IN
    /\ t.pc \in {"closeSnapshot", "closeCommit"} => rowLock[t.p] = w
    /\ t.pc = "closeCommit" => snapshots[t.p] = Null

\* What a close has not seen came after it counted.
CountStands ==
  \A w \in Workers : tx[w].pc \in Counted => disputes[tx[w].p] \subseteq late[tx[w].p]

IInv ==
  /\ TypeOK
  /\ InFlight
  /\ OpenersHoldLock
  /\ NumbersContiguous
  /\ InFlightSubmitted
  /\ PastOpenMeansSubmitted
  /\ ClosedHasSnapshot
  /\ LoggedFirst
  /\ CommittedIsAudited
  /\ ClosersHoldLock
  /\ CountStands
  /\ OnlyLateDisputesOverlooked

-----------------------------------------------------------------------------
\* What the documentation promises and only sequential requests keep

\* The readiness of a closed period is the one its facts give.
SnapshotMatchesFacts ==
  \A n \in PeriodNo : status[n] = "closed" => snapshots[n] = PeriodVolumes(n)

=============================================================================
