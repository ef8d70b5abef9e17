------------------------------ MODULE SyncQueue ------------------------------
(***************************************************************************)
(* SyncService and SyncArchivalWorker: the operations a device made        *)
(* offline, sent in batches and resent until they are answered, one row of *)
(* sync_queue for each, and the facts of one period that they change.      *)
(*                                                                         *)
(* No handler is a transaction: each awaited statement is a step, and only *)
(* upsertPeriodFact inside one is a transaction of its own.  Rows belong   *)
(* to one device, and devices meet only in the facts, so one device is     *)
(* modelled and the others are part of Online, as are the SC's own         *)
(* entries and disputes of the period modules.                             *)
(***************************************************************************)
EXTENDS Naturals, Sequences, FiniteSets

CONSTANTS
  Workers,      \* requests being served at the same time
  Items,        \* BoQ items
  Vols,         \* volumes
  Null,         \* SQL NULL
  Plans,        \* what the device does offline: sequences of drafts
  MaxOps,       \* bound: operations made offline
  MaxUpsets     \* bound: online changes, failures and archival runs together

OpId == 1..MaxOps
MaybeVol == Vols \cup {Null}

\* An operation by what the server makes of it: a fact, a fact with
\* workAccessible false, a fact against another BoQ version, an item that fails
\* validateOperation, a photo.
Kind == {"fact", "blocked", "otherBoq", "invalid", "photo"}
Draft == [kind : Kind, item : Items, vol : Vols]
Op == [kind : Kind, item : Items, vol : Vols, known : Nat]

ASSUME SyncAssumption ==
  /\ Null \notin Vols
  /\ \A plan \in Plans : plan \in Seq(Draft) /\ Len(plan) <= MaxOps
  /\ MaxOps \in Nat /\ MaxUpsets \in Nat

\* A row of sync_queue; server is the fact's version in conflict_data, 0 for none.
Row   == [status : {"none", "pending", "applied", "conflict", "rejected", "escalated"},
          server : Nat]
NoRow == [status |-> "none", server |-> 0]

\* A period_facts row; version 0 while there is none.  retyped: a dispute gave
\* it a discrepancy type other than the one upsertPeriodFact computes.
Fact   == [version : Nat, sc : MaybeVol, retyped : BOOLEAN]
NoFact == [version |-> 0, sc |-> Null, retyped |-> FALSE]

PC == {"idle", "lookup", "create", "apply", "commit", "applied", "reject",
       "conflict", "escalate", "flag", "escalated", "notify",
       "resolve", "photoCreate", "photoRow"}

\* A request: what is left of its batch, the operation at hand, the value a
\* resolution chose (Null in a batch) and the fact's version as it was read.
Request == [pc : PC, todo : SUBSET OpId, o : OpId \cup {0},
            chosen : MaybeVol, seen : Nat]
IdleRequest == [pc |-> "idle", todo |-> {}, o |-> 0, chosen |-> Null, seen |-> 0]

VARIABLES
  period,    \* what the period allows: "early" no SC facts yet, "accepting", "closed"
  facts,     \* period_facts of the period, by item
  photos,    \* items with a photos row, one or more
  ops,       \* the device's operations, oldest first
  rows,      \* sync_queue, by operation
  landed,    \* operations whose write committed under their present row
  changes,   \* how often an operation's own write has changed the fact
  flagged,   \* operations with a type 3 discrepancy, one or more
  told,      \* operations the admins were notified of under their present row
  requests,  \* the request each worker serves
  online,    \* online changes so far
  failures,  \* requests that died so far
  archivals  \* runs of the archival so far

vars == <<period, facts, photos, ops, rows, landed, changes, flagged, told,
          requests, online, failures, archivals>>
counts == <<online, failures, archivals>>

Init ==
  /\ period = "early"
  /\ facts = [i \in Items |-> NoFact]
  /\ photos = {}
  /\ ops = <<>>
  /\ rows = [o \in OpId |-> NoRow]
  /\ landed = {}
  /\ changes = [o \in OpId |-> 0]
  /\ flagged = {}
  /\ told = {}
  /\ requests = [w \in Workers |-> IdleRequest]
  /\ online = 0 /\ failures = 0 /\ archivals = 0

-----------------------------------------------------------------------------

\* upsertPeriodFact's write through the version trigger.
Written(f, v) ==
  [version |-> IF f.version = 0 \/ v # f.sc \/ f.retyped THEN f.version + 1 ELSE f.version,
   sc |-> v, retyped |-> FALSE]

Bounded == online + failures + archivals < MaxUpsets

Goes(w, pc)  == requests' = [requests EXCEPT ![w].pc = pc]
Becomes(w, r) == requests' = [requests EXCEPT ![w] = r]
Ends(w)      == Becomes(w, IdleRequest)
SetRow(o, status, server) ==
  rows' = [rows EXCEPT ![o].status = status, ![o].server = server]

\* The loop goes on to the next operation of the batch, or the request answers.
Advanced(r) ==
  LET left == r.todo \ {r.o} IN
  IF left = {} THEN IdleRequest ELSE [IdleRequest EXCEPT !.pc = "lookup", !.todo = left]

\* What the rest of a request needs when it has left the loop for good.
Leaves(r, pc, version) == [IdleRequest EXCEPT !.pc = pc, !.o = r.o, !.seen = version]

\* The first of a batch: operations are processed in the order they were made.
IsFirst(o, S) == o \in S /\ \A p \in S : o <= p

-----------------------------------------------------------------------------
\* processOperations, for each operation of the batch

Settled(o) == rows[o].status \in {"applied", "conflict", "rejected", "escalated"}

\* The device sends the operations it has no final answer for.  An answer can be
\* lost, so any of the settled ones may be among them.
Send(w) ==
  /\ requests[w].pc = "idle"
  /\ \E answered \in SUBSET {o \in OpId : Settled(o)} :
       LET batch == {o \in DOMAIN ops : ops[o].kind # "photo"} \ answered IN
       /\ batch # {}
       /\ Becomes(w, [IdleRequest EXCEPT !.pc = "lookup", !.todo = batch])
  /\ UNCHANGED <<period, facts, photos, ops, rows, landed, changes, flagged,
                 told, counts>>


\* An invalid item is rejected without a row.  A row that exists answers for its
\* operation, and the loop goes on whatever its status is.
Lookup(w) ==
  /\ requests[w].pc = "lookup"
  /\ \E o \in OpId :
       LET r == [requests[w] EXCEPT !.o = o] IN
       /\ IsFirst(o, requests[w].todo)
       /\ Becomes(w, IF rows[o].status = "none" /\ ops[o].kind # "invalid"
                     THEN [r EXCEPT !.pc = "create"] ELSE Advanced(r))
  /\ UNCHANGED <<period, facts, photos, ops, rows, landed, changes, flagged,
                 told, counts>>

\* ADR-006's gate; the BoQ version of a period never changes.
OtherBoq(o) == ops[o].kind = "otherBoq"

\* Mutation: the row is created as uploadPhoto creates its own.
CreateApplied(w) ==
  LET o == requests[w].o IN
  /\ requests[w].pc = "create"
  /\ rows[o].status = "none"
  /\ SetRow(o, "applied", 0)
  /\ Goes(w, IF OtherBoq(o) THEN "reject" ELSE "apply")
  /\ UNCHANGED <<period, facts, photos, ops, landed, changes, flagged, told, counts>>

\* UNIQUE (device_id, client_op_id): the second of two inserts throws.  Then the
\* operation passes the gate or is to be rejected.
Create(w) ==
  LET o == requests[w].o IN
  /\ requests[w].pc = "create"
  /\ IF rows[o].status = "none"
     THEN /\ SetRow(o, "pending", 0)
          /\ Goes(w, IF OtherBoq(o) THEN "reject" ELSE "apply")
     ELSE UNCHANGED rows /\ Ends(w)
  /\ UNCHANGED <<period, facts, photos, ops, landed, changes, flagged, told, counts>>

Photographed(o) == ops[o].kind # "blocked" \/ ops[o].item \in photos

\* Mutation: the version is not compared.
ApplyUnversioned(w) ==
  LET r == requests[w] IN
  /\ r.pc = "apply"
  /\ Becomes(w, IF period = "closed"
                THEN IF r.chosen = Null THEN Leaves(r, "escalate", 0) ELSE IdleRequest
                ELSE IF period = "early" \/ ~Photographed(r.o) THEN [r EXCEPT !.pc = "reject"]
                ELSE [r EXCEPT !.pc = "commit"])
  /\ UNCHANGED <<period, facts, photos, ops, rows, landed, changes, flagged,
                 told, counts>>

\* The reads of upsertPeriodFact.  A batch (nothing chosen) expects the version
\* the device knew and turns what upsertPeriodFact throws into a status of the
\* row; a resolution expects none and lets the error end the request.
Apply(w) ==
  LET r == requests[w]
      f == facts[ops[r.o].item]
      refused == period = "early" \/ ~Photographed(r.o) IN
  /\ r.pc = "apply"
  /\ IF r.chosen # Null
     THEN Becomes(w, IF period = "accepting" THEN [r EXCEPT !.pc = "commit"] ELSE IdleRequest)
     ELSE Becomes(w, IF period = "closed" THEN Leaves(r, "escalate", 0)
                     ELSE IF refused THEN [r EXCEPT !.pc = "reject"]
                     ELSE IF f.version # ops[r.o].known THEN Leaves(r, "conflict", f.version)
                     ELSE [r EXCEPT !.pc = "commit"])
  /\ UNCHANGED <<period, facts, photos, ops, rows, landed, changes, flagged,
                 told, counts>>

\* The upsert, without a condition on the version or the period's status.
Commit(w) ==
  LET r == requests[w]
      i == ops[r.o].item
      v == IF r.chosen = Null THEN ops[r.o].vol ELSE r.chosen IN
  /\ r.pc = "commit"
  /\ facts' = [facts EXCEPT ![i] = Written(@, v)]
  /\ landed' = landed \cup {r.o}
  /\ changes' = [changes EXCEPT ![r.o] =
                   IF r.chosen = Null /\ v # facts[i].sc THEN @ + 1 ELSE @]
  /\ Goes(w, "applied")
  /\ UNCHANGED <<period, photos, ops, rows, flagged, told, counts>>

MarkApplied(w) ==
  LET r == requests[w] IN
  /\ r.pc = "applied" /\ r.chosen = Null
  /\ SetRow(r.o, "applied", rows[r.o].server)
  /\ Becomes(w, Advanced(r))
  /\ UNCHANGED <<period, facts, photos, ops, landed, changes, flagged, told, counts>>

\* Mutation: the refusal is answered and the row forgotten.
RejectRowless(w) ==
  /\ requests[w].pc = "reject"
  /\ Becomes(w, Advanced(requests[w]))
  /\ UNCHANGED <<period, facts, photos, ops, rows, landed, changes, flagged,
                 told, counts>>

Reject(w) ==
  /\ requests[w].pc = "reject"
  /\ SetRow(requests[w].o, "rejected", 0)
  /\ Becomes(w, Advanced(requests[w]))
  /\ UNCHANGED <<period, facts, photos, ops, landed, changes, flagged, told, counts>>

\* markConflict: the audit row with action sync_conflict_detected is refused by
\* the CHECK on audit_log.action, so the request ends in an error and the rest
\* of the batch with it.
MarkConflict(w) ==
  LET r == requests[w] IN
  /\ r.pc = "conflict"
  /\ SetRow(r.o, "conflict", r.seen)
  /\ Ends(w)
  /\ UNCHANGED <<period, facts, photos, ops, landed, changes, flagged, told, counts>>

-----------------------------------------------------------------------------
\* escalateClosedPeriod

EscalateRead(w) ==
  LET r == requests[w]
      f == facts[ops[r.o].item] IN
  /\ r.pc = "escalate"
  /\ Becomes(w, Leaves(r, IF f.version = 0 THEN "escalated" ELSE "flag", f.version))
  /\ UNCHANGED <<period, facts, photos, ops, rows, landed, changes, flagged,
                 told, counts>>

\* Nothing refuses a second discrepancy for the same operation, which an overlapping
\* resolution or a resend after the archival may insert.
EscalateFlag(w) ==
  /\ requests[w].pc = "flag"
  /\ flagged' = flagged \cup {requests[w].o}
  /\ Goes(w, "escalated")
  /\ UNCHANGED <<period, facts, photos, ops, rows, landed, changes, told, counts>>

EscalateMark(w) ==
  /\ requests[w].pc = "escalated"
  /\ SetRow(requests[w].o, "escalated", requests[w].seen)
  /\ Becomes(w, Leaves(requests[w], "notify", 0))
  /\ UNCHANGED <<period, facts, photos, ops, landed, changes, flagged, told, counts>>

\* The notification of the admins; the audit row after it is refused too.
EscalateNotify(w) ==
  /\ requests[w].pc = "notify"
  /\ told' = told \cup {requests[w].o}
  /\ Ends(w)
  /\ UNCHANGED <<period, facts, photos, ops, rows, landed, changes, flagged, counts>>

-----------------------------------------------------------------------------
\* resolveConflict

ResolveRead(w) ==
  /\ requests[w].pc = "idle"
  /\ \E o \in DOMAIN ops, v \in Vols :
       /\ rows[o].status = "conflict"
       /\ Becomes(w, [IdleRequest EXCEPT !.pc = "resolve", !.o = o, !.chosen = v])
  /\ UNCHANGED <<period, facts, photos, ops, rows, landed, changes, flagged,
                 told, counts>>

ResolvePeriod(w) ==
  /\ requests[w].pc = "resolve"
  /\ IF period = "closed"
     THEN Becomes(w, Leaves(requests[w], "escalate", 0))
     ELSE Goes(w, "apply")
  /\ UNCHANGED <<period, facts, photos, ops, rows, landed, changes, flagged,
                 told, counts>>

\* After the entry: the row is updated whatever its status is by now, and the
\* audit row that follows is refused by the CHECK on audit_log.action.
ResolveMark(w) ==
  LET r == requests[w] IN
  /\ r.pc = "applied" /\ r.chosen # Null
  /\ SetRow(r.o, "applied", rows[r.o].server)
  /\ Ends(w)
  /\ UNCHANGED <<period, facts, photos, ops, landed, changes, flagged, told, counts>>

-----------------------------------------------------------------------------
\* uploadPhoto

\* The lookup and the read of the period: a photo that has its row, or whose
\* period is closed, changes nothing.
PhotoLookup(w, o) ==
  /\ requests[w].pc = "idle"
  /\ o \in DOMAIN ops
  /\ ops[o].kind = "photo"
  /\ rows[o].status = "none"
  /\ period # "closed"
  /\ Becomes(w, [IdleRequest EXCEPT !.pc = "photoCreate", !.o = o])
  /\ UNCHANGED <<period, facts, photos, ops, rows, landed, changes, flagged,
                 told, counts>>

\* The upload, under a key made of the operation's id, and the photos row, which an
\* overlapping request may insert a second time.
PhotoCreate(w) ==
  /\ requests[w].pc = "photoCreate"
  /\ photos' = photos \cup {ops[requests[w].o].item}
  /\ landed' = landed \cup {requests[w].o}
  /\ Goes(w, "photoRow")
  /\ UNCHANGED <<period, facts, ops, rows, changes, flagged, told, counts>>

PhotoRow(w) ==
  LET o == requests[w].o IN
  /\ requests[w].pc = "photoRow"
  /\ IF rows[o].status = "none" THEN SetRow(o, "applied", 0) ELSE UNCHANGED rows
  /\ Ends(w)
  /\ UNCHANGED <<period, facts, photos, ops, landed, changes, flagged, told, counts>>

-----------------------------------------------------------------------------
\* The process dies or a statement fails: what was committed stays.
Fails(w) ==
  /\ requests[w].pc # "idle"
  /\ Bounded
  /\ failures' = failures + 1
  /\ Ends(w)
  /\ UNCHANGED <<period, facts, photos, ops, rows, landed, changes, flagged,
                 told, online, archivals>>

\* The daily run, which deletes the rows of S; no request is at work on one.
Delete(S) ==
  /\ Bounded
  /\ archivals' = archivals + 1
  /\ S # {}
  /\ \A w \in Workers : requests[w].o \notin S
  /\ rows' = [o \in OpId |-> IF o \in S THEN NoRow ELSE rows[o]]
  /\ landed' = landed \ S
  /\ told' = told \ S
  /\ UNCHANGED <<period, facts, photos, ops, changes, flagged, requests,
                 online, failures>>

\* SyncArchivalWorker: of the rows received over thirty days ago, any of them by
\* now, those that are settled and not in conflict are deleted.
Archive ==
  \E old \in SUBSET OpId :
    Delete({o \in old : rows[o].status \in {"applied", "rejected", "escalated"}})

-----------------------------------------------------------------------------
\* The device and the users online

\* An operation carries the fact's version when the device last loaded it.  That
\* it is made later only delays it, so it is made as the version is loaded.
Edit ==
  /\ \E plan \in Plans :
       LET n == Len(ops) + 1 IN
       /\ n \in DOMAIN plan
       /\ \A k \in DOMAIN ops :
            plan[k] = [kind |-> ops[k].kind, item |-> ops[k].item, vol |-> ops[k].vol]
       /\ ops' = Append(ops, [kind |-> plan[n].kind, item |-> plan[n].item,
                              vol |-> plan[n].vol, known |-> facts[plan[n].item].version])
  /\ UNCHANGED <<period, facts, photos, rows, landed, changes, flagged, told,
                 requests, counts>>

\* The GP's submission inserts rows for the items it names; without one, the
\* deadline passes and SC facts are accepted on an open period.
Accept ==
  /\ period = "early"
  /\ period' = "accepting"
  /\ \E named \in SUBSET Items :
       facts' = [i \in Items |-> IF i \in named THEN [NoFact EXCEPT !.version = 1] ELSE NoFact]
  /\ UNCHANGED <<photos, ops, rows, landed, changes, flagged, told, requests, counts>>

Close ==
  /\ period = "accepting"
  /\ period' = "closed"
  /\ UNCHANGED <<facts, photos, ops, rows, landed, changes, flagged, told,
                 requests, counts>>

\* An SC online, or another device, enters a volume.
OnlineEntry ==
  /\ period = "accepting"
  /\ Bounded
  /\ online' = online + 1
  /\ \E i \in Items, v \in Vols : facts' = [facts EXCEPT ![i] = Written(@, v)]
  /\ UNCHANGED <<period, photos, ops, rows, landed, changes, flagged, told,
                 requests, failures, archivals>>

\* createDispute changes the type of a fact and not its volume.
OnlineDispute ==
  /\ period = "accepting"
  /\ Bounded
  /\ online' = online + 1
  /\ \E i \in Items :
       /\ facts[i].version > 0 /\ ~facts[i].retyped
       /\ i \in photos
       /\ facts' = [facts EXCEPT ![i] = [version |-> @.version + 1, sc |-> @.sc, retyped |-> TRUE]]
  /\ UNCHANGED <<period, photos, ops, rows, landed, changes, flagged, told,
                 requests, failures, archivals>>

\* Another device uploads a photo.
OnlinePhoto ==
  /\ period # "closed"
  /\ Bounded
  /\ online' = online + 1
  /\ \E i \in Items \ photos : photos' = photos \cup {i}
  /\ UNCHANGED <<period, facts, ops, rows, landed, changes, flagged, told, requests,
                 failures, archivals>>

-----------------------------------------------------------------------------
\* A step of a request that is being served.
RequestStep(w) ==
  \/ Lookup(w) \/ Create(w) \/ Apply(w) \/ Commit(w)
  \/ MarkApplied(w) \/ Reject(w) \/ MarkConflict(w)
  \/ EscalateRead(w) \/ EscalateFlag(w) \/ EscalateMark(w) \/ EscalateNotify(w)
  \/ ResolvePeriod(w) \/ ResolveMark(w) \/ PhotoCreate(w) \/ PhotoRow(w)

Next ==
  \/ \E w \in Workers :
       \/ RequestStep(w) \/ Send(w) \/ ResolveRead(w) \/ Fails(w)
       \/ \E o \in OpId : PhotoLookup(w, o)
  \/ Archive
  \/ Edit \/ Accept \/ Close \/ OnlineEntry \/ OnlineDispute \/ OnlinePhoto

Spec == Init /\ [][Next]_vars

-----------------------------------------------------------------------------
\* Every row, operation and request keeps its type.
TypeOK ==
  /\ period \in {"early", "accepting", "closed"}
  /\ facts \in [Items -> Fact]
  /\ photos \subseteq Items
  /\ ops \in Seq(Op) /\ Len(ops) <= MaxOps
  /\ rows \in [OpId -> Row]
  /\ landed \subseteq OpId /\ flagged \subseteq OpId /\ told \subseteq OpId
  /\ changes \in [OpId -> Nat]
  /\ requests \in [Workers -> Request]
  /\ online \in Nat /\ failures \in Nat /\ archivals \in Nat

\* sync-engine.md, section 8: synchronizing an operation again does not change
\* the data twice.  An operation's own write changes its fact at most once, even
\* when it is resent after its row was archived and is processed as new.
EffectOnce == \A o \in OpId : changes[o] <= 1

\* A row says applied only when the write, the chosen value or the photo has been
\* committed, whichever statement the request that wrote it died on.
AppliedHasEffect == \A o \in OpId : rows[o].status = "applied" => o \in landed

\* ADR-003: a fact of a closed period that a device contradicts has its type 3
\* discrepancy before the row tells the device that it was escalated.
EscalatedIsFlagged ==
  \A o \in OpId :
    rows[o].status = "escalated" /\ rows[o].server # 0 => o \in flagged

\* Rows nobody will carry on: pending, or escalated without the notification,
\* and no request at work on them.  A resend only reads them.
Stranded ==
  {o \in OpId :
     /\ \A w \in Workers : requests[w].o # o
     /\ \/ rows[o].status = "pending"
        \/ rows[o].status = "escalated" /\ o \notin told}

\* Each failure strands one operation at most, and nothing else does: every way
\* through the handler that ends leaves the row settled and the admins told.
OnlyFailuresStrand == Cardinality(Stranded) <= failures

\* SyncArchivalWorker's comment: an unresolved conflict must not disappear.  A row
\* in conflict stays until a resolution makes it applied or escalated.
ConflictKept ==
  [][\A o \in OpId : rows[o].status = "conflict" =>
       rows'[o].status \in {"conflict", "applied", "escalated"}]_vars

-----------------------------------------------------------------------------
\* The inductive invariant of the safety above

\* A request in the loop has inserted the row of its operation; one that resolves
\* or escalates has found it.
InLoop(r) == r.chosen = Null /\ r.pc \in {"apply", "commit", "applied", "reject", "conflict"}
Resolving(r) == r.chosen # Null
Escalating(r) == r.pc \in {"escalate", "flag", "escalated", "notify"}
Serves(r) == InLoop(r) \/ Escalating(r)

\* A request is at work on an operation of the device, in the part of its handler
\* that fits the row.
Fits(r) ==
  /\ r.todo \subseteq DOMAIN ops
  /\ r.pc \notin {"idle", "lookup"} => r.o \in DOMAIN ops
  /\ r.pc = "resolve" => Resolving(r)
  /\ Resolving(r) => /\ r.pc \in {"resolve", "apply", "commit", "applied"}
                     /\ rows[r.o].status \in {"conflict", "applied", "escalated"}
  /\ InLoop(r) => rows[r.o].status = "pending"
  /\ Escalating(r) => rows[r.o].status # "none"

\* One that is about to write does so on a period that accepts it, and the
\* operation has not changed its fact yet.
MayCommit(r) ==
  r.pc = "commit" =>
    /\ period # "early"
    /\ r.chosen = Null => /\ changes[r.o] = 0
                          /\ facts[ops[r.o].item].version >= ops[r.o].known

\* What a request is about to record has been done.
Done(r) ==
  /\ r.pc \in {"applied", "photoRow"} => r.o \in landed
  /\ r.pc = "escalated" /\ r.seen # 0 => r.o \in flagged

RequestsFit == \A w \in Workers : Fits(requests[w])
CommitsAllowed == \A w \in Workers : MayCommit(requests[w])
DoneBeforeRecorded == \A w \in Workers : Done(requests[w])

\* While a row is pending, one request at most is past its insertion.
OneServes ==
  \A u, w \in Workers :
    /\ u # w /\ requests[u].o = requests[w].o
    /\ Serves(requests[u]) /\ Serves(requests[w])
    => rows[requests[u].o].status # "pending"

\* Nothing is written before the period accepts it.
EarlyUntouched == period = "early" => \A i \in Items : facts[i].version = 0

\* An operation whose write changed its fact has left the version it knew behind.
VersionLeftBehind ==
  \A o \in OpId : changes[o] # 0 =>
    o \in DOMAIN ops /\ facts[ops[o].item].version > ops[o].known

IInv ==
  /\ TypeOK
  /\ RequestsFit
  /\ CommitsAllowed
  /\ DoneBeforeRecorded
  /\ OneServes
  /\ EarlyUntouched
  /\ VersionLeftBehind
  /\ EffectOnce
  /\ AppliedHasEffect
  /\ EscalatedIsFlagged
=============================================================================
