------------------------------ MODULE DisputeSla ------------------------------
(***************************************************************************)
(* The SLA timers of the disputes about one BoQ item in one period:        *)
(* DisputeService and DisputeSlaService in the API, DisputeSlaWorker in a  *)
(* process of its own, the sla_events table and the Bull queue between     *)
(* them.                                                                   *)
(*                                                                         *)
(* None of these handlers is a transaction: each awaited statement is a    *)
(* step, and a request or the worker may die between any two of them.      *)
(* There is one worker process (replicas: 1, Recreate), serving one job at *)
(* a time.  Timers and cancellation are keyed by (period, item), so other  *)
(* items do not interfere and one pair is modelled.                        *)
(***************************************************************************)
EXTENDS Integers, Sequences, FiniteSets

CONSTANTS
  Clients,        \* API requests served at the same time
  NotifyAfter, ForceAfter, DeadlineAfter, CeilingAfter,  \* days: 3, 5, 7, 14
  MaxAttempts,    \* JOB_OPTS.attempts: 3
  MaxStalled,     \* Bull's maxStalledCount: 1
  MaxDisputes,    \* bound: discrepancies created
  MaxEvents,      \* bound: rows of sla_events
  LastDay,        \* bound: requests are made up to this day
  MaxFailures,    \* bound: crashes and errors of the worker
  MaxLosses       \* bound: requests that end halfway, and losses of Redis

ASSUME SlaAssumption ==
  /\ NotifyAfter \in Nat /\ ForceAfter \in Nat
  /\ DeadlineAfter \in Nat /\ CeilingAfter \in Nat
  /\ NotifyAfter <= CeilingAfter /\ ForceAfter <= CeilingAfter
  /\ DeadlineAfter <= CeilingAfter
  /\ MaxAttempts \in Nat \ {0} /\ MaxStalled \in Nat
  /\ MaxDisputes \in Nat /\ MaxEvents \in Nat
  /\ LastDay \in Nat
  /\ MaxFailures \in Nat /\ MaxLosses \in Nat

MaxDay == LastDay + CeilingAfter  \* every timer falls due by then
Day    == 0..MaxDay
NotYet == -1                      \* gc_response_at is null
EventId == 1..MaxEvents
DisputeId == 1..MaxDisputes

Kind == {"notify", "force", "deadline", "ceiling"}
After == [notify |-> NotifyAfter, force |-> ForceAfter,
          deadline |-> DeadlineAfter, ceiling |-> CeilingAfter]
Timers == [A |-> <<"notify", "force">>, B |-> <<"notify", "deadline", "ceiling">>]

Dispute == [status : {"open", "forced"}, createdAt : Day, responseAt : Day \cup {NotYet}]
Event == [kind : Kind, scenario : {"A", "B"}, at : Day,
          executed : BOOLEAN, cancelled : BOOLEAN]
Job == [state : {"absent", "delayed", "waiting", "active", "failed"},
        tries : 0..MaxAttempts, stalls : 0..(MaxStalled + 1)]
NoJob == [state |-> "absent", tries |-> 0, stalls |-> 0]

\* What a request carries between its steps: the dispute, or the scenario and
\* the day its timers count from, and the events still to be queued.
Request == [pc : {"idle", "insert", "find", "enqueue", "respond", "cancel"},
            d : DisputeId \cup {0}, scenario : {"A", "B"}, from : Day,
            todo : SUBSET EventId]
IdleRequest == [pc |-> "idle", d |-> 0, scenario |-> "A", from |-> 0, todo |-> {}]

\* The worker: the job it works on and the dispute it is closing.
Worker == [pc : {"down", "idle", "handle", "fact", "execute", "complete"},
           job : EventId \cup {0}, d : DisputeId \cup {0}]
IdleWorker == [pc |-> "idle", job |-> 0, d |-> 0]

VARIABLES
  day,        \* calendar days since the first dispute
  disputes,   \* discrepancies of the pair, by id
  figures,    \* disputes whose fact was given the SC's figure
  events,     \* sla_events of the pair, by id
  notified,   \* events the directors were notified about
  jobs,       \* the Bull queue in Redis, by jobId
  requests,   \* the request each client has in progress
  worker,     \* the worker process
  failures,   \* crashes and errors of the worker so far
  losses      \* requests that ended halfway and losses of Redis so far

vars == <<day, disputes, figures, events, notified, jobs, requests, worker,
          failures, losses>>
counts == <<failures, losses>>

Init ==
  /\ day = 0
  /\ disputes = <<>>
  /\ figures = {}
  /\ events = <<>>
  /\ notified = {}
  /\ jobs = [e \in EventId |-> NoJob]
  /\ requests = [c \in Clients |-> IdleRequest]
  /\ worker = IdleWorker
  /\ failures = 0
  /\ losses = 0

-----------------------------------------------------------------------------
Open == {d \in DOMAIN disputes : disputes[d].status = "open"}

\* executed_at is null and is_cancelled is false.
Pending == {e \in DOMAIN events : ~events[e].executed /\ ~events[e].cancelled}

\* The rows createMany inserts for a scenario whose clock starts on day from.
NewEvents(scenario, from) ==
  [k \in DOMAIN Timers[scenario] |->
     [kind |-> Timers[scenario][k], scenario |-> scenario,
      at |-> from + After[Timers[scenario][k]], executed |-> FALSE, cancelled |-> FALSE]]

\* Mutation: every job is queued to run at once.
AddedAtOnce(e) ==
  IF jobs[e].state = "absent" THEN [NoJob EXCEPT !.state = "waiting"] ELSE jobs[e]

\* queue.add with jobId and delay: a job that is in Redis in whatever state,
\* failed included, makes it a no-op.
Added(e) ==
  IF jobs[e].state = "absent"
  THEN [NoJob EXCEPT !.state = IF events[e].at > day THEN "delayed" ELSE "waiting"]
  ELSE jobs[e]

Becomes(c, r) == requests' = [requests EXCEPT ![c] = r]
Works(pc) == worker' = [worker EXCEPT !.pc = pc]

-----------------------------------------------------------------------------
\* DisputeService and DisputeSlaService

\* createDispute; PeriodCycle has its checks and the mark on the fact.  It does
\* not look for a discrepancy that is already open.
CreateDispute(c) ==
  /\ requests[c].pc = "idle"
  /\ day <= LastDay
  /\ Len(disputes) < MaxDisputes
  /\ Len(events) + 2 <= MaxEvents
  /\ disputes' = Append(disputes, [status |-> "open", createdAt |-> day,
                                   responseAt |-> NotYet])
  /\ Becomes(c, [IdleRequest EXCEPT !.pc = "insert", !.from = day])
  /\ UNCHANGED <<day, figures, events, notified, jobs, worker, counts>>

\* scheduleEvents: insert the events, find the pending ones of the scenario
\* (older ones of the pair included), queue each.
ScheduleInsert(c) ==
  LET r == requests[c] IN
  /\ r.pc = "insert"
  /\ Len(events) + Len(Timers[r.scenario]) <= MaxEvents
  /\ events' = events \o NewEvents(r.scenario, r.from)
  /\ Becomes(c, [r EXCEPT !.pc = "find"])
  /\ UNCHANGED <<day, disputes, figures, notified, jobs, worker, counts>>

ScheduleFind(c) ==
  LET r == requests[c]
      found == {e \in Pending : events[e].scenario = r.scenario}
  IN
  /\ r.pc = "find"
  /\ Becomes(c, [r EXCEPT !.pc = "enqueue", !.todo = found])
  /\ UNCHANGED <<day, disputes, figures, events, notified, jobs, worker, counts>>

Enqueue(c) ==
  LET r == requests[c] IN
  /\ r.pc = "enqueue"
  /\ \/ /\ r.todo = {}
        /\ Becomes(c, IdleRequest)
        /\ UNCHANGED jobs
     \/ \E e \in r.todo :
          /\ \A x \in r.todo : e <= x
          /\ jobs' = [jobs EXCEPT ![e] = Added(e)]
          /\ Becomes(c, [r EXCEPT !.todo = @ \ {e}])
  /\ UNCHANGED <<day, disputes, figures, events, notified, worker, counts>>

\* submitGpResponse: check, update, cancel.
RespondRead(c, d) ==
  /\ requests[c].pc = "idle"
  /\ day <= LastDay
  /\ d \in Open
  /\ Becomes(c, [IdleRequest EXCEPT !.pc = "respond", !.d = d])
  /\ UNCHANGED <<day, disputes, figures, events, notified, jobs, worker, counts>>

RespondUpdate(c) ==
  LET r == requests[c] IN
  /\ r.pc = "respond"
  /\ disputes' = [disputes EXCEPT ![r.d].responseAt = day]
  /\ Becomes(c, [r EXCEPT !.pc = "cancel"])
  /\ UNCHANGED <<day, figures, events, notified, jobs, worker, counts>>

\* cancelEvents: every pending event of the pair, whichever dispute it is for.
CancelEvents(c) ==
  /\ requests[c].pc = "cancel"
  /\ events' = [e \in DOMAIN events |->
                  IF e \in Pending THEN [events[e] EXCEPT !.cancelled = TRUE] ELSE events[e]]
  /\ Becomes(c, IdleRequest)
  /\ UNCHANGED <<day, disputes, figures, notified, jobs, worker, counts>>

\* rejectGpResponse: scenario B, counted from the GP's response; may be repeated.
RejectRead(c, d) ==
  /\ requests[c].pc = "idle"
  /\ day <= LastDay
  /\ Len(events) + 3 <= MaxEvents
  /\ d \in Open
  /\ disputes[d].responseAt # NotYet
  /\ Becomes(c, [IdleRequest EXCEPT !.pc = "insert", !.scenario = "B",
                                    !.from = disputes[d].responseAt])
  /\ UNCHANGED <<day, disputes, figures, events, notified, jobs, worker, counts>>

-----------------------------------------------------------------------------
\* DisputeSlaWorker

\* Mutation: the scan leaves out what is overdue.
WorkerStartSkipsOverdue ==
  /\ worker.pc = "down"
  /\ worker' = IdleWorker
  /\ jobs' = [e \in EventId |->
               IF e \in Pending /\ events[e].at > day THEN Added(e) ELSE jobs[e]]
  /\ UNCHANGED <<day, disputes, figures, events, notified, requests, counts>>

\* onModuleInit: recoverPending queues every pending event.  One step: adding is
\* idempotent, and a crash on the way is followed by another scan.
WorkerStart ==
  /\ worker.pc = "down"
  /\ worker' = IdleWorker
  /\ jobs' = [e \in EventId |-> IF e \in Pending THEN Added(e) ELSE jobs[e]]
  /\ UNCHANGED <<day, disputes, figures, events, notified, requests, counts>>

\* The worker takes a job and reads its event; one that was executed or
\* cancelled meanwhile completes the job at once.
TakeJob(e) ==
  /\ worker.pc = "idle"
  /\ jobs[e].state = "waiting"
  /\ IF e \in Pending
     THEN /\ jobs' = [jobs EXCEPT ![e].state = "active"]
          /\ worker' = [pc |-> "handle", job |-> e, d |-> 0]
     ELSE jobs' = [jobs EXCEPT ![e] = NoJob] /\ UNCHANGED worker
  /\ UNCHANGED <<day, disputes, figures, events, notified, requests, counts>>

\* handleNotify and handleDirectorDeadline, for an organization with directors;
\* the second only while a discrepancy is open (no decision is ever recorded).
Notify ==
  LET e == worker.job IN
  /\ worker.pc = "handle"
  /\ events[e].kind \in {"notify", "deadline"}
  /\ notified' = IF events[e].kind = "notify" \/ Open # {}
                 THEN notified \cup {e} ELSE notified
  /\ Works("execute")
  /\ UNCHANGED <<day, disputes, figures, events, jobs, requests, counts>>

\* handleForceClose finds one open discrepancy of the pair, not necessarily the
\* one the event was scheduled for; only this worker closes any.
ForceDiscrepancy(d) ==
  /\ worker.pc = "handle"
  /\ events[worker.job].kind \in {"force", "ceiling"}
  /\ d \in Open
  /\ disputes' = [disputes EXCEPT ![d].status = "forced"]
  /\ worker' = [worker EXCEPT !.pc = "fact", !.d = d]
  /\ UNCHANGED <<day, figures, events, notified, jobs, requests, counts>>

\* Mutation: an error of the closing is swallowed.
ForceNothingAnyway ==
  /\ worker.pc = "handle"
  /\ events[worker.job].kind \in {"force", "ceiling"}
  /\ Works("execute")
  /\ UNCHANGED <<day, disputes, figures, events, notified, jobs, requests, counts>>

ForceNothing ==
  /\ worker.pc = "handle"
  /\ events[worker.job].kind \in {"force", "ceiling"}
  /\ Open = {}
  /\ Works("execute")
  /\ UNCHANGED <<day, disputes, figures, events, notified, jobs, requests, counts>>

ForceFact ==
  /\ worker.pc = "fact"
  /\ figures' = figures \cup {worker.d}
  /\ Works("execute")
  /\ UNCHANGED <<day, disputes, events, notified, jobs, requests, counts>>

Execute ==
  /\ worker.pc = "execute"
  /\ events' = [events EXCEPT ![worker.job].executed = TRUE]
  /\ Works("complete")
  /\ UNCHANGED <<day, disputes, figures, notified, jobs, requests, counts>>

\* removeOnComplete: the job leaves Redis, and with it the jobId.
Complete ==
  /\ worker.pc = "complete"
  /\ jobs' = IF jobs[worker.job].state = "active"
             THEN [jobs EXCEPT ![worker.job] = NoJob] ELSE jobs
  /\ worker' = IdleWorker
  /\ UNCHANGED <<day, disputes, figures, events, notified, requests, counts>>

-----------------------------------------------------------------------------
\* Time and failures

\* A day passes, and Bull moves the delayed jobs that fall due to the waiting.
Tick ==
  /\ disputes # <<>>
  /\ day < MaxDay
  /\ day' = day + 1
  /\ jobs' = [e \in EventId |->
                IF jobs[e].state = "delayed" /\ events[e].at <= day'
                THEN [jobs[e] EXCEPT !.state = "waiting"] ELSE jobs[e]]
  /\ UNCHANGED <<disputes, figures, events, notified, requests, worker, counts>>

\* A request ends early: its process dies or a statement throws.
RequestFails(c) ==
  /\ requests[c].pc # "idle"
  /\ losses < MaxLosses
  /\ losses' = losses + 1
  /\ Becomes(c, IdleRequest)
  /\ UNCHANGED <<day, disputes, figures, events, notified, jobs, worker, failures>>

\* Mutation: an error drops the job from the queue.
HandlerThrowsAway ==
  /\ worker.pc \in {"handle", "fact", "execute"}
  /\ failures < MaxFailures
  /\ failures' = failures + 1
  /\ jobs' = [jobs EXCEPT ![worker.job] = NoJob]
  /\ worker' = IdleWorker
  /\ UNCHANGED <<day, disputes, figures, events, notified, requests, losses>>

\* A statement of process() throws: the job is retried (the backoff is shorter
\* than a day), and after the last attempt it stays in the failed set.
HandlerThrows ==
  LET e == worker.job
      tries == jobs[e].tries + 1
  IN
  /\ worker.pc \in {"handle", "fact", "execute"}
  /\ failures < MaxFailures
  /\ failures' = failures + 1
  /\ jobs' = IF jobs[e].state # "active" THEN jobs
             ELSE [jobs EXCEPT ![e].tries = tries,
                     ![e].state = IF tries < MaxAttempts THEN "waiting" ELSE "failed"]
  /\ worker' = IdleWorker
  /\ UNCHANGED <<day, disputes, figures, events, notified, requests, losses>>

WorkerCrash ==
  /\ worker.pc # "down"
  /\ failures < MaxFailures
  /\ failures' = failures + 1
  /\ worker' = [IdleWorker EXCEPT !.pc = "down"]
  /\ UNCHANGED <<day, disputes, figures, events, notified, jobs, requests, losses>>

\* An active job nobody works on is put back, and fails when it stalls again.
StalledCheck(e) ==
  LET stalls == jobs[e].stalls + 1 IN
  /\ worker.pc # "down"
  /\ jobs[e].state = "active" /\ worker.job # e
  /\ jobs' = [jobs EXCEPT ![e].stalls = stalls,
                ![e].state = IF stalls <= MaxStalled THEN "waiting" ELSE "failed"]
  /\ UNCHANGED <<day, disputes, figures, events, notified, requests, worker, counts>>

\* Redis loses its data; the worker goes on and is not restarted.
RedisLoss ==
  /\ losses < MaxLosses
  /\ losses' = losses + 1
  /\ jobs' = [e \in EventId |-> NoJob]
  /\ UNCHANGED <<day, disputes, figures, events, notified, requests, worker, failures>>

WorkerStep ==
  \/ \E e \in EventId : TakeJob(e) \/ StalledCheck(e)
  \/ Notify
  \/ \E d \in DisputeId : ForceDiscrepancy(d)
  \/ ForceNothing \/ ForceFact \/ Execute \/ Complete

RequestStep(c) ==
  ScheduleInsert(c) \/ ScheduleFind(c) \/ Enqueue(c) \/ RespondUpdate(c) \/ CancelEvents(c)

Next ==
  \/ Tick
  \/ \E c \in Clients :
       \/ CreateDispute(c)
       \/ \E d \in DisputeId : RespondRead(c, d) \/ RejectRead(c, d)
       \/ RequestStep(c)
       \/ RequestFails(c)
  \/ WorkerStep
  \/ WorkerStart
  \/ HandlerThrows \/ WorkerCrash \/ RedisLoss

Spec == Init /\ [][Next]_vars

-----------------------------------------------------------------------------
\* Safety

\* Every table, job and process keeps its type; no row is beyond the bounds.
TypeOK ==
  /\ day \in Day
  /\ disputes \in Seq(Dispute) /\ Len(disputes) <= MaxDisputes
  /\ figures \subseteq DisputeId
  /\ events \in Seq(Event) /\ Len(events) <= MaxEvents
  /\ notified \subseteq EventId
  /\ jobs \in [EventId -> Job]
  /\ requests \in [Clients -> Request]
  /\ worker \in Worker
  /\ failures \in 0..MaxFailures /\ losses \in 0..MaxLosses

\* disputes-sla.md section 12, "force close only after the full SLA scenario", as far as the
\* code keeps it.  A timer does not name its dispute, so that of an older one may close a
\* younger before its own days are over; but none is forced before the days the GP has to
\* answer the first of them are over, whichever job is retried, put back or recovered.
NotForcedBeforeFirst ==
  [][\A d \in DOMAIN disputes :
       disputes[d].status = "open" /\ disputes'[d].status = "forced"
         => day >= disputes[1].createdAt + ForceAfter]_vars

\* While the item has had one dispute, a forced closure that is on record as executed did
\* close it: no retry, crash or lost answer lets the worker skip the closing.  (Of several
\* it closes one, and which is not said.)
ExecutedForceCloses ==
  Len(disputes) = 1 =>
    \A e \in DOMAIN events :
      events[e].executed /\ events[e].kind \in {"force", "ceiling"} => Open = {}

\* While Redis keeps its data and no request dies halfway, every pending event
\* has its job or a request about to queue it: retries, stalled jobs, worker
\* crashes and a job id added twice lose none.
PendingHasJob ==
  losses = 0 =>
    \A e \in Pending :
      \/ jobs[e].state # "absent"
      \/ \E c \in Clients :
           \/ requests[c].pc = "find" /\ requests[c].scenario = events[e].scenario
           \/ e \in requests[c].todo

-----------------------------------------------------------------------------
\* The inductive invariant of the safety above

Forcing == {"force", "ceiling"}
Working == {"handle", "fact", "execute", "complete"}

\* What is recorded of a day is past, and timers count from a day on which
\* requests are still made.
DaysPast ==
  /\ \A d \in DOMAIN disputes :
       /\ disputes[d].createdAt <= day
       /\ disputes[d].responseAt # NotYet =>
            disputes[d].createdAt <= disputes[d].responseAt /\ disputes[d].responseAt <= day
  /\ \A c \in Clients : requests[c].from <= LastDay

\* A request on its way acts on rows that are there.
RequestsFit ==
  \A c \in Clients :
    LET r == requests[c] IN
    /\ r.pc = "insert" => disputes # <<>>
    /\ r.pc = "respond" => r.d \in DOMAIN disputes
    /\ r.todo \subseteq DOMAIN events
    /\ r.pc # "enqueue" => r.todo = {}

\* The worker works on an event that is due, and completes none it did not execute.
WorkerFits ==
  /\ worker.pc \in Working =>
       worker.job \in DOMAIN events /\ events[worker.job].at <= day
  /\ worker.pc = "fact" => worker.d \in DOMAIN disputes
  /\ worker.pc = "complete" => events[worker.job].executed

\* A job is of an event, runs when that is due, and has attempts left until it failed.
JobsFit ==
  \A e \in EventId :
    /\ jobs[e].state # "absent" => e \in DOMAIN events
    /\ jobs[e].state \in {"waiting", "active"} => events[e].at <= day
    /\ jobs[e].state # "failed" => jobs[e].tries < MaxAttempts /\ jobs[e].stalls <= MaxStalled

IInv ==
  /\ TypeOK
  /\ DaysPast
  /\ RequestsFit
  /\ WorkerFits
  /\ JobsFit
  /\ events # <<>> => disputes # <<>>
  /\ PendingHasJob

\* Every clock counts from a dispute of the pair, and so from the first of them or later.
FirstClock ==
  /\ \A d \in DOMAIN disputes : disputes[1].createdAt <= disputes[d].createdAt
  /\ \A c \in Clients : requests[c].pc = "insert" => disputes[1].createdAt <= requests[c].from
  /\ \A e \in DOMAIN events :
       events[e].kind \in Forcing => disputes[1].createdAt + ForceAfter <= events[e].at

\* While the pair has one dispute, the worker is past the closing only when that is closed.
OneCloses ==
  /\ Len(disputes) = 1 =>
       /\ worker.pc = "fact" => Open = {}
       /\ worker.pc = "execute" /\ events[worker.job].kind \in Forcing => Open = {}
  /\ ExecutedForceCloses

=============================================================================
