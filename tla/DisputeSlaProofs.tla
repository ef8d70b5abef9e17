--------------------------- MODULE DisputeSlaProofs ---------------------------
(***************************************************************************)
(* Proofs about DisputeSla for any number of requests, disputes, events,   *)
(* crashes and losses: IInv is inductive, and so are FirstClock and         *)
(* OneCloses beside it.                                                    *)
(***************************************************************************)
EXTENDS DisputeSla, SequenceTheorems, TLAPS

-----------------------------------------------------------------------------
\* Lemmas about rows

\* Rows are numbered from 1 and are what their table allows.
LEMMA RowsTyped ==
  ASSUME TypeOK
  PROVE  /\ DOMAIN events \subseteq EventId /\ DOMAIN disputes \subseteq DisputeId
         /\ \A e \in DOMAIN events : events[e] \in Event
         /\ \A d \in DOMAIN disputes : disputes[d] \in Dispute
         /\ 0 \notin EventId /\ 0 \notin DisputeId
  BY SlaAssumption, LenProperties, ElementOfSeq DEF TypeOK, EventId, DisputeId

\* A table with a row is not empty.
LEMMA HasRow ==
  ASSUME NEW S, NEW s \in Seq(S), NEW i \in DOMAIN s
  PROVE  s # <<>>
  BY EmptySeq, LenProperties

\* A table without rows has none.
LEMMA NoRow ==
  ASSUME NEW S, NEW s \in Seq(S), s # <<>>
  PROVE  1 \in DOMAIN s
  BY EmptySeq, LenProperties

\* A function on the numbers of the rows is a table with as many rows.
LEMMA TableOf ==
  ASSUME NEW S, NEW s \in Seq(S), NEW f, f \in [DOMAIN s -> S]
  PROVE  f \in Seq(S) /\ Len(f) = Len(s) /\ DOMAIN f = DOMAIN s
  <1>1. DOMAIN s = 1..Len(s) /\ Len(s) \in Nat
    BY LenProperties
  <1>2. f \in Seq(S)
    BY <1>1, SeqDef
  <1>3. DOMAIN f = 1..Len(f) /\ Len(f) \in Nat
    BY <1>2, LenProperties
  <1>4. QED
    BY <1>1, <1>2, <1>3

\* The rows of a scenario are of its kinds, due its days after the start.
LEMMA NewRows ==
  ASSUME NEW scenario \in {"A", "B"}, NEW from \in 0..LastDay
  PROVE  /\ NewEvents(scenario, from) \in Seq(Event)
         /\ Len(NewEvents(scenario, from)) = Len(Timers[scenario])
         /\ \A k \in DOMAIN NewEvents(scenario, from) :
              LET e == NewEvents(scenario, from)[k] IN
              /\ ~e.executed /\ ~e.cancelled /\ e.scenario = scenario
              /\ e.kind \in Forcing => e.at >= from + ForceAfter
  <1> DEFINE T == Timers[scenario]
             N == NewEvents(scenario, from)
  <1>1. T \in Seq(Kind)
    <2>1. <<"notify", "force">> \in Seq(Kind) /\ <<"notify", "deadline", "ceiling">> \in Seq(Kind)
      BY DEF Kind
    <2>2. T \in {<<"notify", "force">>, <<"notify", "deadline", "ceiling">>}
      BY DEF Timers
    <2>3. QED
      BY <2>1, <2>2
  <1>2. \A k \in Kind : After[k] \in Nat /\ After[k] <= CeilingAfter
    BY SlaAssumption DEF After, Kind
  <1>3. \A k \in Forcing : After[k] >= ForceAfter
    BY SlaAssumption DEF After, Forcing
  <1>4. DOMAIN T = 1..Len(T) /\ Len(T) \in Nat /\ \A k \in DOMAIN T : T[k] \in Kind
    BY <1>1, LenProperties, ElementOfSeq
  <1>5. \A k \in DOMAIN T : from + After[T[k]] \in Day
    BY <1>2, <1>4, SlaAssumption DEF Day, MaxDay
  <1>6. N \in [1..Len(T) -> Event]
    BY <1>4, <1>5 DEF NewEvents, Event
  <1>7. N \in Seq(Event) /\ DOMAIN N = 1..Len(N) /\ Len(N) \in Nat
    BY <1>4, <1>6, SeqDef, LenProperties
  <1>8. Len(N) = Len(T)
    BY <1>4, <1>6, <1>7
  <1>9. ASSUME NEW k \in DOMAIN N
        PROVE  /\ ~N[k].executed /\ ~N[k].cancelled /\ N[k].scenario = scenario
               /\ N[k].kind \in Forcing => N[k].at >= from + ForceAfter
    <2>1. k \in DOMAIN T /\ T[k] \in Kind
      BY <1>4, <1>6
    <2>2. N[k] = [kind |-> T[k], scenario |-> scenario, at |-> from + After[T[k]],
                  executed |-> FALSE, cancelled |-> FALSE]
      BY <2>1 DEF NewEvents
    <2>3. After[T[k]] \in Nat /\ (T[k] \in Forcing => After[T[k]] >= ForceAfter)
      BY <1>2, <1>3, <2>1
    <2>4. QED
      BY <2>2, <2>3, SlaAssumption
  <1>10. QED
    BY <1>7, <1>8, <1>9

-----------------------------------------------------------------------------
\* What a step does to the tables

\* Rows of events are only added, keep what was scheduled, and once executed or
\* cancelled are never pending again.
EventsGrow ==
  /\ events' \in Seq(Event) /\ Len(events') <= MaxEvents
  /\ DOMAIN events \subseteq DOMAIN events'
  /\ \A e \in DOMAIN events :
       /\ events'[e].kind = events[e].kind /\ events'[e].scenario = events[e].scenario
       /\ events'[e].at = events[e].at
       /\ events[e].executed => events'[e].executed
       /\ e \in Pending' => e \in Pending

\* Discrepancies are only added and keep their day; none is reopened.
DisputesGrow ==
  /\ disputes' \in Seq(Dispute) /\ Len(disputes') <= MaxDisputes
  /\ DOMAIN disputes \subseteq DOMAIN disputes'
  /\ \A d \in DOMAIN disputes :
       /\ disputes'[d].createdAt = disputes[d].createdAt
       /\ d \in Open' => d \in Open

\* An insertion of events leaves the others as they are; the new ones wait for
\* their day under the request's scenario.
LEMMA Scheduled ==
  ASSUME TypeOK, DaysPast, NEW c \in Clients, ScheduleInsert(c)
  PROVE  /\ EventsGrow
         /\ \A e \in DOMAIN events : events'[e] = events[e]
         /\ \A e \in DOMAIN events' \ DOMAIN events :
              /\ ~events'[e].executed /\ events'[e].scenario = requests[c].scenario
              /\ events'[e].kind \in Forcing => events'[e].at >= requests[c].from + ForceAfter
  <1> DEFINE r == requests[c]
             N == NewEvents(r.scenario, r.from)
  <1>1. r \in Request /\ r.from \in 0..LastDay /\ r.scenario \in {"A", "B"}
    BY SlaAssumption DEF TypeOK, DaysPast, Request, Day
  <1>2. N \in Seq(Event) /\ Len(N) = Len(Timers[r.scenario])
    BY <1>1, NewRows
  <1>3. events' = events \o N /\ Len(events) + Len(N) <= MaxEvents /\ events \in Seq(Event)
    BY <1>2 DEF ScheduleInsert, TypeOK
  <1>4. /\ events' \in Seq(Event) /\ Len(events') = Len(events) + Len(N)
        /\ \A i \in 1..(Len(events) + Len(N)) :
             events'[i] = IF i <= Len(events) THEN events[i] ELSE N[i - Len(events)]
    BY <1>2, <1>3, ConcatProperties
  <1>5. /\ DOMAIN events = 1..Len(events) /\ Len(events) \in Nat
        /\ DOMAIN events' = 1..Len(events') /\ Len(N) \in Nat /\ DOMAIN N = 1..Len(N)
    BY <1>2, <1>3, <1>4, LenProperties
  <1>6. \A e \in DOMAIN events : e \in DOMAIN events' /\ events'[e] = events[e]
    BY <1>4, <1>5
  <1>7. EventsGrow
    BY <1>3, <1>4, <1>6 DEF EventsGrow, Pending
  <1>8. ASSUME NEW e \in DOMAIN events' \ DOMAIN events
        PROVE  /\ ~events'[e].executed /\ events'[e].scenario = r.scenario
               /\ events'[e].kind \in Forcing => events'[e].at >= r.from + ForceAfter
    <2>1. e - Len(events) \in DOMAIN N /\ events'[e] = N[e - Len(events)]
      BY <1>4, <1>5
    <2>2. QED
      BY <1>1, <2>1, NewRows
  <1>9. QED
    BY <1>6, <1>7, <1>8

\* No step takes an event back.
LEMMA EventsStep ==
  ASSUME TypeOK, DaysPast, WorkerFits, [Next]_vars
  PROVE  EventsGrow
  <1>0. /\ events \in Seq(Event) /\ Len(events) <= MaxEvents
        /\ \A e \in DOMAIN events : events[e] \in Event
    BY RowsTyped DEF TypeOK
  <1>1. CASE events' = events
    BY <1>0, <1>1 DEF EventsGrow, Pending
  <1>2. ASSUME NEW c \in Clients, ScheduleInsert(c) PROVE EventsGrow
    BY <1>2, Scheduled
  <1>3. ASSUME NEW c \in Clients, CancelEvents(c) PROVE EventsGrow
    <2>1. /\ events' \in [DOMAIN events -> Event]
          /\ \A e \in DOMAIN events :
               events'[e] \in {events[e], [events[e] EXCEPT !.cancelled = TRUE]}
      BY <1>0, <1>3 DEF CancelEvents, Event
    <2>2. events' \in Seq(Event) /\ Len(events') <= MaxEvents /\ DOMAIN events' = DOMAIN events
      BY <1>0, <2>1, TableOf
    <2>3. ASSUME NEW e \in DOMAIN events
          PROVE  /\ events'[e].kind = events[e].kind /\ events'[e].scenario = events[e].scenario
                 /\ events'[e].at = events[e].at /\ events'[e].executed = events[e].executed
                 /\ events[e].cancelled => events'[e].cancelled
      BY <1>0, <2>1 DEF Event
    <2>4. QED
      BY <2>2, <2>3 DEF EventsGrow, Pending
  <1>4. CASE Execute
    <2>1. worker.job \in DOMAIN events
      BY <1>4 DEF Execute, WorkerFits, Working
    <2>2. events' \in [DOMAIN events -> Event]
      BY <1>0, <1>4, <2>1 DEF Execute, Event
    <2>3. events' \in Seq(Event) /\ Len(events') <= MaxEvents /\ DOMAIN events' = DOMAIN events
      BY <1>0, <2>2, TableOf
    <2>4. ASSUME NEW e \in DOMAIN events
          PROVE  /\ events'[e].kind = events[e].kind /\ events'[e].scenario = events[e].scenario
                 /\ events'[e].at = events[e].at /\ events'[e].cancelled = events[e].cancelled
                 /\ events[e].executed => events'[e].executed
      BY <1>0, <1>4, <2>1 DEF Execute, Event
    <2>5. QED
      BY <2>3, <2>4 DEF EventsGrow, Pending
  <1>5. QED
    BY <1>1, <1>2, <1>3, <1>4
    DEF Next, vars, counts, RequestStep, WorkerStep, Tick, CreateDispute, RespondRead,
        RejectRead, ScheduleFind, Enqueue, RespondUpdate, RequestFails, TakeJob, StalledCheck,
        Notify, ForceDiscrepancy, ForceNothing, ForceFact, Complete, WorkerStart,
        HandlerThrows, WorkerCrash, RedisLoss

\* A new discrepancy is open since today.
LEMMA Created ==
  ASSUME TypeOK, NEW c \in Clients, CreateDispute(c)
  PROVE  /\ DisputesGrow /\ disputes' # <<>>
         /\ \A d \in DOMAIN disputes : disputes'[d] = disputes[d]
         /\ \A d \in DOMAIN disputes' \ DOMAIN disputes :
              disputes'[d].createdAt = day /\ disputes'[d].responseAt = NotYet
  <1> DEFINE new == [status |-> "open", createdAt |-> day, responseAt |-> NotYet]
  <1>1. new \in Dispute /\ disputes \in Seq(Dispute)
    BY DEF Dispute, TypeOK
  <1>2. /\ disputes' = Append(disputes, new) /\ Len(disputes) < MaxDisputes
        /\ Len(disputes) \in Nat /\ DOMAIN disputes = 1..Len(disputes)
    BY <1>1, LenProperties DEF CreateDispute
  <1>3. /\ disputes' \in Seq(Dispute) /\ Len(disputes') = Len(disputes) + 1
        /\ disputes'[Len(disputes) + 1] = new
        /\ \A d \in 1..Len(disputes) : disputes'[d] = disputes[d]
    BY <1>1, <1>2, AppendProperties
  <1>4. DOMAIN disputes' = 1..(Len(disputes) + 1)
    BY <1>3, LenProperties
  <1>5. Len(disputes') <= MaxDisputes
    BY <1>2, <1>3, SlaAssumption
  <1>6. DisputesGrow
    BY <1>2, <1>3, <1>4, <1>5 DEF DisputesGrow, Open
  <1>7. disputes' # <<>>
    BY <1>2, <1>3, EmptySeq
  <1>8. QED
    BY <1>2, <1>3, <1>4, <1>6, <1>7

\* An update of a row keeps the table.
LEMMA DisputeUpdated ==
  ASSUME TypeOK, NEW d \in DOMAIN disputes, NEW x \in Dispute,
         disputes' = [disputes EXCEPT ![d] = x],
         x.createdAt = disputes[d].createdAt, x.status = "open" => disputes[d].status = "open"
  PROVE  DisputesGrow /\ DOMAIN disputes' = DOMAIN disputes /\ disputes' # <<>>
  <1>1. disputes \in Seq(Dispute) /\ \A k \in DOMAIN disputes : disputes[k] \in Dispute
    BY RowsTyped DEF TypeOK
  <1>2. disputes' \in [DOMAIN disputes -> Dispute]
    BY <1>1
  <1>3. disputes' \in Seq(Dispute) /\ Len(disputes') = Len(disputes)
        /\ DOMAIN disputes' = DOMAIN disputes
    BY <1>1, <1>2, TableOf
  <1>4. disputes' # <<>>
    BY <1>3, HasRow
  <1>5. QED
    BY <1>1, <1>3, <1>4 DEF DisputesGrow, Open, TypeOK

\* A response is recorded with today's date.
LEMMA Responded ==
  ASSUME TypeOK, RequestsFit, NEW c \in Clients, RespondUpdate(c)
  PROVE  /\ DisputesGrow /\ DOMAIN disputes' = DOMAIN disputes /\ disputes' # <<>>
         /\ Open' = Open
         /\ \A d \in DOMAIN disputes : disputes'[d].responseAt \in {disputes[d].responseAt, day}
  <1> DEFINE d == requests[c].d
             x == [disputes[d] EXCEPT !.responseAt = day]
  <1>1. d \in DOMAIN disputes /\ day \in Day
    BY DEF RespondUpdate, RequestsFit, TypeOK
  <1>2. disputes[d] \in Dispute
    BY <1>1, RowsTyped
  <1>3. /\ x \in Dispute /\ x.createdAt = disputes[d].createdAt
        /\ x.status = disputes[d].status /\ x.responseAt = day
    BY <1>1, <1>2 DEF Dispute
  <1>4. disputes' = [disputes EXCEPT ![d] = x]
    BY DEF RespondUpdate
  <1>5. DisputesGrow /\ DOMAIN disputes' = DOMAIN disputes /\ disputes' # <<>>
    BY <1>1, <1>3, <1>4, DisputeUpdated
  <1>6. \A k \in DOMAIN disputes : /\ disputes'[k].status = disputes[k].status
                                   /\ disputes'[k].responseAt \in {disputes[k].responseAt, day}
    BY <1>3, <1>4
  <1>7. QED
    BY <1>5, <1>6 DEF Open

\* A forced closure closes one discrepancy and leaves the others.
LEMMA ForcedOne ==
  ASSUME TypeOK, NEW d \in DisputeId, ForceDiscrepancy(d)
  PROVE  /\ DisputesGrow /\ DOMAIN disputes' = DOMAIN disputes /\ disputes' # <<>>
         /\ d \in DOMAIN disputes /\ Open' = Open \ {d}
         /\ \A k \in DOMAIN disputes : disputes'[k].responseAt = disputes[k].responseAt
         /\ \A k \in DOMAIN disputes : disputes'[k].status # disputes[k].status => k = d
  <1> DEFINE x == [disputes[d] EXCEPT !.status = "forced"]
  <1>1. d \in DOMAIN disputes
    BY DEF ForceDiscrepancy, Open
  <1>2. disputes[d] \in Dispute
    BY <1>1, RowsTyped
  <1>3. /\ x \in Dispute /\ x.createdAt = disputes[d].createdAt
        /\ x.status = "forced" /\ x.responseAt = disputes[d].responseAt
    BY <1>2 DEF Dispute
  <1>4. disputes' = [disputes EXCEPT ![d] = x]
    BY DEF ForceDiscrepancy
  <1>5. DisputesGrow /\ DOMAIN disputes' = DOMAIN disputes /\ disputes' # <<>>
    BY <1>1, <1>3, <1>4, DisputeUpdated
  <1>6. \A k \in DOMAIN disputes :
          /\ disputes'[k].status = IF k = d THEN "forced" ELSE disputes[k].status
          /\ disputes'[k].responseAt = disputes[k].responseAt
    BY <1>3, <1>4
  <1>7. QED
    BY <1>1, <1>5, <1>6 DEF Open

\* No step takes a discrepancy back.
LEMMA DisputesStep ==
  ASSUME TypeOK, RequestsFit, [Next]_vars
  PROVE  DisputesGrow
  <1>1. CASE disputes' = disputes
    BY <1>1 DEF DisputesGrow, Open, TypeOK
  <1>2. ASSUME NEW c \in Clients, CreateDispute(c) PROVE DisputesGrow
    BY <1>2, Created
  <1>3. ASSUME NEW c \in Clients, RespondUpdate(c) PROVE DisputesGrow
    BY <1>3, Responded
  <1>4. ASSUME NEW d \in DisputeId, ForceDiscrepancy(d) PROVE DisputesGrow
    BY <1>4, ForcedOne
  <1>5. QED
    BY <1>1, <1>2, <1>3, <1>4
    DEF Next, vars, counts, RequestStep, WorkerStep, Tick, RespondRead, RejectRead,
        ScheduleInsert, ScheduleFind, Enqueue, CancelEvents, RequestFails, TakeJob,
        StalledCheck, Notify, ForceNothing, ForceFact, Execute, Complete, WorkerStart,
        HandlerThrows, WorkerCrash, RedisLoss

-----------------------------------------------------------------------------
\* Type correctness

\* An idle request and an absent job are well formed.
LEMMA IdleTyped ==
  /\ IdleRequest \in Request /\ IdleWorker \in Worker /\ NoJob \in Job
  /\ IdleRequest.pc = "idle" /\ IdleRequest.todo = {} /\ IdleRequest.from = 0
  /\ NoJob.state = "absent" /\ NoJob.tries = 0 /\ NoJob.stalls = 0
  BY SlaAssumption DEF IdleRequest, Request, IdleWorker, Worker, NoJob, Job, Day, MaxDay

\* queue.add makes a fresh job, or none.
LEMMA AddedFits ==
  ASSUME TypeOK, JobsFit, NEW e \in DOMAIN events
  PROVE  /\ Added(e) \in Job /\ Added(e).state # "absent"
         /\ Added(e).state \in {"waiting", "active"} => events[e].at <= day
         /\ Added(e).state # "failed" =>
              Added(e).tries < MaxAttempts /\ Added(e).stalls <= MaxStalled
  <1>1. e \in EventId /\ events[e] \in Event /\ jobs[e] \in Job
    BY RowsTyped DEF TypeOK
  <1>2. CASE jobs[e].state # "absent"
    BY <1>1, <1>2 DEF Added, JobsFit
  <1>3. CASE jobs[e].state = "absent"
    <2>1. Added(e) = [state |-> IF events[e].at > day THEN "delayed" ELSE "waiting",
                      tries |-> 0, stalls |-> 0]
      BY <1>3 DEF Added, NoJob
    <2>2. events[e].at \in Int /\ day \in Int
      BY <1>1, SlaAssumption DEF Event, TypeOK, Day, MaxDay
    <2>3. QED
      BY <2>1, <2>2, SlaAssumption DEF Job
  <1>4. QED
    BY <1>2, <1>3

\* Every step keeps the jobs jobs, of events that are due when they run, with
\* attempts left.
LEMMA JobsStep ==
  ASSUME TypeOK, DaysPast, RequestsFit, WorkerFits, JobsFit, EventsGrow, [Next]_vars
  PROVE  jobs' \in [EventId -> Job] /\ JobsFit'
  <1> DEFINE Good(e, j, today) ==
               /\ j \in Job
               /\ j.state # "absent" => e \in DOMAIN events
               /\ j.state \in {"waiting", "active"} => events[e].at <= today
               /\ j.state # "failed" => j.tries < MaxAttempts /\ j.stalls <= MaxStalled
  <1> HIDE DEF Good
  <1>0. /\ \A e \in EventId : Good(e, jobs[e], day) /\ Good(e, NoJob, day)
        /\ \A e \in DOMAIN events : e \in EventId /\ Good(e, Added(e), day)
        /\ jobs \in [EventId -> Job] /\ day \in Int
    BY IdleTyped, AddedFits, RowsTyped, SlaAssumption DEF Good, TypeOK, JobsFit, Day, MaxDay
  <1>1. ASSUME jobs' \in [EventId -> Job], \A e \in EventId : Good(e, jobs'[e], day')
        PROVE  JobsFit'
    BY <1>1 DEF Good, JobsFit, EventsGrow
  <1>2. CASE jobs' = jobs /\ day' = day
    BY <1>0, <1>1, <1>2
  <1>3. ASSUME NEW c \in Clients, Enqueue(c) PROVE jobs' \in [EventId -> Job] /\ JobsFit'
    <2>1. requests[c].todo \subseteq DOMAIN events /\ day' = day
      BY <1>3 DEF Enqueue, RequestsFit
    <2>2. CASE jobs' = jobs
      BY <1>2, <2>1, <2>2
    <2>3. ASSUME NEW e \in requests[c].todo, jobs' = [jobs EXCEPT ![e] = Added(e)]
          PROVE  jobs' \in [EventId -> Job] /\ JobsFit'
      <3>1. e \in EventId /\ Good(e, Added(e), day) /\ Added(e) \in Job
        BY <1>0, <2>1 DEF Good
      <3>2. jobs' \in [EventId -> Job] /\ \A x \in EventId : Good(x, jobs'[x], day')
        BY <1>0, <2>1, <2>3, <3>1
      <3>3. QED
        BY <1>1, <3>2
    <2>4. QED
      BY <1>3, <2>2, <2>3 DEF Enqueue
  <1>4. CASE WorkerStart
    <2>1. Pending \subseteq DOMAIN events /\ day' = day
      BY <1>4 DEF WorkerStart, Pending
    <2>2. \A e \in EventId : Good(e, jobs'[e], day')
      BY <1>0, <1>4, <2>1 DEF WorkerStart
    <2>3. jobs' \in [EventId -> Job]
      BY <1>4, <2>1, <2>2 DEF WorkerStart, Good
    <2>4. QED
      BY <1>1, <2>2, <2>3
  <1>5. ASSUME NEW e \in EventId, TakeJob(e) PROVE jobs' \in [EventId -> Job] /\ JobsFit'
    <2>1. day' = day /\ jobs[e].state = "waiting"
      BY <1>5 DEF TakeJob
    <2>2. Good(e, [jobs[e] EXCEPT !.state = "active"], day)
      BY <1>0, <2>1 DEF Good, Job
    <2>3. \/ jobs' = [jobs EXCEPT ![e] = [jobs[e] EXCEPT !.state = "active"]]
          \/ jobs' = [jobs EXCEPT ![e] = NoJob]
      BY <1>5 DEF TakeJob
    <2>4. jobs' \in [EventId -> Job] /\ \A x \in EventId : Good(x, jobs'[x], day')
      BY <1>0, <2>1, <2>2, <2>3, IdleTyped DEF Good
    <2>5. QED
      BY <1>1, <2>4
  <1>6. CASE Complete
    <2>1. day' = day /\ (jobs' = jobs \/ jobs' = [jobs EXCEPT ![worker.job] = NoJob])
      BY <1>6 DEF Complete
    <2>2. jobs' \in [EventId -> Job] /\ \A x \in EventId : Good(x, jobs'[x], day')
      BY <1>0, <2>1, IdleTyped
    <2>3. QED
      BY <1>1, <2>2
  <1>7. CASE Tick
    <2>1. day' = day + 1
      BY <1>7 DEF Tick
    <2>2. ASSUME NEW e \in EventId PROVE jobs'[e] \in Job /\ Good(e, jobs'[e], day')
      <3>1. CASE jobs'[e] = jobs[e]
        <4>1. jobs[e].state # "absent" => events[e].at \in Int
          BY <1>0, RowsTyped, SlaAssumption DEF Good, Event, Day, MaxDay
        <4>2. QED
          BY <1>0, <2>1, <3>1, <4>1 DEF Good
      <3>2. CASE jobs[e].state = "delayed" /\ events[e].at <= day'
                 /\ jobs'[e] = [jobs[e] EXCEPT !.state = "waiting"]
        BY <1>0, <3>2 DEF Good, Job
      <3>3. QED
        BY <1>7, <3>1, <3>2 DEF Tick
    <2>3. jobs' \in [EventId -> Job]
      BY <1>7, <2>2 DEF Tick
    <2>4. QED
      BY <1>1, <2>2, <2>3
  <1>8. CASE HandlerThrows
    <2> DEFINE e == worker.job
               j == [state |-> IF jobs[e].tries + 1 < MaxAttempts THEN "waiting" ELSE "failed",
                     tries |-> jobs[e].tries + 1, stalls |-> jobs[e].stalls]
    <2>1. e \in DOMAIN events /\ e \in EventId /\ day' = day
      BY <1>8, RowsTyped DEF HandlerThrows, WorkerFits, Working
    <2>2. CASE jobs' = jobs
      BY <1>2, <2>1, <2>2
    <2>3. CASE jobs[e].state = "active"
      <3>1. jobs[e] \in Job /\ Good(e, jobs[e], day)
        BY <1>0, <2>1
      <3>2. jobs[e].tries \in Nat /\ jobs[e].tries + 1 \in 0..MaxAttempts
        BY <2>3, <3>1, SlaAssumption DEF Good, Job
      <3>3. Good(e, j, day)
        BY <2>1, <2>3, <3>1, <3>2, SlaAssumption DEF Good, Job
      <3>4. jobs' = [jobs EXCEPT ![e] = j]
        BY <1>0, <1>8, <2>1, <2>3, <3>1 DEF HandlerThrows, Job
      <3>5. jobs' \in [EventId -> Job] /\ \A x \in EventId : Good(x, jobs'[x], day')
        BY <1>0, <2>1, <3>3, <3>4 DEF Good
      <3>6. QED
        BY <1>1, <3>5
    <2>4. QED
      BY <1>8, <2>2, <2>3 DEF HandlerThrows
  <1>9. ASSUME NEW e \in EventId, StalledCheck(e) PROVE jobs' \in [EventId -> Job] /\ JobsFit'
    <2> DEFINE j == [state |-> IF jobs[e].stalls + 1 <= MaxStalled THEN "waiting" ELSE "failed",
                     tries |-> jobs[e].tries, stalls |-> jobs[e].stalls + 1]
    <2>1. day' = day /\ jobs[e].state = "active" /\ jobs[e] \in Job /\ Good(e, jobs[e], day)
      BY <1>0, <1>9 DEF StalledCheck
    <2>2. jobs[e].stalls \in Nat /\ jobs[e].stalls + 1 \in 0..(MaxStalled + 1)
      BY <2>1, SlaAssumption DEF Good, Job
    <2>3. Good(e, j, day)
      BY <2>1, <2>2, SlaAssumption DEF Good, Job
    <2>4. jobs' = [jobs EXCEPT ![e] = j]
      BY <1>0, <1>9, <2>1 DEF StalledCheck, Job
    <2>5. jobs' \in [EventId -> Job] /\ \A x \in EventId : Good(x, jobs'[x], day')
      BY <1>0, <2>1, <2>3, <2>4 DEF Good
    <2>6. QED
      BY <1>1, <2>5
  <1>10. CASE RedisLoss
    <2>1. jobs' = [e \in EventId |-> NoJob] /\ day' = day
      BY <1>10 DEF RedisLoss
    <2>2. jobs' \in [EventId -> Job] /\ \A x \in EventId : Good(x, jobs'[x], day')
      BY <1>0, <2>1, IdleTyped
    <2>3. QED
      BY <1>1, <2>2
  <1>11. QED
    BY <1>2, <1>3, <1>4, <1>5, <1>6, <1>7, <1>8, <1>9, <1>10
    DEF Next, vars, counts, RequestStep, WorkerStep, CreateDispute, RespondRead, RejectRead,
        ScheduleInsert, ScheduleFind, RespondUpdate, CancelEvents, RequestFails, Notify,
        ForceDiscrepancy, ForceNothing, ForceFact, Execute, WorkerCrash

\* What RequestsFit and DaysPast ask of one request, given the rows that are there.
RequestFits(r, ds, es) ==
  /\ r \in Request
  /\ r.pc = "insert" => ds # <<>>
  /\ r.pc = "respond" => r.d \in DOMAIN ds
  /\ r.todo \subseteq DOMAIN es
  /\ r.pc # "enqueue" => r.todo = {}
  /\ r.from <= LastDay

\* What fits keeps fitting while rows are only added.
LEMMA StillFits ==
  ASSUME TypeOK, EventsGrow, DisputesGrow, NEW r, RequestFits(r, disputes, events)
  PROVE  RequestFits(r, disputes', events')
  <1>1. disputes # <<>> => disputes' # <<>>
    BY NoRow, HasRow DEF TypeOK, DisputesGrow
  <1>2. QED
    BY <1>1 DEF RequestFits, EventsGrow, DisputesGrow

\* A request that moves on to one that fits leaves all of them fitting.
LEMMA RequestMoves ==
  ASSUME TypeOK, DaysPast, RequestsFit, EventsGrow, DisputesGrow,
         NEW c \in Clients, NEW r, Becomes(c, r), RequestFits(r, disputes', events')
  PROVE  /\ requests' \in [Clients -> Request] /\ RequestsFit'
         /\ \A k \in Clients : requests'[k].from <= LastDay
  <1>1. \A k \in Clients : RequestFits(requests[k], disputes, events)
    BY DEF TypeOK, DaysPast, RequestsFit, RequestFits
  <1>2. \A k \in Clients : RequestFits(requests[k], disputes', events')
    BY <1>1, StillFits
  <1>3. /\ requests' \in [Clients -> Request]
        /\ \A k \in Clients : RequestFits(requests'[k], disputes', events')
    BY <1>2 DEF Becomes, RequestFits, TypeOK
  <1>4. QED
    BY <1>3 DEF RequestFits, RequestsFit

\* Every step leaves the requests fitting.
LEMMA RequestsStep ==
  ASSUME TypeOK, DaysPast, RequestsFit, EventsGrow, DisputesGrow, [Next]_vars
  PROVE  /\ requests' \in [Clients -> Request] /\ RequestsFit'
         /\ \A k \in Clients : requests'[k].from <= LastDay
  <1> DEFINE Goal == /\ requests' \in [Clients -> Request] /\ RequestsFit'
                     /\ \A k \in Clients : requests'[k].from <= LastDay
  <1>0. /\ \A k \in Clients : RequestFits(requests[k], disputes, events)
        /\ \A k \in Clients : RequestFits(requests[k], disputes', events')
        /\ RequestFits(IdleRequest, disputes', events')
    <2>1. \A k \in Clients : RequestFits(requests[k], disputes, events)
      BY DEF TypeOK, DaysPast, RequestsFit, RequestFits
    <2>2. RequestFits(IdleRequest, disputes', events')
      BY IdleTyped, SlaAssumption DEF RequestFits
    <2>3. QED
      BY <2>1, <2>2, StillFits
  <1>1. CASE requests' = requests
    <2>1. \A k \in Clients : RequestFits(requests'[k], disputes', events')
      BY <1>0, <1>1
    <2>2. requests' \in [Clients -> Request]
      BY <1>1 DEF TypeOK
    <2>3. QED
      BY <2>1, <2>2 DEF RequestFits, RequestsFit
  <1>2. ASSUME NEW c \in Clients, Becomes(c, IdleRequest) PROVE Goal
    BY <1>0, <1>2, RequestMoves
  <1>3. ASSUME NEW c \in Clients, CreateDispute(c) PROVE Goal
    <2> DEFINE r == [IdleRequest EXCEPT !.pc = "insert", !.from = day]
    <2>1. /\ r \in Request /\ r.pc = "insert" /\ r.todo = {} /\ r.from = day
          /\ day <= LastDay /\ Becomes(c, r)
      BY <1>3, IdleTyped DEF CreateDispute, Request, IdleRequest, TypeOK
    <2>2. disputes' # <<>>
      BY <1>3, Created
    <2>3. RequestFits(r, disputes', events')
      BY <2>1, <2>2 DEF RequestFits
    <2>4. QED
      BY <2>1, <2>3, RequestMoves
  <1>4. ASSUME NEW c \in Clients, NEW d \in DisputeId, RespondRead(c, d) PROVE Goal
    <2> DEFINE r == [IdleRequest EXCEPT !.pc = "respond", !.d = d]
    <2>1. /\ r \in Request /\ r.pc = "respond" /\ r.todo = {} /\ r.from = 0 /\ r.d = d
          /\ Becomes(c, r) /\ d \in DOMAIN disputes
      BY <1>4, IdleTyped DEF RespondRead, Request, IdleRequest, Open
    <2>2. RequestFits(r, disputes', events')
      BY <2>1, SlaAssumption DEF RequestFits, DisputesGrow
    <2>3. QED
      BY <2>1, <2>2, RequestMoves
  <1>5. ASSUME NEW c \in Clients, NEW d \in DisputeId, RejectRead(c, d) PROVE Goal
    <2> DEFINE day0 == disputes[d].responseAt
               r == [IdleRequest EXCEPT !.pc = "insert", !.scenario = "B", !.from = day0]
    <2>1. d \in DOMAIN disputes /\ day0 # NotYet /\ day <= LastDay /\ Becomes(c, r)
      BY <1>5 DEF RejectRead, Open
    <2>2. day0 \in Day /\ day0 <= LastDay
      <3>1. disputes[d].responseAt \in Day /\ disputes[d].responseAt <= day
        BY <2>1, RowsTyped DEF Dispute, DaysPast
      <3>2. day0 \in Int /\ day \in Int /\ LastDay \in Int
        BY <3>1, SlaAssumption DEF TypeOK, Day, MaxDay
      <3>3. QED
        BY <2>1, <3>1, <3>2
    <2>3. r \in Request /\ r.pc = "insert" /\ r.todo = {} /\ r.from = day0
      BY <2>2, IdleTyped DEF Request, IdleRequest
    <2>4. disputes' # <<>>
      BY <2>1, HasRow DEF DisputesGrow
    <2>5. RequestFits(r, disputes', events')
      BY <2>2, <2>3, <2>4 DEF RequestFits
    <2>6. QED
      BY <2>1, <2>5, RequestMoves
  <1>6. ASSUME NEW c \in Clients, RequestStep(c) PROVE Goal
    <2> DEFINE q == requests[c]
    <2>0. q \in Request /\ RequestFits(q, disputes', events')
      BY <1>0 DEF RequestFits
    <2>1. CASE ScheduleInsert(c)
      <3> DEFINE r == [q EXCEPT !.pc = "find"]
      <3>1. RequestFits(r, disputes', events') /\ Becomes(c, r)
        BY <2>0, <2>1 DEF ScheduleInsert, RequestFits, Request
      <3>2. QED
        BY <3>1, RequestMoves
    <2>2. CASE ScheduleFind(c)
      <3> DEFINE found == {e \in Pending : events[e].scenario = q.scenario}
                 r == [q EXCEPT !.pc = "enqueue", !.todo = found]
      <3>1. found \subseteq DOMAIN events /\ found \subseteq EventId
        BY RowsTyped DEF Pending
      <3>2. r \in Request /\ r.pc = "enqueue" /\ r.todo = found /\ r.from = q.from
        BY <2>0, <3>1 DEF Request
      <3>3. RequestFits(r, disputes', events')
        BY <2>0, <3>1, <3>2 DEF RequestFits, EventsGrow
      <3>4. QED
        BY <2>2, <3>3, RequestMoves DEF ScheduleFind
    <2>3. CASE Enqueue(c)
      <3>1. CASE Becomes(c, IdleRequest)
        BY <1>2, <3>1
      <3>2. ASSUME NEW e \in q.todo, Becomes(c, [q EXCEPT !.todo = @ \ {e}]) PROVE Goal
        <4> DEFINE r == [q EXCEPT !.todo = @ \ {e}]
        <4>1. q.pc = "enqueue"
          BY <2>3 DEF Enqueue
        <4>2. r \in Request /\ r.pc = "enqueue" /\ r.todo = q.todo \ {e} /\ r.from = q.from
          BY <2>0, <4>1 DEF Request
        <4>3. RequestFits(r, disputes', events')
          BY <2>0, <4>2 DEF RequestFits
        <4>4. QED
          BY <3>2, <4>3, RequestMoves
      <3>3. QED
        BY <2>3, <3>1, <3>2 DEF Enqueue
    <2>4. CASE RespondUpdate(c)
      <3> DEFINE r == [q EXCEPT !.pc = "cancel"]
      <3>1. q.todo = {}
        BY <2>0, <2>4 DEF RespondUpdate, RequestFits
      <3>2. r \in Request /\ r.pc = "cancel" /\ r.todo = {} /\ r.from = q.from
        BY <2>0, <3>1 DEF Request
      <3>3. RequestFits(r, disputes', events')
        BY <2>0, <3>2 DEF RequestFits
      <3>4. QED
        BY <2>4, <3>3, RequestMoves DEF RespondUpdate
    <2>5. CASE CancelEvents(c)
      BY <1>2, <2>5 DEF CancelEvents
    <2>6. QED
      BY <1>6, <2>1, <2>2, <2>3, <2>4, <2>5 DEF RequestStep
  <1>7. ASSUME NEW c \in Clients, RequestFails(c) PROVE Goal
    BY <1>2, <1>7 DEF RequestFails
  <1>8. QED
    BY <1>1, <1>3, <1>4, <1>5, <1>6, <1>7
    DEF Next, vars, counts, WorkerStep, Tick, TakeJob, StalledCheck, Notify,
        ForceDiscrepancy, ForceNothing, ForceFact, Execute, Complete, WorkerStart,
        HandlerThrows, WorkerCrash, RedisLoss

-----------------------------------------------------------------------------
\* The worker

\* Every step leaves the worker with an event that is due.
LEMMA WorkerStepFits ==
  ASSUME TypeOK, DaysPast, WorkerFits, JobsFit, EventsGrow, DisputesGrow, [Next]_vars
  PROVE  worker' \in Worker /\ WorkerFits'
  <1> DEFINE Goal == worker' \in Worker /\ WorkerFits'
  <1>0. /\ worker \in Worker /\ day \in Int
        /\ \A e \in DOMAIN events : events'[e].at = events[e].at /\ events[e].at \in Int
                                    /\ e \in EventId /\ e \in DOMAIN events'
        /\ \A d \in DOMAIN disputes : d \in DOMAIN disputes' /\ d \in DisputeId
    <2>1. worker \in Worker /\ day \in Int
      BY SlaAssumption DEF TypeOK, Day, MaxDay
    <2>2. \A e \in DOMAIN events : e \in EventId /\ events[e].at \in Int
      BY RowsTyped DEF Event, Day
    <2>3. \A d \in DOMAIN disputes : d \in DisputeId
      BY RowsTyped
    <2>4. QED
      BY <2>1, <2>2, <2>3 DEF EventsGrow, DisputesGrow
  <1>1. CASE worker' = worker /\ day' >= day
    <2>1. day' \in Int
      <3>1. day' = day \/ day' = day + 1
        BY DEF Next, vars, counts, RequestStep, WorkerStep, Tick, CreateDispute, RespondRead,
               RejectRead, ScheduleInsert, ScheduleFind, Enqueue, RespondUpdate,
               CancelEvents, RequestFails, TakeJob, StalledCheck, Notify, ForceDiscrepancy,
               ForceNothing, ForceFact, Execute, Complete, WorkerStart, HandlerThrows,
               WorkerCrash, RedisLoss
      <3>2. QED
        BY <1>0, <3>1
    <2>2. worker.pc = "complete" => events'[worker.job].executed
      BY DEF WorkerFits, EventsGrow, Working
    <2>3. QED
      BY <1>0, <1>1, <2>1, <2>2 DEF WorkerFits
  <1>2. CASE worker' = IdleWorker \/ worker' = [IdleWorker EXCEPT !.pc = "down"]
    <2>1. /\ IdleWorker \in Worker /\ IdleWorker.pc = "idle"
          /\ [IdleWorker EXCEPT !.pc = "down"] \in Worker
          /\ [IdleWorker EXCEPT !.pc = "down"].pc = "down"
      BY DEF IdleWorker, Worker
    <2>2. worker' \in Worker /\ worker'.pc \in {"idle", "down"}
      BY <1>2, <2>1
    <2>3. QED
      BY <2>2 DEF WorkerFits, Working
  <1>3. ASSUME NEW e \in EventId, TakeJob(e) PROVE Goal
    <2>1. CASE UNCHANGED worker
      BY <1>0, <1>1, <1>3, <2>1 DEF TakeJob
    <2>2. CASE worker' = [pc |-> "handle", job |-> e, d |-> 0]
      <3>1. e \in DOMAIN events /\ events[e].at <= day
        BY <1>3 DEF TakeJob, JobsFit
      <3>2. QED
        BY <1>0, <1>3, <2>2, <3>1 DEF TakeJob, WorkerFits, Working, Worker
    <2>3. QED
      BY <1>3, <2>1, <2>2 DEF TakeJob
  <1>4. CASE Notify \/ ForceNothing \/ ForceFact
    <2>1. worker' = [worker EXCEPT !.pc = "execute"] /\ day' = day /\ worker.pc \in Working
      BY <1>4 DEF Notify, ForceNothing, ForceFact, Works, Working
    <2>2. QED
      BY <1>0, <2>1 DEF WorkerFits, Working, Worker
  <1>5. ASSUME NEW d \in DisputeId, ForceDiscrepancy(d) PROVE Goal
    <2>1. /\ worker' = [worker EXCEPT !.pc = "fact", !.d = d] /\ day' = day
          /\ worker.pc = "handle" /\ d \in DOMAIN disputes
      BY <1>5 DEF ForceDiscrepancy, Open
    <2>2. QED
      BY <1>0, <2>1 DEF WorkerFits, Working, Worker
  <1>6. CASE Execute
    <2>1. /\ worker' = [worker EXCEPT !.pc = "complete"] /\ day' = day /\ worker.pc = "execute"
          /\ events' = [events EXCEPT ![worker.job].executed = TRUE]
      BY <1>6 DEF Execute, Works
    <2>2. worker.job \in DOMAIN events /\ events[worker.job] \in Event
      BY <2>1, RowsTyped DEF WorkerFits, Working
    <2>3. events'[worker.job].executed
      BY <2>1, <2>2 DEF Event
    <2>4. QED
      BY <1>0, <2>1, <2>2, <2>3 DEF WorkerFits, Working, Worker
  <1>7. CASE Tick \/ RedisLoss \/ UNCHANGED vars \/ \E e \in EventId : StalledCheck(e)
    <2>1. worker' = worker /\ (day' = day \/ day' = day + 1)
      BY <1>7 DEF Tick, RedisLoss, StalledCheck, vars
    <2>2. QED
      BY <1>0, <1>1, <2>1
  <1>8. ASSUME NEW c \in Clients,
               \/ CreateDispute(c) \/ RequestStep(c) \/ RequestFails(c)
               \/ \E d \in DisputeId : RespondRead(c, d) \/ RejectRead(c, d)
        PROVE  worker' = worker /\ day' = day
    BY <1>8
    DEF RequestStep, CreateDispute, RespondRead, RejectRead, ScheduleInsert, ScheduleFind,
        Enqueue, RespondUpdate, CancelEvents, RequestFails
  <1>9. CASE Complete \/ WorkerStart \/ HandlerThrows \/ WorkerCrash
    BY <1>2, <1>9 DEF Complete, WorkerStart, HandlerThrows, WorkerCrash
  <1>10. CASE worker' = worker /\ day' = day
    BY <1>0, <1>1, <1>10
  <1>11. QED
    BY <1>3, <1>4, <1>5, <1>6, <1>7, <1>8, <1>9, <1>10 DEF Next, WorkerStep

-----------------------------------------------------------------------------
\* Days

\* Every step leaves the recorded days in the past.
LEMMA DaysStep ==
  ASSUME TypeOK, DaysPast, RequestsFit, DisputesGrow, [Next]_vars,
         \A k \in Clients : requests'[k].from <= LastDay
  PROVE  day' \in Day /\ day' >= day /\ DaysPast'
  <1> DEFINE Past(x, today) ==
               /\ x.createdAt <= today
               /\ x.responseAt # NotYet =>
                    x.createdAt <= x.responseAt /\ x.responseAt <= today
  <1>0. /\ \A d \in DOMAIN disputes :
             disputes[d].createdAt \in Int /\ disputes[d].responseAt \in Int
        /\ day \in Int /\ MaxDay \in Int /\ \A d \in DOMAIN disputes : Past(disputes[d], day)
    <2>1. \A d \in DOMAIN disputes :
             disputes[d].createdAt \in Int /\ disputes[d].responseAt \in Int
      BY RowsTyped DEF Dispute, Day, NotYet
    <2>2. day \in Int /\ MaxDay \in Int
      BY SlaAssumption DEF TypeOK, Day, MaxDay
    <2>3. QED
      BY <2>1, <2>2 DEF DaysPast
  <1>1. day' \in Day /\ day' >= day
    <2>1. CASE Tick
      BY <1>0, <2>1 DEF Tick, TypeOK, Day
    <2>2. CASE day' = day
      BY <1>0, <2>2 DEF TypeOK
    <2>3. QED
      BY <2>1, <2>2
      DEF Next, vars, counts, RequestStep, WorkerStep, CreateDispute, RespondRead, RejectRead,
          ScheduleInsert, ScheduleFind, Enqueue, RespondUpdate, CancelEvents, RequestFails,
          TakeJob, StalledCheck, Notify, ForceDiscrepancy, ForceNothing, ForceFact, Execute,
          Complete, WorkerStart, HandlerThrows, WorkerCrash, RedisLoss
  <1>2. day' \in Int
    BY <1>1 DEF Day
  <1>3. ASSUME \A d \in DOMAIN disputes' : Past(disputes'[d], day')
        PROVE  DaysPast'
    BY <1>3 DEF DaysPast
  <1>4. \A d \in DOMAIN disputes : Past(disputes[d], day')
    BY <1>0, <1>1, <1>2
  <1>5. CASE disputes' = disputes
    BY <1>1, <1>3, <1>4, <1>5
  <1>6. ASSUME NEW c \in Clients, CreateDispute(c) PROVE DaysPast'
    <2>1. day' = day
      BY <1>6 DEF CreateDispute
    <2>2. \A d \in DOMAIN disputes' : Past(disputes'[d], day')
      BY <1>0, <1>4, <1>6, <2>1, Created
    <2>3. QED
      BY <1>3, <2>2
  <1>7. ASSUME NEW c \in Clients, RespondUpdate(c) PROVE DaysPast'
    <2>1. day' = day
      BY <1>7 DEF RespondUpdate
    <2>2. \A d \in DOMAIN disputes' : Past(disputes'[d], day')
      BY <1>0, <1>7, <2>1, Responded DEF DisputesGrow
    <2>3. QED
      BY <1>3, <2>2
  <1>8. ASSUME NEW f \in DisputeId, ForceDiscrepancy(f) PROVE DaysPast'
    <2>1. \A d \in DOMAIN disputes' : Past(disputes'[d], day')
      BY <1>4, <1>8, ForcedOne DEF DisputesGrow
    <2>2. QED
      BY <1>3, <2>1
  <1>9. DaysPast'
    BY <1>5, <1>6, <1>7, <1>8
    DEF Next, vars, counts, RequestStep, WorkerStep, Tick, RespondRead, RejectRead,
        ScheduleInsert, ScheduleFind, Enqueue, CancelEvents, RequestFails, TakeJob,
        StalledCheck, Notify, ForceNothing, ForceFact, Execute, Complete, WorkerStart,
        HandlerThrows, WorkerCrash, RedisLoss
  <1>10. QED
    BY <1>1, <1>9

-----------------------------------------------------------------------------
\* Type correctness, and events follow disputes

\* Every step keeps the types, once those of the parts are known.
LEMMA TypeStep ==
  ASSUME TypeOK, WorkerFits, EventsGrow, DisputesGrow, [Next]_vars, day' \in Day,
         jobs' \in [EventId -> Job], requests' \in [Clients -> Request], worker' \in Worker
  PROVE  TypeOK'
  <1>1. figures' \subseteq DisputeId
    <2>1. CASE ForceFact
      BY <2>1, RowsTyped DEF ForceFact, WorkerFits, TypeOK
    <2>2. CASE figures' = figures
      BY <2>2 DEF TypeOK
    <2>3. QED
      BY <2>1, <2>2
      DEF Next, vars, counts, RequestStep, WorkerStep, Tick, CreateDispute, RespondRead,
          RejectRead, ScheduleInsert, ScheduleFind, Enqueue, RespondUpdate, CancelEvents,
          RequestFails, TakeJob, StalledCheck, Notify, ForceDiscrepancy, ForceNothing, Execute,
          Complete, WorkerStart, HandlerThrows, WorkerCrash, RedisLoss
  <1>2. notified' \subseteq EventId
    <2>1. CASE Notify
      BY <2>1, RowsTyped DEF Notify, WorkerFits, Working, TypeOK
    <2>2. CASE notified' = notified
      BY <2>2 DEF TypeOK
    <2>3. QED
      BY <2>1, <2>2
      DEF Next, vars, counts, RequestStep, WorkerStep, Tick, CreateDispute, RespondRead,
          RejectRead, ScheduleInsert, ScheduleFind, Enqueue, RespondUpdate, CancelEvents,
          RequestFails, TakeJob, StalledCheck, ForceDiscrepancy, ForceNothing, ForceFact,
          Execute, Complete, WorkerStart, HandlerThrows, WorkerCrash, RedisLoss
  <1>3. failures' \in 0..MaxFailures
    <2>1. CASE failures' = failures
      BY <2>1 DEF TypeOK
    <2>2. CASE failures < MaxFailures /\ failures' = failures + 1
      BY <2>2, SlaAssumption DEF TypeOK
    <2>3. QED
      BY <2>1, <2>2
      DEF Next, vars, counts, RequestStep, WorkerStep, Tick, CreateDispute, RespondRead,
          RejectRead, ScheduleInsert, ScheduleFind, Enqueue, RespondUpdate, CancelEvents,
          RequestFails, TakeJob, StalledCheck, Notify, ForceDiscrepancy, ForceNothing,
          ForceFact, Execute, Complete, WorkerStart, HandlerThrows, WorkerCrash, RedisLoss
  <1>4. losses' \in 0..MaxLosses
    <2>1. CASE losses' = losses
      BY <2>1 DEF TypeOK
    <2>2. CASE losses < MaxLosses /\ losses' = losses + 1
      BY <2>2, SlaAssumption DEF TypeOK
    <2>3. QED
      BY <2>1, <2>2
      DEF Next, vars, counts, RequestStep, WorkerStep, Tick, CreateDispute, RespondRead,
          RejectRead, ScheduleInsert, ScheduleFind, Enqueue, RespondUpdate, CancelEvents,
          RequestFails, TakeJob, StalledCheck, Notify, ForceDiscrepancy, ForceNothing,
          ForceFact, Execute, Complete, WorkerStart, HandlerThrows, WorkerCrash, RedisLoss
  <1>5. QED
    BY <1>1, <1>2, <1>3, <1>4 DEF TypeOK, EventsGrow, DisputesGrow

\* There is no event before the first dispute.
LEMMA EventsFollow ==
  ASSUME TypeOK, WorkerFits, RequestsFit, DisputesGrow, [Next]_vars,
         events # <<>> => disputes # <<>>
  PROVE  events' # <<>> => disputes' # <<>>
  <1>1. disputes # <<>> => disputes' # <<>>
    BY NoRow, HasRow DEF TypeOK, DisputesGrow
  <1>2. CASE events' = events
    BY <1>1, <1>2
  <1>3. ASSUME NEW c \in Clients, ScheduleInsert(c) PROVE disputes # <<>>
    BY <1>3 DEF ScheduleInsert, RequestsFit
  <1>4. CASE Execute
    BY <1>1, <1>4, HasRow DEF Execute, WorkerFits, Working, TypeOK
  <1>5. ASSUME NEW c \in Clients, CancelEvents(c), events = <<>> PROVE events' = <<>>
    <2>1. DOMAIN events = {}
      BY <1>5
    <2>2. events' = events
      BY <1>5, <2>1 DEF CancelEvents
    <2>3. QED
      BY <1>5, <2>2
  <1>6. QED
    BY <1>1, <1>2, <1>3, <1>4, <1>5
    DEF Next, vars, counts, RequestStep, WorkerStep, Tick, CreateDispute, RespondRead,
        RejectRead, ScheduleFind, Enqueue, RespondUpdate, RequestFails, TakeJob, StalledCheck,
        Notify, ForceDiscrepancy, ForceNothing, ForceFact, Complete, WorkerStart,
        HandlerThrows, WorkerCrash, RedisLoss

-----------------------------------------------------------------------------
\* Every pending event has its job

\* Request c is about to queue event e.
Carries(c, e) ==
  \/ requests[c].pc = "find" /\ requests[c].scenario = events[e].scenario
  \/ e \in requests[c].todo

\* A step that loses nothing takes no job of a pending event away.
LEMMA JobKept ==
  ASSUME TypeOK, WorkerFits, JobsFit, EventsGrow, [Next]_vars, losses' = 0,
         NEW e \in DOMAIN events, e \in Pending', jobs[e].state # "absent"
  PROVE  jobs'[e].state # "absent"
  <1>0. /\ e \in EventId /\ e \in Pending /\ jobs[e] \in Job /\ jobs \in [EventId -> Job]
        /\ losses \in Nat /\ Added(e) = jobs[e]
    BY RowsTyped DEF EventsGrow, TypeOK, Added
  <1>1. CASE jobs'[e] = jobs[e]
    BY <1>1
  <1>2. ASSUME NEW c \in Clients, Enqueue(c) PROVE jobs'[e] = jobs[e]
    BY <1>0, <1>2 DEF Enqueue
  <1>3. ASSUME NEW x \in EventId, TakeJob(x) PROVE jobs'[e].state # "absent"
    BY <1>0, <1>3 DEF TakeJob, Job
  <1>4. ASSUME NEW x \in EventId, StalledCheck(x) PROVE jobs'[e].state # "absent"
    BY <1>0, <1>4 DEF StalledCheck, Job
  <1>5. CASE Complete
    <2>1. worker.job # e
      BY <1>0, <1>5 DEF Complete, WorkerFits, Pending
    <2>2. QED
      BY <1>0, <1>5, <2>1 DEF Complete
  <1>6. CASE WorkerStart
    BY <1>0, <1>6 DEF WorkerStart
  <1>7. CASE Tick
    BY <1>0, <1>7 DEF Tick, Job
  <1>8. CASE HandlerThrows
    BY <1>0, <1>8 DEF HandlerThrows, Job
  <1>9. ~RedisLoss
    BY <1>0 DEF RedisLoss
  <1>10. QED
    BY <1>1, <1>2, <1>3, <1>4, <1>5, <1>6, <1>7, <1>8, <1>9
    DEF Next, vars, counts, RequestStep, WorkerStep, CreateDispute, RespondRead, RejectRead,
        ScheduleInsert, ScheduleFind, RespondUpdate, CancelEvents, RequestFails, Notify,
        ForceDiscrepancy, ForceNothing, ForceFact, Execute, WorkerCrash

\* A step that loses nothing leaves a pending event with the request that
\* carries it, or queues it.
LEMMA CarriedOn ==
  ASSUME TypeOK, RequestsFit, JobsFit, EventsGrow, [Next]_vars, losses' = 0,
         NEW e \in DOMAIN events, e \in Pending', NEW c \in Clients, Carries(c, e)
  PROVE  jobs'[e].state # "absent" \/ Carries(c, e)'
  <1> DEFINE r == requests[c]
  <1>0. /\ e \in EventId /\ e \in Pending /\ events'[e].scenario = events[e].scenario
        /\ requests \in [Clients -> Request] /\ r \in Request /\ losses \in Nat
        /\ jobs \in [EventId -> Job] /\ Added(e).state # "absent"
    BY RowsTyped, AddedFits DEF EventsGrow, TypeOK
  <1>1. r.pc = "find" \/ (r.pc = "enqueue" /\ e \in r.todo)
    BY DEF Carries, RequestsFit
  <1>2. CASE requests'[c] = requests[c]
    BY <1>0, <1>2 DEF Carries
  <1>3. CASE ScheduleFind(c)
    <2>1. e \in {x \in Pending : events[x].scenario = r.scenario}
      BY <1>0, <1>3 DEF Carries, RequestsFit, ScheduleFind
    <2>2. e \in requests'[c].todo
      BY <1>0, <1>3, <2>1 DEF ScheduleFind, Becomes, Request
    <2>3. QED
      BY <2>2 DEF Carries
  <1>4. CASE Enqueue(c)
    <2>1. e \in r.todo
      BY <1>1, <1>4 DEF Enqueue
    <2>2. PICK x \in r.todo : /\ jobs' = [jobs EXCEPT ![x] = Added(x)]
                             /\ Becomes(c, [r EXCEPT !.todo = @ \ {x}])
      BY <1>4, <2>1 DEF Enqueue
    <2>3. CASE x = e
      BY <1>0, <2>2, <2>3
    <2>4. CASE x # e
      <3>1. e \in requests'[c].todo
        BY <1>0, <2>1, <2>2, <2>4 DEF Becomes, Request
      <3>2. QED
        BY <3>1 DEF Carries
    <2>5. QED
      BY <2>3, <2>4
  <1>5. ASSUME NEW k \in Clients, k # c,
               \/ CreateDispute(k) \/ RequestStep(k)
               \/ \E d \in DisputeId : RespondRead(k, d) \/ RejectRead(k, d)
        PROVE  requests'[c] = requests[c]
    BY <1>0, <1>5
    DEF RequestStep, CreateDispute, RespondRead, RejectRead, ScheduleInsert, ScheduleFind,
        Enqueue, RespondUpdate, CancelEvents, Becomes
  <1>6. ~CreateDispute(c) /\ ~ScheduleInsert(c) /\ ~RespondUpdate(c) /\ ~CancelEvents(c)
        /\ \A d \in DisputeId : ~RespondRead(c, d) /\ ~RejectRead(c, d)
    BY <1>1 DEF CreateDispute, RespondRead, RejectRead, ScheduleInsert, RespondUpdate,
                CancelEvents
  <1>7. \A k \in Clients : ~RequestFails(k)
    BY <1>0 DEF RequestFails
  <1>8. CASE requests' = requests
    BY <1>2, <1>8
  <1>9. CASE \E k \in Clients : \/ CreateDispute(k) \/ RequestStep(k)
                               \/ \E d \in DisputeId : RespondRead(k, d) \/ RejectRead(k, d)
    BY <1>2, <1>3, <1>4, <1>5, <1>6, <1>9 DEF RequestStep
  <1>10. QED
    BY <1>7, <1>8, <1>9
    DEF Next, vars, counts, WorkerStep, Tick, TakeJob, StalledCheck, Notify, ForceDiscrepancy,
        ForceNothing, ForceFact, Execute, Complete, WorkerStart, HandlerThrows, WorkerCrash,
        RedisLoss

\* Every step leaves the pending events with a job or a request to queue it.
LEMMA PendingStep ==
  ASSUME TypeOK, DaysPast, RequestsFit, WorkerFits, JobsFit, PendingHasJob,
         EventsGrow, [Next]_vars
  PROVE  PendingHasJob'
  <1> SUFFICES ASSUME losses' = 0, NEW e \in Pending'
               PROVE  jobs'[e].state # "absent" \/ \E c \in Clients : Carries(c, e)'
    BY DEF PendingHasJob, Carries
  <1>1. losses = 0
    <2>1. losses' = losses \/ losses' = losses + 1
      BY DEF Next, vars, counts, RequestStep, WorkerStep, Tick, CreateDispute,
          RespondRead, RejectRead, ScheduleInsert, ScheduleFind, Enqueue, RespondUpdate,
          CancelEvents, RequestFails, TakeJob, StalledCheck, Notify, ForceDiscrepancy,
          ForceNothing, ForceFact, Execute, Complete, WorkerStart, HandlerThrows,
          WorkerCrash, RedisLoss
    <2>2. losses \in Nat
      BY SlaAssumption DEF TypeOK
    <2>3. QED
      BY <2>1, <2>2
  <1>2. CASE e \in DOMAIN events
    <2>1. e \in Pending
      BY <1>2 DEF EventsGrow
    <2>2. jobs[e].state # "absent" \/ \E c \in Clients : Carries(c, e)
      BY <1>1, <2>1 DEF PendingHasJob, Carries
    <2>3. QED
      BY <1>2, <2>2, JobKept, CarriedOn
  <1>3. CASE e \notin DOMAIN events
    <2>1. e \in DOMAIN events'
      BY DEF Pending
    <2>2. DOMAIN events' # DOMAIN events
      BY <1>3, <2>1
    <2>3. PICK c \in Clients : ScheduleInsert(c)
      <3>1. CASE Execute
        BY <2>2, <3>1 DEF Execute
      <3>2. ASSUME NEW c \in Clients, CancelEvents(c) PROVE FALSE
        BY <2>2, <3>2 DEF CancelEvents
      <3>3. CASE UNCHANGED events
        BY <2>2, <3>3
      <3>4. QED
        BY <3>1, <3>2, <3>3
        DEF Next, vars, counts, RequestStep, WorkerStep, Tick, CreateDispute, RespondRead,
            RejectRead, ScheduleFind, Enqueue, RespondUpdate, RequestFails, TakeJob,
            StalledCheck, Notify, ForceDiscrepancy, ForceNothing, ForceFact, Complete,
            WorkerStart, HandlerThrows, WorkerCrash, RedisLoss
    <2>4. events'[e].scenario = requests[c].scenario
      BY <1>3, <2>1, <2>3, Scheduled
    <2>5. requests'[c].pc = "find" /\ requests'[c].scenario = requests[c].scenario
      BY <2>3 DEF ScheduleInsert, Becomes, TypeOK, Request
    <2>6. QED
      BY <2>4, <2>5 DEF Carries
  <1>4. QED
    BY <1>2, <1>3

-----------------------------------------------------------------------------
\* The theorems

\* Every step keeps the invariant and takes no row back.
LEMMA Inductive ==
  ASSUME IInv, [Next]_vars
  PROVE  IInv' /\ EventsGrow /\ DisputesGrow
  <1>1. EventsGrow /\ DisputesGrow
    BY EventsStep, DisputesStep DEF IInv
  <1>2. jobs' \in [EventId -> Job] /\ JobsFit'
    BY <1>1, JobsStep DEF IInv
  <1>3. /\ requests' \in [Clients -> Request] /\ RequestsFit'
        /\ \A k \in Clients : requests'[k].from <= LastDay
    BY <1>1, RequestsStep DEF IInv
  <1>4. worker' \in Worker /\ WorkerFits'
    BY <1>1, WorkerStepFits DEF IInv
  <1>5. day' \in Day /\ DaysPast'
    BY <1>1, <1>3, DaysStep DEF IInv
  <1>6. TypeOK'
    BY <1>1, <1>2, <1>3, <1>4, <1>5, TypeStep DEF IInv
  <1>7. events' # <<>> => disputes' # <<>>
    BY <1>1, EventsFollow DEF IInv
  <1>8. PendingHasJob'
    BY <1>1, PendingStep DEF IInv
  <1>9. QED
    BY <1>1, <1>2, <1>3, <1>4, <1>5, <1>6, <1>7, <1>8 DEF IInv

\* The invariant holds at the start.
LEMMA Initially == Init => IInv
  <1> SUFFICES ASSUME Init PROVE IInv
    OBVIOUS
  <1>1. /\ disputes = <<>> /\ events = <<>> /\ <<>> \in Seq(Dispute) /\ <<>> \in Seq(Event)
        /\ Len(<<>>) = 0 /\ DOMAIN disputes = {} /\ DOMAIN events = {}
    BY EmptySeq DEF Init
  <1>2. TypeOK
    BY <1>1, IdleTyped, SlaAssumption DEF Init, TypeOK, Day, MaxDay
  <1>3. DaysPast /\ RequestsFit
    BY <1>1, IdleTyped, SlaAssumption DEF Init, DaysPast, RequestsFit
  <1>4. WorkerFits
    BY DEF Init, WorkerFits, Working, IdleWorker
  <1>5. JobsFit /\ PendingHasJob
    BY <1>1, SlaAssumption DEF Init, JobsFit, PendingHasJob, Pending, NoJob
  <1>6. QED
    BY <1>1, <1>2, <1>3, <1>4, <1>5 DEF IInv

\* IInv holds throughout, for any number of everything: recorded days are past,
\* requests and the worker act on rows that are there and due, jobs have
\* attempts left, and every pending event is queued or about to be.
THEOREM InductiveInvariant == Spec => []IInv
  <1>1. IInv /\ [Next]_vars => IInv'
    BY Inductive
  <1>2. QED
    BY <1>1, Initially, PTL DEF Spec

\* The types of the tables, the queue and the processes.
THEOREM TypeCorrect == Spec => []TypeOK
  BY InductiveInvariant, PTL DEF IInv

\* PendingHasJob: retries, stalls, crashes of the worker and repeated job ids
\* leave no pending event without a job or a request about to queue it.
THEOREM PendingIsQueued == Spec => []PendingHasJob
  BY InductiveInvariant, PTL DEF IInv

-----------------------------------------------------------------------------
\* The clocks, of any number of disputes

\* No other step opens a discrepancy.
LEMMA OpenShrinks ==
  ASSUME IInv, [Next]_vars, \A c \in Clients : ~CreateDispute(c)
  PROVE  DOMAIN disputes' = DOMAIN disputes /\ Open' \subseteq Open
  <1>1. DOMAIN disputes' = DOMAIN disputes
    <2>1. CASE disputes' = disputes
      BY <2>1
    <2>2. ASSUME NEW c \in Clients, RespondUpdate(c) PROVE DOMAIN disputes' = DOMAIN disputes
      BY <2>2, Responded DEF IInv
    <2>3. ASSUME NEW d \in DisputeId, ForceDiscrepancy(d)
          PROVE  DOMAIN disputes' = DOMAIN disputes
      BY <2>3, ForcedOne DEF IInv
    <2>4. QED
      BY <2>1, <2>2, <2>3
      DEF Next, vars, counts, RequestStep, WorkerStep, Tick, RespondRead, RejectRead,
          ScheduleInsert, ScheduleFind, Enqueue, CancelEvents, RequestFails, TakeJob,
          StalledCheck, Notify, ForceNothing, ForceFact, Execute, Complete, WorkerStart,
          HandlerThrows, WorkerCrash, RedisLoss
  <1>2. QED
    BY <1>1, Inductive DEF DisputesGrow, Open

\* The first dispute stays the first, of the same day.
LEMMA FirstStays ==
  ASSUME IInv, [Next]_vars, disputes # <<>>
  PROVE  1 \in DOMAIN disputes /\ disputes'[1].createdAt = disputes[1].createdAt
  <1>1. 1 \in DOMAIN disputes
    BY NoRow DEF IInv, TypeOK
  <1>2. QED
    BY <1>1, Inductive DEF DisputesGrow

\* The days requests are to count from are no earlier than the first dispute.
FromClock ==
  \A c \in Clients : requests[c].pc = "insert" => disputes[1].createdAt <= requests[c].from

\* The first dispute is the oldest.
FirstOldest == \A d \in DOMAIN disputes : disputes[1].createdAt <= disputes[d].createdAt

LEMMA OldestStep ==
  ASSUME IInv, FirstOldest, [Next]_vars
  PROVE  FirstOldest'
  <1>0. /\ DisputesGrow /\ \A d \in DOMAIN disputes : disputes[d] \in Dispute
        /\ disputes \in Seq(Dispute) /\ day \in Int
    BY Inductive, RowsTyped DEF IInv, TypeOK, Day
  <1>1. ASSUME NEW c \in Clients, CreateDispute(c) PROVE FirstOldest'
    <2>1. /\ \A d \in DOMAIN disputes : disputes'[d] = disputes[d]
          /\ \A d \in DOMAIN disputes' \ DOMAIN disputes : disputes'[d].createdAt = day
      BY <1>1, Created DEF IInv
    <2>2. CASE disputes = <<>>
      <3>1. DOMAIN disputes = {}
        BY <2>2
      <3>2. disputes' \in Seq(Dispute) /\ disputes' # <<>>
        BY <1>1, Created DEF IInv, DisputesGrow
      <3>3. 1 \in DOMAIN disputes'
        BY <3>2, NoRow
      <3>4. QED
        BY <1>0, <2>1, <3>1, <3>3 DEF FirstOldest
    <2>3. CASE disputes # <<>>
      <3>1. 1 \in DOMAIN disputes /\ disputes'[1] = disputes[1] /\ disputes[1].createdAt <= day
        BY <2>1, <2>3, FirstStays DEF IInv, DaysPast
      <3>2. QED
        BY <2>1, <3>1 DEF FirstOldest
    <2>4. QED
      BY <2>2, <2>3
  <1>2. CASE \A c \in Clients : ~CreateDispute(c)
    <2>1. DOMAIN disputes' = DOMAIN disputes
      BY <1>2, OpenShrinks
    <2>2. ASSUME NEW d \in DOMAIN disputes PROVE disputes'[1].createdAt <= disputes'[d].createdAt
      <3>1. disputes'[d].createdAt = disputes[d].createdAt
        BY <1>0 DEF DisputesGrow
      <3>2. disputes'[1].createdAt = disputes[1].createdAt
        BY <1>0, HasRow, FirstStays
      <3>3. QED
        BY <3>1, <3>2 DEF FirstOldest
    <2>3. QED
      BY <2>1, <2>2 DEF FirstOldest
  <1>3. QED
    BY <1>1, <1>2

\* Every step keeps the requests' clocks.
LEMMA FromStep ==
  ASSUME IInv, FirstOldest, FromClock, [Next]_vars
  PROVE  FromClock'
  <1>0. /\ DisputesGrow /\ requests \in [Clients -> Request]
        /\ \A c \in Clients : requests[c].pc = "insert" => disputes # <<>>
    BY Inductive DEF IInv, TypeOK, RequestsFit
  <1>1. ASSUME NEW c \in Clients, CreateDispute(c) PROVE FromClock'
    <2>1. requests'[c].from = day /\ \A k \in Clients \ {c} : requests'[k] = requests[k]
      BY <1>0, <1>1 DEF CreateDispute, Becomes, IdleRequest
    <2>2. /\ disputes' \in Seq(Dispute) /\ disputes' # <<>> /\ IInv'
      BY <1>1, Created, Inductive DEF IInv, DisputesGrow
    <2>3. 1 \in DOMAIN disputes'
      BY <2>2, NoRow
    <2>4. disputes'[1].createdAt <= day
      BY <1>1, <2>2, <2>3 DEF IInv, DaysPast, CreateDispute
    <2>5. ASSUME NEW k \in Clients, k # c, requests'[k].pc = "insert"
          PROVE  disputes'[1].createdAt <= requests'[k].from
      BY <1>0, <2>1, <2>5, FirstStays DEF FromClock
    <2>6. QED
      BY <2>1, <2>4, <2>5 DEF FromClock
  <1>2. ASSUME NEW c \in Clients, NEW x \in DisputeId, RejectRead(c, x) PROVE FromClock'
    <2>1. x \in DOMAIN disputes /\ disputes' = disputes /\ disputes[x].responseAt # NotYet
      BY <1>2 DEF RejectRead, Open
    <2>2. /\ disputes[x].createdAt <= disputes[x].responseAt
          /\ disputes[1].createdAt <= disputes[x].createdAt
      BY <2>1 DEF IInv, DaysPast, FirstOldest
    <2>3. /\ requests'[c].from = disputes[x].responseAt
          /\ \A k \in Clients \ {c} : requests'[k] = requests[k]
      BY <1>0, <1>2 DEF RejectRead, Becomes, IdleRequest
    <2>4. /\ disputes[x].createdAt \in Int /\ disputes[x].responseAt \in Int
          /\ disputes[1].createdAt \in Int
      <3>1. 1 \in DOMAIN disputes /\ \A d \in DOMAIN disputes : disputes[d] \in Dispute
        BY <2>1, RowsTyped, HasRow, NoRow DEF IInv, TypeOK
      <3>2. QED
        BY <2>1, <3>1, SlaAssumption DEF Dispute, Day, NotYet
    <2>5. disputes[1].createdAt <= disputes[x].responseAt
      BY <2>2, <2>4
    <2>6. QED
      BY <2>1, <2>3, <2>5 DEF FromClock
  <1>3. ASSUME \A k \in Clients : requests'[k].pc = "insert" => requests'[k] = requests[k]
        PROVE  FromClock'
    BY <1>0, <1>3, FirstStays DEF FromClock
  <1>4. CASE requests' = requests
    BY <1>3, <1>4
  <1>5. ASSUME NEW c \in Clients, requests'[c].pc # "insert",
               \A k \in Clients \ {c} : requests'[k] = requests[k]
        PROVE  FromClock'
    BY <1>3, <1>5
  <1>6. ASSUME NEW c \in Clients, RequestStep(c) \/ RequestFails(c)
                                 \/ \E d \in DisputeId : RespondRead(c, d)
        PROVE  /\ requests'[c].pc # "insert"
               /\ \A k \in Clients \ {c} : requests'[k] = requests[k]
    <2>1. requests'[c].pc # "insert"
      <3>0. requests[c] \in Request
        BY <1>0
      <3>1. CASE RequestFails(c) \/ CancelEvents(c)
        BY <1>0, <3>1, IdleTyped DEF RequestFails, CancelEvents, Becomes
      <3>2. CASE \E d \in DisputeId : RespondRead(c, d)
        BY <1>0, <3>2 DEF RespondRead, IdleRequest, Becomes
      <3>3. CASE ScheduleInsert(c)
        BY <1>0, <3>0, <3>3 DEF ScheduleInsert, Request, Becomes
      <3>4. CASE ScheduleFind(c)
        BY <1>0, <3>0, <3>4 DEF ScheduleFind, Request, Becomes
      <3>5. CASE RespondUpdate(c)
        BY <1>0, <3>0, <3>5 DEF RespondUpdate, Request, Becomes
      <3>6. CASE Enqueue(c)
        <4>1. CASE Becomes(c, IdleRequest)
          BY <1>0, <4>1, IdleTyped DEF Becomes
        <4>2. ASSUME NEW e \in requests[c].todo,
                     Becomes(c, [requests[c] EXCEPT !.todo = @ \ {e}])
              PROVE  requests'[c].pc # "insert"
          BY <1>0, <3>0, <3>6, <4>2 DEF Enqueue, Request, Becomes
        <4>3. QED
          BY <3>6, <4>1, <4>2 DEF Enqueue
      <3>7. QED
        BY <1>6, <3>1, <3>2, <3>3, <3>4, <3>5, <3>6 DEF RequestStep
    <2>2. \A k \in Clients \ {c} : requests'[k] = requests[k]
      BY <1>0, <1>6 DEF RequestStep, RequestFails, RespondRead, ScheduleInsert, ScheduleFind,
          Enqueue, RespondUpdate, CancelEvents, Becomes
    <2>3. QED
      BY <2>1, <2>2
  <1>7. ASSUME NEW c \in Clients, RequestStep(c) \/ RequestFails(c)
                                 \/ \E d \in DisputeId : RespondRead(c, d)
        PROVE  FromClock'
    BY <1>5, <1>6, <1>7
  <1>8. QED
    BY <1>1, <1>2, <1>4, <1>7
    DEF Next, vars, counts, WorkerStep, Tick, TakeJob, StalledCheck, Notify,
        ForceDiscrepancy, ForceNothing, ForceFact, Execute, Complete, WorkerStart,
        HandlerThrows, WorkerCrash, RedisLoss

\* No forced closure of any event falls due before the first dispute's time is over.
ForceClock ==
  \A e \in DOMAIN events :
    events[e].kind \in Forcing => disputes[1].createdAt + ForceAfter <= events[e].at

\* Every step keeps the clocks of the events.
LEMMA ForceStep ==
  ASSUME IInv, FromClock, ForceClock, [Next]_vars
  PROVE  ForceClock'
  <1>0. /\ EventsGrow /\ events \in Seq(Event)
        /\ \A d \in DOMAIN disputes : disputes[d].createdAt \in Int
        /\ \A c \in Clients : requests[c].from \in Int
    <2>1. \A d \in DOMAIN disputes : disputes[d].createdAt \in Int
      BY RowsTyped DEF IInv, Dispute, Day
    <2>2. events \in Seq(Event) /\ \A c \in Clients : requests[c].from \in Int
      BY DEF IInv, TypeOK, Request, Day
    <2>3. QED
      BY <2>1, <2>2, Inductive
  <1>1. ASSUME NEW c \in Clients, ScheduleInsert(c) PROVE ForceClock'
    <2>1. disputes' = disputes /\ requests[c].pc = "insert"
      BY <1>1 DEF ScheduleInsert
    <2>2. ASSUME NEW e \in DOMAIN events', events'[e].kind \in Forcing
          PROVE  disputes[1].createdAt + ForceAfter <= events'[e].at
      <3>1. CASE e \in DOMAIN events
        BY <2>2, <3>1, <1>0 DEF ForceClock, EventsGrow
      <3>2. CASE e \notin DOMAIN events
        <4>1. events'[e].at >= requests[c].from + ForceAfter
          BY <1>1, <2>2, <3>2, Scheduled DEF IInv
        <4>2. disputes[1].createdAt <= requests[c].from
          BY <2>1 DEF FromClock
        <4>3. events'[e].at \in Int
          <5>1. events'[e] \in Event
            BY <1>0, ElementOfSeq, LenProperties DEF EventsGrow
          <5>2. QED
            BY <5>1 DEF Event, Day
        <4>4. disputes[1].createdAt \in Int /\ requests[c].from \in Int
          <5>1. disputes # <<>>
            BY <2>1 DEF IInv, RequestsFit
          <5>2. QED
            BY <1>0, <5>1, FirstStays
        <4>5. QED
          BY <4>1, <4>2, <4>3, <4>4, SlaAssumption
      <3>3. QED
        BY <3>1, <3>2
    <2>3. QED
      BY <2>1, <2>2 DEF ForceClock
  <1>2. CASE DOMAIN events' = DOMAIN events
    <2>1. ASSUME NEW e \in DOMAIN events, events'[e].kind \in Forcing
          PROVE  disputes'[1].createdAt + ForceAfter <= events'[e].at
      <3>1. disputes'[1].createdAt = disputes[1].createdAt
        <4>1. events # <<>>
          BY <1>0, HasRow
        <4>2. QED
          BY <4>1, FirstStays DEF IInv
      <3>2. QED
        BY <1>0, <2>1, <3>1 DEF ForceClock, EventsGrow
    <2>2. QED
      BY <1>2, <2>1 DEF ForceClock
  <1>3. CASE \A c \in Clients : ~ScheduleInsert(c)
    <2>1. DOMAIN events' = DOMAIN events
      BY <1>3
      DEF Next, vars, counts, RequestStep, WorkerStep, Tick, CreateDispute, RespondRead,
          RejectRead, ScheduleFind, Enqueue, RespondUpdate, CancelEvents, RequestFails, TakeJob,
          StalledCheck, Notify, ForceDiscrepancy, ForceNothing, ForceFact, Execute, Complete,
          WorkerStart, HandlerThrows, WorkerCrash, RedisLoss
    <2>2. QED
      BY <1>2, <2>1
  <1>4. QED
    BY <1>1, <1>3

\* FirstClock holds from the start and through every step.
LEMMA FirstClockHolds == Spec => [](IInv /\ FirstClock)
  <1>1. Init => FirstClock
    BY EmptySeq DEF Init, FirstClock, IdleRequest
  <1>2. FirstClock <=> FirstOldest /\ FromClock /\ ForceClock
    BY DEF FirstClock, FirstOldest, FromClock, ForceClock
  <1>3. IInv /\ FirstClock /\ [Next]_vars => FirstClock'
    <2> SUFFICES ASSUME IInv, FirstClock, [Next]_vars PROVE FirstClock'
      OBVIOUS
    <2>1. FirstOldest' /\ FromClock' /\ ForceClock'
      BY <1>2, OldestStep, FromStep, ForceStep
    <2>2. QED
      BY <2>1 DEF FirstClock, FirstOldest, FromClock, ForceClock
  <1>4. QED
    BY <1>1, <1>3, InductiveInvariant, PTL DEF Spec

\* A dispute that goes over to forced does so on a day on which the first one's are over.
LEMMA ForcedInTime ==
  ASSUME IInv, FirstClock, [Next]_vars, NEW d \in DOMAIN disputes,
         disputes[d].status = "open", disputes'[d].status = "forced"
  PROVE  day >= disputes[1].createdAt + ForceAfter
  <1>1. ASSUME NEW x \in DisputeId, ForceDiscrepancy(x)
        PROVE  day >= disputes[1].createdAt + ForceAfter
    <2>1. worker.job \in DOMAIN events /\ events[worker.job].at <= day
          /\ events[worker.job].kind \in Forcing
      BY <1>1 DEF ForceDiscrepancy, IInv, WorkerFits, Working, Forcing
    <2>2. disputes[1].createdAt + ForceAfter <= events[worker.job].at
      BY <2>1 DEF FirstClock
    <2>3. 1 \in DOMAIN disputes
      BY HasRow, FirstStays DEF IInv, TypeOK
    <2>4. disputes[1].createdAt \in Int /\ day \in Int /\ events[worker.job].at \in Int
      BY <2>1, <2>3, RowsTyped DEF IInv, TypeOK, Dispute, Event, Day
    <2>5. QED
      BY <2>1, <2>2, <2>4, SlaAssumption
  <1>2. ASSUME NEW c \in Clients, CreateDispute(c) PROVE FALSE
    BY <1>2, Created DEF IInv
  <1>3. ASSUME NEW c \in Clients, RespondUpdate(c) PROVE FALSE
    <2>1. requests[c].d \in DOMAIN disputes /\ disputes[requests[c].d] \in Dispute
      BY <1>3, RowsTyped DEF IInv, RequestsFit, RespondUpdate
    <2>2. disputes'[d].status = disputes[d].status
      BY <1>3, <2>1 DEF RespondUpdate, Dispute
    <2>3. QED
      BY <2>2
  <1>4. disputes' # disputes
    OBVIOUS
  <1>5. QED
    BY <1>1, <1>2, <1>3, <1>4
    DEF Next, vars, counts, RequestStep, WorkerStep, Tick, RespondRead, RejectRead,
        ScheduleInsert, ScheduleFind, Enqueue, CancelEvents, RequestFails, TakeJob,
        StalledCheck, Notify, ForceNothing, ForceFact, Execute, Complete, WorkerStart,
        HandlerThrows, WorkerCrash, RedisLoss

\* NotForcedBeforeFirst, of any number of disputes about one item: whichever timer closes
\* which, none is closed by force before the days of the first are over.
THEOREM FirstNeverForcedEarly == Spec => NotForcedBeforeFirst
  <1>1. IInv /\ FirstClock /\ [Next]_vars =>
          [\A d \in DOMAIN disputes :
             disputes[d].status = "open" /\ disputes'[d].status = "forced"
               => day >= disputes[1].createdAt + ForceAfter]_vars
    BY ForcedInTime
  <1>2. QED
    BY <1>1, FirstClockHolds, PTL DEF Spec, NotForcedBeforeFirst

-----------------------------------------------------------------------------
\* One dispute: its closing

\* The first dispute is opened when there is nothing else yet.
LEMMA FirstDispute ==
  ASSUME IInv, NEW c \in Clients, CreateDispute(c), Len(disputes') = 1
  PROVE  DOMAIN events = {} /\ worker.pc \notin Working
  <1>0. disputes \in Seq(Dispute) /\ Len(disputes) \in Nat
    BY LenProperties DEF IInv, TypeOK
  <1>1. Len(disputes') = Len(disputes) + 1
    BY <1>0 DEF CreateDispute
  <1>2. disputes = <<>>
    BY <1>0, <1>1, EmptySeq
  <1>3. events = <<>>
    BY <1>2 DEF IInv
  <1>4. QED
    BY <1>2, <1>3 DEF IInv, WorkerFits, RequestsFit

\* An interval from 1 tells its length.
LEMMA SameInterval ==
  ASSUME NEW m \in Nat, NEW n \in Nat, 1..m = 1..n
  PROVE  m = n
  <1>1. m = 0 \/ m \in 1..n
    OBVIOUS
  <1>2. n = 0 \/ n \in 1..m
    OBVIOUS
  <1>3. QED
    BY <1>1, <1>2

\* Without a new dispute, their number stays.
LEMMA LengthStays ==
  ASSUME IInv, [Next]_vars, \A c \in Clients : ~CreateDispute(c)
  PROVE  Len(disputes') = Len(disputes)
  <1>1. DOMAIN disputes = 1..Len(disputes) /\ Len(disputes) \in Nat
    BY LenProperties DEF IInv, TypeOK
  <1>2. disputes' \in Seq(Dispute)
    BY Inductive DEF IInv, TypeOK
  <1>3. DOMAIN disputes' = 1..Len(disputes') /\ Len(disputes') \in Nat
    BY <1>2, LenProperties
  <1>4. QED
    BY <1>1, <1>3, OpenShrinks, SameInterval

\* While the pair has one dispute, the worker is past a forced closure only when that is closed.
Closed ==
  Len(disputes) = 1 =>
  /\ worker.pc = "fact" => Open = {}
  /\ worker.pc = "execute" /\ events[worker.job].kind \in Forcing => Open = {}

\* Every step keeps the executed closures true.
LEMMA ClosedStep ==
  ASSUME IInv, Closed, ExecutedForceCloses, [Next]_vars
  PROVE  Closed' /\ ExecutedForceCloses'
  <1>0. /\ IInv' /\ EventsGrow /\ worker \in Worker
        /\ worker.pc \in Working => worker.job \in DOMAIN events
    BY Inductive DEF IInv, TypeOK, WorkerFits
  <1>1. ASSUME NEW c \in Clients, CreateDispute(c) PROVE Closed' /\ ExecutedForceCloses'
    <2>1. UNCHANGED <<events, worker>>
      BY <1>1 DEF CreateDispute
    <2>2. Len(disputes') = 1 => DOMAIN events = {} /\ worker.pc \notin Working
      BY <1>1, FirstDispute
    <2>3. QED
      BY <2>1, <2>2 DEF Closed, ExecutedForceCloses, Working
  <1>2. CASE Len(disputes') # 1
    BY <1>2 DEF Closed, ExecutedForceCloses
  <1>3. CASE (\A c \in Clients : ~CreateDispute(c)) /\ Len(disputes') = 1
    <2>0. Open' \subseteq Open /\ Len(disputes) = 1
      BY <1>3, OpenShrinks, LengthStays
    <2>1. Closed'
      <3>1. CASE worker' = worker
        BY <1>0, <2>0, <3>1 DEF Closed, EventsGrow, Working
      <3>2. CASE worker'.pc \notin {"fact", "execute"}
        BY <3>2 DEF Closed
      <3>3. ASSUME NEW d \in DisputeId, ForceDiscrepancy(d) PROVE Closed'
        <4>1. Open' = Open \ {d} /\ d \in DOMAIN disputes
          BY <3>3, ForcedOne DEF IInv
        <4>2. DOMAIN disputes = {1}
          BY <2>0, LenProperties DEF IInv, TypeOK
        <4>3. Open' = {}
          BY <4>1, <4>2 DEF Open
        <4>4. QED
          BY <4>3 DEF Closed
      <3>4. CASE ForceNothing \/ ForceFact
        BY <2>0, <3>4 DEF ForceNothing, ForceFact, Closed
      <3>5. CASE Notify
        <4>1. /\ worker'.pc = "execute" /\ worker'.job = worker.job
              /\ events[worker.job].kind \notin Forcing /\ events' = events
          BY <1>0, <3>5 DEF Notify, Works, Forcing, Worker
        <4>2. QED
          BY <4>1 DEF Closed
      <3>6. ASSUME \A d \in DisputeId : ~ForceDiscrepancy(d),
                   ~ForceNothing, ~ForceFact, ~Notify
            PROVE  worker' = worker \/ worker'.pc \notin {"fact", "execute"}
        <4>1. CASE Complete \/ WorkerStart \/ HandlerThrows \/ WorkerCrash
          BY <4>1 DEF Complete, WorkerStart, HandlerThrows, WorkerCrash, IdleWorker
        <4>2. CASE Execute
          BY <1>0, <4>2 DEF Execute, Works, Worker
        <4>3. ASSUME NEW e \in EventId, TakeJob(e)
              PROVE  worker' = worker \/ worker'.pc = "handle"
          BY <4>3 DEF TakeJob
        <4>4. QED
          BY <3>6, <4>1, <4>2, <4>3
          DEF Next, vars, counts, RequestStep, WorkerStep, Tick, CreateDispute, RespondRead,
              RejectRead, ScheduleInsert, ScheduleFind, Enqueue, RespondUpdate, CancelEvents,
              RequestFails, StalledCheck, RedisLoss
      <3>7. QED
        BY <3>1, <3>2, <3>3, <3>4, <3>5, <3>6
    <2>2. ExecutedForceCloses'
      <3>1. CASE Execute
        <4>1. ASSUME NEW e \in DOMAIN events', events'[e].executed, events'[e].kind \in Forcing
              PROVE  Open = {}
          <5>1. e \in DOMAIN events /\ events'[e].kind = events[e].kind
            BY <1>0, <3>1 DEF Execute, EventsGrow
          <5>2. CASE e = worker.job
            BY <2>0, <3>1, <4>1, <5>1, <5>2 DEF Execute, Closed
          <5>3. CASE e # worker.job
            BY <2>0, <3>1, <4>1, <5>1, <5>3 DEF Execute, ExecutedForceCloses, Forcing
          <5>4. QED
            BY <5>2, <5>3
        <4>2. QED
          BY <2>0, <4>1 DEF ExecutedForceCloses, Forcing
      <3>2. ASSUME NEW c \in Clients, ScheduleInsert(c) PROVE ExecutedForceCloses'
        BY <2>0, <3>2, Scheduled DEF IInv, ExecutedForceCloses
      <3>3. ASSUME NEW c \in Clients, CancelEvents(c) PROVE ExecutedForceCloses'
        <4>1. \A e \in DOMAIN events' :
                e \in DOMAIN events /\ events'[e].executed = events[e].executed
                                    /\ events'[e].kind = events[e].kind
          BY <3>3, RowsTyped DEF CancelEvents, IInv, Event
        <4>2. QED
          BY <2>0, <4>1 DEF ExecutedForceCloses
      <3>4. CASE events' = events
        BY <2>0, <3>4 DEF ExecutedForceCloses
      <3>5. QED
        BY <3>1, <3>2, <3>3, <3>4
        DEF Next, vars, counts, RequestStep, WorkerStep, Tick, CreateDispute, RespondRead,
            RejectRead, ScheduleFind, Enqueue, RespondUpdate, RequestFails, TakeJob,
            StalledCheck, Notify, ForceDiscrepancy, ForceNothing, ForceFact, Complete,
            WorkerStart, HandlerThrows, WorkerCrash, RedisLoss
    <2>3. QED
      BY <2>1, <2>2
  <1>4. QED
    BY <1>1, <1>2, <1>3

\* OneCloses holds from the start and through every step.
LEMMA OneClosesHolds == Spec => [](IInv /\ OneCloses)
  <1>1. Init => OneCloses
    BY EmptySeq DEF Init, OneCloses, IdleWorker, ExecutedForceCloses
  <1>2. OneCloses <=> Closed /\ ExecutedForceCloses
    BY DEF OneCloses, Closed
  <1>3. IInv /\ OneCloses /\ [Next]_vars => OneCloses'
    <2> SUFFICES ASSUME IInv, OneCloses, [Next]_vars PROVE OneCloses'
      OBVIOUS
    <2>1. Closed' /\ ExecutedForceCloses'
      BY <1>2, ClosedStep
    <2>2. QED
      BY <2>1 DEF OneCloses, Closed
  <1>4. QED
    BY <1>1, <1>3, InductiveInvariant, PTL DEF Spec

\* ExecutedForceCloses: of any number of requests, timers and failures, and of any number of
\* disputes that may come later, a forced closure that is recorded as executed has closed
\* the item's dispute while it is the only one.
THEOREM ForcedClosureCloses == Spec => []ExecutedForceCloses
  <1>1. OneCloses => ExecutedForceCloses
    BY DEF OneCloses
  <1>2. QED
    BY <1>1, OneClosesHolds, PTL

=============================================================================
