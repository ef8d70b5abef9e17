------------------------------ MODULE SyncProofs ------------------------------
(***************************************************************************)
(* Proofs about SyncQueue for any number of requests, items, volumes and   *)
(* operations: IInv is inductive, and the safety properties follow.        *)
(***************************************************************************)
EXTENDS SyncQueue, FiniteSetTheorems, TLAPS

-----------------------------------------------------------------------------
\* Lemmas about the state

\* The device's operations are numbered from 1, and 0 is none of them.
LEMMA OpsTyped ==
  ASSUME TypeOK
  PROVE  /\ DOMAIN ops \subseteq OpId /\ 0 \notin OpId
         /\ \A o \in DOMAIN ops : ops[o] \in Op
  BY SyncAssumption DEF TypeOK, OpId

\* An idle request is well formed.
LEMMA IdleTyped == IdleRequest \in Request
  BY DEF IdleRequest, Request, PC, MaybeVol

\* A request that goes on within an operation keeps all but its place.
LEMMA GoesOn ==
  ASSUME NEW r \in Request, NEW pc \in PC
  PROVE  \E n \in Request :
           /\ n = [r EXCEPT !.pc = pc]
           /\ n.pc = pc /\ n.o = r.o /\ n.chosen = r.chosen /\ n.todo = r.todo /\ n.seen = r.seen
  <1> DEFINE m == [r EXCEPT !.pc = pc]
  <1>1. m \in Request
    BY DEF Request
  <1>2. /\ m = [r EXCEPT !.pc = pc]
        /\ m.pc = pc /\ m.o = r.o /\ m.chosen = r.chosen /\ m.todo = r.todo /\ m.seen = r.seen
    BY DEF Request
  <1> HIDE DEF m
  <1>3. QED
    BY <1>1, <1>2

\* One that looks up an operation keeps the rest.
LEMMA TakesUp ==
  ASSUME NEW r \in Request, NEW o \in OpId
  PROVE  \E n \in Request :
           /\ n = [r EXCEPT !.o = o]
           /\ n.o = o /\ n.pc = r.pc /\ n.chosen = r.chosen /\ n.todo = r.todo
  <1> DEFINE m == [r EXCEPT !.o = o]
  <1>1. m \in Request
    BY DEF Request
  <1>2. /\ m = [r EXCEPT !.o = o]
        /\ m.o = o /\ m.pc = r.pc /\ m.chosen = r.chosen /\ m.todo = r.todo
    BY DEF Request
  <1> HIDE DEF m
  <1>3. QED
    BY <1>1, <1>2

\* One that leaves the loop keeps its operation.
LEMMA LeavesLoop ==
  ASSUME NEW r \in Request, NEW pc \in PC, NEW v \in Nat
  PROVE  \E n \in Request :
           /\ n = Leaves(r, pc, v)
           /\ n.pc = pc /\ n.o = r.o /\ n.chosen = Null /\ n.todo = {} /\ n.seen = v
  <1> DEFINE m == Leaves(r, pc, v)
  <1>1. m \in Request
    BY DEF Leaves, IdleRequest, Request, MaybeVol
  <1>2. /\ m = Leaves(r, pc, v)
        /\ m.pc = pc /\ m.o = r.o /\ m.chosen = Null /\ m.todo = {} /\ m.seen = v
    BY DEF Leaves, IdleRequest, Request, MaybeVol
  <1> HIDE DEF m
  <1>3. QED
    BY <1>1, <1>2

\* A batch starts between operations.
LEMMA BatchTyped ==
  ASSUME NEW batch \in SUBSET OpId
  PROVE  \E n \in Request :
           /\ n = [IdleRequest EXCEPT !.pc = "lookup", !.todo = batch]
           /\ n.pc = "lookup" /\ n.todo = batch /\ n.chosen = Null
  <1> DEFINE m == [IdleRequest EXCEPT !.pc = "lookup", !.todo = batch]
  <1>1. m \in Request
    BY DEF IdleRequest, Request, PC, MaybeVol
  <1>2. /\ m = [IdleRequest EXCEPT !.pc = "lookup", !.todo = batch]
        /\ m.pc = "lookup" /\ m.todo = batch /\ m.chosen = Null
    BY DEF IdleRequest, Request, PC, MaybeVol
  <1> HIDE DEF m
  <1>3. QED
    BY <1>1, <1>2

\* An upload starts on its photo.
LEMMA UploadTyped ==
  ASSUME NEW o \in OpId
  PROVE  \E n \in Request :
           /\ n = [IdleRequest EXCEPT !.pc = "photoCreate", !.o = o]
           /\ n.pc = "photoCreate" /\ n.o = o /\ n.chosen = Null /\ n.todo = {}
  <1> DEFINE m == [IdleRequest EXCEPT !.pc = "photoCreate", !.o = o]
  <1>1. m \in Request
    BY DEF IdleRequest, Request, PC, MaybeVol
  <1>2. /\ m = [IdleRequest EXCEPT !.pc = "photoCreate", !.o = o]
        /\ m.pc = "photoCreate" /\ m.o = o /\ m.chosen = Null /\ m.todo = {}
    BY DEF IdleRequest, Request, PC, MaybeVol
  <1> HIDE DEF m
  <1>3. QED
    BY <1>1, <1>2

\* An idle request is between operations.
LEMMA IdleBetween ==
  \E n \in Request : n = IdleRequest /\ n.pc = "idle" /\ n.chosen = Null /\ n.todo = {}
  <1>1. IdleRequest.pc = "idle" /\ IdleRequest.chosen = Null /\ IdleRequest.todo = {}
    BY DEF IdleRequest
  <1>2. QED
    BY <1>1, IdleTyped

\* A request that answers or goes on to the next operation of its batch serves
\* none, and nothing it recorded is outstanding.
LEMMA AdvancedFits ==
  ASSUME NEW r \in Request
  PROVE  /\ Advanced(r) \in Request
         /\ Advanced(r).pc \in {"idle", "lookup"} /\ Advanced(r).chosen = Null
         /\ Advanced(r).todo \subseteq r.todo
  BY IdleTyped DEF Advanced, IdleRequest, Request, PC, MaybeVol

\* One between operations fits any state in which its batch is of the device.
LEMMA BetweenFits ==
  ASSUME NEW r \in Request, r.pc \in {"idle", "lookup"}, r.chosen = Null,
         r.todo \subseteq DOMAIN ops
  PROVE  Fits(r) /\ MayCommit(r) /\ Done(r) /\ ~Serves(r)
  BY DEF Fits, MayCommit, Done, Serves, InLoop, Escalating, Resolving

\* An upsert keeps a fact a fact, and its version never moves back; it moves
\* when the volume does.
LEMMA WrittenFact ==
  ASSUME NEW f \in Fact, NEW v \in Vols
  PROVE  /\ Written(f, v) \in Fact
         /\ Written(f, v).version >= f.version
         /\ v # f.sc => Written(f, v).version > f.version
  BY DEF Written, Fact, MaybeVol

-----------------------------------------------------------------------------
\* Steps by what they change

\* A request moves on, and beside it only what is recorded of operations grows.
LEMMA RequestRecords ==
  ASSUME IInv, NEW w \in Workers, NEW n \in Request, Becomes(w, n),
         Fits(n), MayCommit(n), Done(n)',
         Serves(n) => \/ Serves(requests[w]) /\ requests[w].o = n.o
                      \/ rows[n.o].status # "pending",
         UNCHANGED <<period, facts, ops, rows, changes>>, photos' \subseteq Items,
         landed \subseteq landed', landed' \subseteq OpId, flagged \subseteq flagged',
         flagged' \subseteq OpId, told' \subseteq OpId,
         online' \in Nat, failures' \in Nat, archivals' \in Nat
  PROVE  IInv'
  <1> USE DEF IInv
  <1>0. requests' \in [Workers -> Request] /\ requests'[w] = n
        /\ \A u \in Workers : u # w => requests'[u] = requests[u]
    BY DEF Becomes, TypeOK
  <1>1. TypeOK'
    BY <1>0 DEF TypeOK
  <1>2. RequestsFit'
    BY <1>0 DEF RequestsFit, Fits, InLoop, Escalating, Resolving
  <1>3. CommitsAllowed'
    BY <1>0 DEF CommitsAllowed, MayCommit
  <1>4. DoneBeforeRecorded'
    BY <1>0 DEF DoneBeforeRecorded, Done
  <1>5. OneServes'
    BY <1>0 DEF OneServes, Serves, InLoop, Escalating
  <1>6. EarlyUntouched' /\ VersionLeftBehind' /\ EffectOnce'
    BY DEF EarlyUntouched, VersionLeftBehind, EffectOnce
  <1>7. AppliedHasEffect' /\ EscalatedIsFlagged'
    BY DEF AppliedHasEffect, EscalatedIsFlagged
  <1>8. QED
    BY <1>1, <1>2, <1>3, <1>4, <1>5, <1>6, <1>7

\* A request moves on and no row, fact or operation changes.
LEMMA RequestMoves ==
  ASSUME IInv, NEW w \in Workers, NEW n \in Request, Becomes(w, n),
         Fits(n), MayCommit(n), Done(n),
         Serves(n) => \/ Serves(requests[w]) /\ requests[w].o = n.o
                      \/ rows[n.o].status # "pending",
         UNCHANGED <<period, facts, photos, ops, rows, landed, changes, flagged, told>>,
         online' \in Nat, failures' \in Nat, archivals' \in Nat
  PROVE  IInv'
  <1>1. /\ photos \subseteq Items /\ landed \subseteq OpId /\ flagged \subseteq OpId
        /\ told \subseteq OpId
    BY DEF IInv, TypeOK
  <1>2. Done(n)'
    BY DEF Done
  <1>3. QED
    BY <1>1, <1>2, RequestRecords

\* A request updates the row of its operation and moves on: the other requests
\* at work on the operation must still fit.
LEMMA RowMoves ==
  ASSUME IInv, NEW w \in Workers, NEW n \in Request, Becomes(w, n),
         NEW o \in OpId, NEW s, NEW v, SetRow(o, s, v), [status |-> s, server |-> v] \in Row,
         Fits(n)', MayCommit(n), Done(n),
         \A u \in Workers : u # w /\ requests[u].o = o =>
           /\ Resolving(requests[u]) => s \in {"conflict", "applied", "escalated"}
           /\ InLoop(requests[u]) => s = "pending"
           /\ Escalating(requests[u]) => s # "none",
         s = "pending" => \A u \in Workers : u # w /\ requests[u].o = o => ~Serves(requests[u]),
         Serves(n) => n.o = o,
         s = "applied" => o \in landed,
         s = "escalated" /\ v # 0 => o \in flagged,
         UNCHANGED <<period, facts, photos, ops, landed, changes, flagged, counts>>,
         told' \subseteq OpId
  PROVE  IInv'
  <1> USE DEF IInv
  <1>0. requests' \in [Workers -> Request] /\ requests'[w] = n
        /\ \A u \in Workers : u # w => requests'[u] = requests[u]
    BY DEF Becomes, TypeOK
  <1>a. rows' \in [OpId -> Row] /\ rows'[o].status = s /\ rows'[o].server = v
        /\ \A p \in OpId : p # o => rows'[p] = rows[p]
    BY DEF SetRow, TypeOK, Row
  <1>1. TypeOK'
    BY <1>0, <1>a DEF TypeOK, counts
  <1>2. RequestsFit'
    <2>1. ASSUME NEW u \in Workers, u # w PROVE Fits(requests[u])'
      <3>1. Fits(requests[u]) /\ requests'[u] = requests[u]
        BY <1>0, <2>1 DEF RequestsFit
      <3>2. \/ requests[u].o = o
            \/ requests[u].pc \in {"idle", "lookup"}
            \/ rows'[requests[u].o] = rows[requests[u].o]
        BY <3>1, <1>a, OpsTyped DEF Fits
      <3>3. QED
        BY <2>1, <3>1, <3>2, <1>a DEF Fits, InLoop, Escalating, Resolving
    <2>2. Fits(requests[w])'
      BY <1>0
    <2>3. QED
      BY <2>1, <2>2 DEF RequestsFit
  <1>3. CommitsAllowed'
    BY <1>0 DEF CommitsAllowed, MayCommit
  <1>4. DoneBeforeRecorded'
    BY <1>0 DEF DoneBeforeRecorded, Done
  <1>5. OneServes'
    <2> SUFFICES ASSUME NEW u \in Workers, NEW x \in Workers, u # x,
                        requests'[u].o = requests'[x].o,
                        Serves(requests'[u]), Serves(requests'[x]),
                        rows'[requests'[u].o].status = "pending"
                 PROVE  FALSE
      BY DEF OneServes, Serves, InLoop, Escalating
    <2>1. CASE requests'[u].o = o
      BY <2>1, <1>0, <1>a
    <2>2. CASE requests'[u].o # o
      <3>1. u # w /\ x # w
        BY <2>2, <1>0
      <3>2. requests[u].o \in OpId
        <4>1. Fits(requests[u]) /\ requests[u].pc \notin {"idle", "lookup"}
          BY <3>1, <1>0 DEF RequestsFit, Serves, InLoop, Escalating
        <4>2. QED
          BY <4>1, OpsTyped DEF Fits
      <3>3. QED
        BY <2>2, <3>1, <3>2, <1>0, <1>a DEF OneServes
    <2>3. QED
      BY <2>1, <2>2
  <1>6. EarlyUntouched' /\ VersionLeftBehind' /\ EffectOnce'
    BY DEF EarlyUntouched, VersionLeftBehind, EffectOnce
  <1>7. AppliedHasEffect' /\ EscalatedIsFlagged'
    BY <1>a DEF AppliedHasEffect, EscalatedIsFlagged
  <1>8. QED
    BY <1>1, <1>2, <1>3, <1>4, <1>5, <1>6, <1>7
-----------------------------------------------------------------------------
\* The steps of a request

\* A request that is between operations, or has ended, moves there from anywhere.
LEMMA Between ==
  ASSUME IInv, NEW w \in Workers, NEW n \in Request, Becomes(w, n),
         n.pc \in {"idle", "lookup"}, n.chosen = Null, n.todo \subseteq DOMAIN ops,
         UNCHANGED <<period, facts, photos, ops, rows, landed, changes, flagged, told>>,
         online' \in Nat, failures' \in Nat, archivals' \in Nat
  PROVE  IInv'
  <1>1. Fits(n) /\ MayCommit(n) /\ Done(n) /\ ~Serves(n)
    BY BetweenFits
  <1>2. QED
    BY <1>1, RequestMoves

\* What holds of the request a worker serves.
LEMMA Served ==
  ASSUME IInv, NEW w \in Workers
  PROVE  /\ requests[w] \in Request
         /\ Fits(requests[w]) /\ MayCommit(requests[w]) /\ Done(requests[w])
         /\ requests[w].pc \notin {"idle", "lookup"} =>
              requests[w].o \in OpId /\ requests[w].o \in DOMAIN ops
  BY OpsTyped DEF IInv, TypeOK, RequestsFit, CommitsAllowed, DoneBeforeRecorded, Fits

\* A batch is of the device's operations.
LEMMA SendStep ==
  ASSUME IInv, NEW w \in Workers, Send(w)
  PROVE  IInv'
  <1>1. PICK batch \in SUBSET DOMAIN ops :
          Becomes(w, [IdleRequest EXCEPT !.pc = "lookup", !.todo = batch])
    BY DEF Send
  <1>2. batch \subseteq OpId
    BY OpsTyped DEF IInv
  <1>3. PICK n \in Request : /\ n = [IdleRequest EXCEPT !.pc = "lookup", !.todo = batch]
                             /\ n.pc = "lookup" /\ n.todo = batch /\ n.chosen = Null
    BY <1>2, BatchTyped
  <1>4. online' \in Nat /\ failures' \in Nat /\ archivals' \in Nat
    BY DEF Send, counts, IInv, TypeOK
  <1>5. QED
    BY <1>1, <1>3, <1>4, Between DEF Send

\* The lookup starts on an operation or moves past it, and serves none yet.
LEMMA LookupStep ==
  ASSUME IInv, NEW w \in Workers, Lookup(w)
  PROVE  IInv'
  <1>0. online' \in Nat /\ failures' \in Nat /\ archivals' \in Nat
    BY DEF Lookup, counts, IInv, TypeOK
  <1>1. requests[w].pc = "lookup" /\ requests[w] \in Request /\ Fits(requests[w])
    BY Served DEF Lookup
  <1>2. PICK o \in OpId :
          /\ o \in requests[w].todo
          /\ \/ Becomes(w, [[requests[w] EXCEPT !.o = o] EXCEPT !.pc = "create"])
             \/ Becomes(w, Advanced([requests[w] EXCEPT !.o = o]))
    BY DEF Lookup, IsFirst
  <1>3. PICK r \in Request :
          /\ r = [requests[w] EXCEPT !.o = o]
          /\ r.o = o /\ r.pc = requests[w].pc /\ r.chosen = requests[w].chosen
          /\ r.todo = requests[w].todo
    BY <1>1, TakesUp
  <1>4. r.pc = "lookup" /\ r.chosen = Null /\ r.todo \subseteq DOMAIN ops /\ o \in DOMAIN ops
    BY <1>1, <1>2, <1>3 DEF Fits, Resolving
  <1>5. CASE Becomes(w, [r EXCEPT !.pc = "create"])
    <2>0. "create" \in PC
      BY DEF PC
    <2>1. PICK n \in Request :
            /\ n = [r EXCEPT !.pc = "create"]
            /\ n.pc = "create" /\ n.o = r.o /\ n.chosen = r.chosen /\ n.todo = r.todo
      BY <2>0, GoesOn
    <2>2. Fits(n) /\ MayCommit(n) /\ Done(n) /\ ~Serves(n)
      BY <2>1, <1>3, <1>4
         DEF Fits, MayCommit, Done, Serves, InLoop, Escalating, Resolving
    <2>3. QED
      BY <1>0, <1>5, <2>1, <2>2, RequestMoves DEF Lookup
  <1>6. CASE Becomes(w, Advanced(r))
    <2>1. PICK n \in Request :
            /\ n = Advanced(r)
            /\ n.pc \in {"idle", "lookup"} /\ n.chosen = Null /\ n.todo \subseteq r.todo
      BY AdvancedFits
    <2>2. QED
      BY <1>0, <1>4, <1>6, <2>1, Between DEF Lookup
  <1>7. QED
    BY <1>2, <1>3, <1>5, <1>6

\* The row is inserted by the request that finds none, and by RequestsFit no
\* other is at work on it then.
LEMMA CreateStep ==
  ASSUME IInv, NEW w \in Workers, Create(w)
  PROVE  IInv'
  <1> DEFINE r == requests[w]
  <1>1. r.pc = "create" /\ r \in Request /\ Fits(r) /\ r.o \in OpId /\ r.o \in DOMAIN ops
        /\ r.chosen = Null
    BY Served DEF Create, Fits, Resolving
  <1>2. CASE rows[r.o].status = "none"
    <2>1. PICK n \in Request :
            /\ Becomes(w, n)
            /\ n.pc \in {"apply", "reject"} /\ n.o = r.o
            /\ n.chosen = Null /\ n.todo = r.todo
      <3>1. PICK pc \in {"apply", "reject"} : Goes(w, pc)
        BY <1>2 DEF Create
      <3>2. [r EXCEPT !.pc = pc] \in Request
        BY <1>1 DEF Request, PC
      <3>3. Becomes(w, [r EXCEPT !.pc = pc])
        BY <3>1, <1>1 DEF Goes, Becomes, IInv, TypeOK
      <3>4. QED
        BY <1>1, <3>2, <3>3 DEF Request
    <2>2. PICK o \in OpId : o = r.o
      BY <1>1
    <2>3. SetRow(o, "pending", 0) /\ [status |-> "pending", server |-> 0] \in Row
      BY <1>2, <2>2 DEF Create, Row
    <2>4. ASSUME NEW u \in Workers, u # w, requests[u].o = o
          PROVE  ~Serves(requests[u]) /\ ~Resolving(requests[u])
      BY <1>2, <2>2, <2>4, Served DEF Fits, Serves
    <2>5. rows'[o].status = "pending"
      BY <2>2, <2>3 DEF SetRow, IInv, TypeOK, Row
    <2>6. Fits(n)' /\ MayCommit(n) /\ Done(n)
      BY <1>1, <2>1, <2>2, <2>5 DEF Create, Fits, MayCommit, Done, InLoop, Escalating, Resolving
    <2>7. told' \subseteq OpId
      BY DEF Create, IInv, TypeOK
    <2>8. QED
      BY <2>1, <2>2, <2>3, <2>4, <2>6, <2>7, RowMoves DEF Create, Serves
  <1>3. CASE rows[r.o].status # "none"
    <2>1. PICK n \in Request : n = IdleRequest /\ n.pc = "idle" /\ n.chosen = Null /\ n.todo = {}
      BY IdleBetween
    <2>2. online' \in Nat /\ failures' \in Nat /\ archivals' \in Nat
      BY DEF Create, counts, IInv, TypeOK
    <2>3. QED
      BY <1>3, <2>1, <2>2, Between DEF Create, Ends
  <1>4. QED
    BY <1>2, <1>3

\* Nothing is written before the versions agree, so an operation about to write
\* has not changed its fact: VersionLeftBehind would have moved the version.
LEMMA ApplyStep ==
  ASSUME IInv, NEW w \in Workers, Apply(w)
  PROVE  IInv'
  <1> DEFINE r == requests[w]
             f == facts[ops[r.o].item]
  <1>0. online' \in Nat /\ failures' \in Nat /\ archivals' \in Nat
    BY DEF Apply, counts, IInv, TypeOK
  <1>1. r.pc = "apply" /\ r \in Request /\ Fits(r) /\ r.o \in OpId /\ r.o \in DOMAIN ops
    BY Served DEF Apply
  <1>2. ops[r.o] \in Op /\ f \in Fact
    BY <1>1, OpsTyped DEF IInv, TypeOK, Op
  <1>3. ASSUME NEW pc \in {"commit", "reject"}, Becomes(w, [r EXCEPT !.pc = pc]),
               pc = "commit" => period # "early" /\ (r.chosen = Null => f.version = ops[r.o].known),
               pc = "reject" => r.chosen = Null
        PROVE  IInv'
    <2>0. pc \in PC
      BY DEF PC
    <2>1. PICK n \in Request :
            /\ n = [r EXCEPT !.pc = pc]
            /\ n.pc = pc /\ n.o = r.o /\ n.chosen = r.chosen /\ n.todo = r.todo
      BY <1>1, <2>0, GoesOn
    <2>2. Fits(n) /\ Done(n)
      BY <1>1, <1>3, <2>1 DEF Fits, Done, InLoop, Escalating, Resolving
    <2>3. MayCommit(n)
      <3>1. SUFFICES ASSUME pc = "commit", r.chosen = Null
                     PROVE  changes[r.o] = 0 /\ f.version >= ops[r.o].known
        BY <1>3, <2>1 DEF MayCommit
      <3>2. f.version = ops[r.o].known /\ f.version \in Nat
        BY <1>2, <1>3, <3>1 DEF Fact
      <3>3. changes[r.o] = 0
        BY <1>1, <3>2 DEF IInv, VersionLeftBehind
      <3>4. QED
        BY <3>2, <3>3
    <2>4. Serves(n) => Serves(r) /\ r.o = n.o
      BY <1>1, <1>3, <2>1 DEF Serves, InLoop, Escalating
    <2>5. QED
      BY <1>0, <1>3, <2>1, <2>2, <2>3, <2>4, RequestMoves DEF Apply
  <1>4. ASSUME NEW pc \in {"escalate", "conflict"}, NEW v \in Nat,
               Becomes(w, Leaves(r, pc, v)), r.chosen = Null
        PROVE  IInv'
    <2>0. pc \in PC
      BY DEF PC
    <2>1. PICK n \in Request :
            /\ n = Leaves(r, pc, v)
            /\ n.pc = pc /\ n.o = r.o /\ n.chosen = Null /\ n.todo = {}
      BY <1>1, <2>0, LeavesLoop
    <2>2. Serves(r) /\ rows[r.o].status = "pending"
      BY <1>1, <1>4 DEF Serves, InLoop, Fits
    <2>3. Fits(n) /\ Done(n) /\ MayCommit(n)
      BY <1>1, <2>1, <2>2 DEF Fits, Done, MayCommit, InLoop, Escalating, Resolving
    <2>4. QED
      BY <1>0, <1>4, <2>1, <2>2, <2>3, RequestMoves DEF Apply
  <1>5. ASSUME Becomes(w, IdleRequest) PROVE IInv'
    <2>1. PICK n \in Request : n = IdleRequest /\ n.pc = "idle" /\ n.chosen = Null /\ n.todo = {}
      BY IdleBetween
    <2>2. QED
      BY <1>0, <1>5, <2>1, Between DEF Apply
  <1>6. CASE r.chosen # Null
    <2>1. CASE period = "accepting"
      BY <1>6, <2>1, <1>3 DEF Apply
    <2>2. CASE period # "accepting"
      BY <1>6, <2>2, <1>5 DEF Apply
    <2>3. QED
      BY <2>1, <2>2
  <1>7. CASE r.chosen = Null
    <2>1. f.version \in Nat /\ 0 \in Nat
      BY <1>2 DEF Fact
    <2>2. CASE period = "closed"
      BY <1>7, <2>1, <2>2, <1>4 DEF Apply
    <2>3. CASE period # "closed"
      BY <1>7, <2>1, <2>3, <1>3, <1>4 DEF Apply
    <2>4. QED
      BY <2>2, <2>3
  <1>8. QED
    BY <1>6, <1>7
\* The versions of the facts never move back, and that is all a step of somebody
\* else does to an operation at work.
LEMMA FactsMove ==
  ASSUME IInv, period # "early", facts' \in [Items -> Fact],
         \A i \in Items : facts'[i].version >= facts[i].version,
         UNCHANGED <<period, photos, ops, rows, landed, changes, flagged, told, requests>>,
         online' \in Nat, failures' \in Nat, archivals' \in Nat
  PROVE  IInv'
  <1> USE DEF IInv
  <1>1. TypeOK'
    BY DEF TypeOK
  <1>2. RequestsFit' /\ DoneBeforeRecorded' /\ OneServes' /\ EffectOnce'
        /\ AppliedHasEffect' /\ EscalatedIsFlagged' /\ EarlyUntouched'
    BY DEF RequestsFit, Fits, DoneBeforeRecorded, Done, OneServes, EffectOnce,
           AppliedHasEffect, EscalatedIsFlagged, EarlyUntouched, Serves, InLoop,
           Escalating, Resolving
  <1>3. ASSUME NEW o \in DOMAIN ops
        PROVE  /\ ops[o].known \in Nat
               /\ facts[ops[o].item].version \in Nat /\ facts'[ops[o].item].version \in Nat
               /\ facts'[ops[o].item].version >= facts[ops[o].item].version
    BY OpsTyped DEF TypeOK, Op, Fact
  <1>4. CommitsAllowed'
    <2>1. ASSUME NEW w \in Workers PROVE MayCommit(requests[w])'
      <3>1. MayCommit(requests[w]) /\ (requests[w].pc = "commit" => requests[w].o \in DOMAIN ops)
        BY Served
      <3>2. QED
        BY <1>3, <3>1 DEF MayCommit
    <2>2. QED
      BY <2>1 DEF CommitsAllowed
  <1>5. VersionLeftBehind'
    BY <1>3 DEF VersionLeftBehind
  <1>6. QED
    BY <1>1, <1>2, <1>4, <1>5

\* Of two requests past the insertion of a pending row one would be too many, so
\* the operation that writes is no other's; and its write moves the version past
\* the one it knew.
LEMMA CommitStep ==
  ASSUME IInv, NEW w \in Workers, Commit(w)
  PROVE  IInv'
  <1> DEFINE r == requests[w]
             i == ops[r.o].item
             v == IF r.chosen = Null THEN ops[r.o].vol ELSE r.chosen
  <1> USE DEF IInv
  <1>1. /\ r.pc = "commit" /\ r \in Request /\ r.o \in OpId /\ r.o \in DOMAIN ops
        /\ Fits(r) /\ MayCommit(r)
    BY Served DEF Commit
  <1>2. ops[r.o] \in Op /\ i \in Items /\ v \in Vols /\ facts[i] \in Fact
    BY <1>1, OpsTyped DEF TypeOK, Op, Request, MaybeVol
  <1>3. /\ Written(facts[i], v) \in Fact
        /\ Written(facts[i], v).version >= facts[i].version
        /\ v # facts[i].sc => Written(facts[i], v).version > facts[i].version
    BY <1>2, WrittenFact
  <1>4. /\ facts' \in [Items -> Fact] /\ facts'[i] = Written(facts[i], v)
        /\ \A j \in Items : j # i => facts'[j] = facts[j]
    BY <1>2, <1>3 DEF Commit, TypeOK
  <1>5. /\ changes' \in [OpId -> Nat]
        /\ changes'[r.o] = IF r.chosen = Null /\ v # facts[i].sc THEN changes[r.o] + 1
                                                                 ELSE changes[r.o]
        /\ \A p \in OpId : p # r.o => changes'[p] = changes[p]
    BY <1>1 DEF Commit, TypeOK
  <1>6. PICK n \in Request :
          /\ n = [r EXCEPT !.pc = "applied"]
          /\ n.pc = "applied" /\ n.o = r.o /\ n.chosen = r.chosen /\ n.todo = r.todo
    <2>1. "applied" \in PC
      BY DEF PC
    <2>2. QED
      BY <1>1, <2>1, GoesOn
  <1>7. requests' \in [Workers -> Request] /\ requests'[w] = n
        /\ \A u \in Workers : u # w => requests'[u] = requests[u]
    BY <1>6 DEF Commit, Goes, TypeOK
  <1> HIDE DEF r, i, v
  <1>8. ASSUME NEW p \in DOMAIN ops
        PROVE  /\ p \in OpId /\ ops[p].item \in Items /\ ops[p].known \in Nat
               /\ facts[ops[p].item].version \in Nat /\ facts'[ops[p].item].version \in Nat
               /\ facts'[ops[p].item].version >= facts[ops[p].item].version
    <2>1. p \in OpId /\ ops[p].item \in Items /\ ops[p].known \in Nat
      BY OpsTyped DEF Op
    <2>2. facts[ops[p].item] \in Fact /\ facts'[ops[p].item] \in Fact
      BY <1>4, <2>1 DEF TypeOK
    <2>3. facts[ops[p].item].version \in Nat /\ facts'[ops[p].item].version \in Nat
      BY <2>2 DEF Fact
    <2>4. QED
      BY <1>3, <1>4, <2>1, <2>3
  <1>a. r.chosen = Null => /\ changes[r.o] = 0 /\ rows[r.o].status = "pending" /\ InLoop(r)
                           /\ facts[i].version >= ops[r.o].known
    BY <1>1 DEF MayCommit, Fits, InLoop, i
  <1>b. TypeOK'
    BY <1>1, <1>4, <1>5, <1>7 DEF Commit, TypeOK, counts, r
  <1>c. RequestsFit'
    <2>1. Fits(n)'
      BY <1>1, <1>6 DEF Commit, Fits, InLoop, Escalating, Resolving
    <2>2. ASSUME NEW u \in Workers, u # w PROVE Fits(requests[u])'
      BY <1>7, <2>2 DEF Commit, RequestsFit, Fits, InLoop, Escalating, Resolving
    <2>3. QED
      BY <1>7, <2>1, <2>2 DEF RequestsFit
  <1>d. CommitsAllowed'
    <2>1. MayCommit(n)'
      BY <1>6 DEF MayCommit
    <2>2. ASSUME NEW u \in Workers, u # w, requests[u].pc = "commit"
          PROVE  MayCommit(requests[u])'
      <3>1. requests[u].o \in DOMAIN ops /\ Fits(requests[u]) /\ MayCommit(requests[u])
        BY <2>2, Served
      <3>2. requests[u].chosen = Null => changes'[requests[u].o] = 0
        <4>1. SUFFICES ASSUME requests[u].chosen = Null, requests[u].o = r.o, r.chosen = Null
                       PROVE  FALSE
          BY <1>5, <1>8, <2>2, <3>1 DEF MayCommit
        <4>2. InLoop(requests[u])
          BY <2>2, <4>1 DEF InLoop
        <4>3. QED
          BY <1>a, <2>2, <4>1, <4>2 DEF OneServes, Serves, r
      <3>3. QED
        <4>1. requests'[u] = requests[u] /\ period' = period /\ ops' = ops
          BY <1>7, <2>2 DEF Commit
        <4>2. /\ facts[ops[requests[u].o].item].version \in Nat
              /\ facts'[ops[requests[u].o].item].version \in Nat
              /\ ops[requests[u].o].known \in Nat
              /\ facts'[ops[requests[u].o].item].version >= facts[ops[requests[u].o].item].version
          BY <1>8, <3>1
        <4>3. QED
          BY <2>2, <3>1, <3>2, <4>1, <4>2 DEF MayCommit
    <2>3. QED
      BY <1>7, <2>1, <2>2 DEF CommitsAllowed, MayCommit
  <1>e. DoneBeforeRecorded'
    BY <1>6, <1>7 DEF Commit, DoneBeforeRecorded, Done, r
  <1>f. OneServes'
    <2>1. Serves(n) => Serves(r)
      BY <1>1, <1>6 DEF Serves, InLoop, Escalating
    <2>2. ASSUME NEW u \in Workers
          PROVE  /\ requests'[u].o = requests[u].o
                 /\ Serves(requests[u])' => Serves(requests[u])
      <3>1. CASE u = w
        BY <1>6, <1>7, <2>1, <3>1 DEF Serves, InLoop, Escalating, r
      <3>2. CASE u # w
        BY <1>7, <3>2 DEF Serves, InLoop, Escalating
      <3>3. QED
        BY <3>1, <3>2
    <2>3. QED
      BY <2>2 DEF Commit, OneServes
  <1>g. EarlyUntouched'
    BY <1>1 DEF Commit, MayCommit, EarlyUntouched
  <1>h. VersionLeftBehind'
    <2> SUFFICES ASSUME NEW p \in OpId, changes'[p] # 0
                 PROVE  p \in DOMAIN ops /\ facts'[ops[p].item].version > ops[p].known
      BY DEF Commit, VersionLeftBehind
    <2>1. CASE changes[p] # 0
      BY <1>8, <2>1 DEF VersionLeftBehind
    <2>2. CASE changes[p] = 0
      <3>1. p = r.o /\ r.chosen = Null /\ v # facts[i].sc
        BY <1>5, <2>2
      <3>2. facts'[i].version > facts[i].version /\ facts[i].version >= ops[r.o].known
        BY <1>3, <1>4, <1>2, <1>a, <3>1
      <3>3. QED
        BY <1>1, <1>8, <3>1, <3>2 DEF i
    <2>3. QED
      BY <2>1, <2>2
  <1>i. EffectOnce'
    <2> SUFFICES ASSUME NEW p \in OpId PROVE changes'[p] <= 1
      BY DEF EffectOnce
    <2>1. QED
      BY <1>5, <1>a DEF EffectOnce
  <1>j. AppliedHasEffect' /\ EscalatedIsFlagged'
    BY DEF Commit, AppliedHasEffect, EscalatedIsFlagged
  <1>k. QED
    BY <1>b, <1>c, <1>d, <1>e, <1>f, <1>g, <1>h, <1>i, <1>j
\* A request that serves an operation, or finds its row settled, is the only one
\* that can be in the loop with it.
LEMMA AloneInLoop ==
  ASSUME IInv, NEW w \in Workers, NEW u \in Workers, u # w,
         requests[u].o = requests[w].o,
         Serves(requests[w]) \/ rows[requests[w].o].status # "pending"
  PROVE  /\ ~InLoop(requests[u])
         /\ rows[requests[w].o].status = "pending" => ~Resolving(requests[u])
  <1>1. Fits(requests[u])
    BY Served
  <1>2. CASE rows[requests[w].o].status # "pending"
    BY <1>1, <1>2 DEF Fits
  <1>3. CASE rows[requests[w].o].status = "pending"
    <2>1. ~Resolving(requests[u])
      BY <1>1, <1>3 DEF Fits
    <2>2. ~Serves(requests[u])
      BY <1>3 DEF IInv, OneServes
    <2>3. QED
      BY <2>1, <2>2 DEF Serves
  <1>4. QED
    BY <1>2, <1>3

\* Only the write it records lets a request, of a batch or of a resolution, mark the
\* row applied.
LEMMA AppliedStep ==
  ASSUME IInv, NEW w \in Workers, NEW n \in Request,
         requests[w].pc = "applied", SetRow(requests[w].o, "applied", rows[requests[w].o].server),
         Becomes(w, n), n.pc \in {"idle", "lookup"}, n.chosen = Null,
         n.todo \subseteq DOMAIN ops,
         UNCHANGED <<period, facts, photos, ops, landed, changes, flagged, told, counts>>
  PROVE  IInv'
  <1> DEFINE r == requests[w]
  <1>1. /\ r.pc = "applied" /\ r \in Request /\ r.o \in OpId /\ r.o \in DOMAIN ops
        /\ Fits(r) /\ r.o \in landed
    BY Served DEF Done
  <1>3. PICK o \in OpId, v \in Nat : o = r.o /\ SetRow(o, "applied", v)
    BY <1>1 DEF IInv, TypeOK, Row
  <1>4. [status |-> "applied", server |-> v] \in Row
    BY DEF Row
  <1>5. Serves(r) \/ rows[o].status # "pending"
    BY <1>1, <1>3 DEF Fits, Serves, InLoop, Resolving
  <1>6. ASSUME NEW u \in Workers, u # w, requests[u].o = o PROVE ~InLoop(requests[u])
    BY <1>3, <1>5, <1>6, AloneInLoop
  <1>7. Fits(n)' /\ MayCommit(n) /\ Done(n) /\ ~Serves(n) /\ told' \subseteq OpId
    BY DEF Fits, MayCommit, Done, Serves, InLoop, Escalating, Resolving, IInv, TypeOK
  <1>8. QED
    BY <1>1, <1>3, <1>4, <1>6, <1>7, RowMoves

\* The loop goes on behind an operation that was applied.
LEMMA MarkAppliedStep ==
  ASSUME IInv, NEW w \in Workers, MarkApplied(w)
  PROVE  IInv'
  <1> DEFINE r == requests[w]
             n == Advanced(r)
  <1>1. r \in Request /\ r.pc = "applied" /\ r.chosen = Null /\ Fits(r)
    BY Served DEF MarkApplied
  <1>2. /\ n \in Request /\ n.pc \in {"idle", "lookup"}
        /\ n.chosen = Null /\ n.todo \subseteq r.todo
    BY <1>1, AdvancedFits
  <1>3. r.todo \subseteq DOMAIN ops
    BY <1>1 DEF Fits
  <1>4. QED
    BY <1>1, <1>2, <1>3, AppliedStep DEF MarkApplied

\* A resolution ends with its row.
LEMMA ResolveMarkStep ==
  ASSUME IInv, NEW w \in Workers, ResolveMark(w)
  PROVE  IInv'
  <1>1. /\ IdleRequest \in Request /\ IdleRequest.pc = "idle" /\ IdleRequest.chosen = Null
        /\ IdleRequest.todo \subseteq DOMAIN ops
    BY IdleBetween
  <1>2. QED
    BY <1>1, AppliedStep DEF ResolveMark, Ends, Becomes

\* A row that the loop gives up is pending, so nobody else carries it on.
LEMMA GivenUp ==
  ASSUME IInv, NEW w \in Workers, NEW n \in Request, Becomes(w, n),
         n.pc \in {"idle", "lookup"}, n.chosen = Null, n.todo \subseteq DOMAIN ops,
         InLoop(requests[w]), NEW s \in {"rejected", "conflict"}, NEW v \in Nat,
         SetRow(requests[w].o, s, v),
         UNCHANGED <<period, facts, photos, ops, landed, changes, flagged, told, counts>>
  PROVE  IInv'
  <1> DEFINE r == requests[w]
  <1>1. Fits(r) /\ r.o \in OpId /\ rows[r.o].status = "pending" /\ Serves(r)
    BY Served DEF InLoop, Fits, Serves
  <1>2. PICK o \in OpId : o = r.o /\ SetRow(o, s, v)
    BY <1>1
  <1>3. [status |-> s, server |-> v] \in Row
    BY DEF Row
  <1>4. ASSUME NEW u \in Workers, u # w, requests[u].o = o
        PROVE  ~InLoop(requests[u]) /\ ~Resolving(requests[u])
    BY <1>1, <1>2, <1>4, AloneInLoop
  <1>5. Fits(n)' /\ MayCommit(n) /\ Done(n) /\ ~Serves(n) /\ told' \subseteq OpId
    BY DEF Fits, MayCommit, Done, Serves, InLoop, Escalating, Resolving, IInv, TypeOK
  <1>6. QED
    BY <1>2, <1>3, <1>4, <1>5, RowMoves

\* A refused operation is given up.
LEMMA RejectStep ==
  ASSUME IInv, NEW w \in Workers, Reject(w)
  PROVE  IInv'
  <1> DEFINE r == requests[w]
  <1>1. r.pc = "reject" /\ r \in Request /\ Fits(r)
    BY Served DEF Reject
  <1>2. InLoop(r) /\ r.todo \subseteq DOMAIN ops
    BY <1>1 DEF Fits, InLoop, Resolving
  <1>3. Advanced(r) \in Request /\ Advanced(r).pc \in {"idle", "lookup"}
        /\ Advanced(r).chosen = Null /\ Advanced(r).todo \subseteq r.todo
    BY <1>1, AdvancedFits
  <1>4. PICK n \in Request :
          /\ Becomes(w, n)
          /\ n.pc \in {"idle", "lookup"} /\ n.chosen = Null /\ n.todo \subseteq DOMAIN ops
    BY <1>2, <1>3 DEF Reject
  <1>5. QED
    BY <1>2, <1>4, GivenUp DEF Reject

\* So is one whose version was not the fact's.
LEMMA MarkConflictStep ==
  ASSUME IInv, NEW w \in Workers, MarkConflict(w)
  PROVE  IInv'
  <1> DEFINE r == requests[w]
  <1>1. r.pc = "conflict" /\ r \in Request /\ Fits(r)
    BY Served DEF MarkConflict
  <1>2. InLoop(r) /\ r.seen \in Nat
    BY <1>1 DEF Fits, InLoop, Resolving, Request
  <1>3. PICK n \in Request :
          /\ Becomes(w, n)
          /\ n.pc \in {"idle", "lookup"} /\ n.chosen = Null /\ n.todo \subseteq DOMAIN ops
    BY IdleBetween DEF MarkConflict, Ends
  <1>4. QED
    BY <1>2, <1>3, GivenUp DEF MarkConflict

\* An escalation keeps the operation it left the loop with.
LEMMA EscalateReadStep ==
  ASSUME IInv, NEW w \in Workers, EscalateRead(w)
  PROVE  IInv'
  <1> DEFINE r == requests[w]
             f == facts[ops[r.o].item]
  <1>1. r.pc = "escalate" /\ r \in Request /\ Fits(r) /\ r.o \in DOMAIN ops /\ ops[r.o] \in Op
    BY Served, OpsTyped DEF EscalateRead, IInv
  <1>2. f.version \in Nat
    BY <1>1 DEF IInv, TypeOK, Op, Fact
  <1>3. PICK pc \in {"escalated", "flag"} :
          /\ Becomes(w, Leaves(r, pc, f.version))
          /\ pc = "escalated" => f.version = 0
    BY DEF EscalateRead
  <1>4. pc \in PC
    BY DEF PC
  <1> HIDE DEF f
  <1>5. PICK n \in Request :
          /\ n = Leaves(r, pc, f.version)
          /\ n.pc = pc /\ n.o = r.o /\ n.chosen = Null /\ n.todo = {} /\ n.seen = f.version
    BY <1>1, <1>2, <1>4, LeavesLoop
  <1>6. Serves(r) /\ rows[r.o].status # "none"
    BY <1>1 DEF Serves, Escalating, Fits
  <1>7. Fits(n) /\ MayCommit(n) /\ Done(n)
    BY <1>1, <1>3, <1>5, <1>6 DEF Fits, MayCommit, Done, InLoop, Escalating, Resolving
  <1>8. online' \in Nat /\ failures' \in Nat /\ archivals' \in Nat
    BY DEF EscalateRead, counts, IInv, TypeOK
  <1>9. QED
    BY <1>3, <1>5, <1>6, <1>7, <1>8, RequestMoves DEF EscalateRead

\* The row is escalated after its discrepancy, and only by the one that serves it.
LEMMA EscalateMarkStep ==
  ASSUME IInv, NEW w \in Workers, EscalateMark(w)
  PROVE  IInv'
  <1> DEFINE r == requests[w]
  <1>1. /\ r.pc = "escalated" /\ r \in Request /\ r.o \in OpId /\ r.o \in DOMAIN ops
        /\ Fits(r) /\ r.seen \in Nat /\ (r.seen # 0 => r.o \in flagged)
    BY Served DEF EscalateMark, Done, Request
  <1>2. PICK n \in Request :
          /\ n = Leaves(r, "notify", 0)
          /\ n.pc = "notify" /\ n.o = r.o /\ n.chosen = Null /\ n.todo = {} /\ n.seen = 0
    <2>1. "notify" \in PC /\ 0 \in Nat
      BY DEF PC
    <2>2. QED
      BY <1>1, <2>1, LeavesLoop
  <1>3. PICK o \in OpId, v \in Nat : o = r.o /\ v = r.seen /\ SetRow(o, "escalated", v)
    BY <1>1 DEF EscalateMark
  <1>4. [status |-> "escalated", server |-> v] \in Row
    BY DEF Row
  <1>5. Serves(r)
    BY <1>1 DEF Serves, Escalating
  <1>6. ASSUME NEW u \in Workers, u # w, requests[u].o = o PROVE ~InLoop(requests[u])
    BY <1>3, <1>5, <1>6, AloneInLoop
  <1>7. rows'[o].status = "escalated"
    BY <1>3 DEF SetRow, IInv, TypeOK, Row
  <1>8. Fits(n)' /\ MayCommit(n) /\ Done(n)
    BY <1>1, <1>2, <1>3, <1>7
       DEF EscalateMark, Fits, MayCommit, Done, InLoop, Escalating, Resolving
  <1>9. told' \subseteq OpId
    BY DEF EscalateMark, IInv, TypeOK
  <1>a. QED
    BY <1>1, <1>2, <1>3, <1>4, <1>6, <1>8, <1>9, RowMoves DEF EscalateMark
\* The discrepancy is there before the row is escalated.
LEMMA EscalateFlagStep ==
  ASSUME IInv, NEW w \in Workers, EscalateFlag(w)
  PROVE  IInv'
  <1> DEFINE r == requests[w]
  <1>1. r.pc = "flag" /\ r \in Request /\ Fits(r) /\ r.o \in OpId /\ r.o \in DOMAIN ops
    BY Served DEF EscalateFlag
  <1>2. PICK n \in Request :
          /\ n = [r EXCEPT !.pc = "escalated"]
          /\ n.pc = "escalated" /\ n.o = r.o /\ n.chosen = r.chosen /\ n.todo = r.todo
    <2>1. "escalated" \in PC
      BY DEF PC
    <2>2. QED
      BY <1>1, <2>1, GoesOn
  <1>3. Becomes(w, n)
    BY <1>2 DEF EscalateFlag, Goes, Becomes, IInv, TypeOK
  <1>4. Serves(r) /\ Fits(n) /\ MayCommit(n) /\ Done(n)'
    BY <1>1, <1>2
       DEF EscalateFlag, Serves, Fits, MayCommit, Done, InLoop, Escalating, Resolving
  <1>5. /\ photos' \subseteq Items /\ landed' = landed /\ landed' \subseteq OpId
        /\ flagged \subseteq flagged' /\ flagged' \subseteq OpId /\ told' \subseteq OpId
        /\ online' \in Nat /\ failures' \in Nat /\ archivals' \in Nat
    BY <1>1 DEF EscalateFlag, counts, IInv, TypeOK
  <1>6. QED
    BY <1>2, <1>3, <1>4, <1>5, RequestRecords DEF EscalateFlag

\* The notification is the last thing an escalation does.
LEMMA EscalateNotifyStep ==
  ASSUME IInv, NEW w \in Workers, EscalateNotify(w)
  PROVE  IInv'
  <1>1. requests[w].o \in OpId
    BY Served DEF EscalateNotify
  <1>2. PICK n \in Request :
          n = IdleRequest /\ n.pc = "idle" /\ n.chosen = Null /\ n.todo = {}
    BY IdleBetween
  <1>3. Fits(n) /\ MayCommit(n) /\ Done(n)' /\ ~Serves(n)
    BY <1>2 DEF Fits, MayCommit, Done, Serves, InLoop, Escalating, Resolving
  <1>4. /\ photos' \subseteq Items /\ landed' = landed /\ landed' \subseteq OpId
        /\ flagged' = flagged /\ flagged' \subseteq OpId /\ told' \subseteq OpId
        /\ online' \in Nat /\ failures' \in Nat /\ archivals' \in Nat
    BY <1>1 DEF EscalateNotify, counts, IInv, TypeOK
  <1>5. QED
    BY <1>2, <1>3, <1>4, RequestRecords DEF EscalateNotify, Ends

\* A resolution starts with a chosen volume, on a row in conflict.
LEMMA ResolveReadStep ==
  ASSUME IInv, NEW w \in Workers, ResolveRead(w)
  PROVE  IInv'
  <1>1. PICK o \in OpId, v \in Vols :
          /\ o \in DOMAIN ops /\ rows[o].status = "conflict"
          /\ Becomes(w, [IdleRequest EXCEPT !.pc = "resolve", !.o = o, !.chosen = v])
    BY OpsTyped DEF ResolveRead, IInv
  <1>2. PICK n \in Request :
          /\ n = [IdleRequest EXCEPT !.pc = "resolve", !.o = o, !.chosen = v]
          /\ n.pc = "resolve" /\ n.o = o /\ n.chosen = v /\ n.todo = {}
    <2> DEFINE m == [IdleRequest EXCEPT !.pc = "resolve", !.o = o, !.chosen = v]
    <2>1. m \in Request
      BY DEF IdleRequest, Request, PC, MaybeVol
    <2>2. m.pc = "resolve" /\ m.o = o /\ m.chosen = v /\ m.todo = {}
      BY DEF IdleRequest
    <2>3. QED
      BY <2>1, <2>2
  <1>3. v # Null
    BY SyncAssumption
  <1>4. Fits(n) /\ MayCommit(n) /\ Done(n) /\ ~Serves(n)
    BY <1>1, <1>2, <1>3 DEF Fits, MayCommit, Done, Serves, InLoop, Escalating, Resolving
  <1>5. online' \in Nat /\ failures' \in Nat /\ archivals' \in Nat
    BY DEF ResolveRead, counts, IInv, TypeOK
  <1>6. QED
    BY <1>1, <1>2, <1>4, <1>5, RequestMoves DEF ResolveRead

\* A resolution starts from a settled row, so it serves no pending one.
LEMMA ResolvePeriodStep ==
  ASSUME IInv, NEW w \in Workers, ResolvePeriod(w)
  PROVE  IInv'
  <1> DEFINE r == requests[w]
  <1>1. /\ r.pc = "resolve" /\ r \in Request /\ Fits(r) /\ r.o \in DOMAIN ops
        /\ r.chosen # Null /\ rows[r.o].status \in {"conflict", "applied", "escalated"}
    BY Served DEF ResolvePeriod, Fits, Resolving
  <1>2. online' \in Nat /\ failures' \in Nat /\ archivals' \in Nat
    BY DEF ResolvePeriod, counts, IInv, TypeOK
  <1>3. "escalate" \in PC /\ "apply" \in PC /\ 0 \in Nat
    BY DEF PC
  <1>4. CASE period = "closed"
    <2>1. PICK n \in Request :
            /\ n = Leaves(r, "escalate", 0)
            /\ n.pc = "escalate" /\ n.o = r.o /\ n.chosen = Null /\ n.todo = {}
      BY <1>1, <1>3, LeavesLoop
    <2>2. Fits(n) /\ MayCommit(n) /\ Done(n)
      BY <1>1, <2>1 DEF Fits, MayCommit, Done, InLoop, Escalating, Resolving
    <2>3. QED
      BY <1>1, <1>2, <1>4, <2>1, <2>2, RequestMoves DEF ResolvePeriod
  <1>5. CASE period # "closed"
    <2>1. PICK n \in Request :
            /\ n = [r EXCEPT !.pc = "apply"]
            /\ n.pc = "apply" /\ n.o = r.o /\ n.chosen = r.chosen /\ n.todo = r.todo
      BY <1>1, <1>3, GoesOn
    <2>2. Becomes(w, n)
      BY <1>5, <2>1 DEF ResolvePeriod, Goes, Becomes, IInv, TypeOK
    <2>3. Fits(n) /\ MayCommit(n) /\ Done(n)
      BY <1>1, <2>1 DEF Fits, MayCommit, Done, InLoop, Escalating, Resolving
    <2>4. ~Serves(n)
      BY <1>1, <2>1 DEF Serves, InLoop, Escalating
    <2>5. QED
      BY <1>2, <2>2, <2>3, <2>4, RequestMoves DEF ResolvePeriod
  <1>6. QED
    BY <1>4, <1>5

\* An upload has nothing recorded when it starts.
LEMMA PhotoLookupStep ==
  ASSUME IInv, NEW w \in Workers, NEW o \in OpId, PhotoLookup(w, o)
  PROVE  IInv'
  <1>1. PICK n \in Request :
          /\ n = [IdleRequest EXCEPT !.pc = "photoCreate", !.o = o]
          /\ n.pc = "photoCreate" /\ n.o = o /\ n.chosen = Null /\ n.todo = {}
    BY UploadTyped
  <1>2. Fits(n) /\ MayCommit(n) /\ Done(n) /\ ~Serves(n)
    BY <1>1 DEF PhotoLookup, Fits, MayCommit, Done, Serves, InLoop, Escalating, Resolving
  <1>3. online' \in Nat /\ failures' \in Nat /\ archivals' \in Nat
    BY DEF PhotoLookup, counts, IInv, TypeOK
  <1>4. QED
    BY <1>1, <1>2, <1>3, RequestMoves DEF PhotoLookup

\* The photo has landed before its row is inserted.
LEMMA PhotoCreateStep ==
  ASSUME IInv, NEW w \in Workers, PhotoCreate(w)
  PROVE  IInv'
  <1> DEFINE r == requests[w]
  <1>1. /\ r.pc = "photoCreate" /\ r \in Request /\ Fits(r) /\ r.o \in OpId
        /\ r.o \in DOMAIN ops /\ ops[r.o] \in Op
    BY Served, OpsTyped DEF PhotoCreate, IInv
  <1>2. PICK n \in Request :
          /\ n = [r EXCEPT !.pc = "photoRow"]
          /\ n.pc = "photoRow" /\ n.o = r.o /\ n.chosen = r.chosen /\ n.todo = r.todo
    <2>1. "photoRow" \in PC
      BY DEF PC
    <2>2. QED
      BY <1>1, <2>1, GoesOn
  <1>3. Becomes(w, n)
    BY <1>2 DEF PhotoCreate, Goes, Becomes, IInv, TypeOK
  <1>4. Fits(n) /\ MayCommit(n) /\ Done(n)' /\ ~Serves(n)
    BY <1>1, <1>2
       DEF PhotoCreate, Serves, Fits, MayCommit, Done, InLoop, Escalating, Resolving
  <1>5. /\ photos' \subseteq Items /\ landed \subseteq landed' /\ landed' \subseteq OpId
        /\ flagged' = flagged /\ flagged' \subseteq OpId /\ told' \subseteq OpId
        /\ online' \in Nat /\ failures' \in Nat /\ archivals' \in Nat
    BY <1>1 DEF PhotoCreate, counts, IInv, TypeOK, Op
  <1>6. QED
    BY <1>3, <1>4, <1>5, RequestRecords DEF PhotoCreate

\* The photo's row is inserted where there is none, and nobody is at work on it.
LEMMA PhotoRowStep ==
  ASSUME IInv, NEW w \in Workers, PhotoRow(w)
  PROVE  IInv'
  <1> DEFINE r == requests[w]
  <1>1. r.pc = "photoRow" /\ r \in Request /\ r.o \in OpId /\ r.o \in landed
    BY Served DEF PhotoRow, Done
  <1>2. PICK n \in Request :
          n = IdleRequest /\ n.pc = "idle" /\ n.chosen = Null /\ n.todo = {}
    BY IdleBetween
  <1>3. Becomes(w, n)
    BY <1>2 DEF PhotoRow, Ends
  <1>4. CASE rows[r.o].status = "none"
    <2>1. PICK o \in OpId : o = r.o
      BY <1>1
    <2>2. SetRow(o, "applied", 0) /\ [status |-> "applied", server |-> 0] \in Row
      BY <1>4, <2>1 DEF PhotoRow, Row
    <2>3. ASSUME NEW u \in Workers, u # w, requests[u].o = o
          PROVE  ~InLoop(requests[u]) /\ ~Escalating(requests[u]) /\ ~Resolving(requests[u])
      BY <1>4, <2>1, <2>3, Served DEF Fits
    <2>4. Fits(n)' /\ MayCommit(n) /\ Done(n) /\ ~Serves(n) /\ told' \subseteq OpId
      BY <1>2 DEF PhotoRow, Fits, MayCommit, Done, Serves, InLoop, Escalating,
                  Resolving, IInv, TypeOK
    <2>5. QED
      BY <1>1, <1>3, <2>1, <2>2, <2>3, <2>4, RowMoves DEF PhotoRow
  <1>5. CASE rows[r.o].status # "none"
    <2>1. online' \in Nat /\ failures' \in Nat /\ archivals' \in Nat
      BY DEF PhotoRow, counts, IInv, TypeOK
    <2>2. QED
      BY <1>2, <1>3, <1>5, <2>1, Between DEF PhotoRow
  <1>6. QED
    BY <1>4, <1>5

\* Whatever a request leaves behind when it dies, the others still fit.
LEMMA FailsStep ==
  ASSUME IInv, NEW w \in Workers, Fails(w)
  PROVE  IInv'
  <1>1. PICK n \in Request :
          n = IdleRequest /\ n.pc = "idle" /\ n.chosen = Null /\ n.todo = {}
    BY IdleBetween
  <1>2. online' \in Nat /\ failures' \in Nat /\ archivals' \in Nat
    BY DEF Fails, IInv, TypeOK
  <1>3. QED
    BY <1>1, <1>2, Between DEF Fails, Ends
-----------------------------------------------------------------------------
\* The steps of the archival, the device and the users online

\* The archival leaves the rows that requests work on, and forgets what landed
\* under a row only with the row.
LEMMA ArchiveStep ==
  ASSUME IInv, Archive
  PROVE  IInv'
  <1> USE DEF IInv
  <1>1. PICK S \in SUBSET OpId : Delete(S)
    BY DEF Archive
  <1>2. /\ rows' = [o \in OpId |-> IF o \in S THEN NoRow ELSE rows[o]]
        /\ \A w \in Workers : requests[w].o \notin S
        /\ landed' = landed \ S /\ told' = told \ S /\ archivals' = archivals + 1
        /\ UNCHANGED <<period, facts, photos, ops, changes, flagged, requests,
                       online, failures>>
    BY <1>1 DEF Delete
  <1>3. TypeOK'
    BY <1>2 DEF TypeOK, Row, NoRow
  <1>4. ASSUME NEW w \in Workers
        PROVE  Fits(requests[w])' /\ Done(requests[w])'
    <2>1. Fits(requests[w]) /\ Done(requests[w]) /\ requests[w] \in Request
      BY Served
    <2>2. requests[w].pc \notin {"idle", "lookup"} =>
            /\ requests[w].o \in OpId /\ rows'[requests[w].o] = rows[requests[w].o]
            /\ requests[w].o \notin S
      BY <1>2, Served
    <2>3. QED
      BY <1>2, <2>1, <2>2 DEF Fits, Done, InLoop, Escalating, Resolving
  <1>5. RequestsFit' /\ DoneBeforeRecorded'
    BY <1>4 DEF RequestsFit, DoneBeforeRecorded
  <1>6. OneServes'
    <2> SUFFICES ASSUME NEW u \in Workers, NEW w \in Workers, u # w,
                        requests[u].o = requests[w].o,
                        Serves(requests[u]), Serves(requests[w])
                 PROVE  rows'[requests[u].o].status # "pending"
      BY <1>2 DEF OneServes, Serves, InLoop, Escalating
    <2>1. requests[u].o \in OpId /\ rows'[requests[u].o] = rows[requests[u].o]
      BY <1>2, Served DEF Serves, InLoop, Escalating
    <2>2. QED
      BY <2>1 DEF OneServes
  <1>7. CommitsAllowed' /\ EarlyUntouched' /\ VersionLeftBehind' /\ EffectOnce'
    BY <1>2 DEF CommitsAllowed, MayCommit, EarlyUntouched, VersionLeftBehind, EffectOnce
  <1>8. AppliedHasEffect' /\ EscalatedIsFlagged'
    BY <1>2 DEF AppliedHasEffect, EscalatedIsFlagged, NoRow
  <1>9. QED
    BY <1>3, <1>5, <1>6, <1>7, <1>8

\* An operation made leaves those before it as they were.
LEMMA EditStep ==
  ASSUME IInv, Edit
  PROVE  IInv'
  <1> USE DEF IInv
  <1>1. PICK plan \in Plans :
          /\ Len(ops) + 1 \in DOMAIN plan
          /\ ops' = Append(ops, [kind |-> plan[Len(ops) + 1].kind,
                                 item |-> plan[Len(ops) + 1].item,
                                 vol |-> plan[Len(ops) + 1].vol,
                                 known |-> facts[plan[Len(ops) + 1].item].version])
    BY DEF Edit
  <1> DEFINE d == plan[Len(ops) + 1]
             op == [kind |-> d.kind, item |-> d.item, vol |-> d.vol,
                    known |-> facts[d.item].version]
  <1>2. plan \in Seq(Draft) /\ Len(plan) <= MaxOps /\ MaxOps \in Nat
    BY SyncAssumption
  <1>3. ops \in Seq(Op) /\ Len(ops) \in Nat
    BY DEF TypeOK
  <1>4. d \in Draft /\ Len(ops) + 1 <= MaxOps
    BY <1>1, <1>2, <1>3
  <1>5. op \in Op
    <2>1. d.kind \in Kind /\ d.item \in Items /\ d.vol \in Vols
      BY <1>4 DEF Draft
    <2>2. facts[d.item].version \in Nat
      BY <2>1 DEF TypeOK, Fact
    <2>3. QED
      BY <2>1, <2>2 DEF Op
  <1>6. ops' = Append(ops, op)
    BY <1>1
  <1> HIDE DEF op, d
  <1>7. /\ ops' \in Seq(Op) /\ Len(ops') = Len(ops) + 1
        /\ \A o \in DOMAIN ops : o \in DOMAIN ops' /\ ops'[o] = ops[o]
    BY <1>3, <1>5, <1>6
  <1>8. UNCHANGED <<period, facts, photos, rows, landed, changes, flagged, told,
                    requests, counts>>
    BY DEF Edit
  <1>9. TypeOK'
    BY <1>4, <1>7, <1>8 DEF TypeOK, counts
  <1>a. ASSUME NEW w \in Workers
        PROVE  Fits(requests[w])' /\ MayCommit(requests[w])' /\ Done(requests[w])'
    <2>1. /\ Fits(requests[w]) /\ MayCommit(requests[w]) /\ Done(requests[w])
          /\ requests[w].pc \notin {"idle", "lookup"} => requests[w].o \in DOMAIN ops
      BY Served
    <2>2. QED
      BY <1>7, <1>8, <2>1 DEF Fits, MayCommit, Done, InLoop, Escalating, Resolving
  <1>b. RequestsFit' /\ CommitsAllowed' /\ DoneBeforeRecorded'
    BY <1>a DEF RequestsFit, CommitsAllowed, DoneBeforeRecorded
  <1>c. VersionLeftBehind'
    BY <1>7, <1>8 DEF VersionLeftBehind
  <1>d. OneServes' /\ EarlyUntouched' /\ EffectOnce' /\ AppliedHasEffect' /\ EscalatedIsFlagged'
    BY <1>8 DEF OneServes, Serves, InLoop, Escalating, EarlyUntouched, EffectOnce,
                AppliedHasEffect, EscalatedIsFlagged
  <1>e. QED
    BY <1>9, <1>b, <1>c, <1>d

\* Until the period accepts facts no operation has written and none is about to.
LEMMA AcceptStep ==
  ASSUME IInv, Accept
  PROVE  IInv'
  <1> USE DEF IInv
  <1>0. NoFact \in Fact /\ [NoFact EXCEPT !.version = 1] \in Fact
    BY DEF NoFact, Fact, MaybeVol
  <1>1. /\ period = "early" /\ period' = "accepting" /\ facts' \in [Items -> Fact]
        /\ UNCHANGED <<photos, ops, rows, landed, changes, flagged, told, requests, counts>>
    BY <1>0 DEF Accept
  <1>2. \A o \in OpId : changes[o] = 0
    <2>1. ASSUME NEW o \in OpId, changes[o] # 0 PROVE FALSE
      <3>1. o \in DOMAIN ops /\ facts[ops[o].item].version > ops[o].known
        BY <2>1 DEF VersionLeftBehind
      <3>2. ops[o] \in Op
        BY <3>1, OpsTyped
      <3>3. facts[ops[o].item].version = 0 /\ ops[o].known \in Nat
        BY <1>1, <3>2 DEF EarlyUntouched, Op
      <3>4. QED
        BY <3>1, <3>3
    <2>2. QED
      BY <2>1
  <1>3. \A w \in Workers : requests[w].pc # "commit"
    BY <1>1 DEF CommitsAllowed, MayCommit
  <1>4. TypeOK'
    BY <1>1 DEF TypeOK, counts
  <1>5. CommitsAllowed' /\ EarlyUntouched' /\ VersionLeftBehind'
    BY <1>1, <1>2, <1>3 DEF CommitsAllowed, MayCommit, EarlyUntouched, VersionLeftBehind
  <1>6. RequestsFit' /\ DoneBeforeRecorded' /\ OneServes' /\ EffectOnce'
        /\ AppliedHasEffect' /\ EscalatedIsFlagged'
    BY <1>1 DEF RequestsFit, Fits, DoneBeforeRecorded, Done, OneServes, EffectOnce,
                AppliedHasEffect, EscalatedIsFlagged, Serves, InLoop, Escalating, Resolving
  <1>7. QED
    BY <1>4, <1>5, <1>6

\* A close leaves requests past their checks where they are.
LEMMA CloseStep ==
  ASSUME IInv, Close
  PROVE  IInv'
  <1> USE DEF IInv, Close
  <1>1. TypeOK'
    BY DEF TypeOK, counts
  <1>2. CommitsAllowed' /\ EarlyUntouched' /\ VersionLeftBehind'
    BY DEF CommitsAllowed, MayCommit, EarlyUntouched, VersionLeftBehind
  <1>3. RequestsFit' /\ DoneBeforeRecorded' /\ OneServes' /\ EffectOnce'
        /\ AppliedHasEffect' /\ EscalatedIsFlagged'
    BY DEF RequestsFit, Fits, DoneBeforeRecorded, Done, OneServes, EffectOnce,
           AppliedHasEffect, EscalatedIsFlagged, Serves, InLoop, Escalating, Resolving
  <1>4. QED
    BY <1>1, <1>2, <1>3

\* Somebody else's entry moves a version on.
LEMMA OnlineEntryStep ==
  ASSUME IInv, OnlineEntry
  PROVE  IInv'
  <1>1. PICK i \in Items, v \in Vols : facts' = [facts EXCEPT ![i] = Written(@, v)]
    BY DEF OnlineEntry
  <1>2. facts \in [Items -> Fact]
    BY DEF IInv, TypeOK
  <1>3. facts[i] \in Fact
    BY <1>2
  <1>4. Written(facts[i], v) \in Fact /\ Written(facts[i], v).version >= facts[i].version
    BY <1>3, WrittenFact
  <1>5. facts' \in [Items -> Fact] /\ \A j \in Items : facts'[j].version >= facts[j].version
    <2>1. facts' \in [Items -> Fact] /\ facts'[i] = Written(facts[i], v)
          /\ \A j \in Items : j # i => facts'[j] = facts[j]
      BY <1>1, <1>2, <1>4
    <2>2. \A j \in Items : facts[j].version \in Nat
      BY <1>2 DEF Fact
    <2>3. QED
      BY <1>4, <2>1, <2>2
  <1>6. online' \in Nat /\ failures' \in Nat /\ archivals' \in Nat
    BY DEF OnlineEntry, IInv, TypeOK
  <1>7. QED
    BY <1>5, <1>6, FactsMove DEF OnlineEntry

\* So does a dispute.
LEMMA OnlineDisputeStep ==
  ASSUME IInv, OnlineDispute
  PROVE  IInv'
  <1>1. PICK i \in Items :
          facts' = [facts EXCEPT ![i] =
                      [version |-> @.version + 1, sc |-> @.sc, retyped |-> TRUE]]
    BY DEF OnlineDispute
  <1>2. facts \in [Items -> Fact]
    BY DEF IInv, TypeOK
  <1>3. facts' \in [Items -> Fact] /\ \A j \in Items : facts'[j].version >= facts[j].version
    <2> DEFINE g == [version |-> facts[i].version + 1, sc |-> facts[i].sc, retyped |-> TRUE]
    <2>1. facts[i] \in Fact /\ \A j \in Items : facts[j].version \in Nat
      BY <1>2 DEF Fact
    <2>2. g \in Fact /\ g.version = facts[i].version + 1
      BY <2>1 DEF Fact
    <2>3. facts' = [facts EXCEPT ![i] = g]
      BY <1>1, <1>2
    <2> HIDE DEF g
    <2>4. facts' \in [Items -> Fact] /\ facts'[i] = g
          /\ \A j \in Items : j # i => facts'[j] = facts[j]
      BY <1>2, <2>2, <2>3
    <2>5. ASSUME NEW j \in Items PROVE facts'[j].version >= facts[j].version
      <3>1. CASE j = i
        BY <2>1, <2>2, <2>4, <3>1
      <3>2. CASE j # i
        BY <2>1, <2>4, <3>2
      <3>3. QED
        BY <3>1, <3>2
    <2>6. QED
      BY <2>4, <2>5
  <1>4. online' \in Nat /\ failures' \in Nat /\ archivals' \in Nat
    BY DEF OnlineDispute, IInv, TypeOK
  <1>5. QED
    BY <1>3, <1>4, FactsMove DEF OnlineDispute

\* A photo of another device concerns no request's write.
LEMMA OnlinePhotoStep ==
  ASSUME IInv, OnlinePhoto
  PROVE  IInv'
  <1> USE DEF IInv, OnlinePhoto
  <1>1. TypeOK'
    BY DEF TypeOK
  <1>2. /\ RequestsFit' /\ CommitsAllowed' /\ DoneBeforeRecorded' /\ OneServes'
        /\ EarlyUntouched' /\ VersionLeftBehind' /\ EffectOnce'
        /\ AppliedHasEffect' /\ EscalatedIsFlagged'
    BY DEF RequestsFit, Fits, CommitsAllowed, MayCommit, DoneBeforeRecorded, Done,
           OneServes, Serves, InLoop, Escalating, Resolving, EarlyUntouched,
           VersionLeftBehind, EffectOnce, AppliedHasEffect, EscalatedIsFlagged
  <1>3. QED
    BY <1>1, <1>2

-----------------------------------------------------------------------------
\* The theorems

\* The invariant holds of the queue, the requests and the facts at the start.
LEMMA InitInv == Init => IInv
  <1> SUFFICES ASSUME Init PROVE IInv
    OBVIOUS
  <1> USE DEF Init
  <1>1. TypeOK
    <2>1. ops \in Seq(Op) /\ Len(ops) <= MaxOps
      BY SyncAssumption
    <2>2. QED
      BY <2>1, IdleTyped DEF TypeOK, NoFact, Fact, MaybeVol, NoRow, Row
  <1>2. RequestsFit /\ CommitsAllowed /\ DoneBeforeRecorded /\ OneServes
    BY DEF RequestsFit, Fits, CommitsAllowed, MayCommit, DoneBeforeRecorded, Done,
           OneServes, Serves, InLoop, Escalating, Resolving, IdleRequest
  <1>3. EarlyUntouched /\ VersionLeftBehind /\ EffectOnce /\ AppliedHasEffect
        /\ EscalatedIsFlagged
    BY DEF EarlyUntouched, VersionLeftBehind, EffectOnce, AppliedHasEffect,
           EscalatedIsFlagged, NoFact, NoRow
  <1>4. QED
    BY <1>1, <1>2, <1>3 DEF IInv

\* Every step of every request and of everybody else keeps the invariant.
LEMMA NextInv == IInv /\ [Next]_vars => IInv'
  <1> SUFFICES ASSUME IInv, [Next]_vars PROVE IInv'
    OBVIOUS
  <1>1. ASSUME NEW w \in Workers, RequestStep(w) PROVE IInv'
    BY <1>1, LookupStep, CreateStep, ApplyStep, CommitStep, MarkAppliedStep, RejectStep,
       MarkConflictStep, EscalateReadStep, EscalateFlagStep, EscalateMarkStep,
       EscalateNotifyStep, ResolvePeriodStep, ResolveMarkStep, PhotoCreateStep, PhotoRowStep
       DEF RequestStep
  <1>2. CASE UNCHANGED vars
    BY <1>2 DEF vars, IInv, TypeOK, RequestsFit, Fits, CommitsAllowed, MayCommit,
                DoneBeforeRecorded, Done, OneServes, Serves, InLoop, Escalating,
                Resolving, EarlyUntouched, VersionLeftBehind, EffectOnce,
                AppliedHasEffect, EscalatedIsFlagged
  <1>3. QED
    BY <1>1, <1>2, SendStep, ResolveReadStep, FailsStep, PhotoLookupStep, ArchiveStep,
       EditStep, AcceptStep, CloseStep, OnlineEntryStep, OnlineDisputeStep,
       OnlinePhotoStep
       DEF Next

\* Whatever the device sends again, whatever dies and whatever the archival
\* deletes, the handlers of SyncService keep the inductive invariant.
THEOREM InductiveInvariant == Spec => []IInv
  BY InitInv, NextInv, PTL DEF Spec

\* The rows, the operations and the requests are well formed.
THEOREM TypeCorrect == Spec => []TypeOK
  <1>1. IInv => TypeOK
    BY DEF IInv
  <1>2. QED
    BY <1>1, InductiveInvariant, PTL

\* An operation of a device changes its fact at most once, however often it is
\* sent, also after the archival deleted the row that answered for it.
THEOREM EffectIsOnce == Spec => []EffectOnce
  <1>1. IInv => EffectOnce
    BY DEF IInv
  <1>2. QED
    BY <1>1, InductiveInvariant, PTL

\* No row says applied before the write it stands for has committed.
THEOREM AppliedIsDone == Spec => []AppliedHasEffect
  <1>1. IInv => AppliedHasEffect
    BY DEF IInv
  <1>2. QED
    BY <1>1, InductiveInvariant, PTL

\* No row says escalated over a fact of a closed period without its discrepancy.
THEOREM EscalationIsFlagged == Spec => []EscalatedIsFlagged
  <1>1. IInv => EscalatedIsFlagged
    BY DEF IInv
  <1>2. QED
    BY <1>1, InductiveInvariant, PTL

\* Only a resolution or an escalation moves a row out of conflict: the loop gives up
\* pending rows alone, and the archival leaves conflicts where they are.
THEOREM ConflictsAreKept == Spec => ConflictKept
  <1> DEFINE Kept == \A o \in OpId : rows[o].status = "conflict" =>
                       rows'[o].status \in {"conflict", "applied", "escalated"}
  <1>1. ASSUME IInv, [Next]_vars PROVE Kept
    <2> SUFFICES ASSUME NEW o \in OpId, rows[o].status = "conflict"
                 PROVE  rows'[o].status \in {"conflict", "applied", "escalated"}
      OBVIOUS
    <2>1. CASE UNCHANGED rows
      BY <2>1
    <2>2. ASSUME NEW w \in Workers, NEW s, NEW v, SetRow(requests[w].o, s, v),
                 \/ s \in {"applied", "escalated"}
                 \/ rows[requests[w].o].status \in {"none", "pending"}
          PROVE  rows'[o].status \in {"conflict", "applied", "escalated"}
      BY <1>1, <2>2 DEF SetRow, IInv, TypeOK, Row
    <2>3. ASSUME NEW w \in Workers, RequestStep(w)
          PROVE  rows'[o].status \in {"conflict", "applied", "escalated"}
      <3>1. CASE Create(w)
        BY <2>1, <2>2, <3>1 DEF Create
      <3>2. CASE MarkApplied(w) \/ ResolveMark(w)
        BY <2>2, <3>2 DEF MarkApplied, ResolveMark
      <3>3. CASE Reject(w) \/ MarkConflict(w)
        <4>1. requests[w].pc \in {"reject", "conflict"} /\ Fits(requests[w])
          BY <1>1, <3>3, Served DEF Reject, MarkConflict
        <4>2. rows[requests[w].o].status = "pending"
          BY <4>1 DEF Fits, InLoop, Resolving
        <4>3. QED
          BY <2>2, <3>3, <4>2 DEF Reject, MarkConflict
      <3>4. CASE EscalateMark(w)
        BY <2>2, <3>4 DEF EscalateMark
      <3>5. CASE PhotoRow(w)
        BY <2>1, <2>2, <3>5 DEF PhotoRow
      <3>6. QED
        BY <2>1, <2>3, <3>1, <3>2, <3>3, <3>4, <3>5
           DEF RequestStep, Lookup, Apply, Commit, EscalateRead, EscalateFlag,
               EscalateNotify, ResolvePeriod, PhotoCreate
    <2>4. CASE Archive
      <3>1. PICK old \in SUBSET OpId :
              Delete({p \in old : rows[p].status \in {"applied", "rejected", "escalated"}})
        BY <2>4 DEF Archive
      <3>2. rows'[o] = rows[o]
        BY <3>1 DEF Delete
      <3>3. QED
        BY <3>2
    <2>5. QED
      BY <1>1, <2>1, <2>3, <2>4
         DEF Next, vars, Send, ResolveRead, Fails, PhotoLookup, Edit, Accept, Close,
             OnlineEntry, OnlineDispute, OnlinePhoto
  <1>2. IInv /\ [Next]_vars => [Kept]_vars
    BY <1>1
  <1>3. QED
    BY <1>2, InductiveInvariant, PTL DEF Spec, ConflictKept

-----------------------------------------------------------------------------
\* What strands an operation.  A request may look up a row that another one
\* has dropped, and keep it from being stranded only for as long as it looks:
\* the operations to count are those that no request carries to their end.

Carries(r) == InLoop(r) \/ r.pc \in {"escalate", "flag", "escalated"}

Dropped ==
  {o \in OpId :
     \/ /\ rows[o].status = "pending"
        /\ \A w \in Workers : requests[w].o = o => ~Carries(requests[w])
     \/ /\ rows[o].status = "escalated" /\ o \notin told
        /\ \A w \in Workers : requests[w].o = o => requests[w].pc # "notify"}

\* A request goes on and no row changes.
LEMMA CarriedOn ==
  ASSUME IInv, NEW w \in Workers, NEW n, Becomes(w, n), rows' = rows,
         Carries(requests[w]) => Carries(n) /\ n.o = requests[w].o,
         told \subseteq told', requests[w].pc = "notify" => requests[w].o \in told'
  PROVE  Dropped' \subseteq Dropped
  <1>1. requests'[w] = n /\ \A u \in Workers : u # w => requests'[u] = requests[u]
    BY DEF Becomes, IInv, TypeOK
  <1>2. SUFFICES ASSUME NEW o \in OpId, o \in Dropped' PROVE o \in Dropped
    BY DEF Dropped
  <1>3. CASE /\ rows[o].status = "pending"
             /\ \A u \in Workers : requests'[u].o = o => ~Carries(requests'[u])
    <2>1. \A u \in Workers : requests[u].o = o => ~Carries(requests[u])
      BY <1>1, <1>3
    <2>2. QED
      BY <1>3, <2>1 DEF Dropped
  <1>4. CASE /\ rows[o].status = "escalated" /\ o \notin told'
             /\ \A u \in Workers : requests'[u].o = o => requests'[u].pc # "notify"
    <2>1. \A u \in Workers : requests[u].o = o => requests[u].pc # "notify"
      BY <1>1, <1>4
    <2>2. QED
      BY <1>4, <2>1 DEF Dropped
  <1>5. \/ /\ rows[o].status = "pending"
           /\ \A u \in Workers : requests'[u].o = o => ~Carries(requests'[u])
        \/ /\ rows[o].status = "escalated" /\ o \notin told'
           /\ \A u \in Workers : requests'[u].o = o => requests'[u].pc # "notify"
    BY <1>2 DEF Dropped, Carries, InLoop
  <1>6. QED
    BY <1>3, <1>4, <1>5

\* A request updates the row of its operation.
LEMMA RowCarried ==
  ASSUME IInv, NEW w \in Workers, NEW n, Becomes(w, n), NEW s, NEW v,
         SetRow(requests[w].o, s, v), requests[w].o \in OpId, told' = told,
         s = "pending" => Carries(n) /\ n.o = requests[w].o,
         s = "escalated" => n.pc = "notify" /\ n.o = requests[w].o
  PROVE  Dropped' \subseteq Dropped
  <1>1. requests'[w] = n /\ \A u \in Workers : u # w => requests'[u] = requests[u]
    BY DEF Becomes, IInv, TypeOK
  <1>2. /\ rows'[requests[w].o].status = s
        /\ \A o \in OpId : o # requests[w].o => rows'[o] = rows[o]
    BY DEF SetRow, IInv, TypeOK, Row
  <1>3. SUFFICES ASSUME NEW o \in OpId, o \in Dropped' PROVE o \in Dropped
    BY DEF Dropped
  <1>4. \/ /\ rows'[o].status = "pending"
           /\ \A u \in Workers : requests'[u].o = o => ~Carries(requests'[u])
        \/ /\ rows'[o].status = "escalated" /\ o \notin told
           /\ \A u \in Workers : requests'[u].o = o => requests'[u].pc # "notify"
    BY <1>3 DEF Dropped, Carries, InLoop
  <1>5. o # requests[w].o /\ rows'[o] = rows[o]
    BY <1>1, <1>2, <1>4
  <1>6. CASE /\ rows[o].status = "pending"
             /\ \A u \in Workers : requests'[u].o = o => ~Carries(requests'[u])
    <2>1. \A u \in Workers : requests[u].o = o => ~Carries(requests[u])
      BY <1>1, <1>5, <1>6
    <2>2. QED
      BY <1>6, <2>1 DEF Dropped
  <1>7. CASE /\ rows[o].status = "escalated" /\ o \notin told
             /\ \A u \in Workers : requests'[u].o = o => requests'[u].pc # "notify"
    <2>1. \A u \in Workers : requests[u].o = o => requests[u].pc # "notify"
      BY <1>1, <1>5, <1>7
    <2>2. QED
      BY <1>7, <2>1 DEF Dropped
  <1>8. QED
    BY <1>4, <1>5, <1>6, <1>7

\* The records a request can become
LEMMA NextPlaces ==
  ASSUME NEW r \in Request, NEW pc, NEW v
  PROVE  /\ IdleRequest.pc = "idle"
         /\ [r EXCEPT !.pc = pc].pc = pc /\ [r EXCEPT !.pc = pc].o = r.o
         /\ [r EXCEPT !.pc = pc].chosen = r.chosen
         /\ Leaves(r, pc, v).pc = pc /\ Leaves(r, pc, v).o = r.o /\ Leaves(r, pc, v).chosen = Null
  BY DEF Request, IdleRequest, Leaves

\* A step of a request drops nothing.
LEMMA ServedDropsNothing ==
  ASSUME IInv, NEW w \in Workers, RequestStep(w)
  PROVE  Dropped' \subseteq Dropped
  <1> DEFINE r == requests[w]
  <1>0. r \in Request /\ Fits(r) /\ (r.pc \notin {"idle", "lookup"} => r.o \in OpId)
        /\ requests \in [Workers -> Request]
    BY Served DEF IInv, TypeOK
  <1>1. \A pc : Goes(w, pc) => Becomes(w, [r EXCEPT !.pc = pc])
    BY <1>0 DEF Goes, Becomes
  <1>2. \A s, v : s \notin {"pending", "escalated"} /\ SetRow(r.o, s, v) /\ r.o \in OpId /\ told' = told
          => \A n : Becomes(w, n) => Dropped' \subseteq Dropped
    BY RowCarried
  <1>3. CASE Lookup(w)
    <2>1. PICK n : Becomes(w, n)
      BY <1>3 DEF Lookup
    <2>2. ~Carries(r) /\ r.pc # "notify" /\ rows' = rows /\ told' = told
      BY <1>3 DEF Lookup, Carries, InLoop
    <2>3. QED
      BY <2>1, <2>2, CarriedOn
  <1>4. CASE Create(w)
    <2>0. ~Carries(r) /\ r.pc # "notify" /\ told' = told /\ r.o \in OpId
      BY <1>0, <1>4 DEF Create, Carries, InLoop
    <2>1. CASE rows[r.o].status = "none"
      <3>1. PICK pc \in {"reject", "apply"} : Becomes(w, [r EXCEPT !.pc = pc])
        BY <1>1, <1>4, <2>1 DEF Create
      <3>2. r.chosen = Null
        BY <1>0, <1>4 DEF Create, Fits, Resolving
      <3>3. Carries([r EXCEPT !.pc = pc]) /\ [r EXCEPT !.pc = pc].o = r.o
        BY <1>0, <3>2, NextPlaces DEF Carries, InLoop
      <3>4. SetRow(r.o, "pending", 0)
        BY <1>4, <2>1 DEF Create
      <3>5. QED
        BY <2>0, <3>1, <3>3, <3>4, RowCarried
    <2>2. CASE rows[r.o].status # "none"
      BY <1>4, <2>0, <2>2, CarriedOn DEF Create, Ends
    <2>3. QED
      BY <2>1, <2>2
  <1>5. CASE Apply(w)
    <2>0. rows' = rows /\ told' = told /\ r.pc # "notify"
      BY <1>5 DEF Apply
    <2>1. CASE r.chosen # Null
      <3>1. PICK n : Becomes(w, n)
        BY <1>5, <2>1 DEF Apply
      <3>2. ~Carries(r)
        BY <1>5, <2>1 DEF Apply, Carries, InLoop
      <3>3. QED
        BY <2>0, <3>1, <3>2, CarriedOn
    <2>2. CASE r.chosen = Null
      <3>1. PICK n, pc, v :
              /\ Becomes(w, n) /\ pc \in {"escalate", "reject", "conflict", "commit"}
              /\ n = Leaves(r, pc, v) \/ n = [r EXCEPT !.pc = pc]
        BY <1>5, <2>2 DEF Apply
      <3>2. n.pc = pc /\ n.o = r.o /\ n.chosen = Null
        <4>1. CASE n = Leaves(r, pc, v)
          BY <4>1, <1>0, NextPlaces
        <4>2. CASE n = [r EXCEPT !.pc = pc]
          BY <4>2, <1>0, <2>2, NextPlaces
        <4>3. QED
          BY <3>1, <4>1, <4>2
      <3>4. Carries(n) /\ n.o = r.o
        BY <3>1, <3>2 DEF Carries, InLoop
      <3>3. QED
        BY <2>0, <3>1, <3>4, CarriedOn
    <2>3. QED
      BY <2>1, <2>2
  <1>6. CASE Commit(w)
    <2>1. Becomes(w, [r EXCEPT !.pc = "applied"]) /\ rows' = rows /\ told' = told /\ r.pc = "commit"
      BY <1>1, <1>6 DEF Commit
    <2>2. Carries(r) => Carries([r EXCEPT !.pc = "applied"]) /\ [r EXCEPT !.pc = "applied"].o = r.o
      BY <1>0, <2>1, NextPlaces DEF Carries, InLoop
    <2>3. QED
      BY <2>1, <2>2, CarriedOn
  <1>7. CASE MarkApplied(w) \/ ResolveMark(w) \/ Reject(w) \/ MarkConflict(w)
    BY <1>0, <1>2, <1>7 DEF MarkApplied, ResolveMark, Reject, MarkConflict, Ends
  <1>8. CASE EscalateRead(w)
    <2>1. PICK pc, v : pc \in {"escalated", "flag"} /\ Becomes(w, Leaves(r, pc, v))
      BY <1>8 DEF EscalateRead
    <2>2. Carries(Leaves(r, pc, v)) /\ Leaves(r, pc, v).o = r.o
      BY <1>0, <2>1, NextPlaces DEF Carries
    <2>3. r.pc # "notify" /\ rows' = rows /\ told' = told
      BY <1>8 DEF EscalateRead
    <2>4. QED
      BY <2>1, <2>2, <2>3, CarriedOn
  <1>9. CASE EscalateFlag(w)
    <2>1. Becomes(w, [r EXCEPT !.pc = "escalated"]) /\ rows' = rows /\ told' = told /\ r.pc = "flag"
      BY <1>1, <1>9 DEF EscalateFlag
    <2>2. Carries([r EXCEPT !.pc = "escalated"]) /\ [r EXCEPT !.pc = "escalated"].o = r.o
      BY <1>0, NextPlaces DEF Carries
    <2>3. QED
      BY <2>1, <2>2, CarriedOn
  <1>10. CASE EscalateMark(w)
    <2>1. /\ Becomes(w, Leaves(r, "notify", 0)) /\ SetRow(r.o, "escalated", r.seen)
          /\ r.o \in OpId /\ told' = told
      BY <1>0, <1>10 DEF EscalateMark
    <2>2. Leaves(r, "notify", 0).pc = "notify" /\ Leaves(r, "notify", 0).o = r.o
      BY <1>0, NextPlaces
    <2>3. QED
      BY <2>1, <2>2, RowCarried
  <1>11. CASE EscalateNotify(w)
    <2>1. Becomes(w, IdleRequest) /\ rows' = rows /\ told' = told \cup {r.o} /\ ~Carries(r)
      BY <1>11 DEF EscalateNotify, Ends, Carries, InLoop
    <2>2. QED
      BY <2>1, CarriedOn
  <1>12. CASE ResolvePeriod(w)
    <2>1. PICK n : Becomes(w, n)
      BY <1>1, <1>12 DEF ResolvePeriod
    <2>2. ~Carries(r) /\ r.pc # "notify" /\ rows' = rows /\ told' = told
      BY <1>12 DEF ResolvePeriod, Carries, InLoop
    <2>3. QED
      BY <2>1, <2>2, CarriedOn
  <1>13. CASE PhotoCreate(w)
    <2>1. Becomes(w, [r EXCEPT !.pc = "photoRow"]) /\ rows' = rows /\ told' = told
          /\ r.pc = "photoCreate" /\ ~Carries(r)
      BY <1>1, <1>13 DEF PhotoCreate, Carries, InLoop
    <2>2. QED
      BY <2>1, CarriedOn
  <1>14. CASE PhotoRow(w)
    <2>1. Becomes(w, IdleRequest) /\ told' = told /\ ~Carries(r) /\ r.pc # "notify" /\ r.o \in OpId
      BY <1>0, <1>14 DEF PhotoRow, Ends, Carries, InLoop
    <2>2. CASE rows' = rows
      BY <2>1, <2>2, CarriedOn
    <2>3. CASE SetRow(r.o, "applied", 0)
      BY <1>2, <2>1, <2>3
    <2>4. QED
      BY <1>14, <2>2, <2>3 DEF PhotoRow
  <1>15. QED
    BY <1>3, <1>4, <1>5, <1>6, <1>7, <1>8, <1>9, <1>10, <1>11, <1>12, <1>13, <1>14
       DEF RequestStep

\* A failure drops the operation of the request that dies at most.
LEMMA FailureDropsOne ==
  ASSUME IInv, NEW w \in Workers, Fails(w)
  PROVE  failures' = failures + 1 /\ Dropped' \subseteq Dropped \cup {requests[w].o}
  <1>1. /\ failures' = failures + 1 /\ rows' = rows /\ told' = told
        /\ \A u \in Workers : u # w => requests'[u] = requests[u]
    BY DEF Fails, Ends, Becomes, IInv, TypeOK
  <1>2. SUFFICES ASSUME NEW o \in OpId, o \in Dropped', o # requests[w].o PROVE o \in Dropped
    BY <1>1 DEF Dropped
  <1>3. \/ /\ rows[o].status = "pending"
           /\ \A u \in Workers : requests'[u].o = o => ~Carries(requests'[u])
        \/ /\ rows[o].status = "escalated" /\ o \notin told
           /\ \A u \in Workers : requests'[u].o = o => requests'[u].pc # "notify"
    BY <1>1, <1>2 DEF Dropped, Carries, InLoop
  <1>4. CASE /\ rows[o].status = "pending"
             /\ \A u \in Workers : requests'[u].o = o => ~Carries(requests'[u])
    <2>1. \A u \in Workers : requests[u].o = o => ~Carries(requests[u])
      BY <1>1, <1>2, <1>4
    <2>2. QED
      BY <1>4, <2>1 DEF Dropped
  <1>5. CASE /\ rows[o].status = "escalated" /\ o \notin told
             /\ \A u \in Workers : requests'[u].o = o => requests'[u].pc # "notify"
    <2>1. \A u \in Workers : requests[u].o = o => requests[u].pc # "notify"
      BY <1>1, <1>2, <1>5
    <2>2. QED
      BY <1>5, <2>1 DEF Dropped
  <1>6. QED
    BY <1>3, <1>4, <1>5

\* Nothing else does: the archival deletes settled rows with their notification,
\* and an idle worker carries nothing.
LEMMA OnlyFailuresDrop ==
  ASSUME IInv, [Next]_vars
  PROVE  \/ failures' = failures /\ Dropped' \subseteq Dropped
         \/ \E w \in Workers :
              failures' = failures + 1 /\ Dropped' \subseteq Dropped \cup {requests[w].o}
  <1>1. ASSUME NEW w \in Workers, RequestStep(w) PROVE failures' = failures
    BY <1>1 DEF RequestStep, Lookup, Create, Apply, Commit, MarkApplied, Reject, MarkConflict,
         EscalateRead, EscalateFlag, EscalateMark, EscalateNotify, ResolvePeriod, ResolveMark,
         PhotoCreate, PhotoRow, counts
  <1>2. ASSUME NEW w \in Workers, Send(w) \/ ResolveRead(w) \/ \E o \in OpId : PhotoLookup(w, o)
        PROVE  failures' = failures /\ Dropped' \subseteq Dropped
    <2>1. PICK n : Becomes(w, n)
      BY <1>2 DEF Send, ResolveRead, PhotoLookup
    <2>2. /\ requests[w].pc = "idle" /\ failures' = failures
          /\ rows' = rows /\ told' = told
      BY <1>2 DEF Send, ResolveRead, PhotoLookup, counts
    <2>3. ~Carries(requests[w])
      BY <2>2 DEF Carries, InLoop
    <2>4. QED
      BY <2>1, <2>2, <2>3, CarriedOn
  <1>3. CASE Archive
    <2>1. PICK S : /\ failures' = failures /\ requests' = requests /\ told' = told \ S
                   /\ rows' = [o \in OpId |-> IF o \in S THEN NoRow ELSE rows[o]]
      BY <1>3 DEF Archive, Delete
    <2>2. ASSUME NEW o \in OpId, o \in Dropped' PROVE o \in Dropped
      <3>1. o \notin S /\ rows'[o] = rows[o]
        BY <2>1, <2>2 DEF Dropped, NoRow
      <3>2. QED
        BY <2>1, <2>2, <3>1 DEF Dropped, Carries, InLoop
    <2>3. QED
      BY <2>1, <2>2 DEF Dropped
  <1>4. CASE \/ Edit \/ Accept \/ Close \/ OnlineEntry \/ OnlineDispute \/ OnlinePhoto
             \/ UNCHANGED vars
    <2>1. /\ failures' = failures /\ requests' = requests /\ told' = told /\ rows' = rows
      BY <1>4 DEF Edit, Accept, Close, OnlineEntry, OnlineDispute, OnlinePhoto, vars, counts
    <2>2. QED
      BY <2>1 DEF Dropped, Carries, InLoop
  <1>5. QED
    BY <1>1, <1>2, <1>3, <1>4, ServedDropsNothing, FailureDropsOne DEF Next

\* The operations are finitely many.
LEMMA DroppedFinite ==
  /\ IsFiniteSet(Dropped) /\ Cardinality(Dropped) \in Nat
  /\ \A S \in SUBSET OpId : IsFiniteSet(S) /\ Cardinality(S) \in Nat
  <1>1. IsFiniteSet(OpId)
    BY FS_Interval, SyncAssumption DEF OpId
  <1>2. \A S \in SUBSET OpId : IsFiniteSet(S) /\ Cardinality(S) \in Nat
    BY <1>1, FS_Subset, FS_CardinalityType
  <1>3. QED
    BY <1>2 DEF Dropped

Counted == Cardinality(Dropped) <= failures

LEMMA CountedStep ==
  ASSUME IInv, [Next]_vars, Counted
  PROVE  Counted'
  <1> DEFINE D == Dropped
  <1>0. PICK E : E = Dropped'
    OBVIOUS
  <1>1. E \subseteq OpId /\ D \subseteq OpId /\ IsFiniteSet(D) /\ IsFiniteSet(E)
        /\ Cardinality(D) \in Nat /\ Cardinality(E) \in Nat /\ failures \in Nat
    BY <1>0, DroppedFinite DEF Dropped, IInv, TypeOK
  <1>2. CASE failures' = failures /\ Dropped' \subseteq Dropped
    <2>1. Cardinality(E) <= Cardinality(D)
      BY <1>0, <1>1, <1>2, FS_Subset
    <2>2. QED
      BY <1>0, <1>1, <1>2, <2>1 DEF Counted
  <1>3. ASSUME NEW w \in Workers,
               failures' = failures + 1, Dropped' \subseteq Dropped \cup {requests[w].o}
        PROVE  Counted'
    <2>1. PICK x : x = requests[w].o
      OBVIOUS
    <2>2. IsFiniteSet(D \cup {x}) /\ Cardinality(D \cup {x}) <= Cardinality(D) + 1
          /\ Cardinality(D \cup {x}) \in Nat
      <3>1. Cardinality(D \cup {x}) = IF x \in D THEN Cardinality(D) ELSE Cardinality(D) + 1
        BY <1>1, FS_AddElement
      <3>2. IsFiniteSet(D \cup {x})
        BY <1>1, FS_AddElement
      <3>3. QED
        BY <1>1, <3>1, <3>2
    <2>3. Cardinality(E) <= Cardinality(D \cup {x})
      BY <1>0, <1>3, <2>1, <2>2, FS_Subset
    <2>4. QED
      BY <1>0, <1>1, <1>3, <2>2, <2>3 DEF Counted
  <1>4. QED
    BY <1>2, <1>3, OnlyFailuresDrop

\* What is stranded was dropped.
LEMMA StrandedDropped ==
  ASSUME IInv, Counted
  PROVE  OnlyFailuresStrand
  <1>1. Stranded \subseteq Dropped
    BY DEF Stranded, Dropped
  <1>2. /\ IsFiniteSet(Dropped) /\ Cardinality(Dropped) \in Nat
        /\ Cardinality(Stranded) \in Nat /\ failures \in Nat
    BY DroppedFinite DEF Stranded, IInv, TypeOK
  <1>3. Cardinality(Stranded) <= Cardinality(Dropped)
    BY <1>1, <1>2, FS_Subset
  <1>4. QED
    BY <1>2, <1>3 DEF Counted, OnlyFailuresStrand

\* OnlyFailuresStrand: a request that dies leaves at most its own operation
\* pending, or escalated without the notification; no way through
\* SyncService's handlers that ends, and no archival, leaves another.
THEOREM OnlyFailures == Spec => []OnlyFailuresStrand
  <1>1. Init => Counted
    <2>1. SUFFICES ASSUME Init PROVE Counted
      OBVIOUS
    <2>2. Dropped = {}
      BY <2>1 DEF Init, Dropped, NoRow
    <2>3. QED
      BY <2>1, <2>2, FS_EmptySet DEF Counted, Init
  <1>2. IInv /\ Counted /\ [Next]_vars => Counted'
    BY CountedStep
  <1>3. IInv /\ Counted => OnlyFailuresStrand
    BY StrandedDropped
  <1>4. QED
    BY <1>1, <1>2, <1>3, InductiveInvariant, PTL DEF Spec
=============================================================================
