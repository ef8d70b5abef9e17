----------------------------- MODULE PeriodProofs -----------------------------
(***************************************************************************)
(* Proofs about PeriodCycle for any number of requests, items, volumes and *)
(* periods: IInv is inductive, and the safety properties follow from it.   *)
(***************************************************************************)
EXTENDS PeriodSequential, TLAPS

-----------------------------------------------------------------------------
\* Lemmas about rows

\* NULL is not a volume, a version or a counted figure.
LEMMA NullFacts == Null \notin Vols /\ Null \notin Figures
  BY PeriodAssumption DEF Figures

\* The trigger and the upsert keep a row a row.
LEMMA UpsertRow ==
  ASSUME NEW old \in Fact, NEW new \in Fact, NEW c \in BOOLEAN, new.version = old.version
  PROVE  Upsert(old, new, c) \in Fact /\ Bump(old, new, c) \in Fact
  BY DEF Upsert, Bump, Insert, Fact

\* The version moves whenever sc_volume does, and never back.
LEMMA VersionMoves ==
  ASSUME NEW old \in Fact, NEW new \in Fact, NEW c \in BOOLEAN, new.version = old.version
  PROVE  /\ Upsert(old, new, c).version >= old.version
         /\ Upsert(old, new, c).sc # old.sc => Upsert(old, new, c).version > old.version
         /\ Bump(old, new, c).version >= old.version
         /\ Bump(old, new, c).sc # old.sc => Bump(old, new, c).version > old.version
  BY DEF Upsert, Bump, Insert, Fact

\* The SC's classification of a row is a row of the same version.
LEMMA ScRow ==
  ASSUME NEW old \in Fact, NEW gp, NEW vol \in Vols
  PROVE  ScFact(old, gp, vol) \in Fact /\ ScFact(old, gp, vol).version = old.version
  BY DEF ScFact, Fact, MaybeVol

\* The GP's volume makes a row of a row.
LEMMA GpRow ==
  ASSUME NEW old \in Fact, NEW v \in MaybeVol, NEW c \in BOOLEAN
  PROVE  GpFact(old, v, c) \in Fact
  <1>1. [old EXCEPT !.gp = v] \in Fact /\ [old EXCEPT !.gp = v].version = old.version
    BY DEF Fact
  <1>2. Upsert(old, [old EXCEPT !.gp = v], c) \in Fact
    BY <1>1, UpsertRow
  <1>3. QED
    BY <1>2 DEF GpFact

\* Readiness counts a volume for every item, never NULL.
LEMMA CountedFigures ==
  ASSUME facts \in [PeriodNo -> [Items -> Fact]], NEW n \in PeriodNo
  PROVE  PeriodVolumes(n) \in Figures
  <1>1. ASSUME NEW i \in Items PROVE CountedVolume(facts[n][i]) \in Vols \cup {0}
    BY DEF CountedVolume, Fact, MaybeVol
  <1>2. QED
    BY <1>1 DEF PeriodVolumes, Figures

\* An idle request is well formed.
LEMMA IdleTyped == IdleTx \in Tx
  BY PeriodAssumption DEF IdleTx, Tx, PC, Status, MaybeVol

\* A submission, an entry, a close and a dispute start well formed.
LEMMA SubmitTyped ==
  ASSUME NEW n \in PeriodNo, NEW volumes \in [Items -> MaybeVol]
  PROVE  [IdleTx EXCEPT !.pc = "submitUpdate", !.p = n, !.volumes = volumes] \in Tx
  <1>1. n \in 0..MaxPeriods /\ volumes \in Volumes
    BY PeriodAssumption DEF PeriodNo, MaybeVol, Volumes
  <1>2. QED
    BY <1>1, IdleTyped DEF Tx, PC, IdleTx

\* As above, for an entry.
LEMMA FactTyped ==
  ASSUME NEW n \in PeriodNo, NEW i \in Items, NEW vol \in Vols,
         NEW expect \in (0..MaxVersion) \cup {Null}, NEW s \in Status
  PROVE  [IdleTx EXCEPT !.pc = "factRead", !.p = n, !.item = i, !.vol = vol,
                        !.expect = expect, !.seen = s] \in Tx
  <1>1. n \in 0..MaxPeriods /\ expect \in Nat \cup {Null} /\ vol \in MaybeVol
    BY PeriodAssumption DEF PeriodNo, MaybeVol
  <1>2. QED
    BY <1>1, IdleTyped DEF Tx, PC, IdleTx

\* As above, for a close.
LEMMA CloseTyped ==
  ASSUME NEW n \in PeriodNo
  PROVE  [IdleTx EXCEPT !.pc = "closeCount", !.p = n] \in Tx
  <1>1. n \in 0..MaxPeriods
    BY PeriodAssumption DEF PeriodNo
  <1>2. QED
    BY <1>1, IdleTyped DEF Tx, PC, IdleTx

\* As above, for a dispute.
LEMMA DisputeTyped ==
  ASSUME NEW n \in PeriodNo, NEW i \in Items
  PROVE  [IdleTx EXCEPT !.pc = "disputeMark", !.p = n, !.item = i] \in Tx
  <1>1. n \in 0..MaxPeriods
    BY PeriodAssumption DEF PeriodNo
  <1>2. QED
    BY <1>1, IdleTyped DEF Tx, PC, IdleTx

\* As above, for a forced closure.
LEMMA ForceTyped ==
  ASSUME NEW n \in PeriodNo, NEW i \in Items, NEW vol \in MaybeVol
  PROVE  [IdleTx EXCEPT !.pc = "forceFact", !.p = n, !.item = i, !.vol = vol] \in Tx
  <1>1. n \in 0..MaxPeriods
    BY PeriodAssumption DEF PeriodNo
  <1>2. QED
    BY <1>1, IdleTyped DEF Tx, PC, IdleTx

-----------------------------------------------------------------------------
\* Type correctness

\* A request that moves on to a well-formed record leaves all of them so.
LEMMA StepTyped ==
  ASSUME tx \in [Workers -> Tx], NEW w \in Workers, NEW t \in Tx, Step(w, t) \/ Begin(w, t)
  PROVE  tx' \in [Workers -> Tx]
  BY DEF Step, Begin

\* So does a request that ends.
LEMMA DoneTyped ==
  ASSUME tx \in [Workers -> Tx], NEW w \in Workers, Done(w)
  PROVE  tx' \in [Workers -> Tx]
  BY IdleTyped DEF Done

\* Freeing the locks of a request leaves both kinds of lock well formed.
LEMMA ReleaseTyped ==
  ASSUME TypeOK, NEW w \in Workers, Release(w)
  PROVE  /\ advisory' \in Workers \cup {NoOne}
         /\ rowLock' \in [PeriodNo -> Workers \cup {NoOne}]
  BY DEF TypeOK, Release

\* Every step keeps the type invariant; the steps that write facts need what
\* InFlight says of the request's item and volumes.
LEMMA TypeStep ==
  ASSUME TypeOK, InFlight, [Next]_vars
  PROVE  TypeOK'
  <1> USE DEF TypeOK, rows
  <1>1. ASSUME ApproveZeroReport PROVE TypeOK'
    BY <1>1 DEF ApproveZeroReport
  <1>2. ASSUME NEW n \in PeriodNo, TokenExpires(n) PROVE TypeOK'
    BY <1>2 DEF TokenExpires
  <1>3. ASSUME NEW w \in Workers, Request(w) PROVE TypeOK'
    <2>1. CASE OpenRequest(w)
      <3>1. [IdleTx EXCEPT !.pc = "openLock"] \in Tx
        BY IdleTyped DEF Tx, PC
      <3>2. QED
        BY <2>1, <3>1, StepTyped DEF OpenRequest
    <2>2. ASSUME NEW n \in PeriodNo, NEW volumes \in [Items -> MaybeVol],
                 SubmitRead(w, n, volumes)
          PROVE  TypeOK'
      <3>1. [IdleTx EXCEPT !.pc = "submitUpdate", !.p = n, !.volumes = volumes] \in Tx
        BY SubmitTyped
      <3>2. QED
        BY <2>2, <3>1, StepTyped DEF SubmitRead
    <2>3. ASSUME NEW n \in PeriodNo, NEW i \in Items, NEW vol \in Vols,
                 NEW expect \in (0..MaxVersion) \cup {Null}, FactRequest(w, n, i, vol, expect)
          PROVE  TypeOK'
      <3>1. status[n] \in Status
        OBVIOUS
      <3>2. [IdleTx EXCEPT !.pc = "factRead", !.p = n, !.item = i, !.vol = vol,
                           !.expect = expect, !.seen = status[n]] \in Tx
        BY <3>1, FactTyped
      <3>3. QED
        BY <2>3, <3>2, StepTyped DEF FactRequest
    <2>4. ASSUME NEW n \in PeriodNo, CloseRead(w, n) PROVE TypeOK'
      <3>1. [IdleTx EXCEPT !.pc = "closeCount", !.p = n] \in Tx
        BY CloseTyped
      <3>2. QED
        BY <2>4, <3>1, StepTyped DEF CloseRead
    <2>5. ASSUME NEW n \in PeriodNo, NEW i \in Items, DisputeRead(w, n, i) PROVE TypeOK'
      <3>1. [IdleTx EXCEPT !.pc = "disputeMark", !.p = n, !.item = i] \in Tx
        BY DisputeTyped
      <3>2. QED
        BY <2>5, <3>1, StepTyped DEF DisputeRead
    <2>6. ASSUME NEW n \in PeriodNo, NEW i \in Items, ForceDiscrepancy(w, n, i)
          PROVE  TypeOK'
      <3>1. facts[n][i].sc \in MaybeVol
        BY DEF Fact
      <3>2. [IdleTx EXCEPT !.pc = "forceFact", !.p = n, !.item = i,
                           !.vol = facts[n][i].sc] \in Tx
        BY <3>1, ForceTyped
      <3>3. disputes' \in [PeriodNo -> SUBSET Items] /\ late' \in [PeriodNo -> SUBSET Items]
        BY <2>6 DEF ForceDiscrepancy
      <3>4. QED
        BY <2>6, <3>2, <3>3, StepTyped DEF ForceDiscrepancy
    <2>7. QED
      BY <1>3, <2>1, <2>2, <2>3, <2>4, <2>5, <2>6 DEF Request
  <1>4. ASSUME NEW w \in Workers, TxStep(w) PROVE TypeOK'
    <2> DEFINE t == tx[w]
    <2>0. t \in Tx
      OBVIOUS
    <2>1. CASE OpenLock(w)
      <3>1. [t EXCEPT !.pc = "openCheck"] \in Tx
        BY <2>0 DEF Tx, PC
      <3>2. QED
        BY <2>1, <3>1, StepTyped DEF OpenLock
    <2>2. CASE OpenCheck(w)
      <3>1. PICK last \in 0..(MaxPeriods - 1) :
              Step(w, [t EXCEPT !.pc = "openInsert", !.p = last + 1])
        BY <2>2 DEF OpenCheck
      <3>2. last + 1 \in 0..MaxPeriods
        BY PeriodAssumption
      <3>3. [t EXCEPT !.pc = "openInsert", !.p = last + 1] \in Tx
        BY <2>0, <3>2 DEF Tx, PC
      <3>4. QED
        BY <2>2, <3>1, <3>3, StepTyped DEF OpenCheck
    <2>3. CASE OpenCommit(w)
      <3>1. status' \in [PeriodNo -> Status]
        BY <2>3 DEF OpenCommit, Status
      <3>2. QED
        BY <2>3, <3>1, DoneTyped, ReleaseTyped DEF OpenCommit
    <2>4. CASE SubmitCommit(w)
      <3>1. t.volumes \in [Items -> MaybeVol] /\ t.p \in PeriodNo
        BY <2>4 DEF SubmitCommit, InFlight, OnPeriod, Submitting
      <3>2. ASSUME NEW c \in BOOLEAN
            PROVE  [i \in Items |-> GpFact(facts[t.p][i], t.volumes[i], c)] \in [Items -> Fact]
        BY <3>1, GpRow
      <3>3. facts' \in [PeriodNo -> [Items -> Fact]]
        BY <2>4, <3>1, <3>2 DEF SubmitCommit
      <3>4. status' \in [PeriodNo -> Status] /\ submitted' \in [PeriodNo -> BOOLEAN]
        BY <2>4 DEF SubmitCommit, Status
      <3>5. QED
        BY <2>4, <3>3, <3>4, DoneTyped, ReleaseTyped DEF SubmitCommit
    <2>5. CASE FactRead(w)
      <3>1. t.p \in PeriodNo /\ t.item \in Items
        BY <2>5 DEF FactRead, InFlight, OnPeriod, Entering
      <3>2. facts[t.p][t.item].gp \in MaybeVol
        BY <3>1 DEF Fact
      <3>3. [t EXCEPT !.pc = "factCommit", !.gp = facts[t.p][t.item].gp] \in Tx
        BY <2>0, <3>2 DEF Tx, PC
      <3>4. QED
        BY <2>5, <3>3, StepTyped DEF FactRead
    <2>6. CASE FactCommit(w)
      <3>1. t.p \in PeriodNo /\ t.item \in Items /\ t.vol \in Vols
        BY <2>6 DEF FactCommit, InFlight, OnPeriod, Entering
      <3>2. Upsert(facts[t.p][t.item], ScFact(facts[t.p][t.item], t.gp, t.vol), FALSE) \in Fact
        <4>1. facts[t.p][t.item] \in Fact
          BY <3>1
        <4>2. QED
          BY <3>1, <4>1, ScRow, UpsertRow
      <3>3. facts' \in [PeriodNo -> [Items -> Fact]]
        BY <2>6, <3>1, <3>2 DEF FactCommit
      <3>4. status' \in [PeriodNo -> Status]
        BY <2>6 DEF FactCommit, Status
      <3>5. QED
        BY <2>6, <3>3, <3>4, DoneTyped DEF FactCommit
    <2>7. CASE CloseCount(w)
      <3>1. [t EXCEPT !.pc = "closeCompute"] \in Tx
        BY <2>0 DEF Tx, PC
      <3>2. QED
        BY <2>7, <3>1, StepTyped DEF CloseCount
    <2>8. CASE CloseCompute(w)
      <3>1. t.p \in PeriodNo
        BY <2>8 DEF CloseCompute, InFlight, OnPeriod, Closing, Counted
      <3>2. PeriodVolumes(t.p) \in Volumes
        BY <3>1, CountedFigures DEF Figures, Volumes
      <3>3. [t EXCEPT !.pc = "closeSnapshot", !.volumes = PeriodVolumes(t.p)] \in Tx
        BY <2>0, <3>2 DEF Tx, PC
      <3>4. rowLock' \in [PeriodNo -> Workers \cup {NoOne}]
        BY <2>8 DEF CloseCompute
      <3>5. QED
        BY <2>8, <3>3, <3>4, StepTyped DEF CloseCompute
    <2>9. CASE CloseCommit(w)
      <3>1. t.volumes \in Figures
        BY <2>9 DEF CloseCommit, InFlight
      <3>2. snapshots' \in [PeriodNo -> Figures \cup {Null}] /\ status' \in [PeriodNo -> Status]
        BY <2>9, <3>1 DEF CloseCommit, Status
      <3>3. QED
        BY <2>9, <3>2, DoneTyped, ReleaseTyped DEF CloseCommit
    <2>10. CASE DisputeMark(w)
      <3>1. t.p \in PeriodNo /\ t.item \in Items
        BY <2>10 DEF DisputeMark, InFlight, OnPeriod, Disputing
      <3>2. facts[t.p][t.item] \in Fact
        BY <3>1
      <3>3. Disputed(facts[t.p][t.item]) \in Fact
            /\ Disputed(facts[t.p][t.item]).version = facts[t.p][t.item].version
        BY <3>2 DEF Disputed, Fact
      <3>4. Bump(facts[t.p][t.item], Disputed(facts[t.p][t.item]), FALSE) \in Fact
        BY <3>2, <3>3, UpsertRow
      <3>5. facts' \in [PeriodNo -> [Items -> Fact]]
        BY <2>10, <3>1, <3>4 DEF DisputeMark
      <3>6. [t EXCEPT !.pc = "disputeInsert"] \in Tx
        BY <2>0 DEF Tx, PC
      <3>7. QED
        BY <2>10, <3>5, <3>6, StepTyped DEF DisputeMark
    <2>11. CASE DisputeInsert(w)
      <3>1. t.item \in Items
        BY <2>11 DEF DisputeInsert, InFlight, Disputing
      <3>2. disputes' \in [PeriodNo -> SUBSET Items] /\ late' \in [PeriodNo -> SUBSET Items]
        BY <2>11, <3>1 DEF DisputeInsert
      <3>3. QED
        BY <2>11, <3>2, DoneTyped DEF DisputeInsert
    <2>12. CASE ForceFact(w)
      <3>1. t.p \in PeriodNo /\ t.item \in Items
        BY <2>12 DEF ForceFact, InFlight, Disputing
      <3>2. t.vol \in MaybeVol
        BY <2>0 DEF Tx
      <3>3. facts[t.p][t.item] \in Fact
        BY <3>1
      <3>4. Forced(facts[t.p][t.item], t.vol) \in Fact
        BY <3>2, <3>3 DEF Forced, Fact
      <3>5. facts' \in [PeriodNo -> [Items -> Fact]]
        BY <2>12, <3>1, <3>4 DEF ForceFact
      <3>6. QED
        BY <2>12, <3>5, DoneTyped DEF ForceFact
    <2>13. CASE Abort(w)
      BY <2>13, DoneTyped, ReleaseTyped DEF Abort
    <2>14. CASE OpenInsert(w)
      <3>1. [t EXCEPT !.pc = "openCommit"] \in Tx
        BY <2>0 DEF Tx, PC
      <3>2. QED
        BY <2>14, <3>1, StepTyped DEF OpenInsert
    <2>15. CASE SubmitUpdate(w)
      <3>1. [t EXCEPT !.pc = "submitCommit"] \in Tx
        BY <2>0 DEF Tx, PC
      <3>2. rowLock' \in [PeriodNo -> Workers \cup {NoOne}]
        BY <2>15 DEF SubmitUpdate
      <3>3. QED
        BY <2>15, <3>1, <3>2, StepTyped DEF SubmitUpdate
    <2>16. CASE CloseSnapshot(w)
      <3>1. [t EXCEPT !.pc = "closeCommit"] \in Tx
        BY <2>0 DEF Tx, PC
      <3>2. QED
        BY <2>16, <3>1, StepTyped DEF CloseSnapshot
    <2>17. QED
      BY <1>4, <2>1, <2>2, <2>3, <2>4, <2>5, <2>6, <2>7, <2>8, <2>9, <2>10, <2>11,
         <2>12, <2>13, <2>14, <2>15, <2>16 DEF TxStep
  <1>5. CASE UNCHANGED vars
    BY <1>5 DEF vars
  <1>6. QED
    BY <1>1, <1>2, <1>3, <1>4, <1>5 DEF Next

-----------------------------------------------------------------------------
\* The rest of the inductive invariant, part by part

\* A period that exists keeps existing, and a submission is not taken back.
LEMMA RowsStay ==
  ASSUME TypeOK, InFlight, [Next]_vars, NEW n \in PeriodNo
  PROVE  /\ status[n] # "none" => status'[n] # "none"
         /\ submitted[n] => submitted'[n]
  <1> USE DEF TypeOK, rows
  <1>1. CASE ApproveZeroReport
    BY <1>1 DEF ApproveZeroReport
  <1>2. CASE \E k \in PeriodNo : TokenExpires(k)
    BY <1>2 DEF TokenExpires
  <1>3. ASSUME NEW w \in Workers, Request(w)
        PROVE  UNCHANGED <<status, submitted>>
    BY <1>3 DEF Request, OpenRequest, SubmitRead, FactRequest, CloseRead, DisputeRead,
                ForceDiscrepancy
  <1>4. ASSUME NEW w \in Workers, TxStep(w)
        PROVE  /\ status[n] # "none" => status'[n] # "none"
               /\ submitted[n] => submitted'[n]
    <2>1. CASE OpenLock(w) \/ OpenCheck(w) \/ OpenInsert(w) \/ SubmitUpdate(w) \/ FactRead(w)
            \/ CloseCount(w) \/ CloseCompute(w) \/ CloseSnapshot(w) \/ DisputeMark(w)
            \/ DisputeInsert(w) \/ ForceFact(w) \/ Abort(w)
      BY <2>1 DEF OpenLock, OpenCheck, OpenInsert, SubmitUpdate, FactRead, CloseCount,
                  CloseCompute, CloseSnapshot, DisputeMark, DisputeInsert, ForceFact, Abort
    <2>2. CASE OpenCommit(w)
      BY <2>2 DEF OpenCommit
    <2>3. CASE SubmitCommit(w)
      BY <2>3 DEF SubmitCommit
    <2>4. CASE FactCommit(w)
      BY <2>4 DEF FactCommit
    <2>5. CASE CloseCommit(w)
      BY <2>5 DEF CloseCommit
    <2>6. QED
      BY <1>4, <2>1, <2>2, <2>3, <2>4, <2>5 DEF TxStep
  <1>5. CASE UNCHANGED vars
    BY <1>5 DEF vars
  <1>6. QED
    BY <1>1, <1>2, <1>3, <1>4, <1>5 DEF Next

\* What a request carries stays good: other requests neither change its record
\* nor remove its period.
LEMMA InFlightStep ==
  ASSUME TypeOK, InFlight, OpenersHoldLock, [Next]_vars
  PROVE  InFlight'
  <1> DEFINE Carries(t) ==
        /\ t.pc \in OnPeriod => t.p \in PeriodNo /\ status'[t.p] # "none"
        /\ t.pc \in Entering \cup Disputing => t.p \in PeriodNo /\ t.item \in Items
        /\ t.pc \in Entering => t.vol \in Vols
        /\ t.pc \in Submitting => t.volumes \in [Items -> MaybeVol]
        /\ t.pc \in {"closeSnapshot", "closeCommit"} => t.volumes \in Figures
  <1>1. ASSUME NEW v \in Workers PROVE Carries(tx[v])
    BY RowsStay DEF InFlight
  <1>2. Carries(IdleTx)
    BY DEF IdleTx, OnPeriod, Submitting, Entering, Disputing, Closing, Counted
  <1>3. SUFFICES ASSUME NEW v \in Workers PROVE Carries(tx'[v])
    BY DEF InFlight
  <1>4. tx \in [Workers -> Tx]
    BY DEF TypeOK
  <1> USE DEF OnPeriod, Submitting, Entering, Disputing, Closing, Counted
  <1>5. CASE ApproveZeroReport \/ (\E k \in PeriodNo : TokenExpires(k)) \/ UNCHANGED vars
    <2>1. tx' = tx
      BY <1>5 DEF ApproveZeroReport, TokenExpires, vars
    <2>2. QED
      BY <2>1, <1>1
  <1>6. ASSUME NEW w \in Workers, Request(w) PROVE Carries(tx'[v])
    <2>0. ASSUME NEW t, Begin(w, t), Carries(t) PROVE Carries(tx'[v])
      BY <2>0, <1>1, <1>4 DEF Begin
    <2>1. CASE OpenRequest(w)
      <3>1. Carries([IdleTx EXCEPT !.pc = "openLock"])
        BY DEF IdleTx
      <3>2. QED
        BY <2>0, <2>1, <3>1 DEF OpenRequest
    <2>2. ASSUME NEW n \in PeriodNo, NEW volumes \in [Items -> MaybeVol],
                 SubmitRead(w, n, volumes)
          PROVE  Carries(tx'[v])
      <3>1. status'[n] # "none"
        BY <2>2 DEF SubmitRead, rows
      <3>2. Carries([IdleTx EXCEPT !.pc = "submitUpdate", !.p = n, !.volumes = volumes])
        BY <3>1 DEF IdleTx
      <3>3. QED
        BY <2>0, <2>2, <3>2 DEF SubmitRead
    <2>3. ASSUME NEW n \in PeriodNo, NEW i \in Items, NEW vol \in Vols,
                 NEW expect \in (0..MaxVersion) \cup {Null}, FactRequest(w, n, i, vol, expect)
          PROVE  Carries(tx'[v])
      <3>1. status'[n] # "none"
        BY <2>3 DEF FactRequest, Editable, rows
      <3>2. Carries([IdleTx EXCEPT !.pc = "factRead", !.p = n, !.item = i, !.vol = vol,
                                   !.expect = expect, !.seen = status[n]])
        BY <3>1 DEF IdleTx
      <3>3. QED
        BY <2>0, <2>3, <3>2 DEF FactRequest
    <2>4. ASSUME NEW n \in PeriodNo, CloseRead(w, n) PROVE Carries(tx'[v])
      <3>1. status'[n] # "none"
        BY <2>4 DEF CloseRead, Editable, rows
      <3>2. Carries([IdleTx EXCEPT !.pc = "closeCount", !.p = n])
        BY <3>1 DEF IdleTx
      <3>3. QED
        BY <2>0, <2>4, <3>2 DEF CloseRead
    <2>5. ASSUME NEW n \in PeriodNo, NEW i \in Items, DisputeRead(w, n, i)
          PROVE  Carries(tx'[v])
      <3>1. status'[n] # "none"
        BY <2>5 DEF DisputeRead, rows
      <3>2. Carries([IdleTx EXCEPT !.pc = "disputeMark", !.p = n, !.item = i])
        BY <3>1 DEF IdleTx
      <3>3. QED
        BY <2>0, <2>5, <3>2 DEF DisputeRead
    <2>6. ASSUME NEW n \in PeriodNo, NEW i \in Items, ForceDiscrepancy(w, n, i)
          PROVE  Carries(tx'[v])
      <3>1. Carries([IdleTx EXCEPT !.pc = "forceFact", !.p = n, !.item = i,
                                   !.vol = facts[n][i].sc])
        BY DEF IdleTx
      <3>2. QED
        BY <2>0, <2>6, <3>1 DEF ForceDiscrepancy
    <2>7. QED
      BY <1>6, <2>1, <2>2, <2>3, <2>4, <2>5, <2>6 DEF Request
  <1>7. ASSUME NEW w \in Workers, TxStep(w) PROVE Carries(tx'[v])
    <2>0. tx[w] \in Tx /\ Carries(tx[w])
      BY <1>1, <1>4
    <2>1. ASSUME NEW t, Step(w, t), Carries(t) PROVE Carries(tx'[v])
      BY <2>1, <1>1, <1>4 DEF Step
    <2>2. ASSUME Done(w) PROVE Carries(tx'[v])
      BY <2>2, <1>1, <1>2, <1>4 DEF Done
    <2>3. CASE OpenCommit(w) \/ SubmitCommit(w) \/ FactCommit(w) \/ CloseCommit(w)
            \/ DisputeInsert(w) \/ ForceFact(w) \/ Abort(w)
      BY <2>2, <2>3 DEF OpenCommit, SubmitCommit, FactCommit, CloseCommit, DisputeInsert,
                        ForceFact, Abort
    <2>4. CASE OpenLock(w)
      <3>1. Carries([tx[w] EXCEPT !.pc = "openCheck"])
        BY <2>0 DEF Tx
      <3>2. QED
        BY <2>1, <2>4, <3>1 DEF OpenLock
    <2>5. CASE OpenCheck(w)
      <3>1. PICK last \in 0..(MaxPeriods - 1) :
              Step(w, [tx[w] EXCEPT !.pc = "openInsert", !.p = last + 1])
        BY <2>5 DEF OpenCheck
      <3>2. Carries([tx[w] EXCEPT !.pc = "openInsert", !.p = last + 1])
        BY <2>0 DEF Tx
      <3>3. QED
        BY <2>1, <3>1, <3>2
    <2>6. CASE FactRead(w)
      <3>1. Carries([tx[w] EXCEPT !.pc = "factCommit", !.gp = facts[tx[w].p][tx[w].item].gp])
        BY <2>0, <2>6 DEF FactRead, Tx
      <3>2. QED
        BY <2>1, <2>6, <3>1 DEF FactRead
    <2>7. CASE CloseCount(w)
      <3>1. Carries([tx[w] EXCEPT !.pc = "closeCompute"])
        BY <2>0, <2>7 DEF CloseCount, Tx
      <3>2. QED
        BY <2>1, <2>7, <3>1 DEF CloseCount
    <2>8. CASE CloseCompute(w)
      <3>1. PeriodVolumes(tx[w].p) \in Figures
        BY <2>0, <2>8, CountedFigures DEF CloseCompute, TypeOK
      <3>2. Carries([tx[w] EXCEPT !.pc = "closeSnapshot", !.volumes = PeriodVolumes(tx[w].p)])
        BY <2>0, <2>8, <3>1 DEF CloseCompute, Tx
      <3>3. QED
        BY <2>1, <2>8, <3>2 DEF CloseCompute
    <2>9. CASE DisputeMark(w)
      <3>1. Carries([tx[w] EXCEPT !.pc = "disputeInsert"])
        BY <2>0, <2>9 DEF DisputeMark, Tx
      <3>2. QED
        BY <2>1, <2>9, <3>1 DEF DisputeMark
    <2>10. CASE OpenInsert(w)
      <3>1. Carries([tx[w] EXCEPT !.pc = "openCommit"])
        BY <2>0 DEF Tx
      <3>2. QED
        BY <2>1, <2>10, <3>1 DEF OpenInsert
    <2>11. CASE SubmitUpdate(w)
      <3>1. Carries([tx[w] EXCEPT !.pc = "submitCommit"])
        BY <2>0, <2>11 DEF SubmitUpdate, Tx
      <3>2. QED
        BY <2>1, <2>11, <3>1 DEF SubmitUpdate
    <2>12. CASE CloseSnapshot(w)
      <3>1. Carries([tx[w] EXCEPT !.pc = "closeCommit"])
        BY <2>0, <2>12 DEF CloseSnapshot, Tx
      <3>2. QED
        BY <2>1, <2>12, <3>1 DEF CloseSnapshot
    <2>13. QED
      BY <1>7, <2>3, <2>4, <2>5, <2>6, <2>7, <2>8, <2>9, <2>10, <2>11, <2>12 DEF TxStep
  <1>8. QED
    BY <1>5, <1>6, <1>7 DEF Next

\* Only OpenCommit makes a period; every other step leaves a period's status
\* alone or moves an existing period to a status past 'open'.
LEMMA StatusSteps ==
  ASSUME TypeOK, InFlight, [Next]_vars
  PROVE  \/ \E w \in Workers : OpenCommit(w)
         \/ \A n \in PeriodNo :
              \/ status'[n] = status[n]
              \/ status[n] # "none" /\ status'[n] \in {"gp_submitted", "verification", "closed"}
  <1> DEFINE Moves == \A n \in PeriodNo :
              \/ status'[n] = status[n]
              \/ status[n] # "none" /\ status'[n] \in {"gp_submitted", "verification", "closed"}
  <1> USE DEF TypeOK, rows
  <1>1. CASE ApproveZeroReport \/ (\E k \in PeriodNo : TokenExpires(k)) \/ UNCHANGED vars
    BY <1>1 DEF ApproveZeroReport, TokenExpires, vars
  <1>2. ASSUME NEW w \in Workers, Request(w) PROVE UNCHANGED status
    BY <1>2 DEF Request, OpenRequest, SubmitRead, FactRequest, CloseRead, DisputeRead,
                ForceDiscrepancy
  <1>3. ASSUME NEW w \in Workers, TxStep(w) PROVE OpenCommit(w) \/ Moves
    <2>1. CASE OpenLock(w) \/ OpenCheck(w) \/ OpenInsert(w) \/ SubmitUpdate(w) \/ FactRead(w)
            \/ CloseCount(w) \/ CloseCompute(w) \/ CloseSnapshot(w) \/ DisputeMark(w)
            \/ DisputeInsert(w) \/ ForceFact(w) \/ Abort(w)
      BY <2>1 DEF OpenLock, OpenCheck, OpenInsert, SubmitUpdate, FactRead, CloseCount,
                  CloseCompute, CloseSnapshot, DisputeMark, DisputeInsert, ForceFact, Abort
    <2>2. CASE SubmitCommit(w)
      BY <2>2 DEF SubmitCommit, InFlight, OnPeriod, Submitting
    <2>3. CASE FactCommit(w)
      BY <2>3 DEF FactCommit, InFlight, OnPeriod, Entering
    <2>4. CASE CloseCommit(w)
      BY <2>4 DEF CloseCommit, InFlight, OnPeriod, Closing, Counted
    <2>5. QED
      BY <1>3, <2>1, <2>2, <2>3, <2>4 DEF TxStep
  <1>4. QED
    BY <1>1, <1>2, <1>3 DEF Next

\* Periods stay numbered without a gap and only the last can be open.
LEMMA ContiguousStep ==
  ASSUME TypeOK, InFlight, OpenersHoldLock, NumbersContiguous, [Next]_vars
  PROVE  NumbersContiguous'
  <1>1. CASE \E w \in Workers : OpenCommit(w)
    <2>1. PICK w \in Workers : OpenCommit(w)
      BY <1>1
    <2>2. tx[w].p \in PeriodNo
          /\ \A n \in PeriodNo : IF n < tx[w].p THEN status[n] \notin {"none", "open"}
                                 ELSE status[n] = "none"
      BY <2>1 DEF OpenCommit, OpenersHoldLock
    <2>3. status' = [status EXCEPT ![tx[w].p] = "open"]
      BY <2>1 DEF OpenCommit
    <2>4. SUFFICES ASSUME NEW n \in PeriodNo, status'[n] # "none",
                          NEW m \in 1..n, m < n
                   PROVE  status'[m] \notin {"none", "open"}
      BY DEF NumbersContiguous
    <2>5. m \in PeriodNo /\ n \in Nat /\ m \in Nat
      BY PeriodAssumption DEF PeriodNo
    <2>6. tx[w].p \in Nat /\ status \in [PeriodNo -> Status]
      BY <2>2, PeriodAssumption DEF PeriodNo, TypeOK
    <2>7. n <= tx[w].p
      BY <2>2, <2>3, <2>4, <2>5, <2>6
    <2>8. m < tx[w].p
      BY <2>4, <2>5, <2>6, <2>7
    <2>9. QED
      BY <2>2, <2>3, <2>5, <2>6, <2>8
  <1>2. CASE \A n \in PeriodNo :
               \/ status'[n] = status[n]
               \/ status[n] # "none" /\ status'[n] \in {"gp_submitted", "verification", "closed"}
    BY <1>2, PeriodAssumption DEF NumbersContiguous, PeriodNo
  <1>3. QED
    BY <1>1, <1>2, StatusSteps

\* At most one opener is past the advisory lock, and what it has checked cannot
\* change before it commits.
LEMMA OpenersStep ==
  ASSUME TypeOK, InFlight, OpenersHoldLock, NumbersContiguous, [Next]_vars
  PROVE  OpenersHoldLock'
  <1> DEFINE Next1(p) == \A n \in PeriodNo : IF n < p THEN status[n] \notin {"none", "open"}
                                             ELSE status[n] = "none"
             Held(v) == tx[v].pc \in Opening => advisory = v
             Ready(v) == tx[v].pc \in {"openInsert", "openCommit"} => tx[v].p \in PeriodNo /\ Next1(tx[v].p)
  <1>1. \A v \in Workers : Held(v) /\ Ready(v)
    BY DEF OpenersHoldLock
  <1>2. SUFFICES ASSUME NEW v \in Workers PROVE Held(v)' /\ Ready(v)'
    BY DEF OpenersHoldLock
  <1>3. tx \in [Workers -> Tx] /\ NoOne \notin Workers
    BY PeriodAssumption DEF TypeOK
  <1> USE DEF Opening
  <1>4. CASE \E w \in Workers : OpenCommit(w)
    <2>1. PICK w \in Workers : OpenCommit(w)
      BY <1>4
    <2>2. advisory = w
      BY <1>1, <2>1 DEF OpenCommit
    <2>3. v # w => tx'[v].pc = tx[v].pc /\ tx[v].pc \notin Opening
      BY <1>1, <1>3, <2>1, <2>2 DEF OpenCommit, Done
    <2>4. v = w => tx'[v].pc = "idle"
      BY <1>3, <2>1 DEF OpenCommit, Done, IdleTx
    <2>5. QED
      BY <2>3, <2>4
  <1>5. CASE \E w \in Workers : OpenLock(w)
    <2>1. PICK w \in Workers : OpenLock(w)
      BY <1>5
    <2>2. v # w => tx'[v].pc = tx[v].pc /\ tx[v].pc \notin Opening
      BY <1>1, <1>3, <2>1 DEF OpenLock, Step
    <2>3. v = w => tx'[v].pc = "openCheck" /\ advisory' = v
      BY <1>3, <2>1 DEF OpenLock, Step, Tx
    <2>4. QED
      BY <2>2, <2>3
  <1>6. CASE \E w \in Workers : OpenCheck(w)
    <2>1. PICK w \in Workers : OpenCheck(w)
      BY <1>6
    <2>2. PICK last \in 0..(MaxPeriods - 1) :
            IsLast(last) /\ Step(w, [tx[w] EXCEPT !.pc = "openInsert", !.p = last + 1])
      BY <2>1 DEF OpenCheck
    <2>3. advisory' = advisory /\ status' = status /\ advisory = w
      BY <1>1, <2>1 DEF OpenCheck, rows
    <2>4. last + 1 \in PeriodNo
      BY PeriodAssumption DEF PeriodNo
    <2>5. Next1(last + 1)
      <3>1. SUFFICES ASSUME NEW n \in PeriodNo
                     PROVE  IF n < last + 1 THEN status[n] \notin {"none", "open"}
                            ELSE status[n] = "none"
        OBVIOUS
      <3>2. CASE n <= last
        <4>1. last \in Opened
          BY <2>2, <3>2 DEF IsLast, PeriodNo
        <4>2. status[n] # "none"
          BY <3>2, <4>1 DEF Opened, NumbersContiguous, PeriodNo
        <4>3. status[n] # "open"
          BY <2>1 DEF OpenCheck, NoOpenPeriod
        <4>4. QED
          BY <3>2, <4>2, <4>3 DEF PeriodNo
      <3>3. CASE ~(n <= last)
        BY <2>2, <3>3 DEF IsLast, Opened, PeriodNo
      <3>4. QED
        BY <3>2, <3>3
    <2>6. v # w => tx'[v] = tx[v]
      BY <1>3, <2>2 DEF Step
    <2>7. v = w => tx'[v].pc = "openInsert" /\ tx'[v].p = last + 1
      BY <1>3, <2>2 DEF Step, Tx
    <2>8. QED
      BY <1>1, <2>3, <2>4, <2>5, <2>6, <2>7
  <1>7. ASSUME ~ \E w \in Workers : OpenCommit(w),
               tx'[v].pc \in Opening => tx'[v] = tx[v] /\ advisory' = advisory
        PROVE  Held(v)' /\ Ready(v)'
    <2>1. ASSUME NEW p, Next1(p) PROVE Next1(p)'
      BY <1>7, <2>1, StatusSteps DEF PeriodNo
    <2>2. Ready(v)'
      BY <1>1, <1>7, <2>1
    <2>3. QED
      BY <1>1, <1>7, <2>2
  <1>8. CASE ApproveZeroReport \/ (\E k \in PeriodNo : TokenExpires(k)) \/ UNCHANGED vars
    <2>1. tx' = tx /\ advisory' = advisory
      BY <1>8 DEF ApproveZeroReport, TokenExpires, vars
    <2>2. QED
      BY <1>4, <1>7, <2>1
  <1>9. ASSUME NEW w \in Workers, Request(w) PROVE Held(v)' /\ Ready(v)'
    <2>1. advisory' = advisory
      BY <1>9 DEF Request, OpenRequest, SubmitRead, FactRequest, CloseRead, DisputeRead,
                  ForceDiscrepancy
    <2>2. ASSUME NEW t, Begin(w, t), t.pc \notin Opening
          PROVE  tx'[v] = tx[v] \/ tx'[v].pc \notin Opening
      BY <1>3, <2>2 DEF Begin
    <2>3. tx'[v] = tx[v] \/ tx'[v].pc \notin Opening
      BY <1>9, <2>2, ZenonT(60) DEF Request, OpenRequest, SubmitRead, FactRequest, CloseRead, DisputeRead,
                        ForceDiscrepancy, IdleTx
    <2>4. QED
      BY <1>4, <1>7, <2>1, <2>3
  <1>10. ASSUME NEW w \in Workers, TxStep(w) PROVE Held(v)' /\ Ready(v)'
    <2>1. CASE SubmitUpdate(w) \/ FactRead(w) \/ CloseCount(w) \/ CloseCompute(w)
            \/ CloseSnapshot(w) \/ DisputeMark(w)
      <3>1. advisory' = advisory
        BY <2>1 DEF SubmitUpdate, FactRead, CloseCount, CloseCompute, CloseSnapshot, DisputeMark
      <3>2. tx[w] \in Tx
        BY <1>3
      <3>3. tx'[v] = tx[v] \/ tx'[v].pc \notin Opening
        <4>1. v = w => tx'[v].pc \in {"submitCommit", "factCommit", "closeCompute",
                                      "closeSnapshot", "closeCommit", "disputeInsert"}
          <5>1. CASE FactRead(w)
            BY <1>3, <3>2, <5>1 DEF FactRead, Step, Tx
          <5>2. CASE CloseCount(w)
            BY <1>3, <3>2, <5>2 DEF CloseCount, Step, Tx
          <5>3. CASE CloseCompute(w)
            BY <1>3, <3>2, <5>3 DEF CloseCompute, Step, Tx
          <5>4. CASE DisputeMark(w)
            BY <1>3, <3>2, <5>4 DEF DisputeMark, Step, Tx
          <5>5. CASE SubmitUpdate(w)
            BY <1>3, <3>2, <5>5 DEF SubmitUpdate, Step, Tx
          <5>6. CASE CloseSnapshot(w)
            BY <1>3, <3>2, <5>6 DEF CloseSnapshot, Step, Tx
          <5>7. QED
            BY <2>1, <5>1, <5>2, <5>3, <5>4, <5>5, <5>6
        <4>2. v # w => tx'[v] = tx[v]
          BY <1>3, <2>1 DEF SubmitUpdate, FactRead, CloseCount, CloseCompute, CloseSnapshot,
                            DisputeMark, Step
        <4>3. QED
          BY <4>1, <4>2
      <3>4. QED
        BY <1>4, <1>7, <3>1, <3>3
    <2>2. CASE SubmitCommit(w) \/ FactCommit(w) \/ CloseCommit(w) \/ DisputeInsert(w)
            \/ ForceFact(w) \/ Abort(w)
      <3>1. tx' = [tx EXCEPT ![w] = IdleTx]
        BY <2>2 DEF SubmitCommit, FactCommit, CloseCommit, DisputeInsert, ForceFact, Abort, Done
      <3>2. advisory' = advisory \/ advisory = w
        BY <2>2 DEF SubmitCommit, FactCommit, CloseCommit, DisputeInsert, ForceFact, Abort,
                    Release
      <3>3. tx'[v] = tx[v] \/ tx'[v].pc \notin Opening
        BY <1>3, <3>1 DEF IdleTx
      <3>4. v = w => tx'[v].pc = "idle"
        BY <1>3, <3>1 DEF IdleTx
      <3>5. tx'[v].pc \in Opening => v # w /\ advisory = v
        BY <1>1, <3>3, <3>4
      <3>6. QED
        BY <1>4, <1>7, <3>2, <3>3, <3>5
    <2>3. CASE OpenInsert(w)
      <3>1. status' = status /\ advisory' = advisory
        BY <2>3 DEF OpenInsert, rows
      <3>2. v # w => tx'[v] = tx[v]
        BY <1>3, <2>3 DEF OpenInsert, Step
      <3>3. v = w => tx[v].pc = "openInsert" /\ tx'[v].pc = "openCommit" /\ tx'[v].p = tx[v].p
        BY <1>3, <2>3 DEF OpenInsert, Step, Tx
      <3>4. QED
        BY <1>1, <3>1, <3>2, <3>3
    <2>4. QED
      BY <1>4, <1>5, <1>6, <1>10, <2>1, <2>2, <2>3 DEF TxStep
  <1>11. QED
    BY <1>8, <1>9, <1>10 DEF Next

\* A request that saw a submission, or is closing, is of a submitted period.
LEMMA InFlightSubmittedStep ==
  ASSUME TypeOK, InFlight, InFlightSubmitted, PastOpenMeansSubmitted, [Next]_vars
  PROVE  InFlightSubmitted'
  <1> DEFINE Knows(t) == (t.pc \in Entering /\ t.seen = "gp_submitted") \/ t.pc \in Closing
                           => submitted'[t.p]
  <1> USE DEF Entering, Closing, Counted
  <1>1. ASSUME NEW v \in Workers PROVE Knows(tx[v])
    <2>1. (tx[v].pc \in Entering /\ tx[v].seen = "gp_submitted") \/ tx[v].pc \in Closing
            => submitted[tx[v].p] /\ tx[v].p \in PeriodNo
      BY DEF InFlightSubmitted, InFlight, OnPeriod
    <2>2. QED
      BY <2>1, RowsStay
  <1>2. SUFFICES ASSUME NEW v \in Workers PROVE Knows(tx'[v])
    BY DEF InFlightSubmitted
  <1>3. tx \in [Workers -> Tx]
    BY DEF TypeOK
  <1>4. Knows(IdleTx)
    BY DEF IdleTx
  <1>5. CASE ApproveZeroReport \/ (\E k \in PeriodNo : TokenExpires(k)) \/ UNCHANGED vars
    <2>1. tx' = tx
      BY <1>5 DEF ApproveZeroReport, TokenExpires, vars
    <2>2. QED
      BY <2>1, <1>1
  <1>6. ASSUME NEW w \in Workers, Request(w) PROVE Knows(tx'[v])
    <2>0. ASSUME NEW t, Begin(w, t), Knows(t) PROVE Knows(tx'[v])
      BY <2>0, <1>1, <1>3 DEF Begin
    <2>1. CASE OpenRequest(w)
      <3>1. Knows([IdleTx EXCEPT !.pc = "openLock"])
        BY DEF IdleTx
      <3>2. QED
        BY <2>0, <2>1, <3>1 DEF OpenRequest
    <2>2. ASSUME NEW n \in PeriodNo, NEW volumes \in [Items -> MaybeVol],
                 SubmitRead(w, n, volumes)
          PROVE  Knows(tx'[v])
      <3>1. Knows([IdleTx EXCEPT !.pc = "submitUpdate", !.p = n, !.volumes = volumes])
        BY DEF IdleTx
      <3>2. QED
        BY <2>0, <2>2, <3>1 DEF SubmitRead
    <2>3. ASSUME NEW n \in PeriodNo, NEW i \in Items, NEW vol \in Vols,
                 NEW expect \in (0..MaxVersion) \cup {Null}, FactRequest(w, n, i, vol, expect)
          PROVE  Knows(tx'[v])
      <3>1. status[n] = "gp_submitted" => submitted'[n]
        BY RowsStay DEF PastOpenMeansSubmitted
      <3>2. Knows([IdleTx EXCEPT !.pc = "factRead", !.p = n, !.item = i, !.vol = vol,
                                 !.expect = expect, !.seen = status[n]])
        BY <3>1 DEF IdleTx
      <3>3. QED
        BY <2>0, <2>3, <3>2 DEF FactRequest
    <2>4. ASSUME NEW n \in PeriodNo, CloseRead(w, n) PROVE Knows(tx'[v])
      <3>1. submitted'[n]
        BY <2>4, RowsStay DEF CloseRead, PastOpenMeansSubmitted
      <3>2. Knows([IdleTx EXCEPT !.pc = "closeCount", !.p = n])
        BY <3>1 DEF IdleTx
      <3>3. QED
        BY <2>0, <2>4, <3>2 DEF CloseRead
    <2>5. ASSUME NEW n \in PeriodNo, NEW i \in Items, DisputeRead(w, n, i) PROVE Knows(tx'[v])
      <3>1. Knows([IdleTx EXCEPT !.pc = "disputeMark", !.p = n, !.item = i])
        BY DEF IdleTx
      <3>2. QED
        BY <2>0, <2>5, <3>1 DEF DisputeRead
    <2>6. ASSUME NEW n \in PeriodNo, NEW i \in Items, ForceDiscrepancy(w, n, i)
          PROVE  Knows(tx'[v])
      <3>1. Knows([IdleTx EXCEPT !.pc = "forceFact", !.p = n, !.item = i,
                                 !.vol = facts[n][i].sc])
        BY DEF IdleTx
      <3>2. QED
        BY <2>0, <2>6, <3>1 DEF ForceDiscrepancy
    <2>7. QED
      BY <1>6, <2>1, <2>2, <2>3, <2>4, <2>5, <2>6 DEF Request
  <1>7. ASSUME NEW w \in Workers, TxStep(w) PROVE Knows(tx'[v])
    <2>0. tx[w] \in Tx /\ Knows(tx[w])
      BY <1>1, <1>3
    <2>1. ASSUME NEW t, Step(w, t), Knows(t) PROVE Knows(tx'[v])
      BY <2>1, <1>1, <1>3 DEF Step
    <2>2. CASE OpenCommit(w) \/ SubmitCommit(w) \/ FactCommit(w) \/ CloseCommit(w)
            \/ DisputeInsert(w) \/ ForceFact(w) \/ Abort(w)
      BY <2>2, <1>1, <1>3, <1>4 DEF OpenCommit, SubmitCommit, FactCommit, CloseCommit,
         DisputeInsert, ForceFact, Abort, Done
    <2>3. CASE OpenLock(w)
      <3>1. Knows([tx[w] EXCEPT !.pc = "openCheck"])
        BY <2>0 DEF Tx
      <3>2. QED
        BY <2>1, <2>3, <3>1 DEF OpenLock
    <2>4. CASE OpenCheck(w)
      <3>1. PICK last \in 0..(MaxPeriods - 1) :
              Step(w, [tx[w] EXCEPT !.pc = "openInsert", !.p = last + 1])
        BY <2>4 DEF OpenCheck
      <3>2. Knows([tx[w] EXCEPT !.pc = "openInsert", !.p = last + 1])
        BY <2>0 DEF Tx
      <3>3. QED
        BY <2>1, <3>1, <3>2
    <2>5. CASE FactRead(w)
      <3>1. Knows([tx[w] EXCEPT !.pc = "factCommit", !.gp = facts[tx[w].p][tx[w].item].gp])
        BY <2>0, <2>5 DEF FactRead, Tx
      <3>2. QED
        BY <2>1, <2>5, <3>1 DEF FactRead
    <2>6. CASE CloseCount(w)
      <3>1. Knows([tx[w] EXCEPT !.pc = "closeCompute"])
        BY <2>0, <2>6 DEF CloseCount, Tx
      <3>2. QED
        BY <2>1, <2>6, <3>1 DEF CloseCount
    <2>7. CASE CloseCompute(w)
      <3>1. Knows([tx[w] EXCEPT !.pc = "closeSnapshot", !.volumes = PeriodVolumes(tx[w].p)])
        BY <2>0, <2>7 DEF CloseCompute, Tx
      <3>2. QED
        BY <2>1, <2>7, <3>1 DEF CloseCompute
    <2>8. CASE DisputeMark(w)
      <3>1. Knows([tx[w] EXCEPT !.pc = "disputeInsert"])
        BY <2>0, <2>8 DEF DisputeMark, Tx
      <3>2. QED
        BY <2>1, <2>8, <3>1 DEF DisputeMark
    <2>9. CASE OpenInsert(w)
      <3>1. Knows([tx[w] EXCEPT !.pc = "openCommit"])
        BY <2>0 DEF Tx
      <3>2. QED
        BY <2>1, <2>9, <3>1 DEF OpenInsert
    <2>10. CASE SubmitUpdate(w)
      <3>1. Knows([tx[w] EXCEPT !.pc = "submitCommit"])
        BY <2>0 DEF Tx
      <3>2. QED
        BY <2>1, <2>10, <3>1 DEF SubmitUpdate
    <2>11. CASE CloseSnapshot(w)
      <3>1. Knows([tx[w] EXCEPT !.pc = "closeCommit"])
        BY <2>0, <2>11 DEF CloseSnapshot, Tx
      <3>2. QED
        BY <2>1, <2>11, <3>1 DEF CloseSnapshot
    <2>12. QED
      BY <1>7, <2>2, <2>3, <2>4, <2>5, <2>6, <2>7, <2>8, <2>9, <2>10, <2>11 DEF TxStep
  <1>8. QED
    BY <1>5, <1>6, <1>7 DEF Next

\* What the commits establish: a period leaves 'open' only with a submission,
\* is closed only with a snapshot, and each change has its audit row.
LEMMA CommitsStep ==
  ASSUME TypeOK, InFlight, InFlightSubmitted, PastOpenMeansSubmitted, ClosedHasSnapshot,
         LoggedFirst, CommittedIsAudited, [Next]_vars
  PROVE  PastOpenMeansSubmitted' /\ ClosedHasSnapshot' /\ CommittedIsAudited'
  <1> DEFINE Good(n) ==
        /\ status[n] \in {"gp_submitted", "verification", "closed"} => submitted[n]
        /\ status[n] = "closed" => snapshots[n] # Null
        /\ status[n] # "none" => <<"period_opened", n>> \in audit
        /\ submitted[n] => <<"gp_submitted", n>> \in audit
        /\ snapshots[n] # Null => <<"period_closed", n>> \in audit
  <1>1. ASSUME NEW n \in PeriodNo PROVE Good(n)
    BY DEF PastOpenMeansSubmitted, ClosedHasSnapshot, CommittedIsAudited
  <1>2. SUFFICES ASSUME NEW n \in PeriodNo PROVE Good(n)'
    BY DEF PastOpenMeansSubmitted, ClosedHasSnapshot, CommittedIsAudited
  <1> USE DEF TypeOK, rows
  <1>3. CASE ApproveZeroReport \/ (\E k \in PeriodNo : TokenExpires(k)) \/ UNCHANGED vars
    BY <1>1, <1>3 DEF ApproveZeroReport, TokenExpires, vars
  <1>4. ASSUME NEW w \in Workers, Request(w) PROVE Good(n)'
    BY <1>1, <1>4 DEF Request, OpenRequest, SubmitRead, FactRequest, CloseRead, DisputeRead,
                      ForceDiscrepancy
  <1>5. ASSUME NEW w \in Workers, TxStep(w) PROVE Good(n)'
    <2>1. CASE OpenLock(w) \/ OpenCheck(w) \/ OpenInsert(w) \/ SubmitUpdate(w) \/ FactRead(w)
            \/ CloseCount(w) \/ CloseCompute(w) \/ CloseSnapshot(w) \/ DisputeMark(w)
            \/ DisputeInsert(w) \/ ForceFact(w) \/ Abort(w)
      <3>1. UNCHANGED <<status, submitted, snapshots>> /\ audit \subseteq audit'
        BY <2>1 DEF OpenLock, OpenCheck, OpenInsert, SubmitUpdate, FactRead, CloseCount,
                    CloseCompute, CloseSnapshot, DisputeMark, DisputeInsert, ForceFact, Abort, Log
      <3>2. QED
        BY <1>1, <3>1
    <2>2. CASE OpenCommit(w)
      <3>1. <<"period_opened", tx[w].p>> \in audit' /\ audit \subseteq audit'
        BY <2>2 DEF OpenCommit, LoggedFirst
      <3>2. QED
        BY <1>1, <2>2, <3>1 DEF OpenCommit
    <2>3. CASE SubmitCommit(w)
      <3>1. <<"gp_submitted", tx[w].p>> \in audit' /\ audit \subseteq audit'
        BY <2>3 DEF SubmitCommit, LoggedFirst
      <3>2. status[tx[w].p] # "none"
        BY <2>3 DEF SubmitCommit, InFlight, OnPeriod, Submitting
      <3>3. QED
        BY <1>1, <2>3, <3>1, <3>2 DEF SubmitCommit
    <2>4. CASE FactCommit(w)
      <3>1. audit \subseteq audit'
        BY <2>4 DEF FactCommit
      <3>2. status[tx[w].p] # "none"
            /\ (StartsVerification(tx[w].seen) => submitted[tx[w].p])
        BY <2>4 DEF FactCommit, InFlight, OnPeriod, Entering, InFlightSubmitted,
                    StartsVerification
      <3>3. QED
        BY <1>1, <2>4, <3>1, <3>2 DEF FactCommit
    <2>5. CASE CloseCommit(w)
      <3>1. <<"period_closed", tx[w].p>> \in audit' /\ audit \subseteq audit'
        BY <2>5 DEF CloseCommit, LoggedFirst
      <3>2. status[tx[w].p] # "none" /\ submitted[tx[w].p] /\ tx[w].volumes # Null
        BY <2>5, NullFacts DEF CloseCommit, InFlight, OnPeriod, Closing, Counted,
                               InFlightSubmitted
      <3>3. QED
        BY <1>1, <2>5, <3>1, <3>2 DEF CloseCommit
    <2>6. QED
      BY <1>5, <2>1, <2>2, <2>3, <2>4, <2>5 DEF TxStep
  <1>6. QED
    BY <1>3, <1>4, <1>5 DEF Next

-----------------------------------------------------------------------------
\* What one request does to another: nothing it carries, and neither its locks
\* nor the rows behind them

\* The steps of one request leave the record of another, what it locked, and the
\* log.
LEMMA OthersKeep ==
  ASSUME TypeOK, InFlight, ClosersHoldLock, NEW w \in Workers, Request(w) \/ TxStep(w),
         NEW v \in Workers, v # w
  PROVE  /\ tx'[v] = tx[v] /\ audit \subseteq audit'
         /\ \A n \in PeriodNo : rowLock[n] = v =>
              rowLock'[n] = v /\ snapshots'[n] = snapshots[n]
  <1> USE DEF TypeOK, rows
  <1>0. NoOne # v
    BY PeriodAssumption
  <1>1. CASE Request(w)
    <2>1. \E t : tx' = [tx EXCEPT ![w] = t]
      BY <1>1 DEF Request, OpenRequest, SubmitRead, FactRequest, CloseRead, DisputeRead,
                  ForceDiscrepancy, Begin
    <2>2. audit' = audit /\ rowLock' = rowLock /\ snapshots' = snapshots
      BY <1>1 DEF Request, OpenRequest, SubmitRead, FactRequest, CloseRead, DisputeRead,
                  ForceDiscrepancy
    <2>3. QED
      BY <2>1, <2>2
  <1>2. CASE OpenLock(w) \/ OpenCheck(w) \/ OpenInsert(w) \/ FactRead(w) \/ FactCommit(w)
          \/ CloseCount(w) \/ CloseSnapshot(w) \/ DisputeMark(w) \/ DisputeInsert(w)
          \/ ForceFact(w)
    BY <1>2 DEF OpenLock, OpenCheck, OpenInsert, FactRead, FactCommit, CloseCount,
                CloseSnapshot, DisputeMark, DisputeInsert, ForceFact, Step, Done, Log
  <1>3. CASE SubmitUpdate(w) \/ CloseCompute(w)
    <2>1. tx'[v] = tx[v] /\ audit \subseteq audit' /\ snapshots' = snapshots
      BY <1>3 DEF SubmitUpdate, CloseCompute, Step, Log
    <2>2. rowLock[tx[w].p] = NoOne /\ rowLock' = [rowLock EXCEPT ![tx[w].p] = w]
      BY <1>3 DEF SubmitUpdate, CloseCompute
    <2>3. QED
      BY <1>0, <2>1, <2>2
  <1>4. CASE OpenCommit(w) \/ SubmitCommit(w) \/ Abort(w)
    BY <1>4 DEF OpenCommit, SubmitCommit, Abort, Release, Done
  <1>5. CASE CloseCommit(w)
    <2>1. tx[w].p \in PeriodNo /\ rowLock[tx[w].p] = w
      BY <1>5 DEF CloseCommit, ClosersHoldLock, InFlight, OnPeriod, Closing, Counted
    <2>2. tx'[v] = tx[v] /\ audit' = audit
      BY <1>5 DEF CloseCommit, Done
    <2>3. \A n \in PeriodNo : rowLock[n] = v => rowLock'[n] = v
      BY <1>5 DEF CloseCommit, Release
    <2>4. \A n \in PeriodNo : rowLock[n] = v => snapshots'[n] = snapshots[n]
      BY <1>5, <2>1 DEF CloseCommit
    <2>5. QED
      BY <2>2, <2>3, <2>4
  <1>6. QED
    BY <1>1, <1>2, <1>3, <1>4, <1>5 DEF TxStep

\* A request is past its log, or past its count, only by the step that logs or
\* counts.
LEMMA Arrival ==
  ASSUME TypeOK, NEW w \in Workers, Request(w) \/ TxStep(w)
  PROVE  LET pc == tx'[w].pc IN
         /\ tx'[w].p = tx[w].p \/ pc \notin {"openCommit", "submitCommit"} \cup Counted
         /\ pc = "openCommit" => OpenInsert(w)
         /\ pc = "submitCommit" => SubmitUpdate(w)
         /\ pc = "closeCompute" => CloseCount(w)
         /\ pc = "closeSnapshot" => CloseCompute(w)
         /\ pc = "closeCommit" => CloseSnapshot(w)
  <1> DEFINE After == {"openCommit", "submitCommit"} \cup Counted
  <1> USE DEF Counted
  <1>0. tx \in [Workers -> Tx] /\ tx[w] \in Tx
    BY DEF TypeOK
  <1>1. CASE Request(w)
    <2>1. ASSUME NEW t, Begin(w, t), t.pc \notin After PROVE tx'[w].pc \notin After
      BY <1>0, <2>1 DEF Begin
    <2>2. tx'[w].pc \notin After
      BY <1>1, <2>1, ZenonT(60) DEF Request, OpenRequest, SubmitRead, FactRequest, CloseRead,
         DisputeRead, ForceDiscrepancy, IdleTx
    <2>3. QED
      BY <2>2
  <1>2. CASE OpenCommit(w) \/ SubmitCommit(w) \/ FactCommit(w) \/ CloseCommit(w)
          \/ DisputeInsert(w) \/ ForceFact(w) \/ Abort(w)
    <2>1. tx' = [tx EXCEPT ![w] = IdleTx]
      BY <1>2 DEF OpenCommit, SubmitCommit, FactCommit, CloseCommit, DisputeInsert, ForceFact,
                  Abort, Done
    <2>2. tx'[w].pc = "idle"
      BY <1>0, <2>1 DEF IdleTx
    <2>3. QED
      BY <2>2
  <1>3. CASE OpenLock(w)
    BY <1>0, <1>3 DEF OpenLock, Step, Tx
  <1>4. CASE OpenCheck(w)
    <2>1. tx'[w].pc = "openInsert"
      BY <1>0, <1>4 DEF OpenCheck, Step, Tx
    <2>2. QED
      BY <2>1
  <1>5. CASE OpenInsert(w)
    BY <1>0, <1>5 DEF OpenInsert, Step, Tx
  <1>6. CASE SubmitUpdate(w)
    BY <1>0, <1>6 DEF SubmitUpdate, Step, Tx
  <1>7. CASE FactRead(w)
    BY <1>0, <1>7 DEF FactRead, Step, Tx
  <1>8. CASE CloseCount(w)
    BY <1>0, <1>8 DEF CloseCount, Step, Tx
  <1>9. CASE CloseCompute(w)
    BY <1>0, <1>9 DEF CloseCompute, Step, Tx
  <1>10. CASE CloseSnapshot(w)
    BY <1>0, <1>10 DEF CloseSnapshot, Step, Tx
  <1>11. CASE DisputeMark(w)
    BY <1>0, <1>11 DEF DisputeMark, Step, Tx
  <1>12. QED
    BY <1>1, <1>2, <1>3, <1>4, <1>5, <1>6, <1>7, <1>8, <1>9, <1>10, <1>11 DEF TxStep

\* A handler about to commit has logged, and a close about to write its snapshot
\* holds the row.
LEMMA CarriedStep ==
  ASSUME TypeOK, InFlight, LoggedFirst, ClosersHoldLock, [Next]_vars
  PROVE  LoggedFirst' /\ ClosersHoldLock'
  <1> DEFINE Logged(v) ==
        /\ tx[v].pc = "openCommit" => <<"period_opened", tx[v].p>> \in audit
        /\ tx[v].pc = "submitCommit" => <<"gp_submitted", tx[v].p>> \in audit
        /\ tx[v].pc = "closeCommit" => <<"period_closed", tx[v].p>> \in audit
             Locked(v) ==
        /\ tx[v].pc \in {"closeSnapshot", "closeCommit"} => rowLock[tx[v].p] = v
        /\ tx[v].pc = "closeCommit" => snapshots[tx[v].p] = Null
  <1>1. \A v \in Workers : Logged(v) /\ Locked(v)
    BY DEF LoggedFirst, ClosersHoldLock
  <1>2. SUFFICES ASSUME NEW v \in Workers PROVE Logged(v)' /\ Locked(v)'
    BY DEF LoggedFirst, ClosersHoldLock
  <1>3. tx[v].pc \in {"closeSnapshot", "closeCommit"} => tx[v].p \in PeriodNo
    BY DEF InFlight, OnPeriod, Closing, Counted
  <1>4. CASE ApproveZeroReport \/ (\E k \in PeriodNo : TokenExpires(k)) \/ UNCHANGED vars
    BY <1>1, <1>4 DEF ApproveZeroReport, TokenExpires, vars
  <1>5. ASSUME NEW w \in Workers, Request(w) \/ TxStep(w), v # w
        PROVE  Logged(v)' /\ Locked(v)'
    BY <1>1, <1>3, <1>5, OthersKeep
  <1>6. ASSUME Request(v) \/ TxStep(v) PROVE Logged(v)' /\ Locked(v)'
    <2> DEFINE pc == tx'[v].pc
    <2>1. CASE pc \notin {"openCommit", "submitCommit", "closeSnapshot", "closeCommit"}
      BY <2>1
    <2>2. CASE pc = "openCommit"
      BY <1>6, <2>2, Arrival DEF OpenInsert, Log
    <2>3. CASE pc = "submitCommit"
      BY <1>6, <2>3, Arrival DEF SubmitUpdate, Log
    <2>4. CASE pc = "closeSnapshot"
      <3>1. CloseCompute(v) /\ tx'[v].p = tx[v].p
        BY <1>6, <2>4, Arrival DEF Counted
      <3>2. tx[v].p \in PeriodNo
        BY <3>1 DEF CloseCompute, InFlight, OnPeriod, Closing, Counted
      <3>3. rowLock'[tx[v].p] = v
        BY <3>1, <3>2 DEF CloseCompute, TypeOK
      <3>4. QED
        BY <2>4, <3>1, <3>3
    <2>5. CASE pc = "closeCommit"
      <3>1. CloseSnapshot(v) /\ tx'[v].p = tx[v].p
        BY <1>6, <2>5, Arrival DEF Counted
      <3>2. <<"period_closed", tx[v].p>> \in audit' /\ rowLock' = rowLock
            /\ snapshots' = snapshots /\ snapshots[tx[v].p] = Null
        BY <3>1 DEF CloseSnapshot, Log, rows
      <3>3. rowLock[tx[v].p] = v
        BY <1>1, <3>1 DEF CloseSnapshot
      <3>4. QED
        BY <2>5, <3>1, <3>2, <3>3
    <2>6. QED
      BY <2>1, <2>2, <2>3, <2>4, <2>5
  <1>7. QED
    BY <1>4, <1>5, <1>6 DEF Next

\* The commit of a close writes the first snapshot of its period.
LEMMA SnapshotStays ==
  ASSUME TypeOK, InFlight, ClosersHoldLock, [Next]_vars, NEW n \in PeriodNo
  PROVE  snapshots[n] # Null => snapshots'[n] = snapshots[n]
  <1>1. ASSUME NEW w \in Workers, CloseCommit(w)
        PROVE  snapshots[n] # Null => snapshots'[n] = snapshots[n]
    <2>1. snapshots[tx[w].p] = Null
      BY <1>1 DEF CloseCommit, ClosersHoldLock
    <2>2. QED
      BY <1>1, <2>1 DEF CloseCommit, TypeOK
  <1>2. CASE ~ \E w \in Workers : CloseCommit(w)
    <2>1. snapshots' = snapshots
      <3>1. ASSUME NEW w \in Workers, Request(w) PROVE snapshots' = snapshots
        BY <3>1 DEF Request, OpenRequest, SubmitRead, FactRequest, CloseRead, DisputeRead,
                    ForceDiscrepancy, rows
      <3>2. ASSUME NEW w \in Workers, TxStep(w) PROVE snapshots' = snapshots
        BY <1>2, <3>2 DEF TxStep, OpenLock, OpenCheck, OpenInsert, OpenCommit, SubmitUpdate,
           SubmitCommit, FactRead, FactCommit, CloseCount, CloseCompute, CloseSnapshot,
           DisputeMark, DisputeInsert, ForceFact, Abort, rows
      <3>3. CASE ApproveZeroReport \/ (\E k \in PeriodNo : TokenExpires(k)) \/ UNCHANGED vars
        BY <3>3 DEF ApproveZeroReport, TokenExpires, vars
      <3>4. QED
        BY <3>1, <3>2, <3>3 DEF Next
    <2>2. QED
      BY <2>1
  <1>3. QED
    BY <1>1, <1>2

\* Once a close has counted, a new discrepancy of its period is late.
LEMMA LateKept ==
  ASSUME TypeOK, InFlight, [Next]_vars, NEW n \in PeriodNo,
         CloseHasCounted(n), disputes[n] \subseteq late[n]
  PROVE  disputes'[n] \subseteq late'[n]
  <1>1. ASSUME NEW w \in Workers, DisputeInsert(w) PROVE disputes'[n] \subseteq late'[n]
    <2>1. tx[w].p \in PeriodNo
      BY <1>1 DEF DisputeInsert, InFlight, OnPeriod
    <2>2. CASE tx[w].p = n
      <3>1. disputes'[n] = disputes[n] \cup {tx[w].item}
        BY <1>1, <2>2 DEF DisputeInsert, TypeOK
      <3>2. late'[n] = late[n] \cup ({tx[w].item} \ disputes[n])
        BY <1>1, <2>2 DEF DisputeInsert, TypeOK
      <3>3. QED
        BY <3>1, <3>2
    <2>3. CASE tx[w].p # n
      BY <1>1, <2>1, <2>3 DEF DisputeInsert, TypeOK
    <2>4. QED
      BY <2>2, <2>3
  <1>2. ASSUME NEW w \in Workers, NEW k \in PeriodNo, NEW i \in Items, ForceDiscrepancy(w, k, i)
        PROVE  disputes'[n] \subseteq late'[n]
    BY <1>2 DEF ForceDiscrepancy, TypeOK
  <1>3. ASSUME NEW w \in Workers, Request(w) PROVE disputes'[n] \subseteq late'[n]
    <2>1. CASE UNCHANGED <<disputes, late>>
      BY <2>1
    <2>2. CASE ~ UNCHANGED <<disputes, late>>
      BY <1>2, <1>3, <2>2 DEF Request, OpenRequest, SubmitRead, FactRequest, CloseRead,
                              DisputeRead, rows
    <2>3. QED
      BY <2>1, <2>2
  <1>4. ASSUME NEW w \in Workers, TxStep(w) PROVE disputes'[n] \subseteq late'[n]
    <2>1. DisputeInsert(w) \/ UNCHANGED <<disputes, late>>
      BY <1>4 DEF TxStep, OpenLock, OpenCheck, OpenInsert, OpenCommit, SubmitUpdate,
         SubmitCommit, FactRead, FactCommit, CloseCount, CloseCompute, CloseSnapshot,
         CloseCommit, DisputeMark, ForceFact, Abort, rows
    <2>2. QED
      BY <1>1, <2>1
  <1>5. CASE ApproveZeroReport \/ (\E k \in PeriodNo : TokenExpires(k)) \/ UNCHANGED vars
    BY <1>5 DEF ApproveZeroReport, TokenExpires, vars
  <1>6. QED
    BY <1>3, <1>4, <1>5 DEF Next

\* A period becomes closed only by the commit of a close.
LEMMA ClosedBefore ==
  ASSUME TypeOK, InFlight, [Next]_vars, NEW n \in PeriodNo, status'[n] = "closed"
  PROVE  status[n] = "closed" \/ \E w \in Workers : tx[w].pc = "closeCommit" /\ tx[w].p = n
  <1> USE DEF TypeOK, rows
  <1>1. CASE ApproveZeroReport \/ (\E k \in PeriodNo : TokenExpires(k)) \/ UNCHANGED vars
    BY <1>1 DEF ApproveZeroReport, TokenExpires, vars
  <1>2. ASSUME NEW w \in Workers, Request(w) PROVE status' = status
    BY <1>2 DEF Request, OpenRequest, SubmitRead, FactRequest, CloseRead, DisputeRead,
                ForceDiscrepancy
  <1>3. ASSUME NEW w \in Workers, TxStep(w)
        PROVE  status[n] = "closed" \/ (tx[w].pc = "closeCommit" /\ tx[w].p = n)
    <2>1. CASE OpenLock(w) \/ OpenCheck(w) \/ OpenInsert(w) \/ SubmitUpdate(w) \/ FactRead(w)
            \/ CloseCount(w) \/ CloseCompute(w) \/ CloseSnapshot(w) \/ DisputeMark(w)
            \/ DisputeInsert(w) \/ ForceFact(w) \/ Abort(w)
      BY <2>1 DEF OpenLock, OpenCheck, OpenInsert, SubmitUpdate, FactRead, CloseCount,
                  CloseCompute, CloseSnapshot, DisputeMark, DisputeInsert, ForceFact, Abort
    <2>2. CASE OpenCommit(w)
      BY <2>2 DEF OpenCommit
    <2>3. CASE SubmitCommit(w)
      BY <2>3 DEF SubmitCommit
    <2>4. CASE FactCommit(w)
      BY <2>4 DEF FactCommit
    <2>5. CASE CloseCommit(w)
      BY <2>5 DEF CloseCommit
    <2>6. QED
      BY <1>3, <2>1, <2>2, <2>3, <2>4, <2>5 DEF TxStep
  <1>4. QED
    BY <1>1, <1>2, <1>3 DEF Next

\* What a close overlooks, and what a closed period has open, is late.
LEMMA LateStep ==
  ASSUME TypeOK, InFlight, CountStands, OnlyLateDisputesOverlooked, ClosersHoldLock,
         [Next]_vars
  PROVE  CountStands' /\ OnlyLateDisputesOverlooked'
  <1>1. ASSUME NEW w \in Workers, tx[w].pc \in Counted
        PROVE  tx[w].p \in PeriodNo /\ disputes'[tx[w].p] \subseteq late'[tx[w].p]
    <2>1. tx[w].p \in PeriodNo /\ CloseHasCounted(tx[w].p)
      BY <1>1 DEF InFlight, OnPeriod, Closing, CloseHasCounted
    <2>2. disputes[tx[w].p] \subseteq late[tx[w].p]
      BY <1>1 DEF CountStands
    <2>3. QED
      BY <2>1, <2>2, LateKept
  <1>2. OnlyLateDisputesOverlooked'
    <2>1. SUFFICES ASSUME NEW n \in PeriodNo, status'[n] = "closed"
                   PROVE  disputes'[n] \subseteq late'[n]
      BY DEF OnlyLateDisputesOverlooked
    <2>2. CASE status[n] = "closed"
      BY <2>2, LateKept DEF OnlyLateDisputesOverlooked, CloseHasCounted
    <2>3. ASSUME NEW w \in Workers, tx[w].pc = "closeCommit", tx[w].p = n
          PROVE  disputes'[n] \subseteq late'[n]
      BY <1>1, <2>3 DEF Counted
    <2>4. QED
      BY <2>1, <2>2, <2>3, ClosedBefore
  <1>3. CountStands'
    <2>1. SUFFICES ASSUME NEW v \in Workers, tx'[v].pc \in Counted
                   PROVE  disputes'[tx'[v].p] \subseteq late'[tx'[v].p]
      BY DEF CountStands
    <2>2. CASE tx'[v] = tx[v]
      BY <1>1, <2>1, <2>2
    <2>3. CASE Request(v) \/ TxStep(v)
      <3>1. tx'[v].p = tx[v].p /\ (CloseCount(v) \/ CloseCompute(v) \/ CloseSnapshot(v))
        BY <2>1, <2>3, Arrival DEF Counted
      <3>2. CASE CloseCount(v)
        BY <3>1, <3>2 DEF CloseCount, rows
      <3>3. CASE CloseCompute(v) \/ CloseSnapshot(v)
        <4>1. tx[v].pc \in Counted
          BY <3>3 DEF CloseCompute, CloseSnapshot, Counted
        <4>2. QED
          BY <1>1, <3>1, <4>1
      <3>4. QED
        BY <3>1, <3>2, <3>3
    <2>4. ASSUME NEW w \in Workers, w # v, Request(w) \/ TxStep(w)
          PROVE  tx'[v] = tx[v]
      BY <2>4, OthersKeep
    <2>5. CASE ApproveZeroReport \/ (\E k \in PeriodNo : TokenExpires(k)) \/ UNCHANGED vars
      BY <2>2, <2>5 DEF ApproveZeroReport, TokenExpires, vars
    <2>6. QED
      BY <2>2, <2>3, <2>4, <2>5 DEF Next
  <1>4. QED
    BY <1>2, <1>3

-----------------------------------------------------------------------------
\* The theorems

\* Initially every table is empty and every request idle.
LEMMA InitIInv == Init => IInv
  <1> SUFFICES ASSUME Init PROVE IInv
    OBVIOUS
  <1>1. TypeOK
    BY IdleTyped, PeriodAssumption DEF Init, TypeOK, Status, Fact, NoFact, MaybeVol, PeriodNo
  <1>2. InFlight /\ OpenersHoldLock /\ InFlightSubmitted /\ LoggedFirst /\ ClosersHoldLock
        /\ CountStands
    BY DEF Init, InFlight, OpenersHoldLock, InFlightSubmitted, LoggedFirst, ClosersHoldLock,
           CountStands, IdleTx, OnPeriod, Submitting, Entering, Disputing, Closing, Counted,
           Opening
  <1>3. NumbersContiguous /\ PastOpenMeansSubmitted /\ ClosedHasSnapshot /\ CommittedIsAudited
        /\ OnlyLateDisputesOverlooked
    BY DEF Init, NumbersContiguous, PastOpenMeansSubmitted, ClosedHasSnapshot,
           CommittedIsAudited, OnlyLateDisputesOverlooked
  <1>4. QED
    BY <1>1, <1>2, <1>3 DEF IInv

\* The invariant of the design: PeriodService keeps IInv whatever requests
\* arrive, interleave and fail.
THEOREM InductiveInvariant == Spec => []IInv
  <1>1. IInv /\ [Next]_vars => IInv'
    <2>1. SUFFICES ASSUME IInv, [Next]_vars PROVE IInv'
      OBVIOUS
    <2>2. TypeOK' /\ InFlight'
      BY <2>1, TypeStep, InFlightStep DEF IInv
    <2>3. OpenersHoldLock' /\ NumbersContiguous'
      BY <2>1, OpenersStep, ContiguousStep DEF IInv
    <2>4. InFlightSubmitted' /\ PastOpenMeansSubmitted' /\ ClosedHasSnapshot'
          /\ CommittedIsAudited'
      BY <2>1, InFlightSubmittedStep, CommitsStep DEF IInv
    <2>5. LoggedFirst' /\ ClosersHoldLock' /\ CountStands' /\ OnlyLateDisputesOverlooked'
      BY <2>1, CarriedStep, LateStep DEF IInv
    <2>6. QED
      BY <2>2, <2>3, <2>4, <2>5 DEF IInv
  <1>2. QED
    BY InitIInv, <1>1, PTL DEF Spec

\* Every variable keeps its type: a row is what the table's columns allow, and a
\* request carries what its next step reads.
THEOREM TypeCorrect == Spec => []TypeOK
  <1>1. IInv => TypeOK
    BY DEF IInv
  <1>2. QED
    BY <1>1, InductiveInvariant, PTL

\* ADR-002 for any number of racing openPeriod requests: one open period.
THEOREM OneOpen == Spec => []OneOpenPeriod
  <1>1. IInv => OneOpenPeriod
    <2>1. SUFFICES ASSUME IInv, NEW m \in PeriodNo, NEW n \in PeriodNo,
                          status[m] = "open", status[n] = "open"
                   PROVE  m = n
      BY DEF OneOpenPeriod
    <2>2. m \in Nat /\ n \in Nat /\ m >= 1 /\ n >= 1
      BY PeriodAssumption DEF PeriodNo
    <2>3. ~(m < n) /\ ~(n < m)
      BY <2>1, <2>2 DEF IInv, NumbersContiguous
    <2>4. QED
      BY <2>2, <2>3
  <1>2. QED
    BY <1>1, InductiveInvariant, PTL

\* The periods of an object are numbered without a gap and only the last is open.
THEOREM Contiguous == Spec => []NumbersContiguous
  <1>1. IInv => NumbersContiguous
    BY DEF IInv
  <1>2. QED
    BY <1>1, InductiveInvariant, PTL

\* The advisory lock alone decides the race: an opener that passed the checks
\* inserts a number no other request has taken.
THEOREM LockSuffices == Spec => []UniqueNeverHit
  <1>1. IInv => UniqueNeverHit
    <2>1. SUFFICES ASSUME IInv, NEW w \in Workers, tx[w].pc = "openInsert"
                   PROVE  status[tx[w].p] = "none"
      BY DEF UniqueNeverHit
    <2>2. tx[w].p \in PeriodNo
      BY <2>1 DEF IInv, OpenersHoldLock
    <2>3. ~(tx[w].p < tx[w].p)
      BY <2>2, PeriodAssumption DEF PeriodNo
    <2>4. QED
      BY <2>1, <2>2, <2>3 DEF IInv, OpenersHoldLock
  <1>2. QED
    BY <1>1, InductiveInvariant, PTL

\* No period leaves 'open' without the GP's submission, whatever the handlers
\* read and however late they commit.
THEOREM PastOpenSubmitted == Spec => []PastOpenMeansSubmitted
  <1>1. IInv => PastOpenMeansSubmitted
    BY DEF IInv
  <1>2. QED
    BY <1>1, InductiveInvariant, PTL

\* ADR-011: a closed period has its readiness snapshot.
THEOREM ClosedSnapshot == Spec => []ClosedHasSnapshot
  <1>1. IInv => ClosedHasSnapshot
    BY DEF IInv
  <1>2. QED
    BY <1>1, InductiveInvariant, PTL

\* What committed is in the audit log, although the log is another connection's
\* and its row is written apart from the commit.
THEOREM Audited == Spec => []CommittedIsAudited
  <1>1. IInv => CommittedIsAudited
    BY DEF IInv
  <1>2. QED
    BY <1>1, InductiveInvariant, PTL

\* The only open discrepancies of a closed period are those opened after the close
\* had counted, however many requests race.
THEOREM OnlyLateOverlooked == Spec => []OnlyLateDisputesOverlooked
  <1>1. IInv => OnlyLateDisputesOverlooked
    BY DEF IInv
  <1>2. QED
    BY <1>1, InductiveInvariant, PTL

\* A snapshot is written once, even for a period closed twice.
THEOREM SnapshotOnce == Spec => SnapshotWrittenOnce
  <1>1. IInv /\ [Next]_vars =>
          [\A n \in PeriodNo : snapshots[n] # Null => snapshots'[n] = snapshots[n]]_vars
    BY SnapshotStays DEF IInv
  <1>2. QED
    BY <1>1, InductiveInvariant, PTL DEF Spec, SnapshotWrittenOnce

\* Offline clients rely on it: no step changes an SC volume under an old version.
THEOREM VersionGuardsSc == Spec => ScChangeBumpsVersion
  <1> DEFINE Kept(old, new) == new.version >= old.version
                               /\ (new.sc # old.sc => new.version > old.version)
             Guarded == \A n \in PeriodNo, i \in Items : Kept(facts[n][i], facts'[n][i])
  <1>1. IInv /\ [Next]_vars => Guarded
    <2>1. SUFFICES ASSUME IInv, [Next]_vars, NEW n \in PeriodNo, NEW i \in Items
                   PROVE  Kept(facts[n][i], facts'[n][i])
      OBVIOUS
    <2>2. facts \in [PeriodNo -> [Items -> Fact]]
      BY <2>1 DEF IInv, TypeOK
    <2>3. \A f \in Fact : Kept(f, f)
      BY DEF Fact
    <2>4. ASSUME NEW w \in Workers, TxStep(w) PROVE Kept(facts[n][i], facts'[n][i])
      <3>1. CASE OpenLock(w) \/ OpenCheck(w) \/ OpenInsert(w) \/ OpenCommit(w)
              \/ SubmitUpdate(w) \/ FactRead(w) \/ CloseCount(w) \/ CloseCompute(w)
              \/ CloseSnapshot(w) \/ CloseCommit(w) \/ DisputeInsert(w) \/ Abort(w)
        <4>1. facts' = facts
          BY <3>1 DEF OpenLock, OpenCheck, OpenInsert, OpenCommit, SubmitUpdate, FactRead,
             CloseCount, CloseCompute, CloseSnapshot, CloseCommit, DisputeInsert, Abort, rows
        <4>2. QED
          BY <2>2, <2>3, <4>1
      <3>2. CASE SubmitCommit(w)
        <4>1. tx[w].p \in PeriodNo /\ tx[w].volumes \in [Items -> MaybeVol]
          BY <2>1, <3>2 DEF SubmitCommit, IInv, InFlight, OnPeriod, Submitting
        <4>2. PICK c \in BOOLEAN :
                facts' = [facts EXCEPT ![tx[w].p] =
                   [k \in Items |-> GpFact(facts[tx[w].p][k], tx[w].volumes[k], c)]]
          BY <3>2 DEF SubmitCommit
        <4>3. ASSUME NEW f \in Fact, NEW v \in MaybeVol PROVE Kept(f, GpFact(f, v, c))
          <5>1. [f EXCEPT !.gp = v] \in Fact /\ [f EXCEPT !.gp = v].version = f.version
            BY DEF Fact
          <5>2. QED
            BY <2>3, <5>1, VersionMoves DEF GpFact
        <4>4. facts'[n][i] = facts[n][i]
              \/ facts'[n][i] = GpFact(facts[n][i], tx[w].volumes[i], c)
          BY <2>2, <4>1, <4>2
        <4>5. facts[n][i] \in Fact /\ tx[w].volumes[i] \in MaybeVol
          BY <2>2, <4>1
        <4>6. QED
          BY <2>3, <4>3, <4>4, <4>5
      <3>3. CASE FactCommit(w)
        <4> DEFINE old == facts[tx[w].p][tx[w].item]
        <4>1. tx[w].p \in PeriodNo /\ tx[w].item \in Items /\ tx[w].vol \in Vols
          BY <2>1, <3>3 DEF FactCommit, IInv, InFlight, OnPeriod, Entering
        <4>2. old \in Fact
          BY <2>2, <4>1
        <4>3. Kept(old, Upsert(old, ScFact(old, tx[w].gp, tx[w].vol), FALSE))
          BY <4>1, <4>2, ScRow, VersionMoves
        <4>4. \/ facts'[n][i] = facts[n][i]
              \/ n = tx[w].p /\ i = tx[w].item
                 /\ facts'[n][i] = Upsert(old, ScFact(old, tx[w].gp, tx[w].vol), FALSE)
          BY <2>2, <3>3, <4>1 DEF FactCommit
        <4>5. QED
          BY <2>2, <2>3, <4>3, <4>4
      <3>4. CASE DisputeMark(w)
        <4> DEFINE old == facts[tx[w].p][tx[w].item]
        <4>1. tx[w].p \in PeriodNo /\ tx[w].item \in Items
          BY <2>1, <3>4 DEF DisputeMark, IInv, InFlight, OnPeriod, Disputing
        <4>2. old \in Fact
          BY <2>2, <4>1
        <4>3. Disputed(old) \in Fact /\ Disputed(old).version = old.version
          BY <4>2 DEF Disputed, Fact
        <4>4. Kept(old, Bump(old, Disputed(old), FALSE))
          BY <4>2, <4>3, VersionMoves
        <4>5. \/ facts'[n][i] = facts[n][i]
              \/ n = tx[w].p /\ i = tx[w].item
                 /\ facts'[n][i] = Bump(old, Disputed(old), FALSE)
          BY <2>2, <3>4, <4>1 DEF DisputeMark
        <4>6. QED
          BY <2>2, <2>3, <4>4, <4>5
      <3>5. CASE ForceFact(w)
        <4>1. facts[n][i] \in Fact /\ tx[w].p \in PeriodNo /\ tx[w].item \in Items
          BY <2>1, <2>2, <3>5 DEF ForceFact, IInv, InFlight, Disputing
        <4>2. facts'[n][i] = facts[n][i] \/ facts'[n][i] = Forced(facts[n][i], tx[w].vol)
          BY <2>2, <3>5, <4>1 DEF ForceFact
        <4>3. facts'[n][i].version = facts[n][i].version /\ facts'[n][i].sc = facts[n][i].sc
          BY <4>1, <4>2 DEF Forced, Fact
        <4>4. QED
          BY <4>1, <4>3 DEF Fact
      <3>6. QED
        BY <2>4, <3>1, <3>2, <3>3, <3>4, <3>5 DEF TxStep
    <2>5. CASE ApproveZeroReport \/ (\E k \in PeriodNo : TokenExpires(k))
            \/ (\E w \in Workers : Request(w)) \/ UNCHANGED vars
      <3>1. facts' = facts
        BY <2>5, ZenonT(60) DEF ApproveZeroReport, TokenExpires, Request, OpenRequest, SubmitRead,
           FactRequest, CloseRead, DisputeRead, ForceDiscrepancy, vars, rows
      <3>2. QED
        BY <2>2, <2>3, <3>1
    <2>6. QED
      BY <2>1, <2>4, <2>5 DEF Next
  <1>2. Guarded =>
          \A n \in PeriodNo, i \in Items :
             /\ facts'[n][i].version >= facts[n][i].version
             /\ facts'[n][i].sc # facts[n][i].sc
                  => facts'[n][i].version > facts[n][i].version
    OBVIOUS
  <1>3. QED
    BY <1>1, <1>2, InductiveInvariant, PTL DEF Spec, ScChangeBumpsVersion
-----------------------------------------------------------------------------
\* One request at a time: what it keeps, and the refinement of PeriodLifecycle

\* The volumes of a period after the step.
VolumesNext(n) == [i \in Items |-> CountedVolume(facts'[n][i])]

\* Current after the step, of a request as it is then.
CurrentNext(t) ==
  /\ t.pc \in Submitting => status'[t.p] = "open"
  /\ t.pc \in Entering =>
       status'[t.p] = t.seen /\ t.seen \in {"open", "gp_submitted", "verification"}
  /\ t.pc \in Closing => status'[t.p] = "verification"
  /\ t.pc \in {"closeSnapshot", "closeCommit"} => t.volumes = VolumesNext(t.p)
  /\ t.pc = "forceFact" => t.vol = facts'[t.p][t.item].sc

\* What a step must show to be a step of the sequential system.
StepGood ==
  /\ \A w \in Workers : CurrentNext(tx'[w])
  /\ AcceptedIsMeasured' /\ SnapshotMatchesFacts'
  /\ [Lifecycle!Next]_(Lifecycle!vars)

\* A request that reads nothing it will rely on is current.
LEMMA NothingRead ==
  ASSUME NEW t, t.pc \in {"idle", "openLock", "openCheck", "openInsert", "openCommit",
                          "disputeMark", "disputeInsert"}
  PROVE  CurrentNext(t)
  BY DEF CurrentNext, Submitting, Entering, Closing, Counted

\* The only request there is being current, all are.
LEMMA SoleStep ==
  ASSUME OneAtATime, tx \in [Workers -> Tx], NEW w \in Workers, NEW t,
         Begin(w, t) \/ Step(w, t), CurrentNext(t)
  PROVE  \A v \in Workers : CurrentNext(tx'[v])
  <1>1. \A v \in Workers : v = w
    BY DEF OneAtATime
  <1>2. tx'[w] = t
    BY DEF Begin, Step
  <1>3. QED
    BY <1>1, <1>2

\* So with a request that ends.
LEMMA SoleDone ==
  ASSUME OneAtATime, tx \in [Workers -> Tx], NEW w \in Workers, Done(w)
  PROVE  \A v \in Workers : CurrentNext(tx'[v])
  <1>1. CurrentNext(IdleTx)
    BY NothingRead DEF IdleTx
  <1>2. Step(w, IdleTx)
    BY DEF Done, Step
  <1>3. QED
    BY <1>1, <1>2, SoleStep

\* A step that writes no row is a stutter of the lifecycle.
LEMMA RowsSame ==
  ASSUME SequentialInv, UNCHANGED <<status, facts, disputes, snapshots>>
  PROVE  /\ AcceptedIsMeasured' /\ SnapshotMatchesFacts'
         /\ UNCHANGED Lifecycle!vars
         /\ \A n \in PeriodNo : status'[n] = status[n]
         /\ \A w \in Workers : CurrentNext(tx[w])
  <1>1. \A n : PeriodVolumes(n)' = PeriodVolumes(n) /\ VolumesNext(n) = PeriodVolumes(n)
    BY DEF PeriodVolumes, VolumesNext
  <1>2. AcceptedIsMeasured' /\ SnapshotMatchesFacts'
    BY <1>1 DEF SequentialInv, AcceptedIsMeasured, SnapshotMatchesFacts
  <1>3. UNCHANGED Lifecycle!vars
    BY <1>1 DEF Lifecycle!vars
  <1>4. \A w \in Workers : CurrentNext(tx[w])
    BY <1>1 DEF SequentialInv, Current, CurrentNext
  <1>5. QED
    BY <1>2, <1>3, <1>4

\* The volumes of the periods whose facts a step leaves alone stay.
LEMMA OthersSame ==
  ASSUME facts \in [PeriodNo -> [Items -> Fact]], NEW p \in PeriodNo,
         \A n \in PeriodNo \ {p} : facts'[n] = facts[n]
  PROVE  /\ \A n \in PeriodNo \ {p} : PeriodVolumes(n)' = PeriodVolumes(n)
         /\ [n \in PeriodNo |-> PeriodVolumes(n)]' =
              [[n \in PeriodNo |-> PeriodVolumes(n)] EXCEPT ![p] = PeriodVolumes(p)']
  <1>1. \A n \in PeriodNo \ {p} : PeriodVolumes(n)' = PeriodVolumes(n)
    BY DEF PeriodVolumes
  <1>2. QED
    BY <1>1

\* A row keeps its counted volume through the GP's claim, a mark and a forced closure.
LEMMA CountedKept ==
  ASSUME NEW f \in Fact, f.accepted # Null => f.accepted = f.sc
  PROVE  /\ \A v \in MaybeVol, c \in BOOLEAN :
              /\ CountedVolume(GpFact(f, v, c)) = CountedVolume(f)
              /\ GpFact(f, v, c).accepted = f.accepted /\ GpFact(f, v, c).sc = f.sc
         /\ CountedVolume(Bump(f, Disputed(f), FALSE)) = CountedVolume(f)
         /\ Bump(f, Disputed(f), FALSE).accepted = f.accepted
         /\ Bump(f, Disputed(f), FALSE).sc = f.sc
         /\ CountedVolume(Forced(f, f.sc)) = CountedVolume(f)
         /\ Forced(f, f.sc).accepted = f.sc /\ Forced(f, f.sc).sc = f.sc
  <1>1. ASSUME NEW v \in MaybeVol, NEW c \in BOOLEAN
        PROVE  GpFact(f, v, c).accepted = f.accepted /\ GpFact(f, v, c).sc = f.sc
    BY DEF GpFact, Upsert, Insert, Bump, Fact
  <1>2. /\ Bump(f, Disputed(f), FALSE).accepted = f.accepted
        /\ Bump(f, Disputed(f), FALSE).sc = f.sc
    BY DEF Bump, Disputed, Fact
  <1>3. Forced(f, f.sc).accepted = f.sc /\ Forced(f, f.sc).sc = f.sc
    BY DEF Forced, Fact
  <1>4. QED
    BY <1>1, <1>2, <1>3 DEF CountedVolume

\* The SC's entry accepts the SC's volume, or nothing.
LEMMA ScAccepts ==
  ASSUME NEW f \in Fact, NEW gp, NEW vol \in Vols
  PROVE  LET x == Upsert(f, ScFact(f, gp, vol), FALSE) IN x.accepted # Null => x.accepted = x.sc
  <1>1. ScFact(f, gp, vol) = [f EXCEPT !.sc = vol,
                               !.type = IF gp # Null /\ gp = vol THEN 0 ELSE 1,
                               !.accepted = IF gp # Null /\ gp = vol THEN vol ELSE Null]
    BY DEF ScFact
  <1>2. QED
    BY <1>1 DEF Upsert, Insert, Bump, Fact

\* A step that writes no row is good once the request that makes it stays current.
LEMMA QuietStep ==
  ASSUME SequentialInv, UNCHANGED <<status, facts, disputes, snapshots>>,
         \A w \in Workers : CurrentNext(tx'[w])
  PROVE  StepGood
  BY RowsSame DEF StepGood

\* Requests arrive on what they read.
LEMMA RequestGood ==
  ASSUME OneAtATime, IInv, SequentialInv, NEW w \in Workers, Request(w)
  PROVE  StepGood
  <1>0. /\ tx \in [Workers -> Tx] /\ status \in [PeriodNo -> Status]
        /\ facts \in [PeriodNo -> [Items -> Fact]] /\ disputes \in [PeriodNo -> SUBSET Items]
    BY DEF IInv, TypeOK
  <1>1. CASE OpenRequest(w)
    <2>1. CurrentNext([IdleTx EXCEPT !.pc = "openLock"])
      BY NothingRead DEF IdleTx
    <2>2. QED
      BY <1>0, <1>1, <2>1, SoleStep, QuietStep DEF OpenRequest, rows
  <1>2. ASSUME NEW n \in PeriodNo, NEW volumes \in [Items -> MaybeVol],
               SubmitRead(w, n, volumes)
        PROVE  StepGood
    <2>1. CurrentNext([IdleTx EXCEPT !.pc = "submitUpdate", !.p = n, !.volumes = volumes])
      BY <1>2 DEF SubmitRead, rows, CurrentNext, IdleTx, Submitting, Entering, Closing, Counted
    <2>2. QED
      BY <1>0, <1>2, <2>1, SoleStep, QuietStep DEF SubmitRead, rows
  <1>3. ASSUME NEW n \in PeriodNo, NEW i \in Items, NEW vol \in Vols,
               NEW expect \in (0..MaxVersion) \cup {Null}, FactRequest(w, n, i, vol, expect)
        PROVE  StepGood
    <2>1. status'[n] = status[n] /\ status[n] \in {"open", "gp_submitted", "verification"}
      BY <1>3 DEF FactRequest, rows, ScMayEnter
    <2>2. CurrentNext([IdleTx EXCEPT !.pc = "factRead", !.p = n, !.item = i, !.vol = vol,
                                     !.expect = expect, !.seen = status[n]])
      BY <2>1 DEF CurrentNext, IdleTx, Submitting, Entering, Closing, Counted
    <2>3. QED
      BY <1>0, <1>3, <2>2, SoleStep, QuietStep DEF FactRequest, rows
  <1>4. ASSUME NEW n \in PeriodNo, CloseRead(w, n) PROVE StepGood
    <2>1. CurrentNext([IdleTx EXCEPT !.pc = "closeCount", !.p = n])
      BY <1>4 DEF CloseRead, rows, CurrentNext, IdleTx, Submitting, Entering, Closing, Counted
    <2>2. QED
      BY <1>0, <1>4, <2>1, SoleStep, QuietStep DEF CloseRead, rows
  <1>5. ASSUME NEW n \in PeriodNo, NEW i \in Items, DisputeRead(w, n, i) PROVE StepGood
    <2>1. CurrentNext([IdleTx EXCEPT !.pc = "disputeMark", !.p = n, !.item = i])
      BY DEF CurrentNext, IdleTx, Submitting, Entering, Closing, Counted
    <2>2. QED
      BY <1>0, <1>5, <2>1, SoleStep, QuietStep DEF DisputeRead, rows
  <1>6. ASSUME NEW n \in PeriodNo, NEW i \in Items, ForceDiscrepancy(w, n, i) PROVE StepGood
    <2>1. UNCHANGED <<status, facts, snapshots>>
      BY <1>6 DEF ForceDiscrepancy
    <2>2. CurrentNext([IdleTx EXCEPT !.pc = "forceFact", !.p = n, !.item = i,
                                     !.vol = facts[n][i].sc])
      BY <2>1 DEF CurrentNext, IdleTx, Submitting, Entering, Closing, Counted
    <2>3. \A v \in Workers : CurrentNext(tx'[v])
      BY <1>0, <1>6, <2>2, SoleStep DEF ForceDiscrepancy
    <2>4. \A n0 : PeriodVolumes(n0)' = PeriodVolumes(n0)
      BY <2>1 DEF PeriodVolumes
    <2>5. AcceptedIsMeasured' /\ SnapshotMatchesFacts' /\ UNCHANGED Lifecycle!vars
      BY <2>1, <2>4 DEF SequentialInv, AcceptedIsMeasured, SnapshotMatchesFacts, Lifecycle!vars
    <2>6. QED
      BY <2>1, <2>3, <2>5 DEF StepGood
  <1>7. QED
    BY <1>1, <1>2, <1>3, <1>4, <1>5, <1>6 DEF Request

\* The steps that only read, or give up.
LEMMA ReadingGood ==
  ASSUME OneAtATime, IInv, SequentialInv, NEW w \in Workers,
         \/ OpenLock(w) \/ OpenCheck(w) \/ OpenInsert(w) \/ SubmitUpdate(w) \/ FactRead(w)
         \/ CloseCount(w) \/ CloseCompute(w) \/ CloseSnapshot(w) \/ Abort(w)
  PROVE  StepGood
  <1> DEFINE t == tx[w]
  <1>0. tx \in [Workers -> Tx] /\ t \in Tx /\ Current(t)
    BY DEF IInv, TypeOK, SequentialInv
  <1>1. UNCHANGED <<status, facts, disputes, snapshots>>
    BY DEF OpenLock, OpenCheck, OpenInsert, SubmitUpdate, FactRead, CloseCount, CloseCompute,
           CloseSnapshot, Abort, rows
  <1>2. CurrentNext(t) /\ VolumesNext(t.p) = PeriodVolumes(t.p)
    BY <1>1, RowsSame DEF VolumesNext, PeriodVolumes
  <1>3. ASSUME NEW x, Step(w, x), CurrentNext(x) PROVE StepGood
    BY <1>0, <1>1, <1>3, SoleStep, QuietStep
  <1>4. CASE OpenLock(w)
    <2>1. CurrentNext([t EXCEPT !.pc = "openCheck"])
      BY <1>0, NothingRead DEF Tx
    <2>2. QED
      BY <1>3, <1>4, <2>1 DEF OpenLock
  <1>5. CASE OpenCheck(w)
    <2>1. PICK last \in 0..(MaxPeriods - 1) :
            Step(w, [t EXCEPT !.pc = "openInsert", !.p = last + 1])
      BY <1>5 DEF OpenCheck
    <2>2. CurrentNext([t EXCEPT !.pc = "openInsert", !.p = last + 1])
      BY <1>0 DEF CurrentNext, Tx, Submitting, Entering, Closing, Counted
    <2>3. QED
      BY <1>3, <2>1, <2>2
  <1>6. CASE FactRead(w)
    <2>1. CurrentNext([t EXCEPT !.pc = "factCommit", !.gp = facts[t.p][t.item].gp])
      BY <1>0, <1>2, <1>6 DEF FactRead, CurrentNext, Submitting, Entering, Closing, Counted, Tx
    <2>2. QED
      BY <1>3, <1>6, <2>1 DEF FactRead
  <1>7. CASE CloseCount(w)
    <2>1. CurrentNext([t EXCEPT !.pc = "closeCompute"])
      BY <1>0, <1>1, <1>2, <1>7 DEF CloseCount, CurrentNext, Submitting, Entering, Closing, Counted, Tx
    <2>2. QED
      BY <1>3, <1>7, <2>1 DEF CloseCount
  <1>8. CASE CloseCompute(w)
    <2>1. CurrentNext([t EXCEPT !.pc = "closeSnapshot", !.volumes = PeriodVolumes(t.p)])
      BY <1>0, <1>1, <1>2, <1>8 DEF CloseCompute, CurrentNext, Submitting, Entering, Closing, Counted, Tx
    <2>2. QED
      BY <1>3, <1>8, <2>1 DEF CloseCompute
  <1>9. CASE Abort(w)
    BY <1>0, <1>1, <1>9, SoleDone, QuietStep DEF Abort
  <1>10. CASE OpenInsert(w)
    <2>1. CurrentNext([t EXCEPT !.pc = "openCommit"])
      BY <1>0, NothingRead DEF Tx
    <2>2. QED
      BY <1>3, <1>10, <2>1 DEF OpenInsert
  <1>11. CASE SubmitUpdate(w)
    <2>1. CurrentNext([t EXCEPT !.pc = "submitCommit"])
      BY <1>0, <1>2, <1>11 DEF SubmitUpdate, CurrentNext, Submitting, Entering, Closing, Counted, Tx
    <2>2. QED
      BY <1>3, <1>11, <2>1 DEF SubmitUpdate
  <1>12. CASE CloseSnapshot(w)
    <2>1. CurrentNext([t EXCEPT !.pc = "closeCommit"])
      BY <1>0, <1>2, <1>12 DEF CloseSnapshot, CurrentNext, Submitting, Entering, Closing, Counted, Tx
    <2>2. QED
      BY <1>3, <1>12, <2>1 DEF CloseSnapshot
  <1>13. QED
    BY <1>4, <1>5, <1>6, <1>7, <1>8, <1>9, <1>10, <1>11, <1>12

\* Opening is the lifecycle's Open.
LEMMA OpenGood ==
  ASSUME OneAtATime, IInv, SequentialInv, NEW w \in Workers, OpenCommit(w)
  PROVE  StepGood
  <1>n. PICK n \in PeriodNo : n = tx[w].p
    BY DEF OpenCommit, IInv, OpenersHoldLock
  <1>m. ~(n < n)
    BY PeriodAssumption DEF PeriodNo
  <1>0. /\ tx \in [Workers -> Tx] /\ status \in [PeriodNo -> Status]
        /\ status[n] = "none" /\ status' = [status EXCEPT ![n] = "open"]
        /\ UNCHANGED <<facts, disputes, snapshots>>
    BY <1>n, <1>m DEF OpenCommit, IInv, TypeOK, OpenersHoldLock
  <1>1. \A m \in PeriodNo : IF m < n THEN status[m] \notin {"none", "open"}
                                    ELSE status[m] = "none"
    BY <1>n DEF OpenCommit, IInv, OpenersHoldLock
  <1>2. \A k : PeriodVolumes(k)' = PeriodVolumes(k)
    BY <1>0 DEF PeriodVolumes
  <1>3. Lifecycle!Open(n)
    BY <1>0, <1>1, <1>2 DEF Lifecycle!Open, Lifecycle!PeriodNo, PeriodNo
  <1>4. AcceptedIsMeasured' /\ SnapshotMatchesFacts'
    BY <1>0, <1>2 DEF SequentialInv, AcceptedIsMeasured, SnapshotMatchesFacts
  <1>5. \A v \in Workers : CurrentNext(tx'[v])
    BY <1>0, SoleDone DEF OpenCommit
  <1>6. QED
    BY <1>0, <1>3, <1>4, <1>5 DEF StepGood, Lifecycle!Next, Lifecycle!PeriodNo, PeriodNo

\* The GP's submission is the lifecycle's Submit.
LEMMA SubmitGood ==
  ASSUME OneAtATime, IInv, IInv', SequentialInv, NEW w \in Workers, SubmitCommit(w)
  PROVE  StepGood
  <1>n. PICK n \in PeriodNo : n = tx[w].p
    BY DEF SubmitCommit, IInv, InFlight, OnPeriod, Submitting
  <1>0. /\ tx \in [Workers -> Tx] /\ status \in [PeriodNo -> Status]
        /\ facts \in [PeriodNo -> [Items -> Fact]] /\ facts' \in [PeriodNo -> [Items -> Fact]]
        /\ status[n] = "open" /\ status' = [status EXCEPT ![n] = "gp_submitted"]
        /\ UNCHANGED <<disputes, snapshots>> /\ tx[w].volumes \in [Items -> MaybeVol]
    BY <1>n DEF SubmitCommit, IInv, TypeOK, InFlight, SequentialInv, Current, Submitting
  <1>1. PICK c \in BOOLEAN :
          facts' = [facts EXCEPT ![n] =
                      [i \in Items |-> GpFact(facts[n][i], tx[w].volumes[i], c)]]
    BY <1>n DEF SubmitCommit
  <1>2. \A k \in PeriodNo \ {n} : facts'[k] = facts[k]
    BY <1>0, <1>1
  <1>3. ASSUME NEW i \in Items
        PROVE  /\ CountedVolume(facts'[n][i]) = CountedVolume(facts[n][i])
               /\ facts'[n][i].accepted = facts[n][i].accepted
               /\ facts'[n][i].sc = facts[n][i].sc
    <2>1. facts'[n][i] = GpFact(facts[n][i], tx[w].volumes[i], c)
      BY <1>0, <1>1
    <2>2. facts[n][i] \in Fact /\ tx[w].volumes[i] \in MaybeVol
          /\ (facts[n][i].accepted # Null => facts[n][i].accepted = facts[n][i].sc)
      BY <1>0 DEF SequentialInv, AcceptedIsMeasured
    <2>3. /\ CountedVolume(GpFact(facts[n][i], tx[w].volumes[i], c)) = CountedVolume(facts[n][i])
          /\ GpFact(facts[n][i], tx[w].volumes[i], c).accepted = facts[n][i].accepted
          /\ GpFact(facts[n][i], tx[w].volumes[i], c).sc = facts[n][i].sc
      BY <2>2, CountedKept, Zenon
    <2>4. QED
      BY <2>1, <2>3
  <1>4. PeriodVolumes(n)' = PeriodVolumes(n)
    BY <1>3 DEF PeriodVolumes
  <1>5. \A k \in PeriodNo : PeriodVolumes(k)' = PeriodVolumes(k)
    BY <1>0, <1>2, <1>4, OthersSame
  <1>6. Lifecycle!Submit(n)
    <2>1. PeriodVolumes(n)' \in Figures
      BY <1>0, <1>4, CountedFigures
    <2>2. Lifecycle!Revise(n)
      BY <1>0, <1>2, <2>1, OthersSame DEF Lifecycle!Revise
    <2>3. QED
      BY <1>0, <2>2 DEF Lifecycle!Submit
  <1>7. AcceptedIsMeasured'
    <2>1. ASSUME NEW k \in PeriodNo, NEW i \in Items
          PROVE  facts'[k][i].accepted # Null => facts'[k][i].accepted = facts'[k][i].sc
      BY <1>2, <1>3 DEF SequentialInv, AcceptedIsMeasured
    <2>2. QED
      BY <2>1 DEF AcceptedIsMeasured
  <1>8. SnapshotMatchesFacts'
    BY <1>0, <1>5 DEF SequentialInv, SnapshotMatchesFacts
  <1>9. \A v \in Workers : CurrentNext(tx'[v])
    BY <1>0, SoleDone DEF SubmitCommit
  <1>10. QED
    BY <1>0, <1>6, <1>7, <1>8, <1>9 DEF StepGood, Lifecycle!Next, Lifecycle!PeriodNo, PeriodNo

\* The SC's entry is the lifecycle's Enter.
LEMMA EnterGood ==
  ASSUME OneAtATime, IInv, IInv', SequentialInv, NEW w \in Workers, FactCommit(w)
  PROVE  StepGood
  <1>n. PICK n \in PeriodNo : n = tx[w].p
    BY DEF FactCommit, IInv, InFlight, OnPeriod, Entering
  <1> DEFINE t == tx[w]
             old == facts[n][t.item]
             new == Upsert(old, ScFact(old, t.gp, t.vol), FALSE)
  <1>0. /\ tx \in [Workers -> Tx] /\ status \in [PeriodNo -> Status] /\ t.item \in Items /\ t.vol \in Vols
        /\ facts \in [PeriodNo -> [Items -> Fact]] /\ facts' \in [PeriodNo -> [Items -> Fact]]
        /\ UNCHANGED <<disputes, snapshots>>
    BY DEF FactCommit, IInv, TypeOK, InFlight, Entering
  <1>1. status[n] = t.seen /\ t.seen \in {"open", "gp_submitted", "verification"}
    BY <1>n DEF FactCommit, SequentialInv, Current, Entering
  <1>2. status' = [status EXCEPT ![n] = IF @ = "open" THEN "open" ELSE "verification"]
    BY <1>n, <1>0, <1>1 DEF FactCommit, StartsVerification
  <1>3. facts' = [facts EXCEPT ![n][t.item] = new]
    BY <1>n DEF FactCommit
  <1>4. \A k \in PeriodNo \ {n} : facts'[k] = facts[k]
    BY <1>0, <1>3
  <1>5. Lifecycle!Enter(n)
    <2>1. PeriodVolumes(n)' \in Figures
      <3>1. \A k \in PeriodNo, i \in Items : CountedVolume(facts'[k][i]) \in Vols \cup {0}
        BY <1>0 DEF CountedVolume, Fact, MaybeVol
      <3>2. QED
        BY <1>0, <3>1 DEF PeriodVolumes, Figures
    <2>2. Lifecycle!Revise(n)
      BY <1>0, <1>4, <2>1, OthersSame DEF Lifecycle!Revise
    <2>3. QED
      BY <1>0, <1>1, <1>2, <2>2 DEF Lifecycle!Enter
  <1>6. AcceptedIsMeasured'
    <2>1. new.accepted # Null => new.accepted = new.sc
      BY <1>0, ScAccepts
    <2>2. ASSUME NEW k \in PeriodNo, NEW i \in Items
          PROVE  facts'[k][i].accepted # Null => facts'[k][i].accepted = facts'[k][i].sc
      <3>1. facts'[k][i] = facts[k][i] \/ facts'[k][i] = new
        BY <1>0, <1>3
      <3>2. QED
        BY <2>1, <3>1 DEF SequentialInv, AcceptedIsMeasured
    <2>3. QED
      BY <2>2 DEF AcceptedIsMeasured
  <1>7. SnapshotMatchesFacts'
    <2>1. ASSUME NEW k \in PeriodNo, status'[k] = "closed"
          PROVE  snapshots'[k] = PeriodVolumes(k)'
      <3>1. k # n /\ status[k] = "closed"
        BY <1>0, <1>1, <1>2, <2>1
      <3>2. PeriodVolumes(k)' = PeriodVolumes(k)
        BY <1>0, <1>4, <3>1, OthersSame
      <3>3. QED
        BY <1>0, <3>1, <3>2 DEF SequentialInv, SnapshotMatchesFacts
    <2>2. QED
      BY <2>1 DEF SnapshotMatchesFacts
  <1>8. \A v \in Workers : CurrentNext(tx'[v])
    BY <1>0, SoleDone DEF FactCommit
  <1>9. QED
    BY <1>0, <1>1, <1>2, <1>5, <1>6, <1>7, <1>8
    DEF StepGood, Lifecycle!Next, Lifecycle!PeriodNo, PeriodNo

\* The close is the lifecycle's Close: of the figures as they are.
LEMMA CloseGood ==
  ASSUME OneAtATime, IInv, SequentialInv, NEW w \in Workers, CloseCommit(w)
  PROVE  StepGood
  <1>n. PICK n \in PeriodNo : n = tx[w].p
    BY DEF CloseCommit, IInv, InFlight, OnPeriod, Closing, Counted
  <1>0. /\ tx \in [Workers -> Tx] /\ status \in [PeriodNo -> Status]
        /\ snapshots \in [PeriodNo -> Figures \cup {Null}]
        /\ status' = [status EXCEPT ![n] = "closed"] /\ UNCHANGED <<facts, disputes>>
        /\ snapshots' = [snapshots EXCEPT ![n] = tx[w].volumes]
    BY <1>n DEF CloseCommit, IInv, TypeOK
  <1>1. status[n] = "verification" /\ tx[w].volumes = PeriodVolumes(n)
    BY <1>n DEF CloseCommit, SequentialInv, Current, Closing, Counted
  <1>2. \A k : PeriodVolumes(k)' = PeriodVolumes(k)
    BY <1>0 DEF PeriodVolumes
  <1>3. Lifecycle!Close(n)
    BY <1>0, <1>1, <1>2 DEF Lifecycle!Close
  <1>4. AcceptedIsMeasured' /\ SnapshotMatchesFacts'
    BY <1>0, <1>1, <1>2 DEF SequentialInv, AcceptedIsMeasured, SnapshotMatchesFacts
  <1>5. \A v \in Workers : CurrentNext(tx'[v])
    BY <1>0, SoleDone DEF CloseCommit
  <1>6. QED
    BY <1>0, <1>1, <1>3, <1>4, <1>5 DEF StepGood, Lifecycle!Next, Lifecycle!PeriodNo, PeriodNo

\* A dispute and its forced closure leave the figures as they are.
LEMMA DisputingGood ==
  ASSUME OneAtATime, IInv, SequentialInv, NEW w \in Workers,
         DisputeMark(w) \/ DisputeInsert(w) \/ ForceFact(w)
  PROVE  StepGood
  <1>n. PICK n \in PeriodNo, i \in Items : n = tx[w].p /\ i = tx[w].item
    BY DEF DisputeMark, DisputeInsert, ForceFact, IInv, InFlight, Disputing
  <1>0. /\ tx \in [Workers -> Tx] /\ facts \in [PeriodNo -> [Items -> Fact]]
        /\ UNCHANGED <<status, snapshots>> /\ facts[n][i] \in Fact
        /\ facts[n][i].accepted # Null => facts[n][i].accepted = facts[n][i].sc
    BY DEF DisputeMark, DisputeInsert, ForceFact, IInv, TypeOK, SequentialInv, AcceptedIsMeasured
  <1>1. \/ facts' = facts
        \/ facts' = [facts EXCEPT ![n][i] = Bump(@, Disputed(@), FALSE)]
        \/ facts' = [facts EXCEPT ![n][i] = Forced(@, facts[n][i].sc)]
    BY <1>n, <1>0 DEF DisputeMark, DisputeInsert, ForceFact, SequentialInv, Current
  <1>2. ASSUME NEW k \in PeriodNo, NEW j \in Items
        PROVE  /\ CountedVolume(facts'[k][j]) = CountedVolume(facts[k][j])
               /\ facts'[k][j].accepted # Null => facts'[k][j].accepted = facts'[k][j].sc
    <2>1. facts[k][j].accepted # Null => facts[k][j].accepted = facts[k][j].sc
      BY DEF SequentialInv, AcceptedIsMeasured
    <2>2. \/ facts'[k][j] = facts[k][j]
          \/ k = n /\ j = i /\ facts'[k][j] \in {Bump(facts[n][i], Disputed(facts[n][i]), FALSE),
                                              Forced(facts[n][i], facts[n][i].sc)}
      BY <1>0, <1>1, ZenonT(60)
    <2>3. QED
      BY <1>0, <2>1, <2>2, CountedKept
  <1>3. \A k \in PeriodNo : PeriodVolumes(k)' = PeriodVolumes(k)
    BY <1>2 DEF PeriodVolumes
  <1>4. UNCHANGED Lifecycle!vars
    BY <1>0, <1>3 DEF Lifecycle!vars
  <1>5. AcceptedIsMeasured' /\ SnapshotMatchesFacts'
    BY <1>0, <1>2, <1>3 DEF SequentialInv, AcceptedIsMeasured, SnapshotMatchesFacts
  <1>6. \A v \in Workers : CurrentNext(tx'[v])
    <2>1. CASE DisputeMark(w)
      <3>1. tx[w] \in Tx
        BY <1>0
      <3>2. CurrentNext([tx[w] EXCEPT !.pc = "disputeInsert"])
        BY <3>1 DEF CurrentNext, Tx, Submitting, Entering, Closing, Counted
      <3>3. QED
        BY <1>0, <2>1, <3>2, SoleStep DEF DisputeMark
    <2>2. CASE DisputeInsert(w) \/ ForceFact(w)
      BY <1>0, <2>2, SoleDone DEF DisputeInsert, ForceFact
    <2>3. QED
      BY <2>1, <2>2
  <1>7. QED
    BY <1>0, <1>4, <1>5, <1>6 DEF StepGood

\* Every step of the sequential system.
LEMMA SequentialStep ==
  ASSUME OneAtATime, IInv, IInv', SequentialInv, [Next]_vars
  PROVE  StepGood /\ SequentialInv'
  <1>1. StepGood
    <2>1. CASE ApproveZeroReport \/ (\E k \in PeriodNo : TokenExpires(k)) \/ UNCHANGED vars
      <3>1. UNCHANGED <<status, facts, disputes, snapshots, tx>>
        BY <2>1 DEF ApproveZeroReport, TokenExpires, vars
      <3>2. QED
        BY <3>1, RowsSame, QuietStep
    <2>2. ASSUME NEW w \in Workers, Request(w) PROVE StepGood
      BY <2>2, RequestGood
    <2>3. ASSUME NEW w \in Workers, TxStep(w) PROVE StepGood
      BY <2>3, ReadingGood, OpenGood, SubmitGood, EnterGood, CloseGood, DisputingGood DEF TxStep
    <2>4. QED
      BY <2>1, <2>2, <2>3 DEF Next
  <1>2. ASSUME NEW w \in Workers PROVE Current(tx[w])'
    <2>1. CurrentNext(tx'[w])
      BY <1>1 DEF StepGood
    <2>2. PeriodVolumes(tx[w].p)' = VolumesNext(tx'[w].p)
      BY DEF PeriodVolumes, VolumesNext
    <2>3. QED
      BY <2>1, <2>2 DEF Current, CurrentNext
  <1>3. QED
    BY <1>1, <1>2 DEF StepGood, SequentialInv

\* With one request at a time SequentialInv holds throughout.
LEMMA SequentialHolds ==
  ASSUME OneAtATime
  PROVE  Spec => [](IInv /\ SequentialInv)
  <1>1. Init => SequentialInv
    BY DEF Init, SequentialInv, Current, AcceptedIsMeasured, SnapshotMatchesFacts, IdleTx, NoFact,
           Submitting, Entering, Closing, Counted
  <1>2. IInv /\ IInv' /\ SequentialInv /\ [Next]_vars => SequentialInv'
    BY SequentialStep
  <1>3. QED
    BY <1>1, <1>2, InductiveInvariant, PTL DEF Spec

\* Served one at a time, closing a period fixes the figures its facts give, and
\* nothing moves them afterwards.
THEOREM SnapshotExact ==
  ASSUME OneAtATime
  PROVE  Spec => []SnapshotMatchesFacts
  <1>1. SequentialInv => SnapshotMatchesFacts
    BY DEF SequentialInv
  <1>2. QED
    BY <1>1, SequentialHolds, PTL

\* The refinement: served one at a time, the requests of PeriodService and
\* DisputeService are the atomic operations of PeriodLifecycle.
THEOREM Implements ==
  ASSUME OneAtATime
  PROVE  Spec => ImplementsLifecycle
  <1>1. Init => Lifecycle!Init
    <2>1. SUFFICES ASSUME Init PROVE Lifecycle!Init
      OBVIOUS
    <2>2. \A n \in PeriodNo : PeriodVolumes(n) = [i \in Items |-> 0]
      BY <2>1 DEF Init, PeriodVolumes, CountedVolume, NoFact
    <2>3. QED
      BY <2>1, <2>2 DEF Init, Lifecycle!Init, Lifecycle!PeriodNo, PeriodNo
  <1>2. IInv /\ IInv' /\ SequentialInv /\ [Next]_vars => [Lifecycle!Next]_(Lifecycle!vars)
    BY SequentialStep DEF StepGood
  <1>3. QED
    BY <1>1, <1>2, SequentialHolds, PTL DEF Spec, ImplementsLifecycle, Lifecycle!Spec

=============================================================================
