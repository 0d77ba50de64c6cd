------------------------- MODULE CoordinatorProofs --------------------------
(***************************************************************************)
(* Theorems about Coordinator, for every set of attempts, requests,        *)
(* wallets, notes and workers and every queue capacity.                    *)
(***************************************************************************)
EXTENDS Coordinator, ChangeSplit, TLAPS

-----------------------------------------------------------------------------
(* Typing.                                                                 *)

\* The initial tables, queue, workers and outside world are typed.
LEMMA InitType == Init => TypeOK
  <1> SUFFICES ASSUME Init PROVE TypeOK
    OBVIOUS
  <1>1. TablesTypeOK
    BY StoreAssumption, CoordinatorAssumption DEF Init, TablesTypeOK, States, Live
  <1>2. VolatileTypeOK
    BY CoordinatorAssumption DEF Init, VolatileInit, VolatileTypeOK, PCs
  <1>3. ExternalTypeOK
    BY DEF Init, ExternalTypeOK
  <1> QED
    BY <1>1, <1>2, <1>3 DEF Init, TypeOK

\* The tables stay typed under every store operation.
LEMMA MarkType ==
  ASSUME TablesTypeOK, NEW a, NEW next \in States \ {"none"},
         NEW code \in {"other", "notes_reserved"}, NEW release,
         MarkAttemptState(a, next, code, release)
  PROVE  TablesTypeOK'
  <1>1. CASE UNCHANGED tables
    BY <1>1 DEF tables, TablesTypeOK
  <1>2. CASE /\ allowedAttemptTransition(state[a], next)
             /\ state' = [state EXCEPT ![a] = next]
             /\ errorCode' = [errorCode EXCEPT ![a] = code]
             /\ reservedBy' \in {Without(a), reservedBy}
             /\ UNCHANGED <<request, changeAddress, plan>>
    <2>1. a \in Attempts => state[a] # "none"
      BY <1>2 DEF allowedAttemptTransition, PostSigned
    <2>2. reservedBy' \in [Notes -> Attempts \cup {NoAttempt}]
      BY <1>2 DEF TablesTypeOK, Without
    <2> QED
      BY <1>2, <2>1, <2>2 DEF TablesTypeOK
  <1> QED
    BY <1>1, <1>2 DEF MarkAttemptState

\* endAttempt leaves the workers typed.
LEMMA FinishType ==
  ASSUME VolatileTypeOK, NEW w \in Workers, Finish(w)
  PROVE  VolatileTypeOK'
  BY CoordinatorAssumption DEF VolatileTypeOK, Finish, PCs

\* A process that dies leaves typed workers, and its open signer calls are typed.
LEMMA ResetType ==
  ASSUME VolatileTypeOK, ExternalTypeOK, VolatileReset
  PROVE  VolatileTypeOK' /\ stray' \in [Attempts -> SUBSET SUBSET Notes]
  BY CoordinatorAssumption
     DEF VolatileTypeOK, VolatileReset, PCs, ExternalTypeOK, AwaitedCalls

\* ClaimAttempt inserts a typed row.
LEMMA ClaimType ==
  ASSUME TablesTypeOK, NEW a \in Attempts, NEW r \in Requests, ClaimAttempt(a, r)
  PROVE  TablesTypeOK'
  BY StoreAssumption DEF TablesTypeOK, ClaimAttempt, States, Live

\* ReserveAttemptPlan stores a typed plan and typed reservations.
LEMMA ReserveType ==
  ASSUME TablesTypeOK, NEW a \in Attempts, NEW notes \in SUBSET Notes,
         ReserveAttemptPlan(a, notes)
  PROVE  TablesTypeOK'
  BY DEF TablesTypeOK, ReserveAttemptPlan, States, Live, SignStates

\* BeginAttemptSigning keeps the tables typed.
LEMMA BeginType ==
  ASSUME TablesTypeOK, NEW a \in Attempts, BeginAttemptSigning(a)
  PROVE  TablesTypeOK'
  BY DEF TablesTypeOK, BeginAttemptSigning, tables, States, Live, SignStates

\* CompleteAttemptSigning keeps the tables typed.
LEMMA CompleteType ==
  ASSUME TablesTypeOK, NEW a \in Attempts, CompleteAttemptSigning(a)
  PROVE  TablesTypeOK'
  BY DEF TablesTypeOK, CompleteAttemptSigning, States, Live, PostSigned

\* CancelAttempt keeps the tables typed.
LEMMA CancelType ==
  ASSUME TablesTypeOK, NEW a \in Attempts, CancelAttempt(a)
  PROVE  TablesTypeOK'
  BY DEF TablesTypeOK, CancelAttempt, Without, Unsigned, States, Terminal

\* SetAttemptChangeAddress keeps the tables typed.
LEMMA ChangeType ==
  ASSUME TablesTypeOK, NEW a \in Attempts, SetAttemptChangeAddress(a)
  PROVE  TablesTypeOK'
  BY DEF TablesTypeOK, SetAttemptChangeAddress

-----------------------------------------------------------------------------
(* Workers and their jobs.                                                 *)

\* Only the row of attempt a may have changed state.
OnlyRow(a) == \A b \in Attempts \ {a} : state'[b] = state[b]

\* A worker that is not idle works on an attempt it holds in flight.
LEMMA BusyJob ==
  ASSUME TypeOK, JobsInv, NEW w \in Workers, pc[w] # "idle"
  PROVE  job[w] \in Attempts /\ job[w] \in inflight /\ RowFits(w)
  BY DEF TypeOK, VolatileTypeOK, JobsInv

\* A worker whose variables and row do not change keeps its guarantees.
LEMMA IdleBystander ==
  ASSUME JobsInv, NEW v \in Workers, pc[v] # "idle",
         pc'[v] = pc[v], job'[v] = job[v], uncertain'[v] = uncertain[v],
         state'[job[v]] = state[job[v]]
  PROVE  RowFits(v)'
  BY DEF JobsInv, RowFits

\* A worker that stops working on its attempt leaves the others alone.
LEMMA FinishJobs ==
  ASSUME TypeOK, JobsInv, ExclusiveDispatch,
         NEW w \in Workers, pc[w] # "idle", Finish(w), OnlyRow(job[w])
  PROVE  JobsInv' /\ ExclusiveDispatch'
  <1>1. \A v \in Workers : v # w => /\ pc'[v] = pc[v] /\ job'[v] = job[v]
                                     /\ uncertain'[v] = uncertain[v]
    BY DEF Finish, TypeOK, VolatileTypeOK
  <1>2. pc'[w] = "idle" /\ job'[w] = NoAttempt /\ inflight' = inflight \ {job[w]}
    BY DEF Finish, TypeOK, VolatileTypeOK
  <1>3. ASSUME NEW v \in Workers, v # w, pc[v] # "idle"
        PROVE  job'[v] \in inflight' /\ RowFits(v)'
    <2>1. job[v] \in Attempts /\ job[v] \in inflight /\ job[v] # job[w]
      BY <1>3, BusyJob DEF ExclusiveDispatch
    <2>2. state'[job[v]] = state[job[v]]
      BY <2>1 DEF OnlyRow
    <2> QED
      BY <1>1, <1>2, <1>3, <2>1, <2>2, IdleBystander
  <1>4. JobsInv'
    BY <1>1, <1>2, <1>3 DEF JobsInv
  <1>5. ExclusiveDispatch'
    BY <1>1, <1>2, BusyJob, StoreAssumption DEF ExclusiveDispatch
  <1> QED
    BY <1>4, <1>5

\* So does a worker that moves on with the same attempt.
LEMMA GotoJobs ==
  ASSUME TypeOK, JobsInv, ExclusiveDispatch,
         NEW w \in Workers, pc[w] # "idle", OnlyRow(job[w]),
         NEW label, label # "idle", Goto(w, label), UNCHANGED <<job, inflight>>,
         \A v \in Workers : v # w => uncertain'[v] = uncertain[v],
         RowFits(w)'
  PROVE  JobsInv' /\ ExclusiveDispatch'
  <1>1. \A v \in Workers : v # w => pc'[v] = pc[v]
    BY DEF Goto, TypeOK, VolatileTypeOK
  <1>2. pc'[w] # "idle"
    BY DEF Goto, TypeOK, VolatileTypeOK
  <1>3. ASSUME NEW v \in Workers, v # w, pc[v] # "idle"
        PROVE  RowFits(v)'
    <2>1. job[v] \in Attempts /\ job[v] # job[w]
      BY <1>3, BusyJob DEF ExclusiveDispatch
    <2>2. state'[job[v]] = state[job[v]]
      BY <2>1 DEF OnlyRow
    <2> QED
      BY <1>1, <1>3, <2>2, IdleBystander
  <1>4. JobsInv'
    BY <1>1, <1>2, <1>3, BusyJob DEF JobsInv
  <1>5. ExclusiveDispatch'
    BY <1>1 DEF ExclusiveDispatch
  <1> QED
    BY <1>4, <1>5

\* A step of someone else that leaves the rows of all jobs alone.
LEMMA SameJobs ==
  ASSUME TypeOK, JobsInv, ExclusiveDispatch, UNCHANGED <<pc, job, inflight, uncertain>>,
         \A b \in Attempts : state[b] # "none" => state'[b] = state[b]
  PROVE  JobsInv' /\ ExclusiveDispatch'
  <1>1. ASSUME NEW v \in Workers, pc[v] # "idle"
        PROVE  RowFits(v)'
    <2>1. CASE state[job[v]] # "none"
      BY <1>1, <2>1, BusyJob, IdleBystander
    <2>2. CASE state[job[v]] = "none"
      BY <1>1, <2>2, BusyJob DEF RowFits, PostSigned
    <2> QED
      BY <2>1, <2>2
  <1> QED
    BY <1>1 DEF JobsInv, ExclusiveDispatch

\* After a restart no worker has a job.
LEMMA ResetJobs ==
  ASSUME VolatileReset
  PROVE  JobsInv' /\ ExclusiveDispatch'
  BY DEF VolatileReset, JobsInv, ExclusiveDispatch

-----------------------------------------------------------------------------
(* Rows and reservations.                                                  *)

\* Reservations agree with the rows as long as neither changes.
LEMMA SameReservations ==
  ASSUME ReservationsMatchRows, UNCHANGED tables
  PROVE  ReservationsMatchRows'
  BY DEF ReservationsMatchRows, HeldBy, tables

\* A row that changes state without crossing the boundary of Holding.
LEMMA SameHolding ==
  ASSUME TablesTypeOK, ReservationsMatchRows, NEW a \in Attempts, NEW s \in States,
         s \in Holding <=> state[a] \in Holding,
         state' = [state EXCEPT ![a] = s], UNCHANGED <<plan, reservedBy>>
  PROVE  ReservationsMatchRows'
  BY DEF TablesTypeOK, ReservationsMatchRows, HeldBy

\* A row that stops holding and loses its reservations.
LEMMA DropHolding ==
  ASSUME TablesTypeOK, ReservationsMatchRows, NEW a \in Attempts, NEW s \in States \ Holding,
         state' = [state EXCEPT ![a] = s], reservedBy' = Without(a), UNCHANGED plan
  PROVE  ReservationsMatchRows'
  BY StoreAssumption DEF TablesTypeOK, ReservationsMatchRows, HeldBy, Without

\* MarkAttemptState keeps rows and reservations in agreement when the caller
\* asks for a release exactly with a terminal state, and leaves the step from
\* planning to reserved to ReserveAttemptPlan.
LEMMA MarkReservations ==
  ASSUME TablesTypeOK, ReservationsMatchRows, NEW a \in Attempts,
         NEW next \in States \ {"none"}, NEW code,
         NEW release \in BOOLEAN, release <=> next \in Terminal,
         state[a] = "planning" => next # "reserved",
         MarkAttemptState(a, next, code, release)
  PROVE  ReservationsMatchRows' /\ OnlyRow(a)
  <1>1. CASE UNCHANGED tables
    BY <1>1, SameReservations DEF OnlyRow, tables
  <1>2. CASE /\ allowedAttemptTransition(state[a], next)
             /\ state' = [state EXCEPT ![a] = next]
             /\ reservedBy' = IF release /\ ~(state[a] = next /\ errorCode[a] = code)
                              THEN Without(a) ELSE reservedBy
             /\ UNCHANGED plan
    <2>1. OnlyRow(a)
      BY <1>2 DEF TablesTypeOK, OnlyRow
    <2>2. CASE release /\ ~(state[a] = next /\ errorCode[a] = code)
      <3>1. next \in States \ Holding
        BY <2>2 DEF Terminal, Holding, SignStates, PostSigned
      <3> QED
        BY <1>2, <2>1, <2>2, <3>1, DropHolding
    <2>3. CASE ~(release /\ ~(state[a] = next /\ errorCode[a] = code))
      <3>1. next \in Holding <=> state[a] \in Holding
        BY <1>2, <2>3 DEF allowedAttemptTransition, Terminal, Holding, SignStates, PostSigned
      <3> QED
        BY <1>2, <2>1, <2>3, <3>1, SameHolding
    <2> QED
      BY <2>2, <2>3
  <1> QED
    BY <1>1, <1>2 DEF MarkAttemptState

-----------------------------------------------------------------------------
(* StoreInv is inductive.                                                  *)

\* A worker ends with a state change of its own row.
LEMMA StoreMark ==
  ASSUME StoreInv, NEW w \in Workers, pc[w] # "idle",
         NEW next \in States \ {"none"}, NEW code \in {"other", "notes_reserved"},
         NEW release \in BOOLEAN, release <=> next \in Terminal,
         state[job[w]] = "planning" => next # "reserved",
         MarkAttemptState(job[w], next, code, release), Finish(w),
         UNCHANGED durable, ExternalTypeOK'
  PROVE  StoreInv'
  <1>1. TypeOK /\ TablesTypeOK /\ VolatileTypeOK
    BY DEF StoreInv, TypeOK
  <1>2. job[w] \in Attempts
    BY <1>1, BusyJob DEF StoreInv
  <1>3. TablesTypeOK' /\ VolatileTypeOK'
    BY <1>1, MarkType, FinishType
  <1>4. TypeOK'
    BY <1>1, <1>3 DEF TypeOK, durable
  <1>5. ReservationsMatchRows' /\ OnlyRow(job[w])
    BY <1>1, <1>2, MarkReservations DEF StoreInv
  <1>6. JobsInv' /\ ExclusiveDispatch'
    BY <1>5, FinishJobs DEF StoreInv
  <1> QED
    BY <1>4, <1>5, <1>6 DEF StoreInv

\* A worker ends without touching the tables.
LEMMA StoreFinish ==
  ASSUME StoreInv, NEW w \in Workers, pc[w] # "idle", Finish(w),
         UNCHANGED <<tables, durable>>, ExternalTypeOK'
  PROVE  StoreInv'
  <1>1. TypeOK /\ TablesTypeOK /\ VolatileTypeOK
    BY DEF StoreInv, TypeOK
  <1>2. TypeOK'
    BY <1>1, FinishType DEF TypeOK, TablesTypeOK, tables, durable
  <1>3. JobsInv' /\ ExclusiveDispatch'
    BY FinishJobs DEF StoreInv, OnlyRow, tables
  <1> QED
    BY <1>2, <1>3, SameReservations DEF StoreInv

\* A worker moves on without touching the tables.
LEMMA StoreGoto ==
  ASSUME StoreInv, NEW w \in Workers, pc[w] # "idle", NEW label \in PCs \ {"idle"},
         Goto(w, label), VolatileTypeOK', RowFits(w)',
         \A v \in Workers : v # w => uncertain'[v] = uncertain[v],
         UNCHANGED <<tables, durable, external, job, inflight>>
  PROVE  StoreInv'
  <1>1. TypeOK'
    BY DEF StoreInv, TypeOK, TablesTypeOK, ExternalTypeOK, tables, durable, external
  <1>2. JobsInv' /\ ExclusiveDispatch'
    BY GotoJobs DEF StoreInv, OnlyRow, tables
  <1> QED
    BY <1>1, <1>2, SameReservations DEF StoreInv

\* Nobody's job or row is concerned: only the queue or the environment moves.
LEMMA StoreAside ==
  ASSUME StoreInv, queue' \subseteq Attempts, ExternalTypeOK',
         UNCHANGED <<tables, durable, workerVars>>
  PROVE  StoreInv'
  <1>1. TypeOK'
    BY DEF StoreInv, TypeOK, TablesTypeOK, VolatileTypeOK, tables, durable, workerVars
  <1>2. JobsInv' /\ ExclusiveDispatch'
    BY SameJobs DEF StoreInv, tables, workerVars
  <1> QED
    BY <1>1, <1>2, SameReservations DEF StoreInv

\* The requests of callers and the recovery scan preserve StoreInv.
LEMMA StoreRequesting ==
  ASSUME StoreInv, Requesting
  PROVE  StoreInv'
  <1>1. TypeOK /\ TablesTypeOK /\ VolatileTypeOK /\ ExternalTypeOK
    BY DEF StoreInv, TypeOK
  <1>2. ASSUME NEW a \in Attempts, enqueue(a) PROVE queue' \subseteq Attempts
    BY <1>1, <1>2 DEF enqueue, VolatileTypeOK
  <1>3. ASSUME NEW a \in Attempts, NEW r \in Requests, CreateClaims(a, r)
        PROVE  StoreInv'
    <2>1. state[a] = "none" /\ state' = [state EXCEPT ![a] = "planning"]
      BY <1>3 DEF CreateClaims, ClaimAttempt
    <2>2. TypeOK'
      <3>1. TablesTypeOK'
        BY <1>1, <1>3, ClaimType DEF CreateClaims
      <3>2. VolatileTypeOK'
        BY <1>1, <1>2, <1>3 DEF CreateClaims, VolatileTypeOK, workerVars
      <3> QED
        BY <1>1, <1>3, <3>1, <3>2 DEF TypeOK, CreateClaims, ExternalTypeOK, external
    <2>3. JobsInv' /\ ExclusiveDispatch'
      BY <1>1, <1>3, <2>1, SameJobs DEF StoreInv, CreateClaims, workerVars, TablesTypeOK
    <2>4. ReservationsMatchRows'
      BY <1>1, <1>3, <2>1, SameHolding
         DEF StoreInv, CreateClaims, ClaimAttempt, States, Live, Holding, SignStates, PostSigned
    <2> QED
      BY <2>2, <2>3, <2>4 DEF StoreInv
  <1>4. ASSUME NEW a \in Attempts, Cancel(a)
        PROVE  StoreInv'
    <2>1. state[a] \in Unsigned /\ state' = [state EXCEPT ![a] = "cancelled"]
      BY <1>4 DEF Cancel, CancelAttempt
    <2>2. TypeOK'
      BY <1>1, <1>4, CancelType
         DEF TypeOK, Cancel, VolatileTypeOK, volatile, ExternalTypeOK, external
    <2>3. JobsInv'
      BY <1>1, <1>4, <2>1
         DEF StoreInv, JobsInv, RowFits, Cancel, volatile, Unsigned, TablesTypeOK, PostSigned
    <2>4. ExclusiveDispatch'
      BY <1>4 DEF StoreInv, ExclusiveDispatch, Cancel, volatile
    <2>5. ReservationsMatchRows'
      BY <1>1, <1>4, <2>1, DropHolding
         DEF StoreInv, Cancel, CancelAttempt, States, Terminal, Holding, SignStates, PostSigned
    <2> QED
      BY <2>2, <2>3, <2>4, <2>5 DEF StoreInv
  <1>5. ASSUME NEW a \in Attempts, enqueue(a), UNCHANGED <<tables, sealed, lost, workerVars, external>>
        PROVE  StoreInv'
    BY <1>1, <1>2, <1>5, StoreAside DEF durable, external, ExternalTypeOK
  <1> QED
    BY <1>3, <1>4, <1>5 DEF Requesting, CreateReplays, AttemptGet, ScheduleRecoverable

\* The environment and the restarts of the process preserve StoreInv.
LEMMA StoreEnvironment ==
  ASSUME StoreInv, Environment
  PROVE  StoreInv'
  <1>1. TypeOK /\ TablesTypeOK /\ VolatileTypeOK /\ ExternalTypeOK
    BY DEF StoreInv, TypeOK
  <1>2. ASSUME NEW a \in Attempts, NEW notes \in SUBSET Notes,
               SignerSigns(a, notes) \/ CallVanishes(a, notes)
        PROVE  StoreInv'
    BY <1>1, <1>2, StoreAside
       DEF SignerSigns, CallVanishes, ExternalTypeOK, volatile, workerVars, VolatileTypeOK
  <1>3. ASSUME NEW a \in Attempts, NEW verdict \in {"final", "dead"}, ChainDecides(a, verdict)
        PROVE  StoreInv'
    BY <1>1, <1>3, StoreAside
       DEF ChainDecides, ExternalTypeOK, volatile, workerVars, VolatileTypeOK
  <1>4. ASSUME VolatileReset, UNCHANGED <<tables, lost, journal, fate>>, sealed' \in BOOLEAN
        PROVE  StoreInv'
    BY <1>1, <1>4, ResetType, ResetJobs, SameReservations
       DEF StoreInv, TypeOK, TablesTypeOK, tables, ExternalTypeOK
  <1>5. CASE RecoverDatabase
    <2>1. TablesTypeOK'
      BY <1>5 DEF RecoverDatabase, TablesTypeOK, States
    <2>2. TypeOK'
      BY <1>1, <1>5, <2>1, ResetType DEF RecoverDatabase, TypeOK, ExternalTypeOK
    <2>3. ReservationsMatchRows'
      BY <1>5, StoreAssumption
         DEF RecoverDatabase, ReservationsMatchRows, HeldBy, Holding, SignStates, PostSigned
    <2> QED
      BY <1>5, <2>2, <2>3, ResetJobs DEF StoreInv, RecoverDatabase
  <1> QED
    BY <1>1, <1>2, <1>3, <1>4, <1>5
       DEF Environment, Restart, UnsealCoordinatorRecovery, durable, TypeOK

\* Taking up an id, branching on its row and giving up preserve StoreInv.
LEMMA StoreDispatch ==
  ASSUME StoreInv, NEW w \in Workers,
         (\E a \in Attempts : Dequeue(w, a)) \/ ReadRow(w) \/ StoreError(w)
  PROVE  StoreInv'
  <1>1. TypeOK /\ TablesTypeOK /\ VolatileTypeOK /\ ExternalTypeOK
    BY DEF StoreInv, TypeOK
  <1>2. ASSUME NEW a \in Attempts, Dequeue(w, a)
        PROVE  StoreInv'
    <2>1. CASE a \in inflight \/ sealed
      BY <1>1, <1>2, <2>1, StoreAside DEF Dequeue, VolatileTypeOK, ExternalTypeOK, external
    <2>2. CASE ~(a \in inflight \/ sealed)
      <3> DEFINE s == state[a]
      <3>1. /\ pc[w] = "idle" /\ a \notin inflight
            /\ inflight' = inflight \cup {a}
            /\ job' = [job EXCEPT ![w] = a] /\ pc' = [pc EXCEPT ![w] = "read"]
            /\ UNCHANGED <<tables, uncertain>>
        BY <1>2, <2>2 DEF Dequeue, Goto
      <3>2. TypeOK'
        <4>1. VolatileTypeOK'
          BY <1>1, <1>2, <2>2, CoordinatorAssumption DEF Dequeue, Goto, VolatileTypeOK, PCs
        <4> QED
          BY <1>1, <1>2, <4>1
             DEF Dequeue, TypeOK, TablesTypeOK, ExternalTypeOK, tables, durable, external
      <3>3. \A v \in Workers : v # w => pc'[v] = pc[v] /\ job'[v] = job[v]
        BY <1>1, <3>1 DEF VolatileTypeOK
      <3>4. pc'[w] = "read" /\ job'[w] = a
        BY <1>1, <3>1 DEF VolatileTypeOK
      <3>5. JobsInv'
        <4>1. ASSUME NEW v \in Workers, v # w, pc[v] # "idle"
              PROVE  job'[v] \in inflight' /\ RowFits(v)'
          BY <4>1, <3>1, <3>3, BusyJob, IdleBystander DEF StoreInv, tables
        <4>2. RowFits(w)' /\ job'[w] \in inflight'
          BY <3>1, <3>4 DEF RowFits, Planning
        <4> QED
          BY <4>1, <4>2, <3>3, <3>4 DEF JobsInv, StoreInv
      <3>6. ExclusiveDispatch'
        <4>1. \A v \in Workers : v # w => job[v] # a
          BY <1>1, <3>1, StoreAssumption DEF StoreInv, JobsInv
        <4>2. \A u, v \in Workers : u # v /\ pc[u] # "idle" => job[u] # job[v]
          BY DEF StoreInv, ExclusiveDispatch
        <4> QED
          BY <3>3, <3>4, <4>1, <4>2 DEF ExclusiveDispatch
      <3> QED
        BY <3>1, <3>2, <3>5, <3>6, SameReservations DEF StoreInv
    <2> QED
      BY <2>1, <2>2
  <1>3. CASE ReadRow(w)
    <2>1. pc[w] # "idle" /\ job[w] \in Attempts /\ state[job[w]] \in States
      BY <1>1, <1>3, BusyJob DEF ReadRow, StoreInv, TablesTypeOK
    <2>2. CASE steps[w] = 0 \/ ~recoverableState(state[job[w]])
      BY <1>1, <1>3, <2>1, <2>2, StoreFinish DEF ReadRow, ExternalTypeOK, external
    <2>3. CASE ~(steps[w] = 0 \/ ~recoverableState(state[job[w]]))
      <3> DEFINE s == state[job[w]]
                 label == CASE s = "planning" -> "plan"
                            [] s \in SignStates -> "sign"
                            [] OTHER -> "reconcile"
      <3>1. /\ Goto(w, label)
            /\ uncertain' = [uncertain EXCEPT ![w] = s \in {"signing", "signing_unknown"}]
            /\ steps' = [steps EXCEPT ![w] = @ - 1]
            /\ UNCHANGED <<queue, inflight, walletLock, job, excluded, replans, sent>>
            /\ UNCHANGED <<tables, durable, external>>
        BY <1>3, <2>3 DEF ReadRow
      <3>2. label \in PCs \ {"idle"}
        BY DEF PCs
      <3>3. pc'[w] = label /\ job'[w] = job[w] /\ state' = state
            /\ uncertain'[w] = (s \in {"signing", "signing_unknown"})
        BY <1>1, <3>1 DEF VolatileTypeOK, Goto, tables
      <3>4. RowFits(w)'
        BY <2>1, <2>3, <3>3
           DEF RowFits, Planning, recoverableState, Live, SignStates, PostSigned
      <3>5. VolatileTypeOK'
        <4>1. steps[w] - 1 \in 0 .. MaxSteps
          BY <1>1, <2>3, CoordinatorAssumption DEF VolatileTypeOK
        <4>2. steps' \in [Workers -> 0 .. MaxSteps]
          BY <1>1, <3>1, <4>1 DEF VolatileTypeOK
        <4> QED
          BY <1>1, <3>1, <3>2, <4>2 DEF VolatileTypeOK, Goto
      <3>6. \A v \in Workers : v # w => uncertain'[v] = uncertain[v]
        BY <1>1, <3>1 DEF VolatileTypeOK
      <3> HIDE DEF label, s
      <3> QED
        BY <2>1, <3>1, <3>2, <3>4, <3>5, <3>6, StoreGoto
    <2> QED
      BY <2>2, <2>3
  <1>4. CASE StoreError(w)
    <2>1. ExternalTypeOK'
      <3>1. stray' = stray \/ stray' = [stray EXCEPT ![job[w]] = @ \cup {sent[w]}]
        BY <1>4 DEF StoreError
      <3>2. sent[w] \in SUBSET Notes
        BY <1>1 DEF VolatileTypeOK
      <3>3. stray' \in [Attempts -> SUBSET SUBSET Notes]
        BY <1>1, <3>1, <3>2 DEF ExternalTypeOK
      <3> QED
        BY <1>1, <1>4, <3>3 DEF StoreError, ExternalTypeOK
    <2> QED
      BY <1>4, <2>1, StoreFinish DEF StoreError
  <1> QED
    BY <1>2, <1>3, <1>4

\* planAttempt preserves StoreInv.
LEMMA StorePlans ==
  ASSUME StoreInv, NEW w \in Workers, Plans(w)
  PROVE  StoreInv'
  <1>1. TypeOK /\ TablesTypeOK /\ VolatileTypeOK /\ ExternalTypeOK
    BY DEF StoreInv, TypeOK
  <1> DEFINE a == job[w]
  <1>2. pc[w] # "idle" => a \in Attempts /\ state[a] \in States /\ RowFits(w)
    BY <1>1, BusyJob DEF StoreInv, TablesTypeOK
  <1>3. {"planning", "failed_unsigned"} \subseteq States \ {"none"}
    BY DEF States, Live, Terminal
  <1>4. ASSUME UNCHANGED external PROVE ExternalTypeOK'
    BY <1>1, <1>4 DEF external, ExternalTypeOK
  <1>5. ASSUME pc[w] # "idle", NEW code \in {"other", "notes_reserved"},
               failUnsigned(w, code), UNCHANGED <<durable, external>>
        PROVE  StoreInv'
    BY <1>3, <1>4, <1>5, StoreMark DEF failUnsigned, Terminal
  <1>6. ASSUME pc[w] # "idle", recordPlanningError(w), UNCHANGED <<durable, external>>
        PROVE  StoreInv'
    BY <1>3, <1>4, <1>6, StoreMark DEF recordPlanningError, Terminal
  <1>7. CASE PlanStart(w)
    <2> DEFINE label == IF changeAddress[a] THEN "select" ELSE "address"
    <2>1. pc[w] # "idle" /\ Goto(w, label) /\ state[a] = "planning"
      BY <1>7 DEF PlanStart, PlanLocked
    <2>2. label \in PCs \ {"idle"}
      BY DEF PCs
    <2>3. VolatileTypeOK'
      <3> HIDE DEF label
      <3>1. walletLock' \in [Wallets -> Workers \cup {NoWorker}]
        BY <1>1, <1>7 DEF PlanStart, VolatileTypeOK
      <3>2. replans' \in [Workers -> 0 .. MaxReplans]
        <4>1. MaxReplans \in 0 .. MaxReplans
          BY CoordinatorAssumption
        <4> QED
          BY <1>1, <1>7, <4>1 DEF PlanStart, VolatileTypeOK
      <3>3. pc' \in [Workers -> PCs]
        BY <1>1, <2>1, <2>2 DEF Goto, VolatileTypeOK
      <3> QED
        BY <1>1, <1>7, <3>1, <3>2, <3>3 DEF PlanStart, VolatileTypeOK
    <2>4. RowFits(w)'
      BY <1>1, <1>7, <2>1 DEF PlanStart, Goto, VolatileTypeOK, RowFits, tables
    <2> HIDE DEF label
    <2> QED
      BY <1>7, <2>1, <2>2, <2>3, <2>4, StoreGoto DEF PlanStart
  <1>8. CASE PlanStale(w) \/ PlanConflicts(w)
    BY <1>4, <1>8, StoreFinish DEF PlanStale, PlanLocked, PlanConflicts
  <1>9. CASE PlanRefused(w)
    <2>1. errorCode[a] \in {"other", "notes_reserved"}
      BY <1>1, <1>2, <1>9 DEF PlanRefused, PlanLocked, TablesTypeOK
    <2> QED
      BY <1>5, <1>9, <2>1 DEF PlanRefused, PlanLocked
  <1>10. CASE AllocateChange(w)
    <2>1. pc[w] # "idle"
      BY <1>10 DEF AllocateChange
    <2>2. CASE ~CanSetChangeAddress(a)
      BY <1>4, <1>10, <2>1, <2>2, StoreFinish DEF AllocateChange
    <2>3. CASE CanSetChangeAddress(a)
      <3>1. SetAttemptChangeAddress(a) /\ Goto(w, "select") /\ UNCHANGED <<job, inflight, uncertain>>
        BY <1>10, <2>3 DEF AllocateChange
      <3>2. TypeOK'
        BY <1>1, <1>2, <1>10, <2>1, <2>3, <1>4, ChangeType
           DEF AllocateChange, TypeOK, VolatileTypeOK, Goto, PCs, durable
      <3>3. RowFits(w)'
        BY <1>1, <2>3, <3>1 DEF RowFits, Goto, VolatileTypeOK, CanSetChangeAddress,
                                SetAttemptChangeAddress
      <3>4. JobsInv' /\ ExclusiveDispatch'
        BY <2>1, <3>1, <3>3, GotoJobs DEF StoreInv, OnlyRow, SetAttemptChangeAddress
      <3>5. ReservationsMatchRows'
        BY <3>1 DEF StoreInv, ReservationsMatchRows, HeldBy, SetAttemptChangeAddress
      <3> QED
        BY <3>2, <3>4, <3>5 DEF StoreInv
    <2> QED
      BY <2>2, <2>3
  <1>11. CASE AllocateFails(w)
    BY <1>6, <1>11 DEF AllocateFails
  <1>12. CASE ReadExclusions(w)
    <2>1. pc[w] # "idle" /\ pc[w] \in Planning
      BY <1>12 DEF ReadExclusions, Planning
    <2>2. CASE replans[w] = 0
      BY <1>6, <1>12, <2>1, <2>2 DEF ReadExclusions
    <2>3. CASE replans[w] # 0
      <3>1. VolatileTypeOK'
        <4>1. replans[w] - 1 \in 0 .. MaxReplans
          BY <1>1, <2>3, CoordinatorAssumption DEF VolatileTypeOK
        <4>2. ActiveNoteIDs(Wallet(a)) \in SUBSET Notes
          BY DEF ActiveNoteIDs
        <4> QED
          BY <1>1, <1>12, <2>3, <4>1, <4>2 DEF ReadExclusions, VolatileTypeOK, Goto, PCs
      <3>2. RowFits(w)'
        BY <1>1, <1>2, <1>12, <2>1, <2>3
           DEF ReadExclusions, RowFits, Goto, VolatileTypeOK, tables
      <3> QED
        BY <1>12, <2>1, <2>3, <3>1, <3>2, StoreGoto DEF ReadExclusions, PCs
    <2> QED
      BY <2>2, <2>3
  <1>13. ASSUME NEW notes \in SUBSET Notes, PlanReserves(w, notes)
         PROVE  StoreInv'
    <2>1. /\ pc[w] # "idle" /\ a \in Attempts /\ state[a] = "planning"
          /\ state' = [state EXCEPT ![a] = "reserved"]
          /\ plan' = [plan EXCEPT ![a] = notes]
          /\ reservedBy' = [n \in Notes |-> IF n \in notes THEN a ELSE reservedBy[n]]
          /\ NotesFree(notes)
          /\ Goto(w, "read") /\ UNCHANGED <<job, inflight, uncertain>>
      BY <1>2, <1>13 DEF PlanReserves, ReserveAttemptPlan
    <2>2. TypeOK'
      <3>1. TablesTypeOK'
        BY <1>1, <1>13, <2>1, ReserveType DEF PlanReserves
      <3>2. walletLock' \in [Wallets -> Workers \cup {NoWorker}]
        BY <1>1, <1>13 DEF PlanReserves, VolatileTypeOK
      <3>3. replans' \in [Workers -> 0 .. MaxReplans]
        <4>1. 0 \in 0 .. MaxReplans
          BY CoordinatorAssumption
        <4> QED
          BY <1>1, <1>13, <4>1 DEF PlanReserves, VolatileTypeOK
      <3>4. VolatileTypeOK'
        BY <1>1, <1>13, <3>2, <3>3 DEF PlanReserves, VolatileTypeOK, Goto, PCs
      <3> QED
        BY <1>1, <1>4, <1>13, <3>1, <3>4 DEF PlanReserves, TypeOK, durable
    <2>3. RowFits(w)'
      BY <1>1, <2>1 DEF RowFits, Goto, VolatileTypeOK, Planning
    <2>4. OnlyRow(a)
      BY <1>1, <2>1 DEF OnlyRow, TablesTypeOK
    <2>5. JobsInv' /\ ExclusiveDispatch'
      BY <2>1, <2>3, <2>4, GotoJobs DEF StoreInv
    <2>6. HeldBy(a) = {}
      BY <2>1 DEF StoreInv, ReservationsMatchRows, Holding, SignStates, PostSigned
    <2>7. ReservationsMatchRows'
      <3>1. {n \in Notes : reservedBy'[n] = a} = notes
        BY <1>1, <2>1, <2>6 DEF HeldBy
      <3>2. state'[a] \in Holding /\ plan'[a] = notes
        BY <1>1, <2>1 DEF TablesTypeOK, Holding, SignStates
      <3>3. ASSUME NEW b \in Attempts, b # a
            PROVE  HeldBy(b)' = HeldBy(b) /\ state'[b] = state[b] /\ plan'[b] = plan[b]
        BY <1>1, <2>1, <3>3, StoreAssumption DEF HeldBy, NotesFree, TablesTypeOK
      <3>4. ASSUME NEW b \in Attempts
            PROVE  HeldBy(b)' = IF state'[b] \in Holding THEN plan'[b] ELSE {}
        <4>1. CASE b = a
          BY <3>1, <3>2, <4>1 DEF HeldBy
        <4>2. CASE b # a
          <5>1. HeldBy(b) = IF state[b] \in Holding THEN plan[b] ELSE {}
            BY DEF StoreInv, ReservationsMatchRows
          <5> QED
            BY <3>3, <4>2, <5>1
        <4> QED
          BY <4>1, <4>2
      <3> QED
        BY <3>4 DEF ReservationsMatchRows
    <2> QED
      BY <2>2, <2>5, <2>7 DEF StoreInv
  <1>14. ASSUME NEW notes, PlanRaced(w, notes)
         PROVE  StoreInv'
    <2>1. pc[w] # "idle" /\ "select" \in PCs \ {"idle"} /\ Goto(w, "select") /\ state[a] = "planning"
      BY <1>14 DEF PlanRaced, PCs
    <2>2. VolatileTypeOK'
      BY <1>1, <1>14, <2>1 DEF PlanRaced, VolatileTypeOK, Goto
    <2>3. RowFits(w)'
      BY <1>1, <1>14, <2>1 DEF PlanRaced, RowFits, Goto, VolatileTypeOK, tables
    <2> QED
      BY <1>14, <2>1, <2>2, <2>3, StoreGoto DEF PlanRaced
  <1>15. CASE PlanNotesReserved(w) \/ PlanFails(w)
    BY <1>5, <1>6, <1>15 DEF PlanNotesReserved, PlanFails
  <1> QED
    BY <1>7, <1>8, <1>9, <1>10, <1>11, <1>12, <1>13, <1>14, <1>15 DEF Plans

\* signAttempt and reconcileAttempt preserve StoreInv.
LEMMA StoreSigns ==
  ASSUME StoreInv, NEW w \in Workers, Signs(w) \/ Reconciles(w) \/ SignMalformed(w)
  PROVE  StoreInv'
  <1>1. TypeOK /\ TablesTypeOK /\ VolatileTypeOK /\ ExternalTypeOK
    BY DEF StoreInv, TypeOK
  <1> DEFINE a == job[w]
  <1>2. pc[w] # "idle" => a \in Attempts /\ state[a] \in States /\ RowFits(w)
    BY <1>1, BusyJob DEF StoreInv, TablesTypeOK
  <1>3. /\ {"reserved", "signing_unknown", "failed_unsigned", "final", "released"}
              \subseteq States \ {"none"}
        /\ PostSigned \subseteq States \ {"none"}
    BY DEF States, Live, SignStates, PostSigned, Terminal
  <1>4. ASSUME UNCHANGED external PROVE ExternalTypeOK'
    BY <1>1, <1>4 DEF external, ExternalTypeOK
  <1>5. CASE SignInvalid(w)
    BY <1>3, <1>4, <1>5, StoreMark DEF SignInvalid, Terminal
  <1>6. CASE BeginSigning(w)
    <2>1. pc[w] # "idle"
      BY <1>6 DEF BeginSigning
    <2>2. CASE state[a] \notin SignStates
      BY <1>4, <1>6, <2>1, <2>2, StoreFinish DEF BeginSigning
    <2>3. CASE state[a] \in SignStates
      <3>1. /\ BeginAttemptSigning(a) /\ Goto(w, "call")
            /\ sent' = [sent EXCEPT ![w] = plan[a]]
            /\ UNCHANGED <<job, inflight, uncertain>>
        BY <1>6, <2>3 DEF BeginSigning
      <3>2. TypeOK'
        <4>1. plan[a] \in SUBSET Notes
          BY <1>1, <1>2, <2>1 DEF TablesTypeOK
        <4>2. VolatileTypeOK'
          BY <1>1, <1>6, <2>3, <4>1 DEF BeginSigning, VolatileTypeOK, Goto, PCs
        <4> QED
          BY <1>1, <1>2, <1>4, <1>6, <2>1, <3>1, <4>2, BeginType DEF BeginSigning, TypeOK, durable
      <3>3. state' = [state EXCEPT ![a] = IF state[a] = "reserved" THEN "signing" ELSE state[a]]
            /\ UNCHANGED <<plan, reservedBy>>
        BY <1>1, <1>2, <2>1, <3>1 DEF BeginAttemptSigning, tables, TablesTypeOK
      <3>4. OnlyRow(a)
        BY <1>1, <3>3 DEF OnlyRow, TablesTypeOK
      <3>5. RowFits(w)'
        BY <1>1, <1>2, <1>6, <2>1, <2>3, <3>1, <3>3
           DEF BeginSigning, RowFits, Goto, VolatileTypeOK, TablesTypeOK, SignStates, Planning
      <3>6. JobsInv' /\ ExclusiveDispatch'
        BY <2>1, <3>1, <3>4, <3>5, GotoJobs DEF StoreInv
      <3>7. ReservationsMatchRows'
        BY <1>1, <1>2, <2>1, <2>3, <3>3, SameHolding
           DEF StoreInv, States, Live, Holding, SignStates
      <3> QED
        BY <3>2, <3>6, <3>7 DEF StoreInv
    <2> QED
      BY <2>2, <2>3
  <1>7. CASE SignSucceeds(w)
    <2>1. /\ pc[w] # "idle" /\ Goto(w, "read") /\ CompleteAttemptSigning(a)
          /\ UNCHANGED <<job, inflight, uncertain>>
      BY <1>7 DEF SignSucceeds
    <2>2. TypeOK'
      BY <1>1, <1>2, <1>4, <1>7, <2>1, CompleteType
         DEF SignSucceeds, TypeOK, VolatileTypeOK, Goto, PCs, durable
    <2>3. OnlyRow(a)
      BY <1>1, <2>1 DEF OnlyRow, CompleteAttemptSigning, TablesTypeOK
    <2>4. RowFits(w)'
      BY <1>1, <2>1 DEF RowFits, Goto, VolatileTypeOK, Planning
    <2>5. JobsInv' /\ ExclusiveDispatch'
      BY <2>1, <2>3, <2>4, GotoJobs DEF StoreInv
    <2>6. ReservationsMatchRows'
      BY <1>1, <1>2, <1>3, <2>1, SameHolding
         DEF StoreInv, CompleteAttemptSigning, Holding, SignStates, PostSigned
    <2> QED
      BY <2>2, <2>5, <2>6 DEF StoreInv
  <1>8. CASE SignOutcomeUnknown(w)
    <2>1. ExternalTypeOK'
      <3>1. sent[w] \in SUBSET Notes
        BY <1>1 DEF VolatileTypeOK
      <3>2. stray' \in [Attempts -> SUBSET SUBSET Notes]
        BY <1>1, <1>8, <3>1 DEF SignOutcomeUnknown, ExternalTypeOK
      <3> QED
        BY <1>1, <1>8, <3>2 DEF SignOutcomeUnknown, ExternalTypeOK
    <2> QED
      BY <1>3, <1>8, <2>1, StoreMark DEF SignOutcomeUnknown, Terminal
  <1>9. ASSUME NEW retryable \in BOOLEAN, pc[w] = "call", DefiniteError(w, retryable),
               UNCHANGED <<durable, external>>
        PROVE  StoreInv'
    <2>1. state[a] # "planning"
      BY <1>2, <1>9 DEF RowFits
    <2> QED
      BY <1>3, <1>4, <1>9, <2>1, StoreMark DEF DefiniteError, Terminal
  <1>10. ASSUME NEW s \in PostSigned \ {"signed"}, ReconcileTracks(w, s)
         PROVE  StoreInv'
    <2>1. pc[w] # "idle" /\ a \in Attempts /\ state[a] \in PostSigned
      BY <1>2, <1>10 DEF ReconcileTracks, RowFits
    <2>2. s \notin Terminal /\ s # "reserved" /\ s \in States \ {"none"}
      BY <1>3 DEF PostSigned, Terminal
    <2>3. TablesTypeOK'
      BY <1>1, <1>10, <2>2, MarkType DEF ReconcileTracks
    <2>4. TypeOK'
      BY <1>1, <1>4, <1>10, <2>3 DEF ReconcileTracks, TypeOK, VolatileTypeOK, volatile, durable
    <2>5. ReservationsMatchRows' /\ OnlyRow(a)
      BY <1>1, <1>10, <2>1, <2>2, MarkReservations DEF ReconcileTracks, StoreInv
    <2>6. state'[a] \in PostSigned
      BY <1>1, <1>10, <2>1 DEF ReconcileTracks, MarkAttemptState, tables, TablesTypeOK
    <2>7. RowFits(w)'
      BY <1>10, <2>6 DEF ReconcileTracks, RowFits, volatile, Planning
    <2>8. JobsInv' /\ ExclusiveDispatch'
      BY <1>1, <1>10, <2>1, <2>5, <2>7, GotoJobs
         DEF StoreInv, ReconcileTracks, volatile, Goto, VolatileTypeOK
    <2> QED
      BY <2>4, <2>5, <2>8 DEF StoreInv
  <1>11. CASE ReconcileSettles(w)
    BY <1>3, <1>4, <1>11, StoreMark DEF ReconcileSettles, Terminal
  <1>12. CASE ReconcileEnds(w)
    BY <1>4, <1>12, StoreFinish DEF ReconcileEnds
  <1> QED
    BY <1>5, <1>6, <1>7, <1>8, <1>9, <1>10, <1>11, <1>12
       DEF Signs, Reconciles, SignRefused, SignMalformed

\* The initial state satisfies StoreInv.
LEMMA StoreInit == Init => StoreInv
  <1> SUFFICES ASSUME Init PROVE StoreInv
    OBVIOUS
  <1>1. JobsInv /\ ExclusiveDispatch
    BY DEF Init, VolatileInit, JobsInv, ExclusiveDispatch
  <1>2. ReservationsMatchRows
    BY StoreAssumption DEF Init, ReservationsMatchRows, HeldBy, Holding, SignStates, PostSigned
  <1> QED
    BY <1>1, <1>2, InitType DEF StoreInv

\* Every step preserves StoreInv.
LEMMA StoreStep == StoreInv /\ [AnySignerNext]_vars => StoreInv'
  <1> SUFFICES ASSUME StoreInv, [AnySignerNext]_vars PROVE StoreInv'
    OBVIOUS
  <1>1. CASE UNCHANGED vars
    BY <1>1, StoreAside
       DEF vars, volatile, workerVars, durable, external, StoreInv, TypeOK, VolatileTypeOK,
           ExternalTypeOK
  <1>2. ASSUME NEW w \in Workers, Works(w) PROVE StoreInv'
    BY <1>2, StoreDispatch, StorePlans, StoreSigns DEF Works
  <1>3. ASSUME NEW w \in Workers, SignMalformed(w) PROVE StoreInv'
    BY <1>3, StoreSigns
  <1> QED
    BY <1>1, <1>2, <1>3, StoreRequesting, StoreEnvironment DEF AnySignerNext, Next

\* Whatever the signer answers, StoreInv holds in every reachable state.
THEOREM StoreInvariant == AnySignerSpec => []StoreInv
  BY StoreInit, StoreStep, PTL DEF AnySignerSpec

\* The type invariant of tables, process and environment always holds.
THEOREM TypeCorrect == AnySignerSpec => []TypeOK
  <1>1. StoreInv => TypeOK
    BY DEF StoreInv
  <1> QED
    BY <1>1, StoreInvariant, PTL

\* Whatever the signer answers, transaction_attempts and active_note_reservations
\* agree: an attempt holds exactly its plan's notes from reservation to settlement.
THEOREM ReservationsAgree == AnySignerSpec => []ReservationsMatchRows
  <1>1. StoreInv => ReservationsMatchRows
    BY DEF StoreInv
  <1> QED
    BY <1>1, StoreInvariant, PTL

\* The inflight set keeps any number of workers off each other's attempts,
\* however often an id is queued.
THEOREM DispatchIsExclusive == AnySignerSpec => []ExclusiveDispatch
  <1>1. StoreInv => ExclusiveDispatch
    BY DEF StoreInv
  <1> QED
    BY <1>1, StoreInvariant, PTL

-----------------------------------------------------------------------------
(* Terminal rows.                                                          *)

\* Every store operation leaves the terminal rows alone.
TerminalKept == \A b \in Attempts : state[b] \in Terminal => state'[b] = state[b]

\* MarkAttemptState refuses to move a terminal row.
LEMMA MarkKeeps ==
  ASSUME TablesTypeOK, NEW a, NEW next, NEW code, NEW release,
         MarkAttemptState(a, next, code, release)
  PROVE  TerminalKept
  BY DEF MarkAttemptState, allowedAttemptTransition, terminalAttemptState, TerminalKept,
         TablesTypeOK, tables

\* No step of a worker moves a terminal row, however stale the snapshot it acts on.
LEMMA WorkerKeeps ==
  ASSUME TablesTypeOK, NEW w \in Workers, Works(w) \/ SignMalformed(w)
  PROVE  TerminalKept
  <1>1. CASE UNCHANGED tables
    BY <1>1 DEF TerminalKept, tables
  <1>2. CASE \E next, code, release : MarkAttemptState(job[w], next, code, release)
    BY <1>2, MarkKeeps
  <1>3. CASE SetAttemptChangeAddress(job[w])
    BY <1>3 DEF SetAttemptChangeAddress, TerminalKept
  <1>4. ASSUME NEW notes, ReserveAttemptPlan(job[w], notes) PROVE TerminalKept
    BY <1>4 DEF ReserveAttemptPlan, TerminalKept, TablesTypeOK, Terminal
  <1>5. CASE BeginAttemptSigning(job[w]) \/ CompleteAttemptSigning(job[w])
    BY <1>1, <1>5 DEF BeginAttemptSigning, CompleteAttemptSigning, TerminalKept,
                      TablesTypeOK, Terminal
  <1>6. CASE (\E a \in Attempts : Dequeue(w, a)) \/ ReadRow(w) \/ StoreError(w)
    BY <1>1, <1>6 DEF Dequeue, ReadRow, StoreError
  <1>7. CASE Plans(w)
    <2>1. CASE PlanStart(w) \/ PlanStale(w) \/ PlanConflicts(w)
               \/ \E notes \in SUBSET Notes : PlanRaced(w, notes)
      BY <1>1, <2>1 DEF PlanStart, PlanStale, PlanConflicts, PlanRaced
    <2>2. CASE PlanRefused(w) \/ AllocateFails(w) \/ PlanNotesReserved(w) \/ PlanFails(w)
      BY <1>2, <2>2 DEF PlanRefused, AllocateFails, PlanNotesReserved, PlanFails,
                        failUnsigned, recordPlanningError
    <2>3. CASE AllocateChange(w)
      BY <1>1, <1>3, <2>3 DEF AllocateChange
    <2>4. CASE ReadExclusions(w)
      BY <1>1, <1>2, <2>4 DEF ReadExclusions, recordPlanningError
    <2>5. ASSUME NEW notes \in SUBSET Notes, PlanReserves(w, notes) PROVE TerminalKept
      BY <1>4, <2>5 DEF PlanReserves
    <2> QED
      BY <1>7, <2>1, <2>2, <2>3, <2>4, <2>5 DEF Plans
  <1>8. CASE Signs(w)
    <2>1. CASE SignInvalid(w) \/ SignOutcomeUnknown(w)
      BY <1>2, <2>1 DEF SignInvalid, SignOutcomeUnknown
    <2>2. CASE BeginSigning(w) \/ SignSucceeds(w)
      BY <1>1, <1>5, <2>2 DEF BeginSigning, SignSucceeds
    <2>3. CASE \E retryable \in BOOLEAN : SignRefused(w, retryable)
      BY <1>2, <2>3 DEF SignRefused, DefiniteError
    <2> QED
      BY <1>8, <2>1, <2>2, <2>3 DEF Signs
  <1>9. CASE Reconciles(w)
    BY <1>1, <1>2, <1>9 DEF Reconciles, ReconcileTracks, ReconcileSettles, ReconcileEnds
  <1>10. CASE SignMalformed(w)
    BY <1>2, <1>10 DEF SignMalformed, DefiniteError
  <1> QED
    BY <1>6, <1>7, <1>8, <1>9, <1>10 DEF Works

\* A cancelled, failed, released or final attempt stays so: the compare-and-swap
\* on the state column stops every worker and caller with an older snapshot.
THEOREM TerminalForever == AnySignerSpec => TerminalIsForever
  <1> DEFINE Kept == \A a \in Attempts : state[a] \in Terminal =>
                        state'[a] = state[a] \/ a \in lost'
  <1>1. ASSUME TypeOK, [AnySignerNext]_vars PROVE Kept \/ UNCHANGED vars
    <2>1. TablesTypeOK
      BY <1>1 DEF TypeOK
    <2>2. CASE UNCHANGED vars
      BY <2>2
    <2>3. ASSUME NEW w \in Workers, Works(w) \/ SignMalformed(w) PROVE Kept
      BY <2>1, <2>3, WorkerKeeps DEF TerminalKept
    <2>4. CASE Requesting
      BY <2>1, <2>4
         DEF Requesting, CreateClaims, CreateReplays, AttemptGet, Cancel, ScheduleRecoverable,
             ClaimAttempt, CancelAttempt, tables, TablesTypeOK, Terminal, Unsigned
    <2>5. CASE Environment
      BY <2>5 DEF Environment, SignerSigns, CallVanishes, ChainDecides, Restart,
                  RecoverDatabase, UnsealCoordinatorRecovery, tables, Terminal
    <2> QED
      BY <1>1, <2>2, <2>3, <2>4, <2>5 DEF AnySignerNext, Next
  <1> QED
    BY <1>1, TypeCorrect, PTL DEF AnySignerSpec, TerminalIsForever

-----------------------------------------------------------------------------
(* Parked rows.                                                            *)

\* State and error code of a row stay.
RowKept(b) == state'[b] = state[b] /\ errorCode'[b] = errorCode[b]

\* MarkAttemptState writes the row it is called for.
LEMMA MarkRow ==
  ASSUME TablesTypeOK, NEW a \in Attempts, NEW next, NEW code, NEW release,
         MarkAttemptState(a, next, code, release)
  PROVE  /\ \A b \in Attempts \ {a} : RowKept(b)
         /\ RowKept(a) \/ state'[a] = next
  BY DEF MarkAttemptState, TablesTypeOK, tables, RowKept

\* All rows stay but the one of worker w.
OthersKept(w) == \A b \in Attempts \ {job[w]} : RowKept(b)

\* A worker writes no row but its own, whatever it does.
LEMMA WorkerRow ==
  ASSUME StoreInv, NEW w \in Workers, Works(w) \/ SignMalformed(w)
  PROVE  OthersKept(w)
  <1>0. TypeOK /\ TablesTypeOK
    BY DEF StoreInv, TypeOK
  <1>1. CASE UNCHANGED tables
    BY <1>1 DEF OthersKept, RowKept, tables
  <1>2. ASSUME pc[w] # "idle", NEW next, NEW code, NEW release,
               MarkAttemptState(job[w], next, code, release)
        PROVE  OthersKept(w)
    BY <1>0, <1>2, BusyJob, MarkRow DEF StoreInv, OthersKept
  <1>3. CASE SetAttemptChangeAddress(job[w])
    BY <1>3 DEF SetAttemptChangeAddress, OthersKept, RowKept
  <1>4. ASSUME NEW notes, ReserveAttemptPlan(job[w], notes) PROVE OthersKept(w)
    BY <1>0, <1>4 DEF ReserveAttemptPlan, OthersKept, RowKept, TablesTypeOK
  <1>5. CASE BeginAttemptSigning(job[w]) \/ CompleteAttemptSigning(job[w])
    BY <1>0, <1>1, <1>5 DEF BeginAttemptSigning, CompleteAttemptSigning, OthersKept, RowKept,
                         TablesTypeOK
  <1>6. CASE (\E a \in Attempts : Dequeue(w, a)) \/ ReadRow(w) \/ StoreError(w)
    BY <1>1, <1>6 DEF Dequeue, ReadRow, StoreError
  <1>7. CASE Plans(w)
    <2>1. CASE PlanStart(w) \/ PlanStale(w) \/ PlanConflicts(w)
               \/ \E notes \in SUBSET Notes : PlanRaced(w, notes)
      BY <1>1, <2>1 DEF PlanStart, PlanStale, PlanConflicts, PlanRaced
    <2>2. CASE PlanRefused(w) \/ AllocateFails(w) \/ PlanNotesReserved(w) \/ PlanFails(w)
      BY <1>2, <2>2 DEF PlanRefused, PlanLocked, AllocateFails, PlanNotesReserved, PlanFails,
                        failUnsigned, recordPlanningError
    <2>3. CASE AllocateChange(w)
      BY <1>1, <1>3, <2>3 DEF AllocateChange
    <2>4. CASE ReadExclusions(w)
      BY <1>1, <1>2, <2>4 DEF ReadExclusions, recordPlanningError
    <2>5. ASSUME NEW notes \in SUBSET Notes, PlanReserves(w, notes) PROVE OthersKept(w)
      BY <1>4, <2>5 DEF PlanReserves
    <2> QED
      BY <1>7, <2>1, <2>2, <2>3, <2>4, <2>5 DEF Plans
  <1>8. CASE Signs(w)
    <2>1. CASE SignInvalid(w) \/ SignOutcomeUnknown(w)
      BY <1>2, <2>1 DEF SignInvalid, SignOutcomeUnknown
    <2>2. CASE BeginSigning(w) \/ SignSucceeds(w)
      BY <1>1, <1>5, <2>2 DEF BeginSigning, SignSucceeds
    <2>3. CASE \E retryable \in BOOLEAN : SignRefused(w, retryable)
      BY <1>2, <2>3 DEF SignRefused, DefiniteError
    <2> QED
      BY <1>8, <2>1, <2>2, <2>3 DEF Signs
  <1>9. CASE Reconciles(w)
    BY <1>1, <1>2, <1>9 DEF Reconciles, ReconcileTracks, ReconcileSettles, ReconcileEnds
  <1>10. CASE SignMalformed(w)
    BY <1>2, <1>10 DEF SignMalformed, DefiniteError
  <1> QED
    BY <1>6, <1>7, <1>8, <1>9, <1>10 DEF Works

\* Worker w enters or stays in the planning of a row only without writing the
\* row's state, and enters it only if the row is not parked.
PlansSafely(w) ==
  /\ \A v \in Workers \ {w} : pc'[v] = pc[v] /\ job'[v] = job[v]
  /\ pc'[w] \in Planning =>
        /\ pc[w] # "idle" /\ job'[w] = job[w] /\ RowKept(job[w])
        /\ pc[w] \in Planning \/ ~Parked(job[w])

\* Every worker does.
LEMMA WorkerPlans ==
  ASSUME StoreInv, NEW w \in Workers, Works(w) \/ SignMalformed(w)
  PROVE  PlansSafely(w)
  <1>0. pc \in [Workers -> PCs] /\ job \in [Workers -> Attempts \cup {NoAttempt}]
    BY DEF StoreInv, TypeOK, VolatileTypeOK
  <1>1. CASE Finish(w)
    BY <1>0, <1>1 DEF Finish, Planning, PlansSafely
  <1>2. ASSUME NEW label \in {"read", "plan", "sign", "call", "reconcile"}, Goto(w, label),
               \A v \in Workers \ {w} : job'[v] = job[v]
        PROVE  PlansSafely(w)
    BY <1>0, <1>2 DEF Goto, Planning, PlansSafely
  <1>3. ASSUME NEW label \in Planning, Goto(w, label), UNCHANGED <<state, errorCode, job>>,
               pc[w] # "idle", pc[w] \in Planning \/ ~Parked(job[w])
        PROVE  PlansSafely(w)
    BY <1>0, <1>3 DEF Goto, RowKept, PlansSafely
  <1>4. CASE pc' = pc /\ job' = job /\ (pc[w] \in Planning => UNCHANGED <<state, errorCode>>)
    BY <1>4 DEF RowKept, Planning, PlansSafely
  <1>5. CASE (\E a \in Attempts : Dequeue(w, a)) \/ ReadRow(w) \/ StoreError(w)
    <2>1. ASSUME NEW a \in Attempts, Dequeue(w, a) PROVE PlansSafely(w)
      <3>1. CASE a \in inflight \/ sealed
        BY <1>4, <2>1, <3>1 DEF Dequeue, workerVars, tables
      <3>2. CASE ~(a \in inflight \/ sealed)
        <4>1. Goto(w, "read") /\ job' = [job EXCEPT ![w] = a]
          BY <2>1, <3>2 DEF Dequeue
        <4>2. \A v \in Workers \ {w} : job'[v] = job[v]
          BY <1>0, <4>1
        <4> QED
          BY <1>2, <4>1, <4>2
      <3> QED
        BY <3>1, <3>2
    <2>2. CASE ReadRow(w)
      <3>1. CASE steps[w] = 0 \/ ~recoverableState(state[job[w]])
        BY <1>1, <2>2, <3>1 DEF ReadRow
      <3>2. CASE ~(steps[w] = 0 \/ ~recoverableState(state[job[w]]))
        <4> DEFINE label == CASE state[job[w]] = "planning" -> "plan"
                              [] state[job[w]] \in SignStates -> "sign"
                              [] OTHER -> "reconcile"
        <4>1. Goto(w, label) /\ UNCHANGED job
          BY <2>2, <3>2 DEF ReadRow
        <4>2. label \in {"plan", "sign", "reconcile"}
          BY DEF SignStates
        <4> HIDE DEF label
        <4> QED
          BY <1>2, <4>1, <4>2
      <3> QED
        BY <3>1, <3>2
    <2>3. CASE StoreError(w)
      BY <1>1, <2>3 DEF StoreError
    <2> QED
      BY <1>5, <2>1, <2>2, <2>3
  <1>6. CASE Plans(w)
    <2>1. CASE PlanStart(w)
      <3>1. \E label \in Planning : Goto(w, label)
        BY <2>1 DEF PlanStart, Planning
      <3> QED
        BY <1>3, <2>1, <3>1 DEF PlanStart, PlanLocked, Parked, tables
    <2>2. CASE PlanStale(w) \/ PlanConflicts(w) \/ PlanRefused(w) \/ AllocateFails(w)
               \/ PlanNotesReserved(w) \/ PlanFails(w)
      BY <1>1, <2>2 DEF PlanStale, PlanConflicts, PlanRefused, AllocateFails, PlanNotesReserved,
                        PlanFails, failUnsigned, recordPlanningError
    <2>3. CASE AllocateChange(w)
      <3>1. CASE CanSetChangeAddress(job[w])
        BY <1>3, <2>3, <3>1 DEF AllocateChange, SetAttemptChangeAddress, Planning
      <3>2. CASE ~CanSetChangeAddress(job[w])
        BY <1>1, <2>3, <3>2 DEF AllocateChange
      <3> QED
        BY <3>1, <3>2
    <2>4. CASE ReadExclusions(w)
      <3>1. CASE replans[w] = 0
        BY <1>1, <2>4, <3>1 DEF ReadExclusions, recordPlanningError
      <3>2. CASE replans[w] # 0
        BY <1>3, <2>4, <3>2 DEF ReadExclusions, Planning, tables
      <3> QED
        BY <3>1, <3>2
    <2>5. ASSUME NEW notes \in SUBSET Notes, PlanReserves(w, notes) PROVE PlansSafely(w)
      BY <1>2, <2>5 DEF PlanReserves
    <2>6. ASSUME NEW notes \in SUBSET Notes, PlanRaced(w, notes) PROVE PlansSafely(w)
      BY <1>3, <2>6 DEF PlanRaced, Planning, tables
    <2> QED
      BY <1>6, <2>1, <2>2, <2>3, <2>4, <2>5, <2>6 DEF Plans
  <1>7. CASE Signs(w)
    <2>1. CASE BeginSigning(w)
      <3>1. CASE state[job[w]] \in SignStates
        BY <1>2, <2>1, <3>1 DEF BeginSigning
      <3>2. CASE state[job[w]] \notin SignStates
        BY <1>1, <2>1, <3>2 DEF BeginSigning
      <3> QED
        BY <3>1, <3>2
    <2>2. CASE SignSucceeds(w)
      BY <1>2, <2>2 DEF SignSucceeds
    <2>3. CASE SignInvalid(w) \/ SignOutcomeUnknown(w)
               \/ \E retryable \in BOOLEAN : SignRefused(w, retryable)
      BY <1>1, <2>3 DEF SignInvalid, SignOutcomeUnknown, SignRefused, DefiniteError
    <2> QED
      BY <1>7, <2>1, <2>2, <2>3 DEF Signs
  <1>8. CASE Reconciles(w)
    <2>1. ASSUME NEW s \in PostSigned \ {"signed"}, ReconcileTracks(w, s) PROVE PlansSafely(w)
      BY <1>4, <2>1 DEF ReconcileTracks, volatile, Planning
    <2> QED
      BY <1>1, <1>8, <2>1 DEF Reconciles, ReconcileSettles, ReconcileEnds
  <1>9. CASE SignMalformed(w)
    BY <1>1, <1>9 DEF SignMalformed, DefiniteError
  <1> QED
    BY <1>5, <1>6, <1>7, <1>8, <1>9 DEF Works

\* A worker that has a parked row can only fail it.
LEMMA WorkerFailsParked ==
  ASSUME StoreInv, ParkedInv, NEW w \in Workers, Works(w) \/ SignMalformed(w),
         job[w] \in Attempts, Parked(job[w])
  PROVE  RowKept(job[w]) \/ state'[job[w]] = "failed_unsigned"
  <1>1. pc[w] # "idle"
    BY StoreAssumption DEF StoreInv, JobsInv
  <1>2. pc[w] \in PCs /\ RowFits(w) /\ TablesTypeOK
    BY <1>1, BusyJob DEF StoreInv, TypeOK, VolatileTypeOK
  <1>3. pc[w] \in {"read", "plan"}
    <2>1. pc[w] \notin Planning
      BY DEF ParkedInv
    <2>2. pc[w] \notin {"sign", "call", "reconcile"}
      BY <1>2 DEF RowFits, Parked, PostSigned
    <2> QED
      BY <1>1, <1>2, <2>1, <2>2 DEF PCs, Planning
  <1>4. CASE UNCHANGED tables
    BY <1>4 DEF RowKept, tables
  <1>5. CASE PlanRefused(w)
    BY <1>2, <1>5, MarkRow DEF PlanRefused, failUnsigned
  <1>6. CASE ReadRow(w) \/ StoreError(w) \/ PlanStart(w) \/ PlanStale(w)
    BY <1>4, <1>6 DEF ReadRow, StoreError, PlanStart, PlanStale
  <1>7. ReadRow(w) \/ StoreError(w) \/ PlanStart(w) \/ PlanStale(w) \/ PlanRefused(w)
    BY <1>3 DEF Works, Plans, Signs, Reconciles, Dequeue, AllocateChange, AllocateFails,
                ReadExclusions, PlanReserves, PlanRaced, PlanConflicts, PlanNotesReserved,
                PlanFails, SignInvalid, BeginSigning, SignSucceeds, SignOutcomeUnknown,
                SignRefused, SignMalformed, ReconcileTracks, ReconcileSettles, ReconcileEnds
  <1> QED
    BY <1>5, <1>6, <1>7

\* A row parked by an older release stays parked until it fails, is cancelled or
\* is lost with the database; no worker, scan or replay resumes it.
THEOREM ParkedStays == AnySignerSpec => ParkedNeverResume
  <1> DEFINE Kept == \A a \in Attempts : Parked(a) =>
                Parked(a)' \/ state'[a] \in {"failed_unsigned", "cancelled"} \/ a \in lost'
  <1>1. Init => ParkedInv
    BY DEF Init, VolatileInit, ParkedInv, Planning
  <1>2. ASSUME StoreInv, ParkedInv, [AnySignerNext]_vars
        PROVE  ParkedInv' /\ (Kept \/ UNCHANGED vars)
    <2>1. CASE UNCHANGED <<state, errorCode, pc, job>>
      BY <1>2, <2>1 DEF ParkedInv, Parked
    <2>2. ASSUME NEW w \in Workers, Works(w) \/ SignMalformed(w) PROVE ParkedInv' /\ Kept
      <3>1. ASSUME NEW v \in Workers, pc'[v] \in Planning PROVE ~Parked(job[v])' /\ job'[v] = job[v]
        <4>1. CASE v = w
          BY <1>2, <2>2, <3>1, <4>1, WorkerPlans DEF PlansSafely, ParkedInv, Parked, RowKept
        <4>2. CASE v # w
          <5>1. pc'[v] = pc[v] /\ job'[v] = job[v]
            BY <1>2, <2>2, <4>2, WorkerPlans DEF PlansSafely
          <5>2. job[v] \in Attempts /\ job[v] # job[w]
            BY <1>2, <3>1, <4>2, <5>1, BusyJob DEF StoreInv, ExclusiveDispatch, Planning
          <5> QED
            BY <1>2, <2>2, <3>1, <5>1, <5>2, WorkerRow DEF OthersKept, ParkedInv, Parked, RowKept
        <4> QED
          BY <4>1, <4>2
      <3>2. ASSUME NEW a \in Attempts, Parked(a)
            PROVE  Parked(a)' \/ state'[a] = "failed_unsigned"
        BY <1>2, <2>2, <3>2, WorkerRow, WorkerFailsParked DEF OthersKept, Parked, RowKept
      <3> QED
        BY <3>1, <3>2 DEF ParkedInv
    <2>3. CASE Requesting
      <3>1. CASE UNCHANGED tables /\ UNCHANGED <<pc, job>>
        BY <2>1, <3>1 DEF tables
      <3>2. ASSUME NEW a \in Attempts, NEW r \in Requests, CreateClaims(a, r)
            PROVE  ParkedInv' /\ Kept
        <4>1. /\ state[a] = "none" /\ state' = [state EXCEPT ![a] = "planning"]
              /\ UNCHANGED <<errorCode, pc, job>> /\ state \in [Attempts -> States]
          BY <1>2, <3>2 DEF CreateClaims, ClaimAttempt, workerVars, StoreInv, TypeOK, TablesTypeOK
        <4>2. \A w \in Workers : pc[w] \in Planning => job[w] \in Attempts /\ job[w] # a
          BY <1>2, <4>1, BusyJob DEF StoreInv, RowFits, Planning
        <4> QED
          BY <1>2, <4>1, <4>2 DEF ParkedInv, Parked
      <3>3. ASSUME NEW a \in Attempts, Cancel(a) PROVE ParkedInv' /\ Kept
        <4>1. /\ state' = [state EXCEPT ![a] = "cancelled"]
              /\ errorCode' = [errorCode EXCEPT ![a] = "other"]
              /\ UNCHANGED <<pc, job>> /\ state \in [Attempts -> States]
              /\ errorCode \in [Attempts -> {"other", "notes_reserved"}]
          BY <1>2, <3>3 DEF Cancel, CancelAttempt, volatile, StoreInv, TypeOK, TablesTypeOK
        <4>2. \A w \in Workers : pc[w] \in Planning => job[w] \in Attempts
          BY <1>2, BusyJob DEF StoreInv, Planning
        <4> QED
          BY <1>2, <4>1, <4>2 DEF ParkedInv, Parked
      <3> QED
        BY <2>3, <3>1, <3>2, <3>3 DEF Requesting, CreateReplays, AttemptGet, ScheduleRecoverable,
                                      workerVars
    <2>4. CASE Environment
      <3>1. CASE (\E a \in Attempts, notes \in SUBSET Notes :
                     SignerSigns(a, notes) \/ CallVanishes(a, notes))
                 \/ \E a \in Attempts, verdict \in {"final", "dead"} : ChainDecides(a, verdict)
        BY <2>1, <3>1 DEF SignerSigns, CallVanishes, ChainDecides, tables, volatile
      <3>2. CASE Restart \/ UnsealCoordinatorRecovery
        BY <3>2 DEF Restart, UnsealCoordinatorRecovery, VolatileReset, ParkedInv, Parked, Planning,
                    tables
      <3>3. CASE RecoverDatabase
        BY <3>3 DEF RecoverDatabase, VolatileReset, ParkedInv, Parked, Planning
      <3> QED
        BY <2>4, <3>1, <3>2, <3>3 DEF Environment
    <2>5. CASE UNCHANGED vars
      BY <2>1, <2>5 DEF vars, tables, volatile
    <2> QED
      BY <1>2, <2>2, <2>3, <2>4, <2>5 DEF AnySignerNext, Next
  <1> QED
    BY <1>1, <1>2, StoreInvariant, PTL DEF AnySignerSpec, ParkedNeverResume

-----------------------------------------------------------------------------
(* The coordinator implements the note ledger.                             *)

\* A step of the note ledger, or none, that brings back no lost row.
LedgerStep == [Ledger!Next]_<<reservedBy, phase>> /\ LostGone'

\* Steps that touch neither the state of a row nor a reservation.
LEMMA LedgerAside ==
  ASSUME LostGone, UNCHANGED <<state, reservedBy, lost>>
  PROVE  LedgerStep
  BY DEF LedgerStep, LostGone, phase

\* The phase of every other attempt stays when one row moves.
LEMMA OnePhase ==
  ASSUME NEW a \in Attempts, OnlyRow(a), lost' = lost
  PROVE  /\ phase = [b \in Attempts |-> phase[b]] /\ phase' = [b \in Attempts |-> phase'[b]]
         /\ \A b \in Attempts : b # a => phase'[b] = phase[b]
         /\ phase' = [phase EXCEPT ![a] = phase'[a]]
  <1>1. phase = [b \in Attempts |-> phase[b]]
    BY DEF phase
  <1>2. phase' = [b \in Attempts |-> phase'[b]]
    BY DEF phase
  <1>3. \A b \in Attempts : b # a => phase'[b] = phase[b]
    <2> SUFFICES ASSUME NEW b \in Attempts, b # a PROVE phase'[b] = phase[b]
      OBVIOUS
    <2>1. state'[b] = state[b]
      BY DEF OnlyRow
    <2> QED
      BY <2>1 DEF phase
  <1> QED
    BY <1>1, <1>2, <1>3

\* A row moves within its phase.
LEMMA LedgerStays ==
  ASSUME StoreInv, LostGone, NEW a \in Attempts, state[a] # "none", state'[a] # "none",
         OnlyRow(a), UNCHANGED <<reservedBy, lost>>,
         state[a] \in Terminal <=> state'[a] \in Terminal,
         state[a] \in Holding <=> state'[a] \in Holding
  PROVE  LedgerStep
  <1>1. a \notin lost /\ lost \subseteq Attempts
    BY DEF LostGone, StoreInv, TypeOK
  <1>2. phase'[a] = phase[a]
    BY DEF phase
  <1>3. phase' = phase
    BY <1>2, OnePhase
  <1>4. LostGone'
    BY <1>1 DEF LostGone, OnlyRow
  <1> QED
    BY <1>3, <1>4 DEF LedgerStep

\* A row that ends: it gives back its notes, if it holds any.
LEMMA LedgerEnds ==
  ASSUME StoreInv, LostGone, NEW a \in Attempts, state[a] # "none",
         OnlyRow(a), lost' = lost, state'[a] \in Terminal, reservedBy' = Without(a)
  PROVE  LedgerStep
  <1>1. a \notin lost /\ lost \subseteq Attempts /\ state[a] \in States
        /\ reservedBy \in [Notes -> Attempts \cup {NoAttempt}]
    BY DEF LostGone, StoreInv, TypeOK, TablesTypeOK
  <1>2. phase'[a] = "closed" /\ phase' = [phase EXCEPT ![a] = "closed"]
    <2>1. phase'[a] = "closed"
      BY DEF phase
    <2> QED
      BY <2>1, OnePhase
  <1>3. LostGone'
    BY <1>1 DEF LostGone, OnlyRow
  <1>4. state[a] \notin Holding => reservedBy' = reservedBy
    <2>1. ASSUME state[a] \notin Holding PROVE \A n \in Notes : reservedBy[n] # a
      BY <2>1 DEF StoreInv, ReservationsMatchRows, HeldBy
    <2> QED
      BY <1>1, <2>1 DEF Without
  <1>5. CASE state[a] \in Holding
    <2>1. phase[a] = "holding"
      BY <1>1, <1>5 DEF phase, Holding, SignStates, PostSigned, Terminal
    <2>2. Ledger!Settle(a)
      BY <1>2, <2>1 DEF Ledger!Settle, Without
    <2> QED
      BY <1>3, <2>2 DEF LedgerStep, Ledger!Next
  <1>6. CASE state[a] = "planning"
    <2>1. phase[a] = "open" /\ state[a] \notin Holding
      BY <1>1, <1>6 DEF phase, Holding, SignStates, PostSigned, Terminal
    <2>2. Ledger!Abandon(a)
      BY <1>2, <1>4, <2>1 DEF Ledger!Abandon
    <2> QED
      BY <1>3, <2>2 DEF LedgerStep, Ledger!Next
  <1>7. CASE state[a] \in Terminal
    <2>1. phase[a] = "closed" /\ state[a] \notin Holding
      BY <1>7 DEF phase, Holding, SignStates, PostSigned, Terminal
    <2>2. phase' = phase
      BY <1>2, <2>1 DEF phase
    <2> QED
      BY <1>3, <1>4, <2>1, <2>2 DEF LedgerStep
  <1> QED
    BY <1>1, <1>5, <1>6, <1>7 DEF States, Live, Holding

\* MarkAttemptState is a step of the ledger as its callers use it.
LEMMA LedgerMark ==
  ASSUME StoreInv, LostGone, NEW a \in Attempts,
         NEW next \in States \ {"none"}, NEW code,
         NEW release \in BOOLEAN, release <=> next \in Terminal,
         state[a] = "planning" => next # "reserved",
         MarkAttemptState(a, next, code, release), lost' = lost
  PROVE  LedgerStep
  <1>0. TablesTypeOK
    BY DEF StoreInv, TypeOK
  <1>1. CASE UNCHANGED tables
    BY <1>1, LedgerAside DEF tables
  <1>2. CASE /\ allowedAttemptTransition(state[a], next)
             /\ state' = [state EXCEPT ![a] = next]
             /\ reservedBy' = IF release /\ ~(state[a] = next /\ errorCode[a] = code)
                              THEN Without(a) ELSE reservedBy
    <2>1. OnlyRow(a) /\ state'[a] = next
      BY <1>0, <1>2 DEF TablesTypeOK, OnlyRow
    <2>2. state[a] # "none"
      BY <1>2 DEF allowedAttemptTransition, PostSigned
    <2>3. CASE release /\ ~(state[a] = next /\ errorCode[a] = code)
      BY <1>2, <2>1, <2>2, <2>3, LedgerEnds
    <2>4. CASE ~(release /\ ~(state[a] = next /\ errorCode[a] = code))
      <3>1. /\ next \in Holding <=> state[a] \in Holding
            /\ next \in Terminal <=> state[a] \in Terminal
        BY <1>2, <2>4 DEF allowedAttemptTransition, terminalAttemptState, Terminal, Holding,
                          SignStates, PostSigned
      <3> QED
        BY <1>2, <2>1, <2>2, <2>4, <3>1, LedgerStays
    <2> QED
      BY <2>3, <2>4
  <1> QED
    BY <1>1, <1>2 DEF MarkAttemptState

\* Every step of a worker is one.
LEMMA LedgerWorker ==
  ASSUME StoreInv, LostGone, NEW w \in Workers, Works(w) \/ SignMalformed(w)
  PROVE  LedgerStep
  <1> DEFINE a == job[w]
  <1>0. TypeOK /\ TablesTypeOK
    BY DEF StoreInv, TypeOK
  <1>1. pc[w] # "idle" => a \in Attempts /\ state[a] \in States /\ RowFits(w)
    BY <1>0, BusyJob DEF StoreInv, TablesTypeOK
  <1>2. /\ {"planning", "failed_unsigned", "signing_unknown", "reserved", "final", "released"}
              \cup PostSigned \subseteq States \ {"none"}
        /\ {"failed_unsigned", "final", "released"} \subseteq Terminal
        /\ {"planning", "signing_unknown", "reserved"} \cup PostSigned \subseteq States \ Terminal
    BY DEF States, Live, Terminal, SignStates, PostSigned
  <1>3. ASSUME pc[w] # "idle", NEW next \in {"failed_unsigned", "final", "released"}, NEW code,
               MarkAttemptState(a, next, code, TRUE), lost' = lost
        PROVE  LedgerStep
    BY <1>1, <1>2, <1>3, LedgerMark
  <1>4. ASSUME pc[w] # "idle", NEW next \in {"planning", "signing_unknown"} \cup PostSigned, NEW code,
               MarkAttemptState(a, next, code, FALSE), lost' = lost
        PROVE  LedgerStep
    <2>1. next \in States \ {"none"} /\ next \notin Terminal /\ next # "reserved"
      BY <1>2, <1>4 DEF PostSigned
    <2> QED
      BY <1>1, <1>4, <2>1, LedgerMark
  <1>5. CASE UNCHANGED <<tables, lost>>
    BY <1>5, LedgerAside DEF tables
  <1>6. ASSUME NEW s, UNCHANGED <<plan, reservedBy, lost>>, state' = [state EXCEPT ![a] = s],
               a \in Attempts, s \in {"signing", "signed"}, state[a] \in SignStates
        PROVE  LedgerStep
    <2>1. OnlyRow(a) /\ state'[a] = s
      BY <1>0, <1>6 DEF TablesTypeOK, OnlyRow
    <2>2. /\ state[a] \notin Terminal /\ s \notin Terminal /\ state[a] \in Holding /\ s \in Holding
          /\ state[a] # "none" /\ s # "none"
      BY <1>6 DEF SignStates, PostSigned, Holding, Terminal
    <2> QED
      BY <1>6, <2>1, <2>2, LedgerStays
  <1> HIDE DEF a
  <1>7. CASE (\E b \in Attempts : Dequeue(w, b)) \/ ReadRow(w) \/ StoreError(w)
    BY <1>5, <1>7 DEF Dequeue, ReadRow, StoreError, durable
  <1>8. CASE Plans(w)
    <2>1. CASE PlanStart(w) \/ PlanStale(w) \/ PlanConflicts(w)
               \/ \E notes \in SUBSET Notes : PlanRaced(w, notes)
      BY <1>5, <2>1 DEF PlanStart, PlanStale, PlanConflicts, PlanRaced, durable
    <2>2. CASE PlanRefused(w) \/ PlanNotesReserved(w)
      BY <1>3, <2>2 DEF PlanRefused, PlanLocked, PlanNotesReserved, failUnsigned, durable, a
    <2>3. CASE AllocateFails(w) \/ PlanFails(w)
      BY <1>3, <1>4, <2>3 DEF AllocateFails, PlanFails, failUnsigned, recordPlanningError,
                              durable, a
    <2>4. CASE AllocateChange(w)
      BY <1>5, <2>4, LedgerAside DEF AllocateChange, SetAttemptChangeAddress, durable
    <2>5. CASE ReadExclusions(w)
      BY <1>4, <1>5, <2>5 DEF ReadExclusions, recordPlanningError, durable, a
    <2>6. ASSUME NEW notes \in SUBSET Notes, PlanReserves(w, notes) PROVE LedgerStep
      <3>1. /\ a \in Attempts /\ state[a] = "planning" /\ notes # {} /\ lost' = lost
            /\ \A n \in notes : reservedBy[n] = NoAttempt
            /\ reservedBy' = [n \in Notes |-> IF n \in notes THEN a ELSE reservedBy[n]]
            /\ state' = [state EXCEPT ![a] = "reserved"]
        BY <1>1, <2>6 DEF PlanReserves, ReserveAttemptPlan, NotesFree, durable, a
      <3>2. OnlyRow(a) /\ state'[a] = "reserved" /\ a \notin lost
        BY <1>0, <3>1 DEF TablesTypeOK, OnlyRow, LostGone
      <3>3. phase[a] = "open"
        BY <3>1, <3>2 DEF phase, Terminal, Holding, SignStates, PostSigned
      <3>4. phase' = [phase EXCEPT ![a] = "holding"]
        <4>1. phase'[a] = "holding"
          BY <3>1, <3>2 DEF phase, Terminal, Holding, SignStates
        <4> QED
          BY <3>1, <3>2, <4>1, OnePhase
      <3>5. Ledger!Reserve(a)
        <4>1. notes \in (SUBSET Notes) \ {{}}
          BY <2>6, <3>1
        <4> QED
          BY <3>1, <3>3, <3>4, <4>1 DEF Ledger!Reserve
      <3>6. LostGone'
        BY <3>1, <3>2 DEF LostGone, OnlyRow, StoreInv, TypeOK
      <3> QED
        BY <3>1, <3>5, <3>6 DEF LedgerStep, Ledger!Next
    <2> QED
      BY <1>8, <2>1, <2>2, <2>3, <2>4, <2>5, <2>6 DEF Plans
  <1>9. ASSUME pc[w] = "call", NEW retryable \in BOOLEAN, DefiniteError(w, retryable), lost' = lost
        PROVE  LedgerStep
    <2>1. state[a] # "planning" /\ a \in Attempts
      BY <1>1, <1>9 DEF RowFits, a
    <2>2. ASSUME MarkAttemptState(a, "reserved", "other", FALSE) PROVE LedgerStep
      BY <1>2, <1>9, <2>1, <2>2, LedgerMark
    <2> QED
      BY <1>3, <1>4, <1>9, <2>2 DEF DefiniteError, a
  <1>10. CASE Signs(w)
    <2>1. CASE SignInvalid(w) \/ SignOutcomeUnknown(w)
      BY <1>3, <1>4, <2>1 DEF SignInvalid, SignOutcomeUnknown, durable, a
    <2>2. CASE BeginSigning(w)
      <3>1. CASE state[a] = "reserved"
        BY <1>1, <1>6, <2>2, <3>1 DEF BeginSigning, BeginAttemptSigning, SignStates, durable, a
      <3>2. CASE state[a] # "reserved"
        BY <1>5, <2>2, <3>2 DEF BeginSigning, BeginAttemptSigning, durable, a
      <3> QED
        BY <3>1, <3>2
    <2>3. CASE SignSucceeds(w)
      BY <1>1, <1>6, <2>3 DEF SignSucceeds, CompleteAttemptSigning, SignStates, durable, a
    <2>4. CASE \E retryable \in BOOLEAN : SignRefused(w, retryable)
      BY <1>9, <2>4 DEF SignRefused, durable
    <2> QED
      BY <1>10, <2>1, <2>2, <2>3, <2>4 DEF Signs
  <1>11. CASE Reconciles(w)
    <2>1. ASSUME NEW s \in PostSigned \ {"signed"}, ReconcileTracks(w, s) PROVE LedgerStep
      BY <1>4, <2>1 DEF ReconcileTracks, durable, a
    <2> QED
      BY <1>3, <1>5, <1>11, <2>1 DEF Reconciles, ReconcileSettles, ReconcileEnds, durable, a
  <1>12. CASE SignMalformed(w)
    BY <1>9, <1>12 DEF SignMalformed, durable
  <1> QED
    BY <1>7, <1>8, <1>10, <1>11, <1>12 DEF Works

\* So is every step of a caller.
LEMMA LedgerRequesting ==
  ASSUME StoreInv, LostGone, Requesting
  PROVE  LedgerStep
  <1>0. TablesTypeOK /\ lost \subseteq Attempts
    BY DEF StoreInv, TypeOK
  <1>1. ASSUME NEW a \in Attempts, NEW r \in Requests, CreateClaims(a, r) PROVE LedgerStep
    <2>1. /\ a \notin lost /\ state[a] = "none" /\ state' = [state EXCEPT ![a] = "planning"]
          /\ UNCHANGED <<reservedBy, lost>>
      BY <1>1 DEF CreateClaims, ClaimAttempt
    <2>2. OnlyRow(a) /\ state'[a] = "planning"
      BY <1>0, <2>1 DEF TablesTypeOK, OnlyRow
    <2>3. phase[a] = "open" /\ phase'[a] = "open"
      BY <2>1, <2>2 DEF phase, Terminal, Holding, SignStates, PostSigned
    <2>4. phase' = phase
      BY <2>1, <2>2, <2>3, OnePhase DEF phase
    <2>5. LostGone'
      BY <1>0, <2>1, <2>2 DEF LostGone, OnlyRow
    <2> QED
      BY <2>1, <2>4, <2>5 DEF LedgerStep
  <1>2. ASSUME NEW a \in Attempts, Cancel(a) PROVE LedgerStep
    <2>1. /\ state[a] \in Unsigned /\ state' = [state EXCEPT ![a] = "cancelled"]
          /\ reservedBy' = Without(a) /\ lost' = lost
      BY <1>2 DEF Cancel, CancelAttempt
    <2>2. OnlyRow(a) /\ state'[a] = "cancelled"
      BY <1>0, <2>1 DEF TablesTypeOK, OnlyRow
    <2>3. state'[a] \in Terminal /\ state[a] # "none"
      BY <2>1, <2>2 DEF Terminal, Unsigned
    <2> QED
      BY <2>1, <2>2, <2>3, LedgerEnds
  <1>3. CASE UNCHANGED <<tables, lost>>
    BY <1>3, LedgerAside DEF tables
  <1> QED
    BY <1>1, <1>2, <1>3 DEF Requesting, CreateReplays, AttemptGet, ScheduleRecoverable

\* And every step of signer, chain, operator and process.
LEMMA LedgerEnvironment ==
  ASSUME StoreInv, LostGone, Environment
  PROVE  LedgerStep
  <1>1. CASE UNCHANGED <<tables, lost>>
    BY <1>1, LedgerAside DEF tables
  <1>2. CASE RecoverDatabase
    <2> DEFINE forgotten == {a \in Attempts : state[a] # "none"}
    <2>1. /\ state' = [a \in Attempts |-> "none"] /\ reservedBy' = [n \in Notes |-> NoAttempt]
          /\ lost' = lost \cup forgotten /\ lost \subseteq Attempts
      BY <1>2 DEF RecoverDatabase, StoreInv, TypeOK
    <2>2. \A a \in Attempts : phase[a] = "holding" => a \in forgotten
      BY DEF phase, Holding, SignStates, PostSigned
    <2>3. phase' = [a \in Attempts |-> IF a \in forgotten THEN "closed" ELSE phase[a]]
      <3>1. ASSUME NEW a \in Attempts
            PROVE  phase'[a] = IF a \in forgotten THEN "closed" ELSE phase[a]
        <4>1. phase'[a] = IF a \in lost' THEN "closed" ELSE "open"
          BY <2>1 DEF phase, Terminal, Holding, SignStates, PostSigned
        <4>2. a \notin forgotten => phase[a] = IF a \in lost THEN "closed" ELSE "open"
          BY DEF phase, Terminal, Holding, SignStates, PostSigned
        <4> QED
          BY <2>1, <4>1, <4>2
      <3>2. phase' = [a \in Attempts |-> phase'[a]]
        BY DEF phase
      <3> QED
        BY <3>1, <3>2
    <2>4. Ledger!Forget
      BY <2>1, <2>2, <2>3 DEF Ledger!Forget
    <2>5. LostGone'
      BY <2>1 DEF LostGone
    <2> QED
      BY <2>4, <2>5 DEF LedgerStep, Ledger!Next
  <1> QED
    BY <1>1, <1>2 DEF Environment, SignerSigns, CallVanishes, ChainDecides, Restart,
                      UnsealCoordinatorRecovery, durable

\* The coordinator implements the note ledger, whatever the signer answers: every
\* step of every actor takes, keeps or returns notes as the ledger allows.
THEOREM LedgerKept == AnySignerSpec => LedgerIsKept
  <1>1. Init => Ledger!Init /\ LostGone
    <2> SUFFICES ASSUME Init PROVE Ledger!Init /\ LostGone
      OBVIOUS
    <2>1. \A a \in Attempts : state[a] \in {"planning", "none"} /\ lost = {}
      BY DEF Init
    <2>2. phase = [a \in Attempts |-> "open"]
      BY <2>1 DEF phase, Terminal, Holding, SignStates, PostSigned
    <2>3. reservedBy = [n \in Notes |-> NoAttempt] /\ LostGone
      BY DEF Init, LostGone
    <2> QED
      BY <2>2, <2>3 DEF Ledger!Init
  <1>2. StoreInv /\ LostGone /\ [AnySignerNext]_vars =>
           LostGone' /\ [Ledger!Next]_<<reservedBy, phase>>
    <2> SUFFICES ASSUME StoreInv, LostGone, [AnySignerNext]_vars PROVE LedgerStep
      BY DEF LedgerStep
    <2>1. CASE UNCHANGED vars
      BY <2>1, LedgerAside DEF vars, tables
    <2> QED
      BY <2>1, LedgerRequesting, LedgerEnvironment, LedgerWorker DEF AnySignerNext, Next
  <1> QED
    BY <1>1, <1>2, StoreInvariant, PTL DEF AnySignerSpec, LedgerIsKept, Ledger!Spec

-----------------------------------------------------------------------------
(* CoordinatorInv is inductive when the signer's answers are usable.       *)

\* The states of a row whose attempt may have been signed.
SignedStates == {"signing", "signing_unknown", "final", "released"} \cup PostSigned

\* A worker with a call outstanding has a row in signing or signing_unknown,
\* which a lost or sealed row is not.
LEMMA AwaitedRows ==
  ASSUME CoordinatorInv, NEW a \in Attempts, NEW notes \in AwaitedCalls(a)
  PROVE  /\ state[a] \in {"signing", "signing_unknown"}
         /\ a \notin lost /\ ~sealed
         /\ notes = plan[a]
  <1>1. PICK w \in Workers : pc[w] = "call" /\ job[w] = a /\ notes = sent[w]
    BY DEF AwaitedCalls
  <1>2. state[a] \in {"signing", "signing_unknown"}
    BY <1>1, BusyJob DEF CoordinatorInv, StoreInv, RowFits
  <1> QED
    BY <1>1, <1>2 DEF CoordinatorInv, CallsInv, LostInv, LostGone

\* In an open store every commitment is covered by a reservation, and a note
\* has one reservation: this is where reservations prevent conflicts.
LEMMA CommittedIsHeld ==
  ASSUME StoreInv, CallsInv, SignaturesInv, LostInv, ~sealed
  PROVE  NoConflictingSignatures
  <1>1. ASSUME NEW a \in Attempts PROVE Committed(a) \subseteq HeldBy(a)
    <2>1. SUFFICES ASSUME fate[a] = "open"
                   PROVE  journal[a] \cup UNION (stray[a] \cup AwaitedCalls(a))
                            \subseteq HeldBy(a)
      BY DEF Committed
    <2>2. ASSUME NEW notes \in AwaitedCalls(a)
          PROVE  notes = plan[a] /\ state[a] \in {"signing", "signing_unknown"}
      <3>1. PICK w \in Workers : pc[w] = "call" /\ job[w] = a /\ notes = sent[w]
        BY <2>2 DEF AwaitedCalls
      <3> QED
        BY <3>1, BusyJob DEF StoreInv, RowFits, CallsInv
    <2>3. CASE a \in lost
      BY <2>1, <2>2, <2>3 DEF LostInv, LostGone, Reconciled
    <2>4. CASE a \notin lost
      <3>1. HeldBy(a) = IF state[a] \in Holding THEN plan[a] ELSE {}
        BY DEF StoreInv, ReservationsMatchRows
      <3>2. MaybeSigned(a) => state[a] \in Holding
        BY <2>1, <2>4 DEF SignaturesInv, Holding, SignStates
      <3>3. journal[a] \subseteq HeldBy(a)
        BY <2>4, <3>1, <3>2 DEF SignaturesInv, MaybeSigned
      <3>4. UNION stray[a] \subseteq HeldBy(a)
        BY <2>4, <3>1, <3>2 DEF SignaturesInv, MaybeSigned
      <3>5. UNION AwaitedCalls(a) \subseteq HeldBy(a)
        BY <2>2, <3>1 DEF Holding, SignStates
      <3> QED
        BY <3>3, <3>4, <3>5
    <2> QED
      BY <2>3, <2>4
  <1> QED
    BY <1>1 DEF NoConflictingSignatures, HeldBy

\* What a step that starts no call and gets nothing signed may do to the
\* environment and to row a.
QuietRow(a) ==
  \/ state'[a] = state[a]
  \/ /\ MaybeSigned(a)' => state'[a] \in SignedStates
     /\ state'[a] \in PostSigned => journal[a] # {}
     /\ state'[a] \in {"final", "released"} => fate[a] # "open"

QuietCalls ==
  \A v \in Workers : pc'[v] = "call" =>
      /\ pc[v] = "call" /\ job'[v] = job[v] /\ sent'[v] = sent[v]
      /\ uncertain'[v] = uncertain[v] /\ stray'[job[v]] \subseteq stray[job[v]]

QuietEnvironment ==
  /\ journal' = journal
  /\ \A a \in Attempts : /\ stray'[a] \subseteq stray[a] \cup AwaitedCalls(a)
                         /\ fate[a] # "open" => fate'[a] # "open"
  /\ lost' = lost
  /\ sealed' => sealed
  /\ ~sealed' => ~sealed \/ \A a \in lost : Reconciled(a)

\* Most steps are quiet: they end calls or leave them alone.
LEMMA QuietStep ==
  ASSUME CoordinatorInv, StoreInv', QuietCalls, QuietEnvironment,
         \A a \in Attempts \ lost : QuietRow(a),
         \A a \in Attempts : plan'[a] = plan[a] \/ state[a] = "planning",
         \A a \in Attempts : sealed \/ a \in lost => state'[a] = state[a]
  PROVE  CoordinatorInv'
  <1>1. TypeOK /\ JobsInv /\ CallsInv /\ SignaturesInv /\ LostInv
    BY DEF CoordinatorInv, StoreInv
  <1>2. \A v \in Workers : pc[v] = "call" =>
           job[v] \in Attempts /\ state[job[v]] \in {"signing", "signing_unknown"}
    BY <1>1, BusyJob DEF RowFits
  <1>3. CallsInv'
    <2>1. ASSUME NEW v \in Workers, pc'[v] = "call"
          PROVE  /\ sent'[v] = plan'[job'[v]]
                 /\ ~uncertain'[v] => stray'[job'[v]] = {}
      <3>1. /\ pc[v] = "call" /\ job'[v] = job[v] /\ sent'[v] = sent[v]
            /\ uncertain'[v] = uncertain[v] /\ stray'[job[v]] \subseteq stray[job[v]]
        BY <2>1 DEF QuietCalls
      <3>2. plan'[job[v]] = plan[job[v]]
        BY <1>2, <3>1
      <3> QED
        BY <1>1, <3>1, <3>2 DEF CallsInv
    <2> QED
      BY <2>1 DEF CallsInv
  <1>4. SignaturesInv'
    <2>1. SUFFICES ASSUME NEW a \in Attempts \ lost
                   PROVE  /\ MaybeSigned(a)' => state'[a] \in SignedStates
                          /\ journal'[a] # {} => journal'[a] = plan'[a]
                          /\ \A notes \in stray'[a] : notes = plan'[a]
                          /\ state'[a] \in PostSigned => journal'[a] # {}
                          /\ state'[a] \in {"final", "released"} => fate'[a] # "open"
      BY DEF SignaturesInv, SignedStates, QuietEnvironment
    <2>2. /\ MaybeSigned(a) => state[a] \in SignedStates
          /\ journal[a] # {} => journal[a] = plan[a]
          /\ \A notes \in stray[a] : notes = plan[a]
          /\ state[a] \in PostSigned => journal[a] # {}
          /\ state[a] \in {"final", "released"} => fate[a] # "open"
      BY <1>1 DEF SignaturesInv, SignedStates
    <2>3. \A notes \in AwaitedCalls(a) : notes = plan[a] /\ state[a] \in SignedStates
      BY AwaitedRows DEF SignedStates
    <2>4. /\ journal'[a] = journal[a]
          /\ stray'[a] \subseteq stray[a] \cup AwaitedCalls(a)
          /\ fate[a] # "open" => fate'[a] # "open"
      BY DEF QuietEnvironment
    <2>5. MaybeSigned(a)' => state[a] \in SignedStates
      BY <2>2, <2>3, <2>4 DEF MaybeSigned
    <2>6. MaybeSigned(a)' => plan'[a] = plan[a]
      BY <2>5 DEF SignedStates, PostSigned
    <2>7. MaybeSigned(a)' => state'[a] \in SignedStates
      BY <2>5 DEF QuietRow
    <2>8. journal'[a] # {} => journal'[a] = plan'[a]
      BY <2>2, <2>4, <2>6 DEF MaybeSigned
    <2>9. ASSUME NEW notes \in stray'[a] PROVE notes = plan'[a]
      BY <2>2, <2>3, <2>4, <2>6, <2>9 DEF MaybeSigned
    <2>10. state'[a] \in PostSigned => journal'[a] # {}
      BY <2>2, <2>4 DEF QuietRow
    <2>11. state'[a] \in {"final", "released"} => fate'[a] # "open"
      BY <2>2, <2>4 DEF QuietRow
    <2> QED
      BY <2>7, <2>8, <2>9, <2>10, <2>11
  <1>5. LostInv'
    <2>1. \A a \in lost' : state'[a] = "none"
      BY <1>1 DEF LostInv, LostGone, QuietEnvironment, TypeOK
    <2>2. sealed' => \A a \in Attempts : state'[a] = "none"
      BY <1>1 DEF LostInv, LostGone, QuietEnvironment
    <2>3. ASSUME NEW a \in lost, Reconciled(a) PROVE Reconciled(a)'
      <3>1. a \in Attempts /\ AwaitedCalls(a) = {}
        BY <1>1, AwaitedRows DEF TypeOK
      <3> QED
        BY <2>3, <3>1 DEF Reconciled, QuietEnvironment
    <2>4. sealed' \/ \A a \in lost' : Reconciled(a)'
      BY <1>1, <2>3 DEF LostInv, LostGone, QuietEnvironment
    <2> QED
      BY <2>1, <2>2, <2>4 DEF LostInv, LostGone
  <1>6. NoConflictingSignatures'
    <2>1. ASSUME NEW a \in Attempts PROVE Committed(a)' \subseteq Committed(a)
      <3>1. AwaitedCalls(a)' \subseteq AwaitedCalls(a)
        BY DEF AwaitedCalls, QuietCalls
      <3>2. /\ journal'[a] = journal[a]
            /\ stray'[a] \cup AwaitedCalls(a)' \subseteq stray[a] \cup AwaitedCalls(a)
            /\ fate[a] # "open" => fate'[a] # "open"
        BY <3>1 DEF QuietEnvironment
      <3> QED
        BY <3>2 DEF Committed
    <2> QED
      BY <2>1 DEF CoordinatorInv, NoConflictingSignatures
  <1> QED
    BY <1>3, <1>4, <1>5, <1>6 DEF CoordinatorInv

\* Steps of a worker that starts no call: its own row changes, no other.
LEMMA QuietWorker ==
  ASSUME CoordinatorInv, StoreInv', NEW w \in Workers, pc[w] # "idle",
         \A v \in Workers \ {w} : /\ pc'[v] = pc[v] /\ job'[v] = job[v]
                                  /\ sent'[v] = sent[v] /\ uncertain'[v] = uncertain[v],
         pc'[w] # "call", OnlyRow(job[w]), UNCHANGED <<journal, fate, durable>>,
         stray' = stray \/ /\ pc[w] = "call"
                           /\ stray' = [stray EXCEPT ![job[w]] = @ \cup {sent[w]}],
         \A a \in Attempts \ lost : a = job[w] => QuietRow(a),
         \A a \in Attempts : plan'[a] = plan[a] \/ state[a] = "planning",
         sealed \/ job[w] \in lost => state'[job[w]] = state[job[w]]
  PROVE  CoordinatorInv'
  <1>1. TypeOK /\ JobsInv /\ ExclusiveDispatch
    BY DEF CoordinatorInv, StoreInv
  <1>2. job[w] \in Attempts
    BY <1>1, BusyJob
  <1>3. \A a \in Attempts \ {job[w]} : stray'[a] = stray[a]
    BY <1>1 DEF TypeOK, ExternalTypeOK
  <1>4. pc[w] = "call" => sent[w] \in AwaitedCalls(job[w])
    BY DEF AwaitedCalls
  <1>5. \A a \in Attempts : stray'[a] \subseteq stray[a] \cup AwaitedCalls(a)
    BY <1>1, <1>2, <1>3, <1>4 DEF TypeOK, ExternalTypeOK
  <1>6. QuietEnvironment
    BY <1>5 DEF QuietEnvironment, durable, CoordinatorInv, LostInv, LostGone
  <1>7. QuietCalls
    <2>1. ASSUME NEW v \in Workers, pc'[v] = "call"
          PROVE  /\ pc[v] = "call" /\ job'[v] = job[v] /\ sent'[v] = sent[v]
                 /\ uncertain'[v] = uncertain[v] /\ stray'[job[v]] \subseteq stray[job[v]]
      <3>1. v # w
        BY <2>1
      <3>2. job[v] \in Attempts /\ job[v] # job[w]
        BY <1>1, <2>1, <3>1, BusyJob DEF ExclusiveDispatch
      <3> QED
        BY <1>3, <2>1, <3>1, <3>2
    <2> QED
      BY <2>1 DEF QuietCalls
  <1>8. \A a \in Attempts \ lost : QuietRow(a)
    BY DEF OnlyRow, QuietRow
  <1>9. \A a \in Attempts : sealed \/ a \in lost => state'[a] = state[a]
    BY DEF OnlyRow
  <1> QED
    BY <1>6, <1>7, <1>8, <1>9, QuietStep

\* A worker ends, its row marked with a state that suits what is signed.
LEMMA QuietMark ==
  ASSUME CoordinatorInv, StoreInv', NEW w \in Workers, pc[w] \notin {"idle", "read"},
         NEW a, a = job[w], NEW next, NEW code, NEW release,
         MarkAttemptState(job[w], next, code, release), Finish(w),
         UNCHANGED <<journal, fate, durable>>,
         stray' = stray \/ /\ pc[w] = "call"
                           /\ stray' = [stray EXCEPT ![job[w]] = @ \cup {sent[w]}],
         allowedAttemptTransition(state[a], next) => next = state[a] \/
            /\ next \in {"signing_unknown", "final", "released"} \/ ~MaybeSigned(a)'
            /\ next \notin PostSigned
            /\ next \in {"final", "released"} => fate[a] # "open"
  PROVE  CoordinatorInv'
  <1>1. TypeOK /\ JobsInv /\ TablesTypeOK /\ VolatileTypeOK
    BY DEF CoordinatorInv, StoreInv, TypeOK
  <1>2. job[w] \in Attempts /\ state[job[w]] # "none"
    BY <1>1, BusyJob DEF RowFits, Planning, PostSigned, VolatileTypeOK, PCs
  <1>3. \A v \in Workers \ {w} : /\ pc'[v] = pc[v] /\ job'[v] = job[v]
                                 /\ sent'[v] = sent[v] /\ uncertain'[v] = uncertain[v]
    BY <1>1 DEF Finish, VolatileTypeOK
  <1>4. pc'[w] # "call"
    BY <1>1 DEF Finish, VolatileTypeOK
  <1>5. OnlyRow(job[w]) /\ plan' = plan
    BY <1>1 DEF MarkAttemptState, OnlyRow, tables, TablesTypeOK
  <1>6. \/ state'[job[w]] = state[job[w]]
        \/ allowedAttemptTransition(state[job[w]], next) /\ state'[job[w]] = next
    BY <1>1, <1>2 DEF MarkAttemptState, tables, TablesTypeOK
  <1>7. QuietRow(a)
    BY <1>6 DEF QuietRow, SignedStates
  <1>8. ~sealed /\ job[w] \notin lost
    BY <1>2 DEF CoordinatorInv, LostInv, LostGone
  <1> QED
    BY <1>2, <1>3, <1>4, <1>5, <1>7, <1>8, QuietWorker

\* Steps that leave rows, calls and environment alone are quiet.
LEMMA QuietAside ==
  ASSUME CoordinatorInv, StoreInv',
         UNCHANGED <<state, plan, durable, external, pc, job, sent, uncertain>>
  PROVE  CoordinatorInv'
  <1>1. QuietCalls /\ QuietEnvironment /\ \A a \in Attempts \ lost : QuietRow(a)
    BY DEF QuietCalls, QuietEnvironment, QuietRow, external, durable, CoordinatorInv, LostInv, LostGone
  <1> QED
    BY <1>1, QuietStep

\* The requests of callers preserve CoordinatorInv: a row is only added to an
\* unsealed store, and only a row that proves nothing was signed is cancelled.
LEMMA CoordinatorRequesting ==
  ASSUME CoordinatorInv, StoreInv', Requesting
  PROVE  CoordinatorInv'
  <1>1. TypeOK /\ TablesTypeOK
    BY DEF CoordinatorInv, StoreInv, TypeOK
  <1>2. ASSUME NEW a \in Attempts \ lost, ~sealed, state[a] \in {"none"} \cup Unsigned,
               NEW s \in {"planning", "cancelled"}, state' = [state EXCEPT ![a] = s],
               UNCHANGED <<plan, durable, external, pc, job, sent, uncertain>>
        PROVE  CoordinatorInv'
    <2>1. QuietCalls /\ QuietEnvironment
      BY <1>2 DEF QuietCalls, QuietEnvironment, external, durable, CoordinatorInv, LostInv, LostGone
    <2>2. ~MaybeSigned(a)'
      BY <1>2 DEF CoordinatorInv, SignaturesInv, MaybeSigned, Unsigned, PostSigned, external
    <2>3. \A b \in Attempts \ lost : QuietRow(b)
      BY <1>1, <1>2, <2>2 DEF QuietRow, TablesTypeOK, PostSigned
    <2> QED
      BY <1>1, <1>2, <2>1, <2>3, QuietStep DEF TablesTypeOK
  <1>3. ASSUME NEW a \in Attempts, NEW r \in Requests, CreateClaims(a, r)
        PROVE  CoordinatorInv'
    BY <1>2, <1>3 DEF CreateClaims, ClaimAttempt, durable, workerVars
  <1>4. ASSUME NEW a \in Attempts, Cancel(a)
        PROVE  CoordinatorInv'
    <2>1. state[a] \in Unsigned
      BY <1>4 DEF Cancel, CancelAttempt
    <2>2. a \notin lost /\ ~sealed
      BY <2>1 DEF CoordinatorInv, LostInv, LostGone, Unsigned
    <2> QED
      BY <1>2, <1>4, <2>1, <2>2 DEF Cancel, CancelAttempt, durable, volatile
  <1>5. ASSUME NEW a \in Attempts, enqueue(a), UNCHANGED <<tables, sealed, lost, workerVars, external>>
        PROVE  CoordinatorInv'
    BY <1>5, QuietAside DEF tables, durable, workerVars
  <1> QED
    BY <1>3, <1>4, <1>5 DEF Requesting, CreateReplays, AttemptGet, ScheduleRecoverable

\* A worker that ends and leaves its row as it is preserves CoordinatorInv.
LEMMA CoordinatorFinish ==
  ASSUME CoordinatorInv, StoreInv', NEW w \in Workers, pc[w] # "idle", Finish(w),
         UNCHANGED <<tables, durable, journal, fate>>,
         stray' = stray \/ /\ pc[w] = "call"
                           /\ stray' = [stray EXCEPT ![job[w]] = @ \cup {sent[w]}]
  PROVE  CoordinatorInv'
  <1>1. VolatileTypeOK
    BY DEF CoordinatorInv, StoreInv, TypeOK
  <1>2. \A v \in Workers \ {w} : /\ pc'[v] = pc[v] /\ job'[v] = job[v]
                                 /\ sent'[v] = sent[v] /\ uncertain'[v] = uncertain[v]
    BY <1>1 DEF Finish, VolatileTypeOK
  <1>3. pc'[w] # "call"
    BY <1>1 DEF Finish, VolatileTypeOK
  <1> QED
    BY <1>2, <1>3, QuietWorker DEF OnlyRow, QuietRow, tables

\* So does a worker that moves on, but not into a call.
LEMMA CoordinatorGoto ==
  ASSUME CoordinatorInv, StoreInv', NEW w \in Workers, NEW label, label # "call",
         Goto(w, label), UNCHANGED <<state, plan, durable, external, sent>>,
         \A v \in Workers \ {w} : job'[v] = job[v] /\ uncertain'[v] = uncertain[v]
  PROVE  CoordinatorInv'
  <1>1. pc \in [Workers -> PCs]
    BY DEF CoordinatorInv, StoreInv, TypeOK, VolatileTypeOK
  <1>2. QuietCalls
    BY <1>1 DEF Goto, QuietCalls, external
  <1>3. QuietEnvironment /\ \A a \in Attempts \ lost : QuietRow(a)
    BY DEF QuietEnvironment, QuietRow, external, durable, CoordinatorInv, LostInv, LostGone
  <1> QED
    BY <1>2, <1>3, QuietStep

\* Taking up an id, branching on its row and giving up preserve CoordinatorInv.
LEMMA CoordinatorDispatch ==
  ASSUME CoordinatorInv, StoreInv', NEW w \in Workers,
         (\E a \in Attempts : Dequeue(w, a)) \/ ReadRow(w) \/ StoreError(w)
  PROVE  CoordinatorInv'
  <1>1. TypeOK /\ VolatileTypeOK
    BY DEF CoordinatorInv, StoreInv, TypeOK
  <1>2. ASSUME NEW a \in Attempts, Dequeue(w, a) PROVE CoordinatorInv'
    <2>1. CASE a \in inflight \/ sealed
      BY <1>2, <2>1, QuietAside DEF Dequeue, tables, workerVars
    <2>2. CASE ~(a \in inflight \/ sealed)
      BY <1>1, <1>2, <2>2, CoordinatorGoto DEF Dequeue, tables, VolatileTypeOK
    <2> QED
      BY <2>1, <2>2
  <1>3. CASE ReadRow(w)
    <2>1. CASE steps[w] = 0 \/ ~recoverableState(state[job[w]])
      BY <1>3, <2>1, CoordinatorFinish DEF ReadRow, external
    <2>2. CASE ~(steps[w] = 0 \/ ~recoverableState(state[job[w]]))
      <3>1. PICK label : label # "call" /\ Goto(w, label)
        BY <1>3, <2>2 DEF ReadRow
      <3> QED
        BY <1>1, <1>3, <2>2, <3>1, CoordinatorGoto DEF ReadRow, tables, VolatileTypeOK
    <2> QED
      BY <2>1, <2>2
  <1>4. CASE StoreError(w)
    BY <1>4, CoordinatorFinish DEF StoreError
  <1> QED
    BY <1>2, <1>3, <1>4

\* planAttempt preserves CoordinatorInv: it works on rows that were never sent.
LEMMA CoordinatorPlans ==
  ASSUME CoordinatorInv, StoreInv', NEW w \in Workers, Plans(w)
  PROVE  CoordinatorInv'
  <1>1. TypeOK /\ TablesTypeOK /\ VolatileTypeOK /\ JobsInv
    BY DEF CoordinatorInv, StoreInv, TypeOK
  <1>2. PICK a : a = job[w]
    OBVIOUS
  <1>3. pc[w] \in {"plan"} \cup Planning
    BY DEF Plans, PlanStart, PlanLocked, PlanStale, PlanRefused, AllocateChange,
           AllocateFails, ReadExclusions, PlanReserves, PlanRaced, PlanConflicts,
           PlanNotesReserved, PlanFails, Planning
  <1>4. pc[w] \notin {"idle", "read", "call"} /\ a \in Attempts
        /\ state[a] \in {"planning", "cancelled"}
    BY <1>1, <1>2, <1>3, BusyJob DEF Planning, RowFits
  <1>5. ~sealed /\ a \notin lost /\ ~MaybeSigned(a)
    BY <1>4 DEF CoordinatorInv, LostInv, LostGone, SignaturesInv, PostSigned
  <1>6. ASSUME NEW next \in {"planning", "failed_unsigned"}, NEW code, NEW release,
               MarkAttemptState(job[w], next, code, release), Finish(w),
               UNCHANGED <<durable, external>>
        PROVE  CoordinatorInv'
    <2>1. ~MaybeSigned(a)'
      BY <1>5, <1>6 DEF MaybeSigned, external
    <2>2. next \notin PostSigned
      BY DEF PostSigned
    <2> QED
      BY <1>2, <1>4, <1>6, <2>1, <2>2, QuietMark DEF external
  <1>7. ASSUME Finish(w), UNCHANGED <<tables, durable, external>>
        PROVE  CoordinatorInv'
    BY <1>4, <1>7, CoordinatorFinish DEF external
  <1>8. ASSUME NEW label \in {"select", "address", "reserve"}, Goto(w, label),
               UNCHANGED <<state, plan, durable, external, sent, job, uncertain>>
        PROVE  CoordinatorInv'
    BY <1>8, CoordinatorGoto
  <1>9. ASSUME NEW notes \in SUBSET Notes, PlanReserves(w, notes)
        PROVE  CoordinatorInv'
    <2>1. /\ state' = [state EXCEPT ![a] = "reserved"] /\ plan' = [plan EXCEPT ![a] = notes]
          /\ state[a] = "planning" /\ pc' = [pc EXCEPT ![w] = "read"]
          /\ UNCHANGED <<durable, external, job, sent, uncertain>>
      BY <1>2, <1>9 DEF PlanReserves, ReserveAttemptPlan, Goto
    <2>2. pc'[w] # "call" /\ \A v \in Workers \ {w} : pc'[v] = pc[v]
      BY <1>1, <2>1 DEF VolatileTypeOK
    <2>3. ~MaybeSigned(a)'
      BY <1>5, <2>1 DEF MaybeSigned, external
    <2>4. QuietRow(a) /\ OnlyRow(a)
      BY <1>1, <1>4, <2>1, <2>3 DEF QuietRow, OnlyRow, TablesTypeOK, PostSigned
    <2>5. \A b \in Attempts : plan'[b] = plan[b] \/ state[b] = "planning"
      BY <1>1, <2>1 DEF TablesTypeOK
    <2> QED
      BY <1>2, <1>4, <1>5, <2>1, <2>2, <2>4, <2>5, QuietWorker DEF external
  <1>10. CASE PlanRefused(w) \/ AllocateFails(w) \/ PlanNotesReserved(w) \/ PlanFails(w)
    BY <1>6, <1>10 DEF PlanRefused, AllocateFails, PlanNotesReserved, PlanFails,
                       failUnsigned, recordPlanningError
  <1>11. CASE PlanStale(w) \/ PlanConflicts(w)
    BY <1>7, <1>11 DEF PlanStale, PlanConflicts
  <1>12. CASE PlanStart(w) \/ \E notes \in SUBSET Notes : PlanRaced(w, notes)
    BY <1>8, <1>12 DEF PlanStart, PlanRaced, tables
  <1>13. CASE AllocateChange(w)
    BY <1>7, <1>8, <1>13 DEF AllocateChange, SetAttemptChangeAddress
  <1>14. CASE ReadExclusions(w)
    BY <1>6, <1>8, <1>14 DEF ReadExclusions, recordPlanningError, tables
  <1> QED
    BY <1>9, <1>10, <1>11, <1>12, <1>13, <1>14 DEF Plans

\* A first call is only made for a row that was never sent; a repeated call
\* carries the stored plan again.
LEMMA CoordinatorBegin ==
  ASSUME CoordinatorInv, StoreInv', NEW w \in Workers, BeginSigning(w)
  PROVE  CoordinatorInv'
  <1>1. TypeOK /\ TablesTypeOK /\ VolatileTypeOK /\ JobsInv /\ ExclusiveDispatch
        /\ CallsInv /\ SignaturesInv /\ LostInv
    BY DEF CoordinatorInv, StoreInv, TypeOK
  <1>2. PICK a : a = job[w]
    OBVIOUS
  <1>3. pc[w] = "sign" /\ a \in Attempts /\ RowFits(w)
    BY <1>1, <1>2, BusyJob DEF BeginSigning
  <1>4. CASE state[a] \notin SignStates
    BY <1>2, <1>3, <1>4, CoordinatorFinish DEF BeginSigning, external
  <1>5. CASE state[a] \in SignStates
    <2>1. /\ state' = [state EXCEPT ![a] = IF state[a] = "reserved" THEN "signing" ELSE state[a]]
          /\ pc' = [pc EXCEPT ![w] = "call"] /\ sent' = [sent EXCEPT ![w] = plan[a]]
          /\ UNCHANGED <<plan, reservedBy, job, uncertain, durable, external>>
      BY <1>1, <1>2, <1>3, <1>5
         DEF BeginSigning, BeginAttemptSigning, Goto, tables, TablesTypeOK
    <2>2. ~sealed /\ a \notin lost
      BY <1>1, <1>3, <1>5 DEF LostInv, LostGone, SignStates
    <2>3. ~uncertain[w] => stray[a] = {}
      BY <1>1, <1>2, <1>3, <1>5, <2>2 DEF RowFits, SignaturesInv, MaybeSigned, SignStates, PostSigned
    <2>4. CallsInv'
      <3>1. ASSUME NEW v \in Workers, pc'[v] = "call"
            PROVE  sent'[v] = plan'[job'[v]] /\ (~uncertain'[v] => stray'[job'[v]] = {})
        <4>1. CASE v = w
          BY <1>1, <1>2, <2>1, <2>3, <4>1 DEF VolatileTypeOK, external
        <4>2. CASE v # w
          BY <1>1, <2>1, <3>1, <4>2 DEF VolatileTypeOK, external, CallsInv
        <4> QED
          BY <4>1, <4>2
      <3> QED
        BY <3>1 DEF CallsInv
    <2>5. SignaturesInv'
      <3>1. SUFFICES ASSUME NEW b \in Attempts \ lost
                     PROVE  /\ MaybeSigned(b)' => state'[b] \in SignedStates
                            /\ journal'[b] # {} => journal'[b] = plan'[b]
                            /\ \A notes \in stray'[b] : notes = plan'[b]
                            /\ state'[b] \in PostSigned => journal'[b] # {}
                            /\ state'[b] \in {"final", "released"} => fate'[b] # "open"
        BY <2>1 DEF SignaturesInv, SignedStates, durable
      <3>2. state'[b] = state[b] \/ state'[b] = "signing"
        BY <1>1, <2>1 DEF TablesTypeOK
      <3> QED
        BY <1>1, <2>1, <3>2 DEF SignaturesInv, SignedStates, MaybeSigned, external, PostSigned
    <2>6. LostInv'
      <3>1. \A b \in lost' : state'[b] = "none"
        BY <1>1, <2>1, <2>2 DEF LostInv, LostGone, durable, TablesTypeOK, TypeOK
      <3>2. \A b \in lost' : Reconciled(b)'
        BY <1>1, <2>1, <2>2 DEF LostInv, LostGone, Reconciled, durable, external
      <3> QED
        BY <2>1, <2>2, <3>1, <3>2 DEF LostInv, LostGone, durable
    <2>7. NoConflictingSignatures'
      <3>1. ~sealed'
        BY <2>1, <2>2 DEF durable
      <3> QED
        BY <2>4, <2>5, <2>6, <3>1, CommittedIsHeld, PTL
    <2> QED
      BY <2>4, <2>5, <2>6, <2>7 DEF CoordinatorInv
  <1> QED
    BY <1>4, <1>5

\* signAttempt and reconcileAttempt preserve CoordinatorInv.
LEMMA CoordinatorSigns ==
  ASSUME CoordinatorInv, StoreInv', NEW w \in Workers,
         Signs(w) \/ Reconciles(w)
  PROVE  CoordinatorInv'
  <1>1. TypeOK /\ TablesTypeOK /\ VolatileTypeOK /\ ExternalTypeOK /\ JobsInv /\ CallsInv
        /\ SignaturesInv /\ LostInv
    BY DEF CoordinatorInv, StoreInv, TypeOK
  <1>2. PICK a : a = job[w]
    OBVIOUS
  <1>3. pc[w] \in {"sign", "call", "reconcile"}
    BY DEF Signs, Reconciles, SignInvalid, BeginSigning, SignSucceeds, SignOutcomeUnknown,
           SignRefused, ReconcileTracks, ReconcileSettles, ReconcileEnds
  <1>4. pc[w] \notin {"idle", "read"} /\ a \in Attempts /\ RowFits(w)
    BY <1>1, <1>2, <1>3, BusyJob
  <1>5. ~sealed /\ a \notin lost
    BY <1>1, <1>2, <1>3, <1>4 DEF RowFits, LostInv, LostGone, PostSigned
  <1>6. /\ "signing_unknown" \notin PostSigned /\ "failed_unsigned" \notin PostSigned
        /\ "reserved" \notin PostSigned /\ "final" \notin PostSigned
        /\ "released" \notin PostSigned
    BY DEF PostSigned
  <1>7. CASE SignInvalid(w)
    <2>1. ~uncertain[w] => ~MaybeSigned(a)'
      BY <1>1, <1>2, <1>4, <1>5, <1>7
         DEF SignInvalid, RowFits, SignaturesInv, MaybeSigned, PostSigned, external
    <2> QED
      BY <1>2, <1>4, <1>6, <1>7, <2>1, QuietMark DEF SignInvalid, external
  <1>8. CASE SignSucceeds(w)
    <2>1. /\ state' = [state EXCEPT ![a] = "signed"] /\ pc' = [pc EXCEPT ![w] = "read"]
          /\ sent' = [sent EXCEPT ![w] = {}] /\ journal[a] # {}
          /\ UNCHANGED <<plan, durable, external, job, uncertain>>
      BY <1>2, <1>8 DEF SignSucceeds, CompleteAttemptSigning, Goto
    <2>2. pc'[w] # "call" /\ \A v \in Workers \ {w} : pc'[v] = pc[v] /\ sent'[v] = sent[v]
      BY <1>1, <2>1 DEF VolatileTypeOK
    <2>3. QuietRow(a) /\ OnlyRow(a)
      BY <1>1, <1>4, <2>1 DEF QuietRow, OnlyRow, TablesTypeOK, SignedStates, PostSigned
    <2> QED
      BY <1>2, <1>4, <1>5, <2>1, <2>2, <2>3, QuietWorker DEF external
  <1>9. CASE SignOutcomeUnknown(w)
    <2>1. /\ pc[w] = "call" /\ MarkAttemptState(job[w], "signing_unknown", "other", FALSE)
          /\ Finish(w) /\ UNCHANGED <<journal, fate, durable>>
          /\ stray' = [stray EXCEPT ![job[w]] = @ \cup {sent[w]}]
      BY <1>9 DEF SignOutcomeUnknown
    <2>2. "signing_unknown" \notin {"final", "released"}
      OBVIOUS
    <2> QED
      BY <1>2, <1>4, <1>6, <2>1, <2>2, QuietMark
  <1>10. ASSUME NEW retryable \in BOOLEAN, SignRefused(w, retryable)
         PROVE  CoordinatorInv'
    <2>1. ~uncertain[w] => ~MaybeSigned(a)'
      BY <1>1, <1>2, <1>10 DEF SignRefused, CallsInv, MaybeSigned, external
    <2> QED
      BY <1>2, <1>4, <1>6, <1>10, <2>1, QuietMark DEF SignRefused, DefiniteError, external
  <1>11. ASSUME NEW s \in PostSigned \ {"signed"}, ReconcileTracks(w, s)
         PROVE  CoordinatorInv'
    <2>1. state[a] \in PostSigned /\ journal[a] # {}
      BY <1>1, <1>2, <1>4, <1>5, <1>11 DEF ReconcileTracks, RowFits, SignaturesInv
    <2>2. OnlyRow(a) /\ plan' = plan /\ state'[a] \in PostSigned
      BY <1>1, <1>2, <1>4, <1>11, <2>1
         DEF ReconcileTracks, MarkAttemptState, OnlyRow, tables, TablesTypeOK
    <2>3. QuietRow(a)
      BY <2>1, <2>2 DEF QuietRow, SignedStates, PostSigned
    <2> QED
      BY <1>2, <1>4, <1>5, <1>11, <2>2, <2>3, QuietWorker DEF ReconcileTracks, volatile, external
  <1>12. CASE ReconcileSettles(w)
    BY <1>2, <1>4, <1>6, <1>12, QuietMark DEF ReconcileSettles, external
  <1>13. CASE ReconcileEnds(w)
    BY <1>4, <1>13, CoordinatorFinish DEF ReconcileEnds, external
  <1> QED
    BY <1>7, <1>8, <1>9, <1>10, <1>11, <1>12, <1>13, CoordinatorBegin
       DEF Signs, Reconciles

\* The environment preserves CoordinatorInv: the signer signs what was sent,
\* a restart only turns awaited calls into stray ones, and a recovered store
\* stays sealed until the attempts it lost are accounted for.
LEMMA CoordinatorEnvironment ==
  ASSUME CoordinatorInv, StoreInv', Environment
  PROVE  CoordinatorInv'
  <1>1. TypeOK /\ TablesTypeOK /\ VolatileTypeOK /\ ExternalTypeOK /\ CallsInv
        /\ SignaturesInv /\ LostInv
    BY DEF CoordinatorInv, StoreInv, TypeOK
  <1>2. ASSUME NEW a \in Attempts, NEW notes \in SUBSET Notes, SignerSigns(a, notes)
        PROVE  CoordinatorInv'
    <2>1. /\ notes \in stray[a] \cup AwaitedCalls(a) /\ journal[a] = {}
          /\ journal' = [journal EXCEPT ![a] = notes]
          /\ UNCHANGED <<tables, durable, volatile, stray, fate>>
      BY <1>2 DEF SignerSigns
    <2>2. journal'[a] = notes /\ \A b \in Attempts \ {a} : journal'[b] = journal[b]
      BY <1>1, <2>1 DEF ExternalTypeOK
    <2>3. \A b \in Attempts : AwaitedCalls(b)' = AwaitedCalls(b)
      BY <2>1 DEF AwaitedCalls, volatile
    <2>4. CallsInv'
      BY <1>1, <2>1 DEF CallsInv, volatile, tables
    <2>5. a \notin lost => notes = plan[a] /\ state[a] \in SignedStates
      BY <1>1, <2>1, AwaitedRows DEF SignaturesInv, SignedStates, MaybeSigned
    <2>6. SignaturesInv'
      <3>1. SUFFICES ASSUME NEW b \in Attempts \ lost
                     PROVE  /\ MaybeSigned(b)' => state[b] \in SignedStates
                            /\ journal'[b] # {} => journal'[b] = plan[b]
                            /\ \A m \in stray[b] : m = plan[b]
                            /\ state[b] \in PostSigned => journal'[b] # {}
                            /\ state[b] \in {"final", "released"} => fate[b] # "open"
        BY <2>1 DEF SignaturesInv, SignedStates, durable, tables
      <3>2. CASE b = a
        BY <1>1, <2>1, <2>2, <2>5, <3>2 DEF SignaturesInv, MaybeSigned, SignedStates
      <3>3. CASE b # a
        BY <1>1, <2>1, <2>2, <3>3 DEF SignaturesInv, MaybeSigned, SignedStates
      <3> QED
        BY <3>2, <3>3
    <2>7. LostInv'
      <3>1. ASSUME NEW b \in lost, Reconciled(b) PROVE Reconciled(b)'
        <4>1. b \in Attempts /\ AwaitedCalls(b) = {}
          BY <1>1, <3>1, AwaitedRows DEF TypeOK
        <4>2. b # a
          BY <2>1, <3>1, <4>1 DEF Reconciled
        <4> QED
          BY <2>1, <2>2, <3>1, <4>1, <4>2 DEF Reconciled
      <3> QED
        BY <1>1, <2>1, <3>1 DEF LostInv, LostGone, durable, tables
    <2>8. NoConflictingSignatures'
      <3>1. ASSUME NEW b \in Attempts PROVE Committed(b)' \subseteq Committed(b)
        BY <2>1, <2>2, <2>3 DEF Committed
      <3> QED
        BY <3>1 DEF CoordinatorInv, NoConflictingSignatures
    <2> QED
      BY <2>4, <2>6, <2>7, <2>8 DEF CoordinatorInv
  <1>3. ASSUME NEW a \in Attempts, NEW notes \in SUBSET Notes, CallVanishes(a, notes)
        PROVE  CoordinatorInv'
    <2>1. \A b \in Attempts : stray'[b] \subseteq stray[b]
      BY <1>1, <1>3 DEF CallVanishes, ExternalTypeOK
    <2>2. QuietEnvironment /\ \A b \in Attempts \ lost : QuietRow(b)
      BY <1>1, <1>3, <2>1 DEF CallVanishes, QuietEnvironment, QuietRow, durable, LostInv, LostGone, tables
    <2>3. QuietCalls
      BY <1>1, <1>3, <2>1, BusyJob DEF CallVanishes, QuietCalls, volatile, CoordinatorInv, StoreInv
    <2> QED
      BY <1>3, <2>2, <2>3, QuietStep DEF CallVanishes, tables
  <1>4. ASSUME NEW a \in Attempts, NEW verdict \in {"final", "dead"}, ChainDecides(a, verdict)
        PROVE  CoordinatorInv'
    <2>1. \A b \in Attempts : fate[b] # "open" => fate'[b] # "open"
      BY <1>1, <1>4 DEF ChainDecides, ExternalTypeOK
    <2>2. QuietEnvironment /\ QuietCalls /\ \A b \in Attempts \ lost : QuietRow(b)
      BY <1>1, <1>4, <2>1
         DEF ChainDecides, QuietEnvironment, QuietCalls, QuietRow, durable, LostInv, LostGone, tables, volatile
    <2> QED
      BY <1>4, <2>2, QuietStep DEF ChainDecides, tables
  <1>5. ASSUME VolatileReset, UNCHANGED <<tables, lost, journal, fate>>,
               sealed' => sealed, ~sealed' => ~sealed \/ \A a \in lost : Reconciled(a)
        PROVE  CoordinatorInv'
    <2>1. QuietEnvironment /\ QuietCalls /\ \A b \in Attempts \ lost : QuietRow(b)
      BY <1>1, <1>5 DEF VolatileReset, QuietEnvironment, QuietCalls, QuietRow, tables
    <2> QED
      BY <1>5, <2>1, QuietStep DEF tables
  <1>6. CASE RecoverDatabase
    <2>1. /\ \A a \in Attempts : state'[a] = "none"
          /\ sealed' /\ lost' = lost \cup {a \in Attempts : state[a] # "none"}
          /\ UNCHANGED <<journal, fate>>
          /\ \A a \in Attempts : stray'[a] = stray[a] \cup AwaitedCalls(a)
          /\ \A w \in Workers : pc'[w] = "idle"
      BY <1>6 DEF RecoverDatabase, VolatileReset
    <2>2. CallsInv'
      BY <2>1 DEF CallsInv
    <2>3. SignaturesInv'
      <3>1. ASSUME NEW a \in Attempts \ lost' PROVE state'[a] = "none" /\ ~MaybeSigned(a)'
        <4>1. state[a] = "none" /\ a \in Attempts \ lost
          BY <2>1, <3>1
        <4>2. ~MaybeSigned(a) /\ AwaitedCalls(a) = {}
          BY <1>1, <4>1, AwaitedRows DEF SignaturesInv, PostSigned
        <4> QED
          BY <2>1, <4>2 DEF MaybeSigned
      <3> QED
        BY <3>1 DEF SignaturesInv, MaybeSigned, PostSigned
    <2>4. LostInv'
      BY <1>1, <2>1 DEF LostInv, LostGone, TypeOK
    <2>5. NoConflictingSignatures'
      <3>1. ASSUME NEW a \in Attempts PROVE Committed(a)' \subseteq Committed(a)
        <4>1. AwaitedCalls(a)' = {}
          BY <2>1 DEF AwaitedCalls
        <4> QED
          BY <2>1, <4>1 DEF Committed
      <3> QED
        BY <3>1 DEF CoordinatorInv, NoConflictingSignatures
    <2> QED
      BY <2>2, <2>3, <2>4, <2>5 DEF CoordinatorInv
  <1> QED
    BY <1>2, <1>3, <1>4, <1>5, <1>6
       DEF Environment, Restart, UnsealCoordinatorRecovery, durable

\* The initial state satisfies CoordinatorInv.
LEMMA CoordinatorInit == Init => CoordinatorInv
  <1> SUFFICES ASSUME Init PROVE CoordinatorInv
    OBVIOUS
  <1>1. CallsInv
    BY DEF Init, VolatileInit, CallsInv
  <1>2. SignaturesInv
    BY DEF Init, SignaturesInv, MaybeSigned, PostSigned
  <1>3. LostInv /\ ~sealed
    BY DEF Init, LostInv, LostGone
  <1>4. StoreInv
    BY StoreInit
  <1> QED
    BY <1>1, <1>2, <1>3, <1>4, CommittedIsHeld DEF CoordinatorInv

\* Every step preserves CoordinatorInv.
LEMMA CoordinatorStep == CoordinatorInv /\ [Next]_vars => CoordinatorInv'
  <1> SUFFICES ASSUME CoordinatorInv, [Next]_vars PROVE CoordinatorInv'
    OBVIOUS
  <1>1. StoreInv'
    BY StoreStep DEF CoordinatorInv, AnySignerNext
  <1>2. CASE UNCHANGED vars
    BY <1>1, <1>2, QuietAside DEF vars, tables, durable, volatile
  <1>3. ASSUME NEW w \in Workers, Works(w) PROVE CoordinatorInv'
    BY <1>1, <1>3, CoordinatorDispatch, CoordinatorPlans, CoordinatorSigns DEF Works
  <1> QED
    BY <1>1, <1>2, <1>3, CoordinatorRequesting, CoordinatorEnvironment DEF Next

\* When the signer's answers are usable, CoordinatorInv holds in every reachable
\* state.
THEOREM CoordinatorInvariant == Spec => []CoordinatorInv
  BY CoordinatorInit, CoordinatorStep, PTL DEF Spec

\* No note is committed to two attempts, for any number of workers, attempts and
\* notes, through crashes, late signatures and lost databases.
THEOREM SignaturesNeverConflict == Spec => []NoConflictingSignatures
  <1>1. CoordinatorInv => NoConflictingSignatures
    BY DEF CoordinatorInv
  <1> QED
    BY <1>1, CoordinatorInvariant, PTL

\* planning, reserved, cancelled and failed_unsigned rows were never signed and
\* have no call outstanding that could still be signed.
THEOREM UnsignedIsProven == Spec => []UnsignedMeansUnsigned
  <1>1. CoordinatorInv => UnsignedMeansUnsigned
    BY DEF CoordinatorInv, SignaturesInv, LostInv, LostGone, UnsignedMeansUnsigned, Unsigned, PostSigned
  <1> QED
    BY <1>1, CoordinatorInvariant, PTL

\* Whatever is signed for an attempt spends the notes of its stored plan.
THEOREM SignedPlanStored == Spec => []SignedPlanIsStored
  <1>1. CoordinatorInv => SignedPlanIsStored
    BY DEF CoordinatorInv, SignaturesInv, SignedPlanIsStored
  <1> QED
    BY <1>1, CoordinatorInvariant, PTL

-----------------------------------------------------------------------------
(* The coordinator implements TransactionFate.                             *)

\* A step of TransactionFate at attempt a, or none.
FateStep(a) == [Fate(a)!Next]_<<signedState(a), fate[a]>>

\* An attempt that stays as settlement sees it.
LEMMA FateAside ==
  ASSUME NEW a \in Attempts, signedState(a)' = signedState(a), fate'[a] = fate[a]
  PROVE  FateStep(a)
  BY DEF FateStep

\* A row moves, and the chain says nothing: before the signature it is no step, after
\* it the row is tracked, or ends as the chain has decided.
LEMMA FateMoves ==
  ASSUME NEW a \in Attempts, state[a] \in States, fate'[a] = fate[a],
         allowedAttemptTransition(state[a], state'[a]),
         state'[a] = "final" => fate[a] = "final" \/ state[a] = "final",
         state'[a] = "released" => fate[a] = "dead" \/ state[a] = "released"
  PROVE  FateStep(a)
  <1>1. Fate(a)!PostSigned = PostSigned
    BY DEF Fate!PostSigned, PostSigned
  <1>2. CASE state'[a] = state[a]
    BY <1>2, FateAside DEF signedState
  <1>3. CASE state[a] \in PostSigned /\ state'[a] \in PostSigned \ {"signed"}
    <2>1. signedState(a) = state[a] /\ signedState(a)' = state'[a]
      BY <1>3 DEF signedState
    <2>2. Fate(a)!Tracks
      BY <1>1, <1>3, <2>1 DEF Fate!Tracks
    <2> QED
      BY <2>2 DEF FateStep, Fate!Next
  <1>4. CASE state[a] \in PostSigned /\ state'[a] \in {"final", "released"}
    <2>1. signedState(a) = state[a] /\ signedState(a)' = state'[a]
      BY <1>4 DEF signedState
    <2>2. Fate(a)!Settles
      BY <1>1, <1>4, <2>1 DEF Fate!Settles, PostSigned
    <2> QED
      BY <2>2 DEF FateStep, Fate!Next
  <1>5. CASE state[a] \notin PostSigned /\ state'[a] # state[a]
    <2>1. state[a] \notin {"final", "released"} /\ (state'[a] \notin PostSigned \/ state'[a] = "signed")
          /\ state'[a] \notin {"final", "released"}
      BY <1>5 DEF allowedAttemptTransition, terminalAttemptState, Terminal, PostSigned
    <2>2. signedState(a) = "signed" /\ signedState(a)' = "signed"
      BY <1>5, <2>1 DEF signedState
    <2> QED
      BY <2>2, FateAside
  <1> QED
    BY <1>2, <1>3, <1>4, <1>5 DEF allowedAttemptTransition, PostSigned

\* MarkAttemptState settles a row only as its callers let it.
LEMMA FateMark ==
  ASSUME TablesTypeOK, NEW a \in Attempts, NEW next, NEW code, NEW release,
         MarkAttemptState(a, next, code, release), fate' = fate,
         next = "final" => fate[a] = "final", next = "released" => fate[a] = "dead"
  PROVE  FateStep(a)
  <1>1. state \in [Attempts -> States] /\ state[a] \in States
    BY DEF TablesTypeOK
  <1>2. CASE UNCHANGED tables
    BY <1>2, FateAside DEF tables, signedState
  <1>3. CASE allowedAttemptTransition(state[a], next) /\ state' = [state EXCEPT ![a] = next]
    <2>1. state'[a] = next
      BY <1>1, <1>3
    <2> QED
      BY <1>1, <1>3, <2>1, FateMoves
  <1> QED
    BY <1>2, <1>3 DEF MarkAttemptState

\* Every step of a worker is a step of TransactionFate for its own attempt.
LEMMA FateWorker ==
  ASSUME StoreInv, NEW w \in Workers, Works(w) \/ SignMalformed(w), NEW a \in Attempts
  PROVE  FateStep(a)
  <1>0. TypeOK /\ TablesTypeOK
    BY DEF StoreInv, TypeOK
  <1>1. fate' = fate
    <2>1. CASE (\E b \in Attempts : Dequeue(w, b)) \/ ReadRow(w) \/ StoreError(w)
      BY <2>1 DEF Dequeue, ReadRow, StoreError, external
    <2>2. CASE Plans(w)
      BY <2>2 DEF Plans, PlanStart, PlanStale, PlanRefused, AllocateChange, AllocateFails,
                  ReadExclusions, PlanReserves, PlanRaced, PlanConflicts, PlanNotesReserved,
                  PlanFails, external
    <2>3. CASE Signs(w) \/ SignMalformed(w)
      BY <2>3 DEF Signs, SignInvalid, BeginSigning, SignSucceeds, SignOutcomeUnknown, SignRefused,
                  SignMalformed, external
    <2>4. CASE Reconciles(w)
      BY <2>4 DEF Reconciles, ReconcileTracks, ReconcileSettles, ReconcileEnds, external
    <2> QED
      BY <2>1, <2>2, <2>3, <2>4 DEF Works
  <1>2. CASE a # job[w]
    <2>1. state'[a] = state[a]
      BY <1>2, WorkerRow DEF OthersKept, RowKept
    <2> QED
      BY <1>1, <2>1, FateAside DEF signedState
  <1>3. CASE a = job[w]
    <2>1. state \in [Attempts -> States] /\ state[a] \in States
      BY <1>0 DEF TablesTypeOK
    <2>2. CASE state'[a] = state[a]
      BY <1>1, <2>2, FateAside DEF signedState
    <2>3. ASSUME NEW next \in {"planning", "failed_unsigned", "signing_unknown", "reserved"},
                 NEW code, NEW release, MarkAttemptState(a, next, code, release)
          PROVE  FateStep(a)
      BY <1>0, <1>1, <2>3, FateMark
    <2>4. CASE UNCHANGED tables
      BY <2>2, <2>4 DEF tables
    <2>5. CASE (\E b \in Attempts : Dequeue(w, b)) \/ ReadRow(w) \/ StoreError(w)
      BY <2>4, <2>5 DEF Dequeue, ReadRow, StoreError
    <2>6. CASE Plans(w)
      <3>1. CASE PlanStart(w) \/ PlanStale(w) \/ PlanConflicts(w)
                 \/ \E notes \in SUBSET Notes : PlanRaced(w, notes)
        BY <2>4, <3>1 DEF PlanStart, PlanStale, PlanConflicts, PlanRaced
      <3>2. CASE PlanRefused(w) \/ AllocateFails(w) \/ PlanNotesReserved(w) \/ PlanFails(w)
        BY <1>3, <2>3, <3>2 DEF PlanRefused, AllocateFails, PlanNotesReserved, PlanFails,
                          failUnsigned, recordPlanningError
      <3>3. CASE AllocateChange(w)
        BY <2>2, <2>4, <3>3 DEF AllocateChange, SetAttemptChangeAddress
      <3>4. CASE ReadExclusions(w)
        BY <1>3, <2>3, <2>4, <3>4 DEF ReadExclusions, recordPlanningError
      <3>5. ASSUME NEW notes \in SUBSET Notes, PlanReserves(w, notes) PROVE FateStep(a)
        <4>1. state[a] = "planning" /\ state'[a] = "reserved"
          BY <1>3, <2>1, <3>5 DEF PlanReserves, ReserveAttemptPlan
        <4> QED
          BY <1>1, <2>1, <4>1, FateMoves DEF allowedAttemptTransition, terminalAttemptState, Terminal
      <3> QED
        BY <2>6, <3>1, <3>2, <3>3, <3>4, <3>5 DEF Plans
    <2>7. CASE Signs(w)
      <3>1. CASE SignInvalid(w) \/ SignOutcomeUnknown(w)
        BY <1>3, <2>3, <3>1 DEF SignInvalid, SignOutcomeUnknown
      <3>2. CASE BeginSigning(w)
        <4>1. CASE state[a] = "reserved"
          <5>1. state'[a] = "signing"
            BY <1>3, <2>1, <3>2, <4>1 DEF BeginSigning, BeginAttemptSigning, SignStates
          <5> QED
            BY <1>1, <2>1, <4>1, <5>1, FateMoves
               DEF allowedAttemptTransition, terminalAttemptState, Terminal
        <4>2. CASE state[a] # "reserved"
          BY <1>3, <2>4, <3>2, <4>2 DEF BeginSigning, BeginAttemptSigning
        <4> QED
          BY <4>1, <4>2
      <3>3. CASE SignSucceeds(w)
        <4>1. state[a] \in {"signing", "signing_unknown"} /\ state'[a] = "signed"
          BY <1>3, <2>1, <3>3 DEF SignSucceeds, CompleteAttemptSigning
        <4> QED
          BY <1>1, <2>1, <4>1, FateMoves DEF allowedAttemptTransition, terminalAttemptState, Terminal
      <3>4. CASE \E retryable \in BOOLEAN : SignRefused(w, retryable)
        BY <1>3, <2>3, <3>4 DEF SignRefused, DefiniteError
      <3> QED
        BY <2>7, <3>1, <3>2, <3>3, <3>4 DEF Signs
    <2>8. CASE Reconciles(w)
      <3>1. ASSUME NEW s \in PostSigned \ {"signed"}, ReconcileTracks(w, s) PROVE FateStep(a)
        BY <1>0, <1>1, <1>3, <3>1, FateMark DEF ReconcileTracks, PostSigned
      <3>2. CASE ReconcileSettles(w)
        BY <1>0, <1>1, <1>3, <3>2, FateMark DEF ReconcileSettles
      <3>3. CASE ReconcileEnds(w)
        BY <2>4, <3>3 DEF ReconcileEnds
      <3> QED
        BY <2>8, <3>1, <3>2, <3>3 DEF Reconciles
    <2>9. CASE SignMalformed(w)
      BY <1>3, <2>3, <2>9 DEF SignMalformed, DefiniteError
    <2> QED
      BY <2>5, <2>6, <2>7, <2>8, <2>9 DEF Works
  <1> QED
    BY <1>2, <1>3

\* So is every step of a caller, the signer, the chain, the operator and the
\* process, unless the row is lost.
LEMMA FateOthers ==
  ASSUME StoreInv, Requesting \/ Environment, NEW a \in Attempts, a \notin lost'
  PROVE  FateStep(a)
  <1>0. state \in [Attempts -> States] /\ state[a] \in States
        /\ fate \in [Attempts -> {"open", "final", "dead"}]
    BY DEF StoreInv, TypeOK, TablesTypeOK, ExternalTypeOK
  <1>1. CASE state'[a] = state[a] /\ fate' = fate
    BY <1>1, FateAside DEF signedState
  <1>2. CASE Requesting
    <2>1. fate' = fate
      BY <1>2 DEF Requesting, CreateClaims, CreateReplays, AttemptGet, Cancel, ScheduleRecoverable,
                  external
    <2>2. \/ state'[a] = state[a]
          \/ state[a] = "none" /\ state'[a] = "planning"
          \/ state[a] \in Unsigned /\ state'[a] = "cancelled"
      BY <1>0, <1>2 DEF Requesting, CreateClaims, CreateReplays, AttemptGet, Cancel,
                        ScheduleRecoverable, ClaimAttempt, CancelAttempt, tables
    <2>3. signedState(a)' = signedState(a)
      BY <2>2 DEF signedState, Unsigned, PostSigned
    <2> QED
      BY <2>1, <2>3, FateAside
  <1>3. CASE Environment
    <2>1. ASSUME NEW b \in Attempts, NEW verdict \in {"final", "dead"}, ChainDecides(b, verdict)
          PROVE  FateStep(a)
      <3>1. fate[b] = "open" /\ fate' = [fate EXCEPT ![b] = verdict] /\ state' = state
        BY <2>1 DEF ChainDecides, tables
      <3>2. CASE a = b
        <4>1. Fate(a)!Decides
          BY <1>0, <2>1, <3>1, <3>2 DEF Fate!Decides, signedState
        <4> QED
          BY <4>1 DEF FateStep, Fate!Next
      <3>3. CASE a # b
        <4>1. fate'[a] = fate[a]
          BY <1>0, <3>1, <3>3
        <4> QED
          BY <3>1, <4>1, FateAside DEF signedState
      <3> QED
        BY <3>2, <3>3
    <2>2. CASE RecoverDatabase
      BY <1>0, <1>1, <2>2 DEF RecoverDatabase
    <2>3. CASE Restart \/ UnsealCoordinatorRecovery
               \/ \E b \in Attempts, notes \in SUBSET Notes :
                     SignerSigns(b, notes) \/ CallVanishes(b, notes)
      BY <1>1, <2>3 DEF Restart, UnsealCoordinatorRecovery, SignerSigns, CallVanishes, tables
    <2> QED
      BY <1>3, <2>1, <2>2, <2>3 DEF Environment
  <1> QED
    BY <1>2, <1>3

\* The coordinator implements TransactionFate for every attempt whose row is not lost:
\* between requests, cancellations, crashes, late answers of the signer and other
\* workers, nothing but reconcileAttempt moves a signed row, and it ends as the chain
\* has decided.  FateKept shows that reconcileAttempt keeps the same promise against
\* node and scanner: the two models fit together.
THEOREM FateComposes ==
  ASSUME NEW a \in Attempts
  PROVE  AnySignerSpec /\ [](a \notin lost) => Fate(a)!Spec
  <1>1. Init => Fate(a)!Init
    BY DEF Init, Fate!Init, signedState, PostSigned
  <1>2. StoreInv /\ (a \notin lost)' /\ [AnySignerNext]_vars
          => [Fate(a)!Next]_<<signedState(a), fate[a]>>
    <2> SUFFICES ASSUME StoreInv, a \notin lost', [AnySignerNext]_vars PROVE FateStep(a)
      BY DEF FateStep
    <2>1. CASE UNCHANGED vars
      BY <2>1, FateAside DEF vars, tables, external, signedState
    <2>2. ASSUME NEW w \in Workers, Works(w) \/ SignMalformed(w) PROVE FateStep(a)
      BY <2>2, FateWorker
    <2>3. CASE Requesting \/ Environment
      BY <2>3, FateOthers
    <2> QED
      BY <2>1, <2>2, <2>3 DEF AnySignerNext, Next
  <1> QED
    BY <1>1, <1>2, StoreInvariant, PTL DEF AnySignerSpec, Fate!Spec

-----------------------------------------------------------------------------
(* How wide planAttempt splits the change: changeSplitPolicy and its loop. *)

\* The larger and the smaller of two numbers.
LEMMA LargerOfTwo ==
    ASSUME NEW a \in Int, NEW b \in Int
    PROVE  Max({a, b}) = IF a >= b THEN a ELSE b
  BY DEF Max

LEMMA SmallerOfTwo ==
    ASSUME NEW a \in Int, NEW b \in Int
    PROVE  Min({a, b}) = IF a <= b THEN a ELSE b
  BY DEF Min

\* What a split is for a plan that spends so many notes: none, what is wanted, or
\* the maximum.
LEMMA OptionsAre ==
    ASSUME NEW p \in [deficit : Int, max : Nat], NEW notes \in Nat \ {0}
    PROVE  /\ options(p, notes) \in Nat
           /\ p.max > 0 => options(p, notes) <= p.max
           /\ p.max = 0 => options(p, notes) = 0
           /\ p.max >= 2 /\ options(p, notes) # p.max =>
                 p.deficit + notes < 2 \/ options(p, notes) = p.deficit + notes
<1>1. p.deficit \in Int /\ p.max \in Nat /\ p.deficit + notes \in Int
  OBVIOUS
<1>2. Max({notes, 1}) = notes
  BY LargerOfTwo
<1>3. Min({p.deficit + notes, p.max})
         = IF p.deficit + notes <= p.max THEN p.deficit + notes ELSE p.max
  BY <1>1, SmallerOfTwo
<1>4. options(p, notes) = IF p.max < 2 \/ p.deficit + notes < 2 THEN 0
                          ELSE IF p.deficit + notes <= p.max THEN p.deficit + notes ELSE p.max
  BY <1>2, <1>3 DEF options
<1> QED
  BY <1>1, <1>4

\* The policy is off, or counts what the wallet is short of.
LEMMA PolicyIs ==
    ASSUME NEW limits \in [target : Nat, max : Nat], NEW spendable \in Nat, NEW reserved \in Nat,
           NEW readable
    PROVE  LET free == Max({spendable - reserved, 0})
               p == splitPolicy(limits, spendable, reserved, readable)
           IN  /\ free \in Nat /\ p \in [deficit : Int, max : Nat]
               /\ \/ p.max = 0
                  \/ p = [deficit |-> limits.target - free, max |-> limits.max] /\ limits.max >= 2
<1> DEFINE free == Max({spendable - reserved, 0})
           p == splitPolicy(limits, spendable, reserved, readable)
<1>1. limits.target \in Nat /\ limits.max \in Nat
  OBVIOUS
<1>2. free \in Nat
  <2>1. spendable - reserved \in Int
    OBVIOUS
  <2>2. free = IF spendable - reserved >= 0 THEN spendable - reserved ELSE 0
    BY <2>1, LargerOfTwo
  <2> QED
    BY <2>1, <2>2
<1>3. \/ p = [deficit |-> 0, max |-> 0]
      \/ p = [deficit |-> limits.target - free, max |-> limits.max] /\ limits.max >= 2
  BY <1>1 DEF splitPolicy
<1> HIDE DEF free, p
<1>4. p \in [deficit : Int, max : Nat]
  <2>1. limits.target - free \in Int
    BY <1>1, <1>2
  <2> QED
    BY <1>1, <1>3, <2>1
<1>5. \/ p.max = 0
      \/ p = [deficit |-> limits.target - free, max |-> limits.max] /\ limits.max >= 2
  BY <1>3
<1> QED
  BY <1>2, <1>4, <1>5 DEF free, p

\* Before the first plan.
LEMMA SplitStarts == SplitInit => SplitInv
<1> SUFFICES ASSUME SplitInit PROVE SplitInv
  OBVIOUS
<1>1. cfg \in [target : Nat, max : Nat] /\ cfg.max \in Nat
  BY SplitAssumption DEF SplitInit
<1>2. PICK spendable \in 0 .. MaxSpends, reserved \in 0 .. MaxSpends, readable \in BOOLEAN :
         /\ unreserved = Max({spendable - reserved, 0})
         /\ policy = splitPolicy(cfg, spendable, reserved, readable)
  BY DEF SplitInit
<1>3. spendable \in Nat /\ reserved \in Nat
  BY SplitAssumption
<1>4. /\ unreserved \in Nat /\ policy \in [deficit : Int, max : Nat]
      /\ PolicyInv
  BY <1>1, <1>2, <1>3, PolicyIs DEF PolicyInv
<1>5. current = options(policy, 1) /\ at = "plan" /\ spends = 0 /\ widen = 0 /\ end = ""
  BY DEF SplitInit
<1>6. current \in Nat /\ (policy.max > 0 => current <= policy.max)
  <2>1. 1 \in Nat \ {0}
    OBVIOUS
  <2> QED
    BY <1>4, <1>5, <2>1, OptionsAre
<1>7. SplitTypeOK
  BY <1>1, <1>4, <1>5, <1>6 DEF SplitTypeOK
<1>8. WiderInv
  <2>1. policy.max > 0 => policy.max = cfg.max
    BY <1>4 DEF PolicyInv
  <2>2. widen <= current
    <3>1. widen = 0
      BY <1>5
    <3>2. current \in Nat
      BY <1>6
    <3> QED
      BY <3>1, <3>2
  <2>3. policy.max > 0 => current <= cfg.max
    BY <1>6, <2>1
  <2> QED
    BY <1>5, <2>2, <2>3 DEF WiderInv
<1>9. SplitReachesTarget
  BY <1>5 DEF SplitReachesTarget
<1> QED
  BY <1>4, <1>7, <1>8, <1>9 DEF SplitInv

\* A split that the selection does not want wider reaches the target, or is as
\* wide as it may be.
LEMMA CoveredReaches ==
    ASSUME SplitInv, at = "loop", options(policy, spends) <= current
    PROVE  policy.max > 0 =>
             unreserved - spends + Max({current, 1}) >= cfg.target \/ current = cfg.max
<1> SUFFICES ASSUME policy.max > 0
             PROVE  unreserved - spends + Max({current, 1}) >= cfg.target \/ current = cfg.max
  OBVIOUS
<1>1. /\ policy \in [deficit : Int, max : Nat] /\ spends \in Nat \ {0} /\ current \in Nat
      /\ unreserved \in Nat /\ cfg.target \in Nat /\ cfg.max \in Nat
      /\ policy = [deficit |-> cfg.target - unreserved, max |-> cfg.max] /\ cfg.max >= 2
      /\ current <= cfg.max
  <2>1. /\ policy \in [deficit : Int, max : Nat] /\ spends \in Nat /\ current \in Nat
        /\ unreserved \in Nat /\ cfg.target \in Nat /\ cfg.max \in Nat
    BY DEF SplitInv, SplitTypeOK
  <2>2. spends >= 1 /\ current <= cfg.max
    BY DEF SplitInv, WiderInv
  <2>3. policy = [deficit |-> cfg.target - unreserved, max |-> cfg.max] /\ cfg.max >= 2
    BY DEF SplitInv, PolicyInv
  <2>4. spends \in Nat \ {0}
    BY <2>1, <2>2
  <2> QED
    BY <2>1, <2>2, <2>3, <2>4
<1>2. policy.deficit = cfg.target - unreserved /\ policy.max = cfg.max
  BY <1>1
<1> DEFINE wider == options(policy, spends)
<1>3. /\ wider \in Nat /\ wider <= cfg.max
      /\ wider # cfg.max =>
            cfg.target - unreserved + spends < 2 \/ wider = cfg.target - unreserved + spends
  BY <1>1, <1>2, OptionsAre
<1>4. Max({current, 1}) = IF current >= 1 THEN current ELSE 1
  BY <1>1, LargerOfTwo
<1>5. wider <= current
  OBVIOUS
<1> HIDE DEF wider
<1> QED
  BY <1>1, <1>3, <1>4, <1>5

\* The invariant is inductive.
LEMMA SplitStep == SplitInv /\ [SplitNext]_splitVars => SplitInv'
<1> SUFFICES ASSUME SplitInv, [SplitNext]_splitVars PROVE SplitInv'
  OBVIOUS
<1>1. SplitTypeOK /\ PolicyInv /\ WiderInv /\ SplitReachesTarget
  BY DEF SplitInv
<1>2. CASE FirstPlan
  <2>1. spends' \in Nat /\ (at' = "loop" => spends' >= 1) /\ at' \in {"loop", "unplanned"}
    <3>1. CASE at' = "loop" /\ spends' \in 1 .. MaxSpends
      BY <3>1, SplitAssumption
    <3>2. CASE at' = "unplanned" /\ UNCHANGED spends
      BY <1>1, <3>2 DEF SplitTypeOK
    <3> QED
      BY <1>2, <3>1, <3>2 DEF FirstPlan
  <2>2. UNCHANGED <<cfg, unreserved, policy, current, widen, end>>
    BY <1>2 DEF FirstPlan
  <2>3. SplitTypeOK'
    BY <1>1, <2>1, <2>2 DEF SplitTypeOK
  <2>4. PolicyInv' /\ WiderInv'
    BY <1>1, <2>1, <2>2 DEF PolicyInv, WiderInv
  <2>5. SplitReachesTarget'
    BY <2>1 DEF SplitReachesTarget
  <2> QED
    BY <2>3, <2>4, <2>5 DEF SplitInv
<1>3. ASSUME NEW how \in {"covered", "failed", "limit"}, at = "loop", Ends(how),
             how = "covered" => options(policy, spends) <= current,
             how = "limit" => widen >= cfg.max
      PROVE  SplitInv'
  <2>1. at' = "reserve" /\ end' = how /\ UNCHANGED <<cfg, unreserved, policy, current, spends, widen>>
    BY <1>3 DEF Ends
  <2>2. SplitTypeOK'
    BY <1>1, <2>1 DEF SplitTypeOK
  <2>3. PolicyInv' /\ WiderInv'
    BY <1>1, <1>3, <2>1 DEF PolicyInv, WiderInv
  <2>4. ASSUME policy.max > 0
        PROVE  \/ unreserved - spends + Max({current, 1}) >= cfg.target
               \/ current = cfg.max \/ how = "failed"
    <3>1. CASE how = "covered"
      BY <1>3, <2>4, <3>1, CoveredReaches
    <3>2. CASE how = "limit"
      <4>1. widen <= current /\ current <= cfg.max /\ widen >= cfg.max
            /\ widen \in Nat /\ current \in Nat /\ cfg.max \in Nat
        BY <1>1, <1>3, <2>4, <3>2 DEF WiderInv, SplitTypeOK
      <4> QED
        BY <4>1
    <3> QED
      BY <3>1, <3>2
  <2>5. SplitReachesTarget'
    BY <2>1, <2>4 DEF SplitReachesTarget
  <2> QED
    BY <2>2, <2>3, <2>5 DEF SplitInv
<1>4. CASE Widen
  <2> DEFINE wider == options(policy, spends)
  <2>1. at = "loop" /\ widen < cfg.max
    BY <1>4 DEF Widen
  <2>2. \/ wider <= current /\ Ends("covered")
        \/ Ends("failed")
        \/ /\ wider > current
           /\ current' = wider /\ spends' \in 1 .. MaxSpends /\ widen' = widen + 1
           /\ UNCHANGED <<cfg, unreserved, policy, at, end>>
    BY <1>4 DEF Widen
  <2>3. CASE wider <= current /\ Ends("covered")
    BY <1>3, <2>1, <2>3
  <2>4. CASE Ends("failed")
    BY <1>3, <2>1, <2>4
  <2>5. CASE /\ wider > current
             /\ current' = wider /\ spends' \in 1 .. MaxSpends /\ widen' = widen + 1
             /\ UNCHANGED <<cfg, unreserved, policy, at, end>>
    <3>1. spends \in Nat \ {0} /\ policy \in [deficit : Int, max : Nat] /\ current \in Nat
          /\ widen \in Nat /\ widen <= current
      <4>1. /\ spends \in Nat /\ policy \in [deficit : Int, max : Nat] /\ current \in Nat
            /\ widen \in Nat
        BY <1>1 DEF SplitTypeOK
      <4>2. spends >= 1 /\ widen <= current
        BY <1>1, <2>1 DEF WiderInv
      <4>3. spends \in Nat \ {0}
        BY <4>1, <4>2
      <4> QED
        BY <4>1, <4>2, <4>3
    <3>2. wider \in Nat /\ (policy.max > 0 => wider <= policy.max)
      BY <3>1, OptionsAre
    <3> HIDE DEF wider
    <3>3. spends' \in Nat /\ spends' >= 1 /\ widen' \in Nat /\ widen' <= current' /\ current' \in Nat
      BY <2>5, <3>1, <3>2, SplitAssumption
    <3>4. SplitTypeOK'
      BY <1>1, <2>5, <3>3 DEF SplitTypeOK
    <3>5. PolicyInv'
      BY <1>1, <2>5 DEF PolicyInv
    <3>6. policy'.max > 0 => current' <= cfg'.max
      BY <1>1, <2>5, <3>2 DEF PolicyInv
    <3>7. WiderInv'
      BY <3>3, <3>6 DEF WiderInv
    <3>8. SplitReachesTarget'
      BY <2>1, <2>5 DEF SplitReachesTarget
    <3> QED
      BY <3>4, <3>5, <3>7, <3>8 DEF SplitInv
  <2> QED
    BY <2>2, <2>3, <2>4, <2>5
<1>5. CASE WidenLimit
  BY <1>3, <1>5 DEF WidenLimit
<1>6. CASE UNCHANGED splitVars
  BY <1>1, <1>6
     DEF splitVars, SplitInv, SplitTypeOK, PolicyInv, WiderInv, SplitReachesTarget
<1> QED
  BY <1>2, <1>4, <1>5, <1>6 DEF SplitNext

\* THEOREM.  When planAttempt's loop is over, the change makes up for the notes that are
\* spent and the notes that were missing, or is as wide as the configuration allows,
\* or the wider plan failed; its counter never runs out first.  For every target and
\* maximum, every wallet, and whatever the planner selects each time.
THEOREM TargetReached == SplitSpec => []SplitReachesTarget
<1>1. SplitInv => SplitReachesTarget
  BY DEF SplitInv
<1> QED
  BY <1>1, SplitStarts, SplitStep, PTL DEF SplitSpec
=============================================================================
