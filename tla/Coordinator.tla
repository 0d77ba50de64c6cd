---------------------------- MODULE Coordinator -----------------------------
(***************************************************************************)
(* The transaction coordinator (internal/coordinator/service.go): requests *)
(* claim attempts, workers plan them, reserve their notes, have them       *)
(* signed and follow them to settlement, while callers cancel, the process *)
(* crashes and the database is lost and rebuilt.  The unit of atomicity is *)
(* one store transaction or one answer of a remote service; between two of *)
(* them every other actor may move.                                        *)
(*                                                                         *)
(* External: the planner (juno-txbuild), the signer with its journal, and  *)
(* the chain's verdict on a signed transaction.                            *)
(***************************************************************************)
EXTENDS AttemptStore

CONSTANTS
    Workers,
    NoWorker,
    QueueCap,               \* capacity of the dispatch channel (1000 in the code)
    MaxReplans,             \* cfg.CoordinatorMaxReplans
    MaxSteps,               \* transitions one dispatch may make (3 in the code)
    ParkedAttempts          \* rows a release before v0.1.4 may have left in planning

ASSUME CoordinatorAssumption ==
    /\ NoWorker \notin Workers
    /\ QueueCap \in Nat \ {0}
    /\ MaxReplans \in Nat \ {0}
    /\ MaxSteps \in Nat \ {0}
    /\ ParkedAttempts \subseteq Attempts

VARIABLES
    \* durable, beside the tables
    sealed,     \* coordinator recovery seal
    lost,       \* history: attempts whose rows a database loss erased
    \* volatile state of the serving process
    queue,      \* attempt ids in the dispatch channel
    inflight,   \* attempts a worker is processing
    walletLock, \* [Wallets -> worker planning for the wallet]
    pc, job,    \* where each worker is, and with which attempt
    uncertain,  \* uncertainBeforeCall of the worker's signAttempt
    steps,      \* transitions left in the worker's process loop
    excluded,   \* reservations the worker read before planning
    replans,    \* replans left
    sent,       \* notes of the plan the worker is having signed
    \* external
    journal,    \* signer: notes of the transaction signed for an attempt, {} if none
    stray,      \* per attempt, calls nobody waits for that may still reach the signer
    fate        \* the chain's verdict on the signed transaction

volatile == <<queue, inflight, walletLock, pc, job, uncertain, steps, excluded,
              replans, sent>>
external == <<journal, stray, fate>>
vars == <<tables, sealed, lost, volatile, external>>

PCs == {"idle", "read", "plan", "address", "select", "reserve", "sign", "call",
        "reconcile"}
\* program points inside planAttempt after the wallet mutex is taken
Planning == {"address", "select", "reserve"}

VolatileTypeOK ==
    /\ queue \subseteq Attempts
    /\ inflight \subseteq Attempts
    /\ walletLock \in [Wallets -> Workers \cup {NoWorker}]
    /\ pc \in [Workers -> PCs]
    /\ job \in [Workers -> Attempts \cup {NoAttempt}]
    /\ uncertain \in [Workers -> BOOLEAN]
    /\ steps \in [Workers -> 0 .. MaxSteps]
    /\ excluded \in [Workers -> SUBSET Notes]
    /\ replans \in [Workers -> 0 .. MaxReplans]
    /\ sent \in [Workers -> SUBSET Notes]

ExternalTypeOK ==
    /\ journal \in [Attempts -> SUBSET Notes]
    /\ stray \in [Attempts -> SUBSET SUBSET Notes]
    /\ fate \in [Attempts -> {"open", "final", "dead"}]

\* The type invariant of tables, process and environment.
TypeOK ==
    /\ TablesTypeOK
    /\ sealed \in BOOLEAN
    /\ lost \subseteq Attempts
    /\ VolatileTypeOK
    /\ ExternalTypeOK

VolatileInit ==
    /\ queue = {}
    /\ inflight = {}
    /\ walletLock = [w \in Wallets |-> NoWorker]
    /\ pc = [w \in Workers |-> "idle"]
    /\ job = [w \in Workers |-> NoAttempt]
    /\ uncertain = [w \in Workers |-> FALSE]
    /\ steps = [w \in Workers |-> 0]
    /\ excluded = [w \in Workers |-> {}]
    /\ replans = [w \in Workers |-> 0]
    /\ sent = [w \in Workers |-> {}]

\* A row that an older release parked in planning with notes_reserved.
Parked(a) == state[a] = "planning" /\ errorCode[a] = "notes_reserved"

\* A new database, or one in which an older release parked rows.
Init ==
    /\ \E parked \in SUBSET ParkedAttempts :
          /\ state = [a \in Attempts |-> IF a \in parked THEN "planning" ELSE "none"]
          /\ request \in [Attempts -> Requests \cup {NoRequest}]
          /\ \A a \in Attempts : request[a] # NoRequest <=> a \in parked
          /\ \A a, b \in parked : a # b => request[a].key # request[b].key
          /\ changeAddress = [a \in Attempts |-> a \in parked]
          /\ errorCode = [a \in Attempts |->
                            IF a \in parked THEN "notes_reserved" ELSE "other"]
    /\ plan = [a \in Attempts |-> {}]
    /\ reservedBy = [n \in Notes |-> NoAttempt]
    /\ sealed = FALSE
    /\ lost = {}
    /\ VolatileInit
    /\ journal = [a \in Attempts |-> {}]
    /\ stray = [a \in Attempts |-> {}]
    /\ fate = [a \in Attempts |-> "open"]

-----------------------------------------------------------------------------
\* Requests.

\* A non-blocking send: a full channel drops the id.
enqueue(a) == queue' = IF Cardinality(queue) < QueueCap THEN queue \cup {a} ELSE queue

workerVars == <<walletLock, inflight, pc, job, uncertain, steps, excluded, replans, sent>>

\* Create with an unused key; the seal is checked before anything is claimed.
CreateClaims(a, r) ==
    /\ ~sealed
    /\ a \notin lost
    /\ ClaimAttempt(a, r)
    /\ enqueue(a)
    /\ UNCHANGED <<sealed, lost, workerVars, external>>

\* Create with a used key and the same digest answers from the row and
\* dispatches it again.  (Another digest is a conflict and changes nothing.)
CreateReplays(a, r) ==
    /\ ~sealed
    /\ a \in ClaimedFor(r)
    /\ request[a].digest = r.digest
    /\ recoverableState(state[a])
    /\ enqueue(a)
    /\ UNCHANGED <<tables, sealed, lost, workerVars, external>>

\* GET of an attempt whose expiry the node's tip has passed dispatches it.
AttemptGet(a) ==
    /\ state[a] \in {"signed", "broadcast", "orphaned"}
    /\ enqueue(a)
    /\ UNCHANGED <<tables, sealed, lost, workerVars, external>>

Cancel(a) ==
    /\ CancelAttempt(a)
    /\ UNCHANGED <<sealed, lost, volatile, external>>

\* One id of a recovery scan; which rows a scan finds due is left open.
ScheduleRecoverable(a) ==
    /\ ~sealed
    /\ recoverableState(state[a])
    /\ enqueue(a)
    /\ UNCHANGED <<tables, sealed, lost, workerVars, external>>

-----------------------------------------------------------------------------
\* Workers.

durable == <<sealed, lost>>

\* process returns: endAttempt, and the deferred unlock of planAttempt.
Finish(w) ==
    /\ pc' = [pc EXCEPT ![w] = "idle"]
    /\ job' = [job EXCEPT ![w] = NoAttempt]
    /\ inflight' = inflight \ {job[w]}
    /\ walletLock' = [x \in Wallets |-> IF walletLock[x] = w THEN NoWorker
                                        ELSE walletLock[x]]
    /\ uncertain' = [uncertain EXCEPT ![w] = FALSE]
    /\ steps' = [steps EXCEPT ![w] = 0]
    /\ excluded' = [excluded EXCEPT ![w] = {}]
    /\ replans' = [replans EXCEPT ![w] = 0]
    /\ sent' = [sent EXCEPT ![w] = {}]
    /\ UNCHANGED queue

\* The worker moves on inside its process loop.
Goto(w, label) == pc' = [pc EXCEPT ![w] = label]

\* Mutant: beginAttempt does not look at inflight.
DequeueTwice(w, a) ==
    /\ pc[w] = "idle"
    /\ a \in queue
    /\ queue' = queue \ {a}
    /\ IF sealed
       THEN UNCHANGED workerVars
       ELSE /\ inflight' = inflight \cup {a}
            /\ job' = [job EXCEPT ![w] = a]
            /\ steps' = [steps EXCEPT ![w] = MaxSteps]
            /\ Goto(w, "read")
            /\ UNCHANGED <<walletLock, uncertain, excluded, replans, sent>>
    /\ UNCHANGED <<tables, durable, external>>

\* worker: an id that is already in flight, or a sealed store, ends at once.
Dequeue(w, a) ==
    /\ pc[w] = "idle"
    /\ a \in queue
    /\ queue' = queue \ {a}
    /\ IF a \in inflight \/ sealed
       THEN UNCHANGED workerVars
       ELSE /\ inflight' = inflight \cup {a}
            /\ job' = [job EXCEPT ![w] = a]
            /\ steps' = [steps EXCEPT ![w] = MaxSteps]
            /\ Goto(w, "read")
            /\ UNCHANGED <<walletLock, uncertain, excluded, replans, sent>>
    /\ UNCHANGED <<tables, durable, external>>

\* process: read the row and branch on its state.
ReadRow(w) ==
    LET s == state[job[w]] IN
    /\ pc[w] = "read"
    /\ IF steps[w] = 0 \/ ~recoverableState(s)
       THEN Finish(w)
       ELSE /\ Goto(w, CASE s = "planning" -> "plan"
                         [] s \in SignStates -> "sign"
                         [] OTHER -> "reconcile")
            /\ uncertain' = [uncertain EXCEPT ![w] = s \in {"signing", "signing_unknown"}]
            /\ steps' = [steps EXCEPT ![w] = @ - 1]
            /\ UNCHANGED <<queue, inflight, walletLock, job, excluded, replans, sent>>
    /\ UNCHANGED <<tables, durable, external>>

\* The store or the context fails: the worker gives the attempt up as it is.
StoreError(w) ==
    /\ pc[w] # "idle"
    /\ Finish(w)
    /\ stray' = IF pc[w] = "call" THEN [stray EXCEPT ![job[w]] = @ \cup {sent[w]}] ELSE stray
    /\ UNCHANGED <<tables, durable, journal, fate>>

-----------------------------------------------------------------------------
\* planAttempt.

failUnsigned(w, code) ==
    /\ MarkAttemptState(job[w], "failed_unsigned", code, TRUE)
    /\ Finish(w)

recordPlanningError(w) ==
    /\ MarkAttemptState(job[w], "planning", "other", FALSE)
    /\ Finish(w)

\* The worker holds the wallet mutex and has read the row again.
PlanLocked(w) == pc[w] = "plan" /\ walletLock[Wallet(job[w])] = NoWorker

\* Mutant: a parked row is planned like any other.
PlanStartsParked(w) ==
    LET a == job[w] IN
    /\ PlanLocked(w)
    /\ state[a] = "planning"
    /\ walletLock' = [walletLock EXCEPT ![Wallet(a)] = w]
    /\ Goto(w, IF changeAddress[a] THEN "select" ELSE "address")
    /\ replans' = [replans EXCEPT ![w] = MaxReplans]
    /\ UNCHANGED <<tables, durable, external, queue, inflight, job, uncertain, steps,
                   excluded, sent>>

\* The row is still planning and its stored request is valid.
PlanStart(w) ==
    LET a == job[w] IN
    /\ PlanLocked(w)
    /\ state[a] = "planning"
    /\ errorCode[a] # "notes_reserved"
    /\ walletLock' = [walletLock EXCEPT ![Wallet(a)] = w]
    /\ Goto(w, IF changeAddress[a] THEN "select" ELSE "address")
    /\ replans' = [replans EXCEPT ![w] = MaxReplans]
    /\ UNCHANGED <<tables, durable, external, queue, inflight, job, uncertain, steps,
                   excluded, sent>>

\* The row left planning while the worker waited for the mutex.
PlanStale(w) ==
    /\ PlanLocked(w)
    /\ state[job[w]] # "planning"
    /\ Finish(w)
    /\ UNCHANGED <<tables, durable, external>>

\* A parked row, or a stored request this configuration does not accept.
PlanRefused(w) ==
    /\ PlanLocked(w)
    /\ state[job[w]] = "planning"
    /\ failUnsigned(w, errorCode[job[w]])
    /\ UNCHANGED <<durable, external>>

\* allocate, then SetAttemptChangeAddress.
AllocateChange(w) ==
    /\ pc[w] = "address"
    /\ IF CanSetChangeAddress(job[w])
       THEN /\ SetAttemptChangeAddress(job[w])
            /\ Goto(w, "select")
            /\ UNCHANGED <<queue, inflight, walletLock, job, uncertain, steps, excluded,
                           replans, sent>>
       ELSE Finish(w) /\ UNCHANGED tables
    /\ UNCHANGED <<durable, external>>

AllocateFails(w) ==
    /\ pc[w] = "address"
    /\ recordPlanningError(w)
    /\ UNCHANGED <<durable, external>>

\* Mutant: the replan loop has no bound.
ReadExclusionsForever(w) ==
    /\ pc[w] = "select"
    /\ excluded' = [excluded EXCEPT ![w] = ActiveNoteIDs(Wallet(job[w]))]
    /\ replans' = [replans EXCEPT ![w] = @ - 1]
    /\ Goto(w, "reserve")
    /\ UNCHANGED <<tables, queue, inflight, walletLock, job, uncertain, steps, sent>>
    /\ UNCHANGED <<durable, external>>

\* The head of the replan loop: read the reservations, then start the planner.
ReadExclusions(w) ==
    /\ pc[w] = "select"
    /\ IF replans[w] = 0
       THEN recordPlanningError(w)
       ELSE /\ excluded' = [excluded EXCEPT ![w] = ActiveNoteIDs(Wallet(job[w]))]
            /\ replans' = [replans EXCEPT ![w] = @ - 1]
            /\ Goto(w, "reserve")
            /\ UNCHANGED <<tables, queue, inflight, walletLock, job, uncertain, steps, sent>>
    /\ UNCHANGED <<durable, external>>

WalletNotes(x) == {n \in Notes : NoteWallet[n] = x}

\* The planner returned a plan and the store took it.
PlanReserves(w, notes) ==
    /\ pc[w] = "reserve"
    /\ notes \subseteq WalletNotes(Wallet(job[w]))
    /\ ReserveAttemptPlan(job[w], notes)
    /\ Goto(w, "read")
    /\ walletLock' = [walletLock EXCEPT ![Wallet(job[w])] = NoWorker]
    /\ excluded' = [excluded EXCEPT ![w] = {}]
    /\ replans' = [replans EXCEPT ![w] = 0]
    /\ UNCHANGED <<durable, external, queue, inflight, job, uncertain, steps, sent>>

\* A selected note is taken (the planner ignored an exclusion): plan again.
PlanRaced(w, notes) ==
    /\ pc[w] = "reserve"
    /\ state[job[w]] = "planning"
    /\ notes \subseteq WalletNotes(Wallet(job[w]))
    /\ ~NotesFree(notes)
    /\ Goto(w, "select")
    /\ UNCHANGED <<tables, durable, external, queue, inflight, walletLock, job, uncertain,
                   steps, excluded, replans, sent>>

\* The row was cancelled while the planner ran.
PlanConflicts(w) ==
    /\ pc[w] = "reserve"
    /\ state[job[w]] # "planning"
    /\ Finish(w)
    /\ UNCHANGED <<tables, durable, external>>

\* insufficient_balance with reservations in the way of a fundable request.
PlanNotesReserved(w) ==
    /\ pc[w] = "reserve"
    /\ excluded[w] # {}
    /\ failUnsigned(w, "notes_reserved")
    /\ UNCHANGED <<durable, external>>

PlanFails(w) ==
    /\ pc[w] = "reserve"
    /\ recordPlanningError(w) \/ failUnsigned(w, "other")
    /\ UNCHANGED <<durable, external>>

-----------------------------------------------------------------------------
\* signAttempt.

\* The stored request or plan fails validation before the signer is called.
SignInvalid(w) ==
    LET a == job[w] IN
    /\ pc[w] = "sign"
    /\ \/ MarkAttemptState(a, "signing_unknown", "other", FALSE)     \* the request
       \/ IF uncertain[w]                                            \* the plan
          THEN MarkAttemptState(a, "signing_unknown", "other", FALSE)
          ELSE MarkAttemptState(a, "failed_unsigned", "other", TRUE)
    /\ Finish(w)
    /\ UNCHANGED <<durable, external>>

BeginSigning(w) ==
    LET a == job[w] IN
    /\ pc[w] = "sign"
    /\ IF state[a] \in SignStates
       THEN /\ BeginAttemptSigning(a)
            /\ sent' = [sent EXCEPT ![w] = plan[a]]
            /\ Goto(w, "call")
            /\ UNCHANGED <<queue, inflight, walletLock, job, uncertain, steps, excluded,
                           replans>>
       ELSE Finish(w) /\ UNCHANGED tables
    /\ UNCHANGED <<durable, external>>

\* Mutant: the answer is not validated against the plan.
SignSucceedsUnvalidated(w) ==
    LET a == job[w] IN
    /\ pc[w] = "call"
    /\ CompleteAttemptSigning(a)
    /\ Goto(w, "read")
    /\ sent' = [sent EXCEPT ![w] = {}]
    /\ UNCHANGED <<durable, external, queue, inflight, walletLock, job, uncertain, steps,
                   excluded, replans>>

\* A valid signed transaction for the plan.
SignSucceeds(w) ==
    LET a == job[w] IN
    /\ pc[w] = "call"
    /\ journal[a] # {} /\ journal[a] = sent[w]
    /\ CompleteAttemptSigning(a)
    /\ Goto(w, "read")
    /\ sent' = [sent EXCEPT ![w] = {}]
    /\ UNCHANGED <<durable, external, queue, inflight, walletLock, job, uncertain, steps,
                   excluded, replans>>

\* Timeout, broken connection, journal trouble, HTTP 5xx or an output mapping
\* that does not fit: the call may still reach the signer.
SignOutcomeUnknown(w) ==
    /\ pc[w] = "call"
    /\ MarkAttemptState(job[w], "signing_unknown", "other", FALSE)
    /\ Finish(w)
    /\ stray' = [stray EXCEPT ![job[w]] = @ \cup {sent[w]}]
    /\ UNCHANGED <<durable, journal, fate>>

\* Mutant: an earlier uncertain call is forgotten.
DefiniteErrorForgets(w, retryable) ==
    /\ IF retryable
       THEN MarkAttemptState(job[w], "reserved", "other", FALSE)
       ELSE MarkAttemptState(job[w], "failed_unsigned", "other", TRUE)
    /\ Finish(w)

\* What the coordinator does with an error it takes for a definite answer.
DefiniteError(w, retryable) ==
    /\ IF uncertain[w]
       THEN MarkAttemptState(job[w], "signing_unknown", "other", FALSE)
       ELSE IF retryable
       THEN MarkAttemptState(job[w], "reserved", "other", FALSE)
       ELSE MarkAttemptState(job[w], "failed_unsigned", "other", TRUE)
    /\ Finish(w)

\* signer_busy, invalid_request, plan_not_allowed, other 4xx: this call signed
\* nothing (an earlier call of an uncertain attempt may have).
SignRefused(w, retryable) ==
    /\ pc[w] = "call"
    /\ uncertain[w] \/ journal[job[w]] = {}
    /\ DefiniteError(w, retryable)
    /\ UNCHANGED <<durable, external>>

\* An answer the client cannot use, whether or not the signer has signed, with
\* OutcomeUnknown false: a body above 8 MiB, invalid JSON or data that does not
\* match the plan is retryable (signer_invalid_response); a 200 whose status is
\* not ok is not.
SignMalformed(w) ==
    /\ pc[w] = "call"
    /\ \E retryable \in BOOLEAN : DefiniteError(w, retryable)
    /\ UNCHANGED <<durable, external>>

-----------------------------------------------------------------------------
\* reconcileAttempt, seen from outside: any tracking state, and a terminal one
\* that the chain's verdict justifies.

ReconcileTracks(w, s) ==
    /\ pc[w] = "reconcile"
    /\ s # state[job[w]]
    /\ MarkAttemptState(job[w], s, "other", FALSE)
    /\ UNCHANGED <<durable, volatile, external>>

ReconcileSettles(w) ==
    /\ pc[w] = "reconcile"
    /\ \/ fate[job[w]] = "final" /\ MarkAttemptState(job[w], "final", "other", TRUE)
       \/ fate[job[w]] = "dead" /\ MarkAttemptState(job[w], "released", "other", TRUE)
    /\ Finish(w)
    /\ UNCHANGED <<durable, external>>

ReconcileEnds(w) ==
    /\ pc[w] = "reconcile"
    /\ Finish(w)
    /\ UNCHANGED <<tables, durable, external>>

-----------------------------------------------------------------------------
\* The environment.

\* The calls for attempt a that a worker is waiting for.
AwaitedCalls(a) == {sent[w] : w \in {x \in Workers : pc[x] = "call" /\ job[x] = a}}

\* The signer signs a delivered call once per attempt id.
SignerSigns(a, notes) ==
    /\ notes \in stray[a] \cup AwaitedCalls(a)
    /\ journal[a] = {}
    /\ journal' = [journal EXCEPT ![a] = notes]
    /\ UNCHANGED <<tables, durable, volatile, stray, fate>>

\* A call nobody waits for is lost, or the signer turns it down.
CallVanishes(a, notes) ==
    /\ notes \in stray[a]
    /\ stray' = [stray EXCEPT ![a] = @ \ {notes}]
    /\ UNCHANGED <<tables, durable, volatile, journal, fate>>

\* The transaction is buried in the chain, or can never be mined any more.
ChainDecides(a, verdict) ==
    /\ journal[a] # {}
    /\ fate[a] = "open"
    /\ fate' = [fate EXCEPT ![a] = verdict]
    /\ UNCHANGED <<tables, durable, volatile, journal, stray>>

\* The process stops at any point and starts again.
VolatileReset ==
    /\ queue' = {}
    /\ inflight' = {}
    /\ walletLock' = [w \in Wallets |-> NoWorker]
    /\ pc' = [w \in Workers |-> "idle"]
    /\ job' = [w \in Workers |-> NoAttempt]
    /\ uncertain' = [w \in Workers |-> FALSE]
    /\ steps' = [w \in Workers |-> 0]
    /\ excluded' = [w \in Workers |-> {}]
    /\ replans' = [w \in Workers |-> 0]
    /\ sent' = [w \in Workers |-> {}]
    /\ stray' = [a \in Attempts |-> stray[a] \cup AwaitedCalls(a)]

Restart ==
    /\ VolatileReset
    /\ UNCHANGED <<tables, durable, journal, fate>>

\* The database is lost and rebuilt without its attempts; recovery seals it.
RecoverDatabase ==
    /\ VolatileReset
    /\ state' = [a \in Attempts |-> "none"]
    /\ request' = [a \in Attempts |-> NoRequest]
    /\ changeAddress' = [a \in Attempts |-> FALSE]
    /\ errorCode' = [a \in Attempts |-> "other"]
    /\ plan' = [a \in Attempts |-> {}]
    /\ reservedBy' = [n \in Notes |-> NoAttempt]
    /\ sealed' = TRUE
    /\ lost' = lost \cup {a \in Attempts : state[a] # "none"}
    /\ UNCHANGED <<journal, fate>>

\* Nothing can come of attempt a any more, as the operator's reconciliation
\* of the signer's journal with the chain establishes.
Reconciled(a) ==
    IF journal[a] = {} THEN stray[a] = {} ELSE fate[a] # "open"

\* recovery-unseal-coordinator, run while the gateway is stopped.
UnsealCoordinatorRecovery ==
    /\ sealed
    /\ \A a \in lost : Reconciled(a)
    /\ sealed' = FALSE
    /\ VolatileReset
    /\ UNCHANGED <<tables, lost, journal, fate>>

-----------------------------------------------------------------------------
Requesting ==
    \/ \E a \in Attempts, r \in Requests : CreateClaims(a, r) \/ CreateReplays(a, r)
    \/ \E a \in Attempts : AttemptGet(a) \/ Cancel(a) \/ ScheduleRecoverable(a)

Plans(w) ==
    \/ PlanStart(w) \/ PlanStale(w) \/ PlanRefused(w)
    \/ AllocateChange(w) \/ AllocateFails(w) \/ ReadExclusions(w)
    \/ \E notes \in SUBSET Notes : PlanReserves(w, notes) \/ PlanRaced(w, notes)
    \/ PlanConflicts(w) \/ PlanNotesReserved(w) \/ PlanFails(w)

Signs(w) ==
    \/ SignInvalid(w) \/ BeginSigning(w)
    \/ SignSucceeds(w) \/ SignOutcomeUnknown(w)
    \/ \E retryable \in BOOLEAN : SignRefused(w, retryable)

Reconciles(w) ==
    \/ \E s \in PostSigned \ {"signed"} : ReconcileTracks(w, s)
    \/ ReconcileSettles(w) \/ ReconcileEnds(w)

Works(w) ==
    \/ \E a \in Attempts : Dequeue(w, a)
    \/ ReadRow(w) \/ StoreError(w) \/ Plans(w) \/ Signs(w) \/ Reconciles(w)

Environment ==
    \/ \E a \in Attempts, notes \in SUBSET Notes :
          SignerSigns(a, notes) \/ CallVanishes(a, notes)
    \/ \E a \in Attempts, verdict \in {"final", "dead"} : ChainDecides(a, verdict)
    \/ Restart \/ RecoverDatabase \/ UnsealCoordinatorRecovery

Next == Requesting \/ (\E w \in Workers : Works(w)) \/ Environment

\* A signer whose answers are usable when it has signed.
Spec == Init /\ [][Next]_vars

\* A signer whose answers may also be unusable.
AnySignerNext == Next \/ \E w \in Workers : SignMalformed(w)
AnySignerSpec == Init /\ [][AnySignerNext]_vars

-----------------------------------------------------------------------------
\* Properties.

\* The notes a transaction of attempt a may yet spend: what is signed, and what
\* any outstanding call, awaited or not, may still get signed.
Committed(a) ==
    IF fate[a] # "open" THEN {}
    ELSE journal[a] \cup UNION (stray[a] \cup AwaitedCalls(a))

MaybeSigned(a) == journal[a] # {} \/ stray[a] # {}

\* No note is committed to two attempts: neither concurrent workers, a stale
\* list of exclusions, a late answer, a crash while signing nor a lost database
\* lets two signatures that can both confirm spend the same note.
NoConflictingSignatures ==
    \A a, b \in Attempts : a # b => Committed(a) \cap Committed(b) = {}

\* active_note_reservations and transaction_attempts agree: an attempt holds
\* exactly the notes of its plan from reservation until settlement, and none
\* before or after.
ReservationsMatchRows ==
    \A a \in Attempts : HeldBy(a) = IF state[a] \in Holding THEN plan[a] ELSE {}

\* planning, reserved, cancelled and failed_unsigned prove that nothing was
\* signed and that no call that could still be signed is outstanding: what
\* Cancel's "provably unsigned" and the release of the notes rely on.
UnsignedMeansUnsigned ==
    \A a \in Attempts : state[a] \in Unsigned \cup {"cancelled", "failed_unsigned"}
                          => ~MaybeSigned(a)

\* The public contract of the two unsigned terminal states: signing provably
\* did not begin.
UnsignedTerminal ==
    \A a \in Attempts : state[a] \in {"cancelled", "failed_unsigned"} => ~MaybeSigned(a)

\* A transaction signed for an attempt spends the stored plan of the attempt:
\* a replayed or late call never carries another plan.
SignedPlanIsStored ==
    \A a \in Attempts \ lost :
        /\ state[a] \in PostSigned => journal[a] # {}
        /\ journal[a] # {} => journal[a] = plan[a]

\* An attempt in a terminal state keeps it: a worker that read the row before
\* it was cancelled or settled cannot bring it back.
TerminalIsForever ==
    [][\A a \in Attempts : state[a] \in Terminal =>
          state'[a] = state[a] \/ a \in lost']_vars

\* Two workers never process the same attempt, whatever the queue holds: the
\* snapshot signAttempt decides on (uncertainBeforeCall) is its own.
ExclusiveDispatch ==
    \A v, w \in Workers : v # w /\ pc[v] # "idle" => job[v] # job[w]

\* A row parked by an older release can only fail or be cancelled, whatever
\* finds it: recovery scan, replayed create or a worker already waiting for the
\* wallet.  It is never planned and never loses its mark.
ParkedNeverResume ==
    [][\A a \in Attempts : Parked(a) =>
          Parked(a)' \/ state'[a] \in {"failed_unsigned", "cancelled"} \/ a \in lost']_vars

\* The note ledger the tables stand for.
phase ==
    [a \in Attempts |->
       IF a \in lost \/ state[a] \in Terminal THEN "closed"
       ELSE IF state[a] \in Holding THEN "holding" ELSE "open"]

Ledger == INSTANCE NoteLedger WITH Nobody <- NoAttempt, owner <- reservedBy, phase <- phase

\* The coordinator implements the note ledger: through races for notes, stale
\* plans, cancellations, crashes and lost databases, notes are taken all at once
\* from nobody, kept unchanged, and returned all at once.
LedgerIsKept == Ledger!Spec

\* An attempt as settlement sees it: signed, from before its signature on.
signedState(a) == IF state[a] \in PostSigned \cup {"final", "released"} THEN state[a] ELSE "signed"

Fate(a) == INSTANCE TransactionFate WITH state <- signedState(a), fate <- fate[a]

-----------------------------------------------------------------------------
\* The inductive invariants.

\* What a worker at a program point may rely on about the state of its row.
RowFits(w) ==
    LET s == state[job[w]] IN
    /\ pc[w] \in {"plan"} \cup Planning => s \in {"planning", "cancelled"}
    /\ pc[w] = "sign" => IF uncertain[w] THEN s \in {"signing", "signing_unknown"}
                                         ELSE s \in {"reserved", "cancelled"}
    /\ pc[w] = "call" => /\ s \in {"signing", "signing_unknown"}
                         /\ ~uncertain[w] => s = "signing"
    /\ pc[w] = "reconcile" => s \in PostSigned

\* A busy worker is registered for its attempt, whose row fits.
JobsInv ==
    \A w \in Workers : IF pc[w] = "idle" THEN job[w] = NoAttempt
                                         ELSE job[w] \in inflight /\ RowFits(w)

\* What holds whatever the signer answers.
StoreInv ==
    /\ TypeOK
    /\ JobsInv
    /\ ExclusiveDispatch
    /\ ReservationsMatchRows

\* A worker that plans has seen that its row is not parked.
ParkedInv == \A w \in Workers : pc[w] \in Planning => ~Parked(job[w])

\* A call in progress carries the stored plan, and a call that is the first of
\* its attempt has no rival.
CallsInv ==
    \A w \in Workers : pc[w] = "call" =>
        /\ sent[w] = plan[job[w]]
        /\ ~uncertain[w] => stray[job[w]] = {}

\* Signatures, and calls that may become signatures, are of rows that say so.
SignaturesInv ==
    \A a \in Attempts \ lost :
        /\ MaybeSigned(a) => state[a] \in {"signing", "signing_unknown", "final", "released"}
                                           \cup PostSigned
        /\ journal[a] # {} => journal[a] = plan[a]
        /\ \A notes \in stray[a] : notes = plan[a]
        /\ state[a] \in PostSigned => journal[a] # {}
        /\ state[a] \in {"final", "released"} => fate[a] # "open"

\* Rows lost with a database never come back.
LostGone == \A a \in lost : state[a] = "none"

\* And none is added before the operator has accounted for the lost ones.
LostInv ==
    /\ LostGone
    /\ sealed => \A a \in Attempts : state[a] = "none"
    /\ sealed \/ \A a \in lost : Reconciled(a)

\* The strengthening that makes NoConflictingSignatures inductive.
CoordinatorInv ==
    /\ StoreInv
    /\ CallsInv
    /\ SignaturesInv
    /\ LostInv
    /\ NoConflictingSignatures
=============================================================================
