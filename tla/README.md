# TLA+ specification of juno-exchange-gateway

The gateway stands between an exchange and three services it does not trust to
be fast, available or consistent with each other: a Juno node, a scanner that
indexes the wallets' notes, and an isolated signer. What can go wrong lies
between two calls: a process dies, a block is reorganised, a lease expires, a
caller cancels. These modules model the parts of the gateway that keep state
across such calls, and the pure algorithms whose edges are hard to test; TLC
checks them on small instances and TLAPS proves the safety properties of every
component for every value of the constants.

`PROJECT.json` maps every definition to the source lines it models and lists
the runs, the mutants each property is tested with, the hazards and the theorems.

## 1. The system

| Part | Source | State it keeps | Operations |
|---|---|---|---|
| Attempt store | `internal/storage/sqlite/attempts.go` | `transaction_attempts`, `active_note_reservations` | claim, set change address, reserve plan, begin and complete signing, mark state, cancel |
| Coordinator service | `internal/coordinator/service.go` | dispatch channel, in-flight set, wallet mutexes | create, get, cancel, recovery scan, workers: plan, sign, reconcile |
| Signer client | `internal/coordinator/signer.go` | none; the signer has a journal | sign |
| Planner | `internal/coordinator/planner.go`, `types.go` | none (runs juno-txbuild) | plan, validate |
| Note inventory, change split | `internal/coordinator/inventory.go` | none | page notes, choose change outputs |
| Settlement | `service.go`, `reconcileAttempt` and below | the attempt's row | look up, prove, transition |
| Broadcast receipts | `internal/api/api.go`, `sqlite.go` | `idempotency_receipts`, a heartbeat per request | claim, renew, complete, abandon |
| Address ledger, lifecycle | `internal/installation`, `internal/lifecycle`, `internal/storage/guarded` | manifest file, `addresses`, `gateway_metadata` | init, serve, allocate, recover, unseal |
| Wallet registry, readiness | `internal/api/registry.go`, `api.go` | `wallets` (progress mirror), registered set | boot, sync, backfill, check readiness |
| Deposit feed | `internal/api/api.go`, `cursor.go` | HMAC key; the position is in the caller's cursor | list deposits |
| Reads | balance, note summary, note statuses, wallet effects, transaction | none | before/after readiness checks |
| Edges | config, auth, rate limit, HTTP, node, scanner and addrgen clients, main | token buckets | parsing, refusing, formatting |

How they interact. Requests and the coordinator's workers share the SQLite
store; a store call is one transaction. The coordinator calls the planner, the
address allocator, the signer, the node and the scanner without holding any
store lock. Allocation of an address first rewrites the manifest, then the
database. The reconcile loop and readiness checks both write the progress
column. The deposit feed depends on a readiness check for the event epoch.
A rebuilt database is *sealed*: the coordinator creates nothing until an
operator has reconciled what was lost.

What is hard:
* the outcome of a signing call may be unknown, and a call nobody waits for may
  still be signed later;
* several workers, a bounded queue that drops ids, cancellation from outside;
* manifest and database cannot be written together;
* a lease can expire under a request that is merely slow;
* node and scanner answer from different moments of a chain that reorganises;
* the scanner may start over, and cursors then mean nothing;
* a read combines several answers, none of them locked against the next;
* sums and products of amounts, and times that arrive out of order.

What makes each part correct: no two signatures that can both confirm spend one
note; reservations exactly follow the rows; "unsigned" is a proof; terminal
states are for good; callers of an idempotency key hear one true answer, and no
claim of a key is held for good; no address is given out twice and none is forgotten; a settled
attempt is settled on the chain as well, and one that is not settled is taken up
again; "ready" means every wallet's history is there; no deposit is skipped; an
answer is of one state of the scanner; accepted amounts add up.

## 2. Modules

| Module | Models | Composition |
|---|---|---|
| `AttemptStates` | states and allowed transitions of an attempt | extended by `AttemptStore`, `TransactionFate`, `Settlement` |
| `AttemptStore` | the two tables, one operator per store transaction | extends `AttemptStates` |
| `Coordinator` | the service around the store, with crashes, database loss, signer and chain | extends `AttemptStore` |
| `NoteLedger` | abstract: who holds which note, and when | implemented by `Coordinator` |
| `RecoveryScheduler` | how attempts reach the workers: channel, recovery scan, in-flight set | discharges what `Coordinator` leaves open |
| `TransactionFate` | abstract: what settlement promises about one attempt | implemented by `Settlement`, and by `Coordinator` for each attempt |
| `Settlement` | `reconcileAttempt` against node and scanner | implements `TransactionFate` |
| `BroadcastReceipt` | `handleBroadcast`, `receiptLease`, receipts table | |
| `AddressLedger` | manifest, database, commands, allocation | |
| `WalletBackfill` | registry, reconcile loop, readiness check | |
| `DepositFeed` | `handleDeposits`, cursors, a polling exchange | |
| `ScannerReads` | balance, note summary, note statuses, transaction lookup with wallet effects | |
| `RateLimit`, `ChangeSplit`, `NoteArithmetic` | algorithms: token buckets, the widening loop, checks of amounts | extended by `MCAlgorithms` |
| `RecoverySchedulerProofs`, `SettlementProofs`, `BroadcastReceiptProofs`, `AddressLedgerProofs`, `WalletBackfillProofs`, `DepositFeedProofs` | theorems | extend the module named |
| `CoordinatorProofs` | theorems | extends `Coordinator` and `ChangeSplit`, a step of its planning |
| `ScannerReadsProofs` | theorems | extends `ScannerReads`, `NoteArithmetic`, which checks what is read, and `RateLimit`, which admits the request |
| `MC*` | values of constants for TLC | extend the module named |

`Coordinator` leaves the node and scanner out: its `ReconcileTracks`,
`ReconcileSettles` and `ChainDecides` say what reconciliation may do. `Settlement`
shows that the real `reconcileAttempt`, alone with its row, does no more, with
`fate` computed from the chain. `TransactionFate` is the interface between them:
`Settlement` implements it (`FateKept`), and so does `Coordinator` for each attempt
(`Fate(a)`, theorem `FateComposes`), so that neither the other handlers, a crash,
nor the signer's late answer moves a signed row behind the worker's back, which
`Settlement` takes for granted. An attempt whose row was lost with its database is
excepted: nobody tracks it any more.
`Coordinator` also lets any recoverable row be scheduled at any time, or never;
`RecoveryScheduler` shows that each one is, again and again. `ScannerReads` and
`DepositFeed` take the completeness of a readiness check from `WalletBackfill`.

There are three refinements. Besides `Fate(a)`, `Coordinator!LedgerIsKept` says that the service with
its workers, stale snapshots, crashes and lost tables implements `NoteLedger`
(`owner <- reservedBy`, and `phase` computed from the rows). `Settlement!FateIsKept`
says that `reconcileAttempt` implements `TransactionFate`.

### State and actions against the code

**AttemptStore.** `state`, `request`, `changeAddress`, `errorCode` and `plan`
are columns of `transaction_attempts`, `reservedBy` is
`active_note_reservations` (its primary key is the note). A request is a record
of key, digest and wallet; two requests with equal keys and different digests
conflict in `ClaimAttempt`. Each operator is one `BEGIN … COMMIT`.

**Coordinator.** A worker's program counter stops at every point where the code
releases control: after the dequeue, the row read, the mutex, the allocation of
the change address, the read of the exclusions, the plan, `BeginAttemptSigning`,
the signer's answer. `sent` and `uncertain` are the local variables of
`signAttempt` that outlive such a point. `stray` holds signer calls whose caller
has gone; `SignerSigns` may honour them at any later time. `Restart` may happen
anywhere. `RecoverDatabase` erases the tables and seals. In the initial state
any of `ParkedAttempts` may be a row that a release before v0.1.4 left in planning
with the code `notes_reserved`. `Spec` is the system with a signer whose answer is
usable when it has signed; `AnySignerSpec` adds `SignMalformed`, an answer the
client cannot use, and takes for a definite error of either kind, although the signer
may have signed.

**RecoveryScheduler.** A row is what the scheduler sees of it: settled, due, or
resting (`signing_unknown` for less than a minute). `Measure`, `Read` and one
`Send` per row are the steps of `scheduleRecoverable`, because workers and callers
use the channel meanwhile; `recoveryAfter` is the cursor that survives a scan.
What a worker does with a row is any outcome, including none for ever. `missed`
is history: how often the scan went round since it last looked at a row. The
database is not sealed; a sealed one has no rows.

**Settlement.** One attempt, one worker (`ExclusiveDispatch` says there is one).
`Lookup`, `ProofTip`, `ProofHealth`, `ProofStatuses` are the remote reads,
`Settle` is the final write; `known` is the worker's copy of the row. A chain is
its height and the height at which the transaction, or a rival spend of its
notes, was mined; a tip hash is that record. `NewTip(depth, c)` replaces the last
`depth` blocks. Heights never decrease. An attested scanner shows a spend in the
mempool as pending until the transaction expires; any status but the two a proof asks
for ends the proof, so a pending spend by somebody else delays a release and no more.

**BroadcastReceipt.** A handler's program counter stops at every store statement
and node call; its heartbeat is a separate action. Time is the age of a claim in
ticks up to `Lease`. A live goroutine renews in time, so the last tick of a lease
that is still renewed is counted as a fault (a stall). Some refusals depend on the
payload alone and come back at every retry: one that does not decode or whose
`expected_txid` differs (`Malformed`), and one that the node may refuse with an error
the client does not class as a rejection (`Unclear`: anything but -22, and -26 with
reject code 16). Their receipts are abandoned each time and the key stays bound to
the payload, open to the next retry; what is promised of them is that, and not an
answer. They are no faults, so nothing bounds them but `MaxClaims`.

**AddressLedger.** One step is one locked rewrite of the manifest or one database
transaction. Administrative commands interleave with each other and with the
server. Crashes, failed writes and a replaced database cost `MaxFaults`.

**WalletBackfill.** The loop and one readiness check keep what they read in
`loop` and `ready`; the scanner indexes, rolls back and may lose its data between
any two reads. A failed `UpsertWallet` may have taken effect. The scanner may have a
wallet id under another UFVK or with another birthday; whether it accepts the second
when asked again is left open. `RequireCompleteHistory` is taken to be on. `evidence` and
`forgotten` are history: an address was issued, and the database with it was lost.

**DepositFeed.** The event id is the place in the log. A serial stands for the
stable deposit identity that survives a new epoch. A cursor is the record its
HMAC protects; `key` counts database rebuilds. A page may be shorter than asked
for. A filter may name a transaction, and the scanner then returns that one's events
only (`Listed`); status and address are filtered by the gateway (`Matches`). `decode`
has three refusals. The exchange commits items and cursor together, starts over when a
reset is required, starts over or restores its filters after a mismatch, and keeps a
cursor that is called invalid: after a lost HMAC key its operator discards it
(`Discard`), as `website/docs/operations/recovery.md` prescribes.

**ScannerReads.** A request's program counter stops at every call to node or
scanner: tip, health, block hash and backfill statuses of a readiness check, the
read itself, each page of `walletEffects`, the node's transaction. A hash is the
chain up to the block. The scanner follows the node, restarts with or without its
data, and attests pending spends for its current epoch and view. `history` records
what was true when the handler read. Requests share no state, so one runs at a
time.

**RateLimit, ChangeSplit, NoteArithmetic.** Operators with the source's names inside
three small state machines. A call of `allow` brings the time it read before it
waited for the mutex, so times arrive out of order by up to `Skew`; `admitted` and
`latest` are history. A step of `ChangeSplit` is a plan or a turn of the loop in
`planAttempt`, and the planner selects any number of notes or fails. `answer` is
anything that decodes, or the summary that an honest scanner (external) makes note
by note. The reference is the property: the calls admitted between any two admitted
calls of a key; the notes the wallet has after the transaction; exact sums beside
the wrapped ones. `MCAlgorithms` runs the three side by side, one per behaviour,
because they share nothing.

## 3. Runs

| Run | Shows | Distinct states |
|---|---|---|
| `Coordinator` | no conflicting signatures, reservations match rows, unsigned is a proof, signed plan is the stored one, exclusive dispatch, terminal is for good, parked rows never resume, implements `NoteLedger` | 658 k |
| `CoordinatorMalformedSigner` | **violation**: an attempt that ends as unsigned and was signed | |
| `RecoveryScheduler` | no row is passed over twice; every unsettled row is dispatched again and again | 408 k |
| `BroadcastReceipt` | one true answer per key, one payload per key, completion is for good; claims settle or are open to a retry | 392 k |
| `AddressLedger` | no address twice, none forgotten; rebuilt databases are sealed; recovery completes | 311 k |
| `StaleBackup` | **violation**: a stale backup is served unsealed | |
| `LeakedIndex` | **violation**: serve asks for a recovery that refuses | |
| `Settlement` | final stays mined, released is never mined, implements `TransactionFate`, settles | 79 k |
| `WalletBackfill` | ready is complete, no silent reset; ready again, mirror converges | 365 k |
| `DepositFeed` | nothing is skipped, the exchange catches up | 319 k |
| `ScannerReads` | snapshots are of one ready state, effects are complete, terminal states are the latest | 3.3 M |
| `Algorithms` | rates are bounded, the split reaches its target, amounts are exact | 267 k |

`BroadcastReceipt`, `WalletBackfill`, `DepositFeed` and `ScannerReads` define a
`TypeOK` that documents the domains of their variables; their runs check the
properties above, and the proofs show `TypeOK` as a part of the invariant. Before
it was proved every inductive invariant was checked with TLC on the bounds of the
component's run.

### Bounds and why they are enough

* *Coordinator*: two attempts and two notes are the least in which a conflict
  exists; two workers, because every race is between two; `QueueCap = 1` so that
  ids are dropped; `MaxReplans = 1`; `MaxSteps = 3` as in the code. Two keys, one
  of them with two payloads; either attempt may be parked. There is no bound on
  crashes or database losses.
* *RecoveryScheduler*: three rows, a channel of two and pages of two, so that a
  page is full, short, or cut by the channel, and a row is behind it; two workers;
  one repeated request, crash or failed read.
* *BroadcastReceipt*: two handlers for a takeover, two keys and three payloads (a
  valid transaction, a malformed one, and one that the node rejects or refuses
  unclearly), `Lease = 2` so that a claim can be young, old and expired, one fault (a
  stall, a crash, a failed statement or call). `MaxClaims = 3` lets a payload that is
  refused at every retry be claimed twice and taken over; it bounds no other payload,
  and `ClaimsSettle` asks of each claim of such a payload that it ends. Deadlock is not
  checked: when every key has reached that bound, or no client asks, there is nothing
  left to do.
* *AddressLedger*: two indices so that an issued or skipped one and a fresh one
  coexist; two handlers, two administrators, three faults, one attempt to forget.
  The proofs cover all other values. The two violation runs need one index.
* *Settlement*: `MaxReorg = 1 < Confirmations = 2`; `Expiry = 1` and
  `MaxHeight = 4` leave a block above the release height 3. The proofs cover all
  other values.
* *WalletBackfill*: two wallets with different birthdays, `BatchSize = 1` so that
  a wallet takes several rounds and the order of `backfillOne` matters, one fault.
* *DepositFeed*: three streams (two wallets, and one of them with a filter that names
  a transaction and a status), deposits to known and unknown addresses, pages of up to two events and a limit
  of one, so that a page is cut, is short, or holds nothing for the caller.
  Requests share nothing but the key, so one at a time suffices; everything else
  moves between its steps.
* *ScannerReads*: two branches and two blocks, so that a view can be left and
  reached again; two epochs; pages of two events, a cap of two and a log of three,
  so that the cap falls on a page boundary and one event beyond it exists.
* *Algorithms*: two keys, a burst of one call that two ticks earn, calls that may be
  late by one tick on a clock of eight, so that a bucket is set back, is removed and
  comes again; the idle time is the least that `LimitAssumption` allows. Every planner
  for splits up to four. Integers of four bits (`MaxInt = 7`), so that sums and
  products of a few notes wrap; every wallet of up to four notes. The proofs cover
  all other values.

Symmetry is used only in runs without liveness properties, on sets whose members
the model never distinguishes.

### Assumptions about the environment

* The scanner fills a page of events unless the log ends (`ScannerReads` only):
  `walletEffects` takes a short page for the last one.
* A rebuilt scanner does not reach the node's tip within the deadline of one proof
  (`Settlement`).
* Repeated requests are finitely many (`RecoveryScheduler`): callers that keep the
  channel full at every tick keep the recovery scan from running.
* A bucket refills within the ten minutes after which it may be removed, less twice
  the wait for the mutex (`RateLimit`, `LimitAssumption`); the default limits satisfy
  this, the configuration does not require it. Once the wait does not do: a late call
  sets the bucket back, and a later one may remove it while the next caller is late
  as well. TLC shows a caller over its rate for `Skew = 2` under the weaker bound.
* A call waits for the limiter's mutex for less than `Skew`.
* The change-split policy combines a summary, the reservations and their statuses
  of three moments; `ChangeSplit` takes the counts as given. Splitting is best
  effort, so a stale count costs change notes and no guarantee.

### Fairness

| Specification | Assumed | Why |
|---|---|---|
| `BroadcastReceipt` | handler steps, time, the client of a key repeats its request | goroutines are scheduled and their calls have deadlines; the API tells callers to retry with the same key |
| `RecoveryScheduler` | the scan, workers that receive, workers that finish, the passing of a minute | the ticker fires, idle goroutines receive from the channel, every call of a worker has a deadline |
| `AddressLedger` | a started command proceeds; somebody runs recover again | commands are sequential; `serve` asks for it |
| `Settlement` | the worker, new blocks, scanning, attestation | the recovery scan dispatches every recoverable row; the others are what a working node and scanner do |
| `WalletBackfill` | boot, the loop, readiness checks, indexing, rollback and attestation; the sync round strongly | the loop ticks; sync has a timer of its own, so a round that does not sync never disables it for good |
| `DepositFeed` | a request's steps; every stream is polled (strongly); a cursor of a lost key is discarded | handlers are sequential; the exchange polls each stream whenever a request is free; the recovery procedure has the operator discard it |

Failures are bounded, and no action that is a failure is fair.

## 4. Proofs

All theorems are proved for arbitrary constants that satisfy the named
assumptions. Each component has one inductive invariant, a conjunction of the parts
named below; the theorem about a property follows from the theorem about the
invariant. Each proof has one step per action and one lemma per part that the
action can disturb.

**CoordinatorProofs.** `StoreInv` holds whatever the signer answers: types, each
busy worker is registered for its attempt and the row is in a state that fits
its program point (`JobsInv`, `RowFits`), dispatch is exclusive, reservations
match rows; it is proved for `AnySignerSpec`. `RowFits` is the strengthening:
without it a worker could reserve for a row that another transaction had settled.
`CoordinatorInv` adds, for `Spec`, whose signer's answer is usable when it has
signed, that a call in progress carries the stored plan and that a first call has
no rival (`CallsInv`), that whatever is or may still be signed belongs to a row
that says so (`SignaturesInv`), and that lost rows are accounted for before the
seal is lifted (`LostInv`). Then `NoConflictingSignatures` is inductive: two
attempts with signatures hold reservations of their plans, and a note has one
reservation. The assumption is necessary, as `CoordinatorMalformedSigner` shows.

Two results about steps rest on `StoreInv`, whatever the signer answers.
`ParkedStays` needs `ParkedInv`: a worker that has begun to plan has seen that
its row is not parked, and nobody else can park it. `LedgerKept` is the refinement
of `NoteLedger`. The one lemma at its centre, `LedgerEnds`, says that a row that
becomes terminal gives back its notes in the same step, as `Settle`, `Abandon` or
nothing, by the phase it was in; `LostGone` keeps a lost row from coming back
under its id. Every other write moves a row within its phase (`LedgerStays`),
except the reservation, and the loss of the database is `Forget`.

`FateComposes` is the refinement of `TransactionFate`, also whatever the signer
answers. `RowFits` is what it needs: a worker that is about to write a planning or
signing state has a row that is not yet signed, so only the two actions of
reconciliation write a signed one; creation finds a free row, and `[](a \notin lost)`
excludes the step that erases it.

`TargetReached`: `SplitInv` says that the policy is off or that of the wallet
(`PolicyInv`), and that each turn of the loop makes the split wider by at least one
but never too wide (`WiderInv`). A loop whose counter reaches the maximum has
therefore reached the maximum split, so the counter alone never ends it early.

**AddressLedgerProofs.** `LedgerInv`: a request owns an index nobody else has
(`RequestsInv`), issued indices lie below the mark and are not marked skipped
(`MarksInv`). The mark only grows, so an index is reserved once. `SealInv` gives
`RebuiltDatabaseIsSealed`, if no stale backup is restored; `StaleBackup` shows
why this is needed.

**SettlementProofs.** `SettlementInv`: the tip the worker read is a chain whose
facts below the deepest reorganisation still hold (`StillTrue`), the scanner it
asked was attested at that very tip (`ProofInv`), a final row has the fate
"final" and a released one "dead". The assumption is `MaxReorg < Confirmations`.
`FateKept` is the refinement of `TransactionFate`. A scanner rebuild is assumed
to take longer than the deadline of one proof, because `scannerProof` does not
compare event epochs.

**BroadcastReceiptProofs.** `ReceiptInv`: a request under way holds a claim of its
key with a generation not above the row's (`ClaimInv`), no two requests have the
same generation of a key (`FenceInv`), what a request is about to store follows
from what the node knew (`OutcomeInv`), nobody was answered before the row was
complete (`RowInv`). The generation is the fence: a holder whose lease expired still
runs, but its statements name a generation that a takeover has left behind.
`LeaseIsExclusive` says so in terms of the `WHERE` clause. The duration of the lease
is irrelevant to safety; `MaxFaults`, `MaxClaims`, the number of requests and the
sets of malformed and unclear payloads are arbitrary.

**RecoverySchedulerProofs.** `SchedulerInv`: a page that is read has room, and its
rows are in order (`PageInv`); a row that the last sweep missed is ahead of the
cursor and, while a page is sent, is in the page or comes after a full one
(`SweepInv`). The work is in what a page is: the first `limit` ids above the
cursor, so that an id outside it is above all of it if the page is full
(`RankIsOnto`, `FirstOfSet`, `PageOfRows`).

**WalletBackfillProofs.** `BackfillInv`: the wallets that a readiness check is past
are complete in the scanner still, unless the scanner lost data since the check
began (`CheckedInv`); where addresses were issued the scanner knows the wallets, so
`newWalletRegistry` stops at the first one after a loss of the rows (`KnownInv`).

**DepositFeedProofs.** `FeedInv`: a cursor is *honest* if everything at or before
its position in the current log was delivered to its stream. Cursors of the exchange
are honest (`CursorInv`), a request carries an honest one, and the cursor of an
answer is honest once the answer's items are taken (`RequestInv`). A new epoch makes
all older cursors honest at once, because they are refused. `FeedAssumption` asks
for at least one stream, one limit and one epoch; streams are pairs of a wallet and
a filter, as the handler reads them, and the scanner returns what a filter is for. `FeedAdvances` is the safety half of `CatchesUp`:
an answer's cursor stays where it was only if the scanner has no event behind it,
because a page of at least one event is not empty before the events end, and the
position taken from it is one of its own (`NextIsAhead`). `AnswersAdvance` was checked
with TLC on the run's constants with three events before it was proved.

**ScannerReadsProofs.** `ReadsInv`: the scanner that passed a readiness check has
every history as long as its epoch is the one checked (`SnapshotInv`, `StillReady`);
within that epoch the log begins with the effects collected and with what it held at
the check (`EffectsInv`); a transaction the node is without has been gone since its
latest event (`GoneInv`). `BalancesAddUp` and `SummariesAddUp` state, for integers of
any width, that what `ValidFor` accepts adds up as whole numbers.

`AmountsExact` adds the other direction: no summary of real notes is refused.
`AmountsInv` follows an honest summary note by note: its buckets are the total
(`TotalsInv`), the value of the spendable ones lies between the count times the
smallest and the count times the largest (`SpendableInv`), the known expiries lie
between the first and the last (`PendingInv`), and those below the minimum are worth
less than it each (`BelowInv`). From these follows that no test for an overflow
stops a summary whose total is an integer.

`RateBounded` rests on `LimitInv`. A bucket is below zero only as far as one late call
can set it back, and never at the latest time (`TokensInv`); the calls admitted since
any call, with the tokens left, have been paid for by a full bucket and the time up
to the bucket's (`PaidInv`). The delicate case is the removal: without a bucket the
calls must be paid for by the time up to the earliest call that may still come, and
that is where `LimitAssumption` is used.

**Only model-checked.**
* Liveness (`ClaimsSettle`, `RecoveryCompletes`, `Settled`, `ReadyAgain`,
  `MirrorConverges`, `CatchesUp`, `DispatchedAgain`): fairness and `ENABLED` are
  outside the prover.
* `AuditedRecoveryRuns` and `UnsignedTerminal` do not hold, and `NothingForgotten`
  only without stale backups (section 5).

## 5. Findings

1. **A malformed signer answer makes a signed attempt unsigned.**
   `signer.go:83,104,111,114` report an unusable 200 answer as a retryable error
   without `OutcomeUnknown`; `service.go:519` returns the attempt to `reserved`,
   where it can be cancelled and its notes reused. A 200 answer whose status is not
   `ok` (`signer.go:106`) is not even retryable, and `service.go:523` moves the
   attempt to `failed_unsigned` at once; the trace of the run is the second, shorter
   one. The documentation of both states says that signing provably did not begin.
2. **A leaked index stops the installation.** A crash between the manifest write
   and the row leaves a registry that `serve` refuses with "run audited recovery"
   and that `recover` refuses because the database is bound (`lifecycle.go:182`).
3. **A stale database does not always fail closed.** `OpenForServe` compares
   address indices only; a backup without the latest attempts is served.

## 6. What is not modelled

* Response formatting, the projection of event payloads, `NoteInventory` and other
  listings: they change no state and combine nothing a property is about.
* Authentication, configuration and HTTP decoding: stateless, or refusing only.
* DDL of migrations (their effect on old rows is in the initial states); checksums,
  file modes and fsync ordering inside one atomic rewrite; RPC encodings.
* Graceful shutdown of the servers: a process may stop at any point in every
  module that keeps state, which includes an orderly stop.
* A manifest and a database restored together from one old copy: nothing the
  gateway keeps can tell them from an honest state, as
  `website/docs/operations/recovery.md` says.
* A scanner that leaves a view and returns to it within one request is modelled,
  and `SnapshotIsReady` excepts it: height, hash and epoch are equal again, although
  pending spends may not have been attested at the moment of the read.
* `handleBalance` makes one readiness check, before the read; it is modelled, and
  no property is claimed of its answer.

## 7. Plan

Done, in this order: attempt store and coordinator with their proofs; broadcast
receipts; address ledger with its proofs; settlement with its refinement and
proofs; wallet backfill and readiness; deposit feed; the note ledger as an abstract
specification of the coordinator; the recovery scheduler; reads of the scanner;
the pure algorithms.

Then the proofs: coordinator, address ledger and settlement first; receipts,
scheduler, backfill, deposit feed, reads and amounts; the coordinator's
`ParkedNeverResume` and `LedgerIsKept`; last the three algorithms, restated as state
machines so that what they compute over many calls, turns and notes is an inductive
invariant, the composition of `Coordinator` and `Settlement`, and the progress of the
deposit feed's cursor. Every invariant, action property and refinement that a passing
run checks is now a theorem.

Left:
* `Settlement` and `Coordinator` in one state machine, with the chain in place of
  `fate`; the interface between them is proved from both sides.
