---------------------------- MODULE WalletBackfill ----------------------------
(***************************************************************************)
(* Wallet registration, backfill and readiness: newWalletRegistry, sync,   *)
(* backfillOne and completeThrough (internal/api/registry.go), the         *)
(* ReconcileWallets loop and checkReady (internal/api/api.go) against a    *)
(* scanner that indexes blocks, rolls back with the node's chain and may   *)
(* lose its data, and a gateway database that may be lost.                 *)
(*                                                                         *)
(* Every answer of the scanner or the node is a step: the loop and a       *)
(* readiness check run side by side and act on what they read earlier.     *)
(* The configured wallets are fixed: the installation manifest seals them. *)
(* A scanner height of 0 means that no block is indexed.                   *)
(*                                                                         *)
(* External: the node, the scanner and the operator.                       *)
(***************************************************************************)
EXTENDS Naturals

CONSTANTS
    N,          \* number of wallets; wallet ids are ordered like 1 .. N
    Birthday,   \* birthday_height of each wallet
    BatchSize,  \* cfg.BackfillBatchSize
    MaxLag,     \* cfg.MaxScannerLag
    MaxHeight,  \* bound on the chain
    MaxFaults   \* bound on failures, losses and reorganisations

Wallets == 1 .. N
Heights == 0 .. MaxHeight
NextHeights == 1 .. MaxHeight + 1

ASSUME BackfillAssumption ==
    /\ N \in Nat \ {0}
    /\ Birthday \in [Wallets -> 1 .. MaxHeight]
    /\ BatchSize \in Nat \ {0}
    /\ MaxLag \in Nat
    /\ MaxHeight \in Nat \ {0}
    /\ MaxFaults \in Nat

VARIABLES
    rows,       \* wallets table: the UFVK binding and next_backfill_height
    \* the process
    up,         \* "down", "boot" or "serving"
    at,         \* the wallet newWalletRegistry is at
    registered, \* wallets whose last UpsertWallet succeeded
    loop,       \* ReconcileWallets
    ready,      \* a checkReady
    \* external
    entry,      \* the scanner's wallets
    scanned,    \* the scanner's indexed height
    stale,      \* the scanner's indexed tip is off the node's chain
    attested,   \* ready, history_complete and pending_spends_ready
    tip,        \* the node's height
    faults,
    \* history
    evidence,   \* an address was issued, and the scanner has kept its data since
    forgotten   \* the database was lost with such addresses in it

process == <<up, at, registered>>
scanner == <<entry, scanned, stale, attested>>
history == <<evidence, forgotten>>
vars == <<rows, process, loop, ready, scanner, tip, faults, history>>

\* A foreign entry has another UFVK, a misdated one another birthday.
Statuses ==
    [state : {"absent", "pending", "complete", "foreign", "misdated"}, next : NextHeights]
NoStatus == [state |-> "absent", next |-> 1]
WalletRows == [binding : {"none", "legacy", "bound"}, next : NextHeights]
NoRow == [binding |-> "none", next |-> 1]

LoopStates ==
    [pc : {"wait", "sync", "health", "status", "mirror", "pick", "backfill", "store"},
     todo : SUBSET Wallets, at : 1 .. N + 1, height : Heights, status : [Wallets -> Statuses],
     pick : Wallets, next : NextHeights]

Requests ==
    [pc : {"idle", "health", "hash", "status", "mirror", "yes"},
     tip : Heights, height : Heights, todo : SUBSET Wallets,
     wallet : Wallets, status : Statuses, onChain : BOOLEAN, intact : BOOLEAN]

\* The type invariant.
TypeOK ==
    /\ rows \in [Wallets -> WalletRows]
    /\ up \in {"down", "boot", "serving"}
    /\ at \in 1 .. N + 1
    /\ registered \subseteq Wallets
    /\ loop \in LoopStates
    /\ ready \in Requests
    /\ entry \in [Wallets -> Statuses]
    /\ scanned \in Heights
    /\ stale \in BOOLEAN
    /\ attested \in BOOLEAN
    /\ tip \in Heights
    /\ faults \in 0 .. MaxFaults
    /\ evidence \in BOOLEAN
    /\ forgotten \in BOOLEAN

LoopAtRest ==
    [pc |-> "wait", todo |-> {}, at |-> 1, height |-> 0,
     status |-> [w \in Wallets |-> NoStatus], pick |-> 1, next |-> 1]

NoRequest ==
    [pc |-> "idle", tip |-> 0, height |-> 0, todo |-> {}, wallet |-> 1,
     status |-> NoStatus, onChain |-> FALSE, intact |-> FALSE]

\* A new installation, or rows of an older schema without the UFVK binding,
\* beside a scanner that is new, has the wallets, or has another's.
Init ==
    /\ \E b \in {"none", "legacy"} :
          rows = [w \in Wallets |->
                     [binding |-> b, next |-> IF b = "none" THEN 1 ELSE Birthday[w]]]
    /\ up = "down"
    /\ at = 1
    /\ registered = {}
    /\ loop = LoopAtRest
    /\ ready = NoRequest
    /\ \E s \in {"absent", "pending", "foreign", "misdated"} :
          entry = [w \in Wallets |->
                      [state |-> s, next |-> IF s = "absent" THEN 1 ELSE Birthday[w]]]
    /\ scanned = 0
    /\ stale = FALSE
    /\ attested = FALSE
    /\ tip = 1
    /\ faults = 0
    /\ evidence = FALSE
    /\ forgotten = FALSE

Fault == faults < MaxFaults /\ faults' = faults + 1

Smaller(a, b) == IF a <= b THEN a ELSE b

-----------------------------------------------------------------------------
\* newWalletRegistry.

Start ==
    /\ up = "down"
    /\ up' = "boot"
    /\ at' = 1
    /\ UNCHANGED <<rows, registered, loop, ready, scanner, tip, faults, history>>

\* Mutant: a missing row is taken for a new wallet, whatever the scanner has.
BootAcceptsTrusting(w) ==
    \/ rows[w].binding \in {"none", "bound"}
    \/ rows[w].binding = "legacy" /\ entry[w].state \in {"pending", "complete", "misdated"}

\* A wallet without a row is new to the scanner too, and a row without a
\* binding is bound to a UFVK the scanner knows already.
BootAccepts(w) ==
    \/ rows[w].binding = "none" /\ entry[w].state = "absent"
    \/ rows[w].binding = "legacy" /\ entry[w].state \in {"pending", "complete", "misdated"}
    \/ rows[w].binding = "bound"

EnsureWallet(w) ==
    rows' = [rows EXCEPT ![w] =
                [binding |-> "bound",
                 next |-> IF @.binding = "none" THEN Birthday[w] ELSE @.next]]

\* Nobody else registers wallets with the scanner, so its answer and the row
\* are one step.
BootWallet ==
    /\ up = "boot"
    /\ at <= N
    /\ \/ BootAccepts(at) /\ EnsureWallet(at) /\ at' = at + 1 /\ up' = up
       \/ ~BootAccepts(at) /\ up' = "down" /\ UNCHANGED <<rows, at>>
    /\ UNCHANGED <<registered, loop, ready, scanner, tip, faults, history>>

BootDone ==
    /\ up = "boot"
    /\ at = N + 1
    /\ up' = "serving"
    /\ UNCHANGED <<rows, at, registered, loop, ready, scanner, tip, faults, history>>

\* The process dies; the scanner being unavailable ends a boot the same way.
Stop ==
    /\ up # "down"
    /\ Fault
    /\ up' = "down"
    /\ registered' = {}
    /\ loop' = LoopAtRest
    /\ ready' = NoRequest
    /\ UNCHANGED <<rows, at, scanner, tip, history>>

-----------------------------------------------------------------------------
\* ReconcileWallets.

\* Every 30 seconds a round begins with sync, the others with the health call.
RoundWithSync ==
    /\ up = "serving"
    /\ loop.pc = "wait"
    /\ loop' = [loop EXCEPT !.pc = "sync", !.todo = Wallets]
    /\ UNCHANGED <<rows, process, ready, scanner, tip, faults, history>>

WithWallet(w) ==
    [entry EXCEPT ![w] =
        IF @.state = "absent" THEN [state |-> "pending", next |-> Birthday[w]] ELSE @]

\* The scanner refuses a wallet id it has under another UFVK, and may refuse one
\* it has with another birthday.
UpsertWallet(w) ==
    /\ \/ entry[w].state # "foreign" /\ registered' = registered \cup {w}
       \/ entry[w].state \in {"foreign", "misdated"} /\ registered' = registered \ {w}
    /\ entry' = WithWallet(w)
    /\ UNCHANGED faults

\* The call fails, or its answer is lost after the scanner did its part.
UpsertFails(w) ==
    /\ Fault
    /\ registered' = registered \ {w}
    /\ entry' \in {entry, WithWallet(w)}

\* The scanner has the wallet, with the configured UFVK and birthday.
Identified(w) == entry[w].state \in {"pending", "complete"}

\* sync: in any order, and one failure does not stop the others.
Sync ==
    /\ loop.pc = "sync"
    /\ \/ \E w \in loop.todo :
             /\ UpsertWallet(w) \/ UpsertFails(w)
             /\ loop' = [loop EXCEPT !.todo = @ \ {w}]
       \/ /\ loop.todo = {}
          /\ loop' = [loop EXCEPT !.pc = "health"]
          /\ UNCHANGED <<registered, entry, faults>>
    /\ UNCHANGED <<rows, up, at, ready, scanned, stale, attested, tip, history>>

LoopHealth ==
    /\ up = "serving"
    /\ loop.pc \in {"wait", "health"}
    /\ loop' = IF scanned = 0 THEN LoopAtRest
               ELSE [loop EXCEPT !.pc = "status", !.height = scanned]
    /\ UNCHANGED <<rows, process, ready, scanner, tip, faults, history>>

\* backfillOne asks for every wallet, in the order of their ids.
LoopStatus ==
    /\ loop.pc = "status"
    /\ loop' = IF Identified(loop.at)
               THEN [loop EXCEPT !.pc = "mirror", !.status[loop.at] = entry[loop.at]]
               ELSE LoopAtRest
    /\ UNCHANGED <<rows, process, ready, scanner, tip, faults, history>>

\* Mutant: progress that does not advance is refused, as by AdvanceBackfill.
SetAdvanceOnly(w, next) ==
    next > rows[w].next /\ rows' = [rows EXCEPT ![w].next = next]

SetBackfillProgress(w, next) ==
    next >= Birthday[w] /\ rows' = [rows EXCEPT ![w].next = next]

LoopMirror ==
    /\ loop.pc = "mirror"
    /\ SetBackfillProgress(loop.at, loop.status[loop.at].next)
    /\ loop' = [loop EXCEPT !.pc = IF loop.at = N THEN "pick" ELSE "status", !.at = @ + 1]
    /\ UNCHANGED <<process, ready, scanner, tip, faults, history>>

\* Mutant: a wallet that is past the scanned height is done, complete or not.
CandidateByHeight(w) == loop.status[w].next <= loop.height

Candidate(w) ==
    ~(loop.status[w].state = "complete" /\ loop.status[w].next > loop.height)

Remaining(w) ==
    IF loop.status[w].next <= loop.height THEN loop.height - loop.status[w].next + 1 ELSE 1

\* The most behind, and among equals the first.
Selected(w) ==
    /\ Candidate(w)
    /\ \A v \in Wallets : Candidate(v) =>
          \/ Remaining(w) > Remaining(v)
          \/ Remaining(w) = Remaining(v) /\ w <= v

Pick ==
    /\ loop.pc = "pick"
    /\ \/ \E w \in Wallets : Selected(w) /\ loop' = [loop EXCEPT !.pc = "backfill", !.pick = w]
       \/ (\A w \in Wallets : ~Candidate(w)) /\ loop' = LoopAtRest
    /\ UNCHANGED <<rows, process, ready, scanner, tip, faults, history>>

\* The scanner indexes at least one height of the batch, if its own chain has
\* one, and calls the wallet complete when it has reached the target.
BackfillTo(w, to, batch, next) ==
    LET from == entry[w].next
        end == 1 + Smaller(to, scanned)
    IN  /\ Identified(w)
        /\ IF from >= end THEN next = from ELSE next \in from + 1 .. Smaller(from + batch, end)
        /\ entry' = [entry EXCEPT ![w] =
                        [state |-> IF next > to THEN "complete" ELSE @.state, next |-> next]]

\* The answer is checked against the target and the status read before.
AnswerUsable(w, to, next) ==
    /\ next <= to + 1
    /\ loop.status[w].next <= to => next > loop.status[w].next

Backfill ==
    LET w == loop.pick
        to == loop.height
        batch == Smaller(BatchSize, Remaining(w))
    IN  /\ loop.pc = "backfill"
        /\ \/ \E next \in NextHeights :
                 /\ BackfillTo(w, to, batch, next)
                 /\ \/ /\ AnswerUsable(w, to, next)
                       /\ loop' = [loop EXCEPT !.pc = "store", !.next = next]
                       /\ UNCHANGED faults
                    \/ ~AnswerUsable(w, to, next) /\ loop' = LoopAtRest /\ UNCHANGED faults
                    \/ Fault /\ loop' = LoopAtRest
           \/ /\ ~Identified(w)
              /\ loop' = LoopAtRest
              /\ UNCHANGED <<entry, faults>>
        /\ UNCHANGED <<rows, process, ready, scanned, stale, attested, tip, history>>

StoreNext ==
    /\ loop.pc = "store"
    /\ SetBackfillProgress(loop.pick, loop.next)
    /\ loop' = LoopAtRest
    /\ UNCHANGED <<process, ready, scanner, tip, faults, history>>

\* A call of the loop, or the store, fails.
LoopFails ==
    /\ loop.pc \notin {"wait", "sync"}
    /\ Fault
    /\ loop' = LoopAtRest
    /\ UNCHANGED <<rows, process, ready, scanner, tip, history>>

-----------------------------------------------------------------------------
\* checkReady.

ReadyTip ==
    /\ up = "serving"
    /\ ready.pc = "idle"
    /\ ready' = [ready EXCEPT !.pc = "health", !.tip = tip]
    /\ UNCHANGED <<rows, process, loop, scanner, tip, faults, history>>

\* An indexed tip no higher than the node's, attested, and a lag that both
\* sides agree on and that is within bounds.
HealthAgrees ==
    /\ scanned # 0
    /\ scanned <= ready.tip
    /\ attested
    /\ ready.tip - scanned <= MaxLag
    /\ tip = ready.tip

ReadyHealth ==
    /\ ready.pc = "health"
    /\ ready' = IF HealthAgrees
                THEN [ready EXCEPT !.pc = "hash", !.height = scanned,
                                   !.onChain = ~stale, !.intact = TRUE]
                ELSE NoRequest
    /\ UNCHANGED <<rows, process, loop, scanner, tip, faults, history>>

\* The node has the scanner's tip; then completeThrough, which begins with
\* the registrations.
ReadyHash ==
    /\ ready.pc = "hash"
    /\ ready' = IF ready.onChain /\ registered = Wallets
                THEN [ready EXCEPT !.pc = "status", !.todo = Wallets]
                ELSE NoRequest
    /\ UNCHANGED <<rows, process, loop, scanner, tip, faults, history>>

\* One wallet after the other, in any order.
ReadyStatus(w) ==
    /\ ready.pc = "status"
    /\ w \in ready.todo
    /\ ready' = IF Identified(w)
                THEN [ready EXCEPT !.pc = "mirror", !.wallet = w, !.status = entry[w]]
                ELSE NoRequest
    /\ UNCHANGED <<rows, process, loop, scanner, tip, faults, history>>

\* Mutant: one block short.
CompleteThroughAlmost(status, height) == status.state = "complete" /\ status.next >= height

CompleteThrough(status, height) == status.state = "complete" /\ status.next > height

ReadyMirror ==
    /\ ready.pc = "mirror"
    /\ SetBackfillProgress(ready.wallet, ready.status.next)
    /\ ready' = IF ~CompleteThrough(ready.status, ready.height) THEN NoRequest
                ELSE [ready EXCEPT !.pc = IF ready.todo = {ready.wallet} THEN "yes"
                                          ELSE "status",
                                   !.todo = @ \ {ready.wallet}, !.wallet = 1,
                                   !.status = NoStatus]
    /\ UNCHANGED <<process, loop, scanner, tip, faults, history>>

\* The caller goes on, and may issue an address.
Proceed(issues) ==
    /\ ready.pc = "yes"
    /\ ready' = NoRequest
    /\ evidence' = (evidence \/ (issues /\ ready.intact))
    /\ UNCHANGED <<rows, process, loop, scanner, tip, faults, forgotten>>

ReadyFails ==
    /\ ready.pc \notin {"idle", "yes"}
    /\ Fault
    /\ ready' = NoRequest
    /\ UNCHANGED <<rows, process, loop, scanner, tip, history>>

-----------------------------------------------------------------------------
\* The node, the scanner and the operator.

NewBlock ==
    /\ tip < MaxHeight
    /\ tip' = tip + 1
    /\ UNCHANGED <<rows, process, loop, ready, scanner, faults, history>>

\* The blocks from the scanner's tip on are replaced.
Reorg ==
    /\ scanned # 0
    /\ Fault
    /\ stale' = TRUE
    /\ ready' = [ready EXCEPT !.onChain = FALSE]
    /\ UNCHANGED <<rows, process, loop, entry, scanned, attested, tip, history>>

\* A complete wallet may follow a new block at once, or be left behind.
Index ==
    /\ ~stale
    /\ scanned < tip
    /\ scanned' = scanned + 1
    /\ \E follow \in SUBSET {w \in Wallets : entry[w].state = "complete"} :
          entry' = [w \in Wallets |->
                      IF w \in follow /\ entry[w].next = scanned + 1
                      THEN [entry[w] EXCEPT !.next = scanned + 2] ELSE entry[w]]
    /\ UNCHANGED <<rows, process, loop, ready, stale, attested, tip, faults, history>>

Rollback ==
    /\ stale
    /\ stale' = FALSE
    /\ scanned' = scanned - 1
    /\ entry' = [w \in Wallets |->
                   [entry[w] EXCEPT !.next =
                      IF @ > scanned /\ @ > Birthday[w] THEN @ - 1 ELSE @]]
    /\ ready' = [ready EXCEPT !.intact = FALSE]
    /\ UNCHANGED <<rows, process, loop, attested, tip, faults, history>>

Attest ==
    /\ attested' = TRUE
    /\ UNCHANGED <<rows, process, loop, ready, entry, scanned, stale, tip, faults, history>>

\* The scanner starts over from an empty database.
WipeScanner ==
    /\ Fault
    /\ entry' = [w \in Wallets |-> NoStatus]
    /\ scanned' = 0
    /\ stale' = FALSE
    /\ attested' = FALSE
    /\ evidence' = FALSE
    /\ forgotten' = FALSE
    /\ ready' = [ready EXCEPT !.intact = FALSE]
    /\ UNCHANGED <<rows, process, loop, tip>>

\* The gateway is down, its state is lost and set up anew.
LoseDatabase ==
    /\ Fault
    /\ up' = "down"
    /\ registered' = {}
    /\ loop' = LoopAtRest
    /\ ready' = NoRequest
    /\ rows' = [w \in Wallets |-> NoRow]
    /\ evidence' = FALSE
    /\ forgotten' = (forgotten \/ evidence)
    /\ UNCHANGED <<at, scanner, tip>>

-----------------------------------------------------------------------------
Boots == Start \/ BootWallet \/ BootDone

Loops ==
    \/ RoundWithSync \/ Sync \/ LoopHealth \/ LoopStatus \/ LoopMirror
    \/ Pick \/ Backfill \/ StoreNext

Checks ==
    \/ ReadyTip \/ ReadyHealth \/ ReadyHash \/ ReadyMirror
    \/ \E w \in Wallets : ReadyStatus(w)
    \/ \E issues \in BOOLEAN : Proceed(issues)

Next ==
    \/ Boots \/ Stop
    \/ Loops \/ LoopFails
    \/ Checks \/ ReadyFails
    \/ NewBlock \/ Reorg \/ Index \/ Rollback \/ Attest \/ WipeScanner \/ LoseDatabase

Spec == Init /\ [][Next]_vars

\* The process, its loop and the timer of sync run, somebody asks, and the
\* scanner follows the node.
Fairness ==
    /\ WF_vars(Boots) /\ WF_vars(Loops) /\ SF_vars(RoundWithSync) /\ WF_vars(Checks)
    /\ WF_vars(Index) /\ WF_vars(Rollback) /\ WF_vars(Attest)

FairSpec == Spec /\ Fairness

-----------------------------------------------------------------------------
\* Properties.

\* A positive readiness check means that the scanner has every wallet's
\* history through the height it reports, unless it has lost blocks or data
\* since the check began.
ReadyIsComplete ==
    ready.pc = "yes" /\ ready.intact =>
        \A w \in Wallets : entry[w].state = "complete" /\ entry[w].next > ready.height

\* A gateway that has lost its database does not come up beside a scanner that
\* still knows the wallets it issued addresses for.
NoSilentReset == up = "serving" => ~forgotten

\* Nothing in the databases keeps newWalletRegistry from coming up, and the
\* scanner has no wallet id under another UFVK or birthday.
Startable ==
    \A w \in Wallets : BootAccepts(w) /\ entry[w].state \notin {"foreign", "misdated"}

\* Readiness is reached, and reached again after every failure.
ReadyAgain == <>[]Startable => []<>(ready.pc = "yes")

\* The progress in the wallets table is the scanner's in the end, though the
\* loop and readiness checks overwrite each other's.
MirrorConverges ==
    <>[]Startable => <>[](\A w \in Wallets : rows[w].next = entry[w].next)

-----------------------------------------------------------------------------
\* The inductive invariant behind the safety properties.

\* The scanner is never ahead of the node, and only an indexed tip goes stale.
ScanInv == scanned <= tip /\ (stale => scanned # 0)

\* The loop asks for the statuses in the order of the wallet ids.
LoopInv ==
    /\ loop.pc \in {"wait", "sync", "health"} => loop.at = 1
    /\ loop.pc \in {"status", "mirror"} => loop.at <= N

\* The wallets a readiness check is past are complete in the scanner still,
\* and the one it is at has not lost what its status says.
CheckedInv ==
    /\ ready.pc \in {"status", "mirror", "yes"} /\ ready.intact =>
          \A w \in Wallets \ ready.todo : CompleteThrough(entry[w], ready.height)
    /\ ready.pc = "mirror" /\ ready.intact /\ ready.status.state = "complete" =>
          /\ entry[ready.wallet].state = "complete"
          /\ entry[ready.wallet].next >= ready.status.next
    /\ ready.pc = "yes" => ready.todo = {}

\* Where addresses were issued the scanner knows the wallets, and as long as it
\* does newWalletRegistry stops at the first wallet after a loss of the rows.
KnownInv ==
    /\ evidence \/ forgotten => \A w \in Wallets : entry[w].state # "absent"
    /\ forgotten => /\ up # "serving"
                    /\ up = "boot" => at = 1
                    /\ rows[1].binding = "none"

BackfillInv == TypeOK /\ ScanInv /\ LoopInv /\ CheckedInv /\ KnownInv
=============================================================================
