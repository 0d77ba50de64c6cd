----------------------------- MODULE ScannerReads -----------------------------
(***************************************************************************)
(* The reads that combine several answers of the scanner and the node      *)
(* (internal/api/api.go): handleNoteSummary and handleNoteStatuses between *)
(* two readiness checks, handleBalance after one, and handleTransaction    *)
(* with the pages of walletEffects and the terminal fallback.  No answer   *)
(* is locked against the next one: blocks arrive, the chain reorganises    *)
(* and the scanner restarts between any two of them.                       *)
(*                                                                         *)
(* A chain is the sequence of its blocks' branches and a hash is the chain *)
(* up to the block.  A scanner with an empty view has no indexed tip.      *)
(* Requests share no state, so one runs at a time and a behaviour has      *)
(* requests of one kind.  A lookup is for one wallet, without include_raw. *)
(*                                                                         *)
(* External: the node and the scanner.  Every start of the scanner rotates *)
(* the epoch, the log of an epoch only grows, a history that is complete   *)
(* stays so in its epoch, and pending spends are attested for the current  *)
(* epoch and view.  A page of events is short only at the end of the log.  *)
(***************************************************************************)
EXTENDS Integers, Sequences, SequencesExt

CONSTANTS
    MaxLag,     \* cfg.MaxScannerLag
    PageSize,   \* events in a page (1000 in the code)
    MaxEffects, \* cfg.WalletEffectsMaxEvents
    Expiry,     \* expiry_height of the transaction looked up
    MaxHeight,  \* bound on the chain
    MaxEvents,  \* bound on the log
    MaxEpochs   \* bound on starts of the scanner

ASSUME ReadsAssumption ==
    /\ {MaxLag, Expiry, MaxEvents} \subseteq Nat
    /\ {PageSize, MaxEffects, MaxHeight, MaxEpochs} \subseteq Nat \ {0}

Branches == {"main", "fork"}
Kinds == {"observed", "orphaned", "expired"}
Terminal == {"orphaned", "expired"}
Snapshots == {"summary", "statuses"}
Asks == Snapshots \cup {"balance", "transaction"}

VARIABLES
    chain,   \* the node's best chain
    tx,      \* the node has the transaction, in its mempool or mined
    scanner, \* view, epoch, complete, attested and the log of the transaction
    ask,     \* the endpoint
    request, \* the handler's progress
    history  \* what was true when the handler read

vars == <<chain, tx, scanner, ask, request, history>>

NotChecked == [tip |-> 0, view |-> <<>>, epoch |-> 0, lag |-> 0]

Idle == [pc |-> "idle", tip |-> 0, before |-> NotChecked, ready |-> NotChecked,
         snapshot |-> [view |-> <<>>, epoch |-> 0], effects |-> <<>>, state |-> ""]

\* "gone" is about the transaction: at some time since its latest event the node
\* was without it.  The rest is about the request.
Fresh(gone) == [log |-> <<>>, moved |-> FALSE, ready |-> FALSE, latest |-> "",
                gone |-> gone, absent |-> FALSE]

Init ==
    /\ chain = <<"main">>
    /\ tx = FALSE
    /\ scanner = [view |-> chain, epoch |-> 1, complete |-> TRUE, attested |-> TRUE,
                  log |-> <<>>]
    /\ ask \in Asks
    /\ request = Idle
    /\ history = Fresh(~tx)

world == <<chain, tx, scanner>>
Smaller(a, b) == IF a <= b THEN a ELSE b

-----------------------------------------------------------------------------
\* The node and the scanner.

\* A block is added, or replaces the tip.
Block(b) ==
    /\ \/ Len(chain) < MaxHeight /\ chain' = Append(chain, b)
       \/ Len(chain) > 1 /\ Last(chain) # b /\ chain' = Append(Front(chain), b)
    /\ UNCHANGED <<tx, scanner, ask, request, history>>

\* The scanner follows the node's chain by one block, forwards or back.
Index ==
    /\ scanner.view # chain
    /\ scanner' = [scanner EXCEPT
          !.view = IF IsPrefix(scanner.view, chain)
                   THEN SubSeq(chain, 1, Len(scanner.view) + 1) ELSE Front(scanner.view),
          !.attested = FALSE]
    /\ history' = [history EXCEPT !.moved = request.pc # "idle" /\ ask \in Snapshots]
    /\ UNCHANGED <<chain, tx, ask, request>>

Attest ==
    /\ ~scanner.attested
    /\ scanner' = [scanner EXCEPT !.attested = TRUE]
    /\ UNCHANGED <<chain, tx, ask, request, history>>

\* The wallets' backfills are complete.
Backfilled ==
    /\ ~scanner.complete
    /\ scanner' = [scanner EXCEPT !.complete = TRUE]
    /\ UNCHANGED <<chain, tx, ask, request, history>>

\* The scanner starts again, with its data or with none.
Restart ==
    /\ scanner.epoch < MaxEpochs
    /\ scanner' \in {[scanner EXCEPT !.epoch = @ + 1, !.attested = FALSE],
                     [view |-> <<>>, epoch |-> scanner.epoch + 1, complete |-> FALSE,
                      attested |-> FALSE, log |-> <<>>]}
    /\ history' = [history EXCEPT !.moved = request.pc # "idle" /\ ask \in Snapshots]
    /\ UNCHANGED <<chain, tx, ask, request>>

\* Events and the transaction itself matter to a lookup only.
Log(kind) ==
    /\ ask = "transaction"
    /\ Len(scanner.log) < MaxEvents
    /\ kind = "expired" => Len(scanner.view) > Expiry
    /\ scanner' = [scanner EXCEPT !.log = Append(@, kind)]
    /\ history' = [history EXCEPT !.gone = ~tx]
    /\ UNCHANGED <<chain, tx, ask, request>>

\* Broadcast, evicted, or left behind by a reorganisation.
TxMoves ==
    /\ ask = "transaction"
    /\ tx' = ~tx
    /\ history' = [history EXCEPT !.gone = history.gone \/ tx]
    /\ UNCHANGED <<chain, scanner, ask, request>>

-----------------------------------------------------------------------------
\* checkReady.

\* The request is over; nothing of it is kept.
Forget == request' = Idle /\ history' = Fresh(history.gone)

\* A failed check is answered with an error.
Refused == Forget

Start ==
    /\ request.pc = "idle"
    /\ request' = [request EXCEPT !.pc = "tip"]
    /\ UNCHANGED <<world, ask, history>>

ReadyTip ==
    /\ request.pc = "tip"
    /\ request' = [request EXCEPT !.pc = "health", !.tip = Len(chain)]
    /\ UNCHANGED <<world, ask, history>>

\* The scanner's lag is the one it derives from the node itself.
HealthIsReady(tip) ==
    /\ scanner.view # <<>> /\ Len(scanner.view) <= tip
    /\ scanner.attested /\ scanner.complete
    /\ tip - Len(scanner.view) <= MaxLag
    /\ tip - Len(scanner.view) = Len(chain) - Len(scanner.view)

ReadyHealth ==
    /\ request.pc = "health"
    /\ IF HealthIsReady(request.tip)
       THEN /\ request' = [request EXCEPT !.pc = "hash",
                  !.ready = [tip |-> request.tip, view |-> scanner.view,
                             epoch |-> scanner.epoch, lag |-> request.tip - Len(scanner.view)]]
            /\ history' = IF request.before = NotChecked
                          THEN [history EXCEPT !.log = scanner.log, !.moved = FALSE]
                          ELSE history
       ELSE Refused
    /\ UNCHANGED <<world, ask>>

ReadyHash ==
    /\ request.pc = "hash"
    /\ IF IsPrefix(request.ready.view, chain)
       THEN request' = [request EXCEPT !.pc = "wallets"] /\ UNCHANGED history
       ELSE Refused
    /\ UNCHANGED <<world, ask>>

\* Mutant: the epoch may have changed in between.
SameHeightAndHash(before, snapshot, after) ==
    /\ snapshot.view = before.view
    /\ after.view = before.view

\* handleNoteSummary: a summary does not name its epoch.
SummaryUnchanged(before, snapshot, after) ==
    /\ snapshot.view = before.view
    /\ after.view = before.view
    /\ after.epoch = before.epoch

\* handleNoteStatuses.
StatusesUnchanged(before, snapshot, after) ==
    /\ snapshot = [view |-> before.view, epoch |-> before.epoch]
    /\ after.view = before.view
    /\ after.epoch = before.epoch

SnapshotUnchanged ==
    IF ask = "summary" THEN SummaryUnchanged(request.before, request.snapshot, request.ready)
    ELSE StatusesUnchanged(request.before, request.snapshot, request.ready)

\* registry.completeThrough, and what the handler does with the result.
ReadyWallets ==
    /\ request.pc = "wallets"
    /\ IF /\ scanner.complete
          /\ request.before # NotChecked => SnapshotUnchanged
       THEN /\ request' = [request EXCEPT
                  !.before = request.ready,
                  !.pc = CASE request.before # NotChecked -> "done"
                           [] ask = "transaction" -> "node"
                           [] OTHER -> "read"]
            /\ UNCHANGED history
       ELSE Refused
    /\ UNCHANGED <<world, ask>>

-----------------------------------------------------------------------------
\* handleNoteSummary, handleNoteStatuses, handleBalance.

\* One answer of the scanner, then a second readiness check.
Reads(next) ==
    /\ request.pc = "read"
    /\ request' = [request EXCEPT !.pc = next,
                      !.snapshot = [view |-> scanner.view, epoch |-> scanner.epoch]]
    /\ history' = [history EXCEPT
          !.ready = scanner.complete /\ (scanner.attested \/ history.moved)]
    /\ UNCHANGED <<world, ask>>

ReadSummary == ask = "summary" /\ Reads("tip")

ReadStatuses == ask = "statuses" /\ Reads("tip")

\* A balance is answered without another check.
ReadBalance == ask = "balance" /\ Reads("done")

-----------------------------------------------------------------------------
\* handleTransaction.

\* readyNode: the node is asked again, and must be ready.
ReadyNode ==
    /\ request.pc = "node"
    /\ request' = [request EXCEPT !.pc = "page"]
    /\ UNCHANGED <<world, ask, history>>

\* Mutant: a page is taken whatever its epoch.
AnyPage == TRUE

PageIsCurrent == scanner.epoch = request.ready.epoch

\* One event more than the cap is asked for.
PageLimit(collected) == Smaller(PageSize, MaxEffects + 1 - collected)

\* One turn of walletEffects: a page of another epoch, one event too many, the
\* last page, or a full one.
WalletEffects ==
    LET collected == Len(request.effects)
        limit == PageLimit(collected)
        page == SubSeq(scanner.log, collected + 1, Smaller(Len(scanner.log), collected + limit))
        effects == request.effects \o page
    IN  /\ request.pc = "page"
        /\ IF ~PageIsCurrent THEN Refused
           ELSE IF Len(effects) > MaxEffects THEN
                request' = [Idle EXCEPT !.pc = "over"] /\ UNCHANGED history
           ELSE /\ request' = [request EXCEPT !.effects = effects,
                                  !.pc = IF Len(page) < limit THEN "lookup" ELSE "page"]
                /\ history' = [history EXCEPT
                      !.latest = IF Len(page) = limit \/ scanner.log = <<>>
                                 THEN "" ELSE Last(scanner.log)]
        /\ UNCHANGED <<world, ask>>

\* Mutant: any terminal event of the list decides.
AnyTerminalState(effects) ==
    IF \E i \in DOMAIN effects : effects[i] \in Terminal
    THEN CHOOSE s \in Terminal : \E i \in DOMAIN effects : effects[i] = s
    ELSE ""

\* terminalScannerTransaction: the latest lifecycle event, if it is terminal.
TerminalState(effects) ==
    IF effects # <<>> /\ Last(effects) \in Terminal THEN Last(effects) ELSE ""

\* The node's transaction, or the scanner's terminal state of one that the node
\* does not have; it cannot be expired before its expiry.
Lookup ==
    LET state == IF tx THEN "node" ELSE TerminalState(request.effects)
    IN  /\ request.pc = "lookup"
        /\ IF state = "" \/ (state = "expired" /\ request.ready.tip <= Expiry)
           THEN Refused
           ELSE /\ request' = [request EXCEPT !.pc = "done", !.state = state]
                /\ history' = [history EXCEPT !.absent = history.gone]
        /\ UNCHANGED <<world, ask>>

\* The node or the scanner does not answer, or not properly.
Unavailable ==
    /\ request.pc \notin {"idle", "done", "over"}
    /\ Refused
    /\ UNCHANGED <<world, ask>>

\* The answer is out.
Finish ==
    /\ request.pc \in {"done", "over"}
    /\ Forget
    /\ UNCHANGED <<world, ask>>

-----------------------------------------------------------------------------
Next ==
    \/ \E b \in Branches : Block(b)
    \/ \E kind \in Kinds : Log(kind)
    \/ Index \/ Attest \/ Backfilled \/ Restart \/ TxMoves
    \/ Start \/ ReadyTip \/ ReadyHealth \/ ReadyHash \/ ReadyWallets
    \/ ReadSummary \/ ReadStatuses \/ ReadBalance \/ ReadyNode \/ WalletEffects \/ Lookup
    \/ Unavailable \/ Finish

Spec == Init /\ [][Next]_vars

-----------------------------------------------------------------------------
\* Properties.

\* A summary or a status batch is of the view that was checked, and when it was
\* read the scanner had every wallet's history, and its pending spends
\* reconciled unless it had left that view and come back to it.
SnapshotIsReady ==
    request.pc = "done" /\ ask \in Snapshots =>
        request.snapshot = [view |-> request.before.view, epoch |-> request.before.epoch]
        /\ history.ready

\* The effects of a transaction are a gapless beginning of one epoch's log with
\* everything the log held when readiness was checked: never a part of it, and
\* never pages of two logs.
EffectsComplete ==
    request.pc \in {"lookup", "done"} /\ ask = "transaction" =>
        /\ IsPrefix(history.log, request.effects)
        /\ scanner.epoch = request.ready.epoch => IsPrefix(request.effects, scanner.log)

\* A transaction is reported orphaned or expired only if that was its latest
\* event when the events were read, and if the node was without it at some time
\* after that event.
TerminalIsLatest ==
    request.state \in Terminal => history.latest = request.state /\ history.absent

-----------------------------------------------------------------------------
\* The inductive invariant behind the properties.

Chains == Seq(Branches)
Checks == [tip : Nat, view : Chains, epoch : Nat, lag : Int]
Places == {"idle", "tip", "health", "hash", "wallets", "read", "node", "page", "lookup",
           "done", "over"}

\* The type invariant.
TypeOK ==
    /\ chain \in Chains
    /\ tx \in BOOLEAN
    /\ scanner \in [view : Chains, epoch : Nat \ {0}, complete : BOOLEAN, attested : BOOLEAN,
                    log : Seq(Kinds)]
    /\ ask \in Asks
    /\ request \in [pc : Places, tip : Nat, before : Checks, ready : Checks,
                    snapshot : [view : Chains, epoch : Nat], effects : Seq(Kinds),
                    state : {"", "node"} \cup Terminal]
    /\ history \in [log : Seq(Kinds), moved : BOOLEAN, ready : BOOLEAN,
                    latest : {""} \cup Kinds, gone : BOOLEAN, absent : BOOLEAN]

\* The handler's variables are empty until it comes to them, and it knows no
\* epoch that the scanner has not had.
ProgressInv ==
    /\ request.pc = "idle" => request = Idle
    /\ request.before = NotChecked \/ request.before.epoch # 0
    /\ request.ready.epoch <= scanner.epoch
    /\ request.snapshot.epoch <= scanner.epoch
    /\ request.pc \in {"hash", "wallets"} => request.ready.epoch # 0
    /\ request.pc # "done" => request.state = ""
    /\ request.pc \in {"node", "page", "lookup"} => ask = "transaction"

\* The scanner that passed the check has every history, and its pending spends
\* reconciled unless it moved.
StillReady ==
    scanner.epoch = request.ready.epoch =>
        scanner.complete /\ (scanner.attested \/ history.moved)

\* What a snapshot rests on: the check before it, and after it the epochs of the
\* two checks around it.
SnapshotInv ==
    ask \in Snapshots =>
        /\ request.pc \in {"hash", "wallets"} /\ request.before = NotChecked => StillReady
        /\ request.pc = "read" =>
              request.before = request.ready /\ request.before # NotChecked /\ StillReady
        /\ request.pc \in {"tip", "health", "hash", "wallets"} /\ request.before # NotChecked =>
              /\ request.before.epoch <= request.snapshot.epoch
              /\ request.snapshot.epoch = request.before.epoch => history.ready
        /\ request.pc \in {"hash", "wallets"} /\ request.before # NotChecked =>
              request.snapshot.epoch <= request.ready.epoch

\* What the effects rest on: within the epoch of the check the log still begins
\* with what was collected and with what it held then.
EffectsInv ==
    ask = "transaction" =>
        /\ request.pc \in {"tip", "health", "hash", "wallets"} => request.before = NotChecked
        /\ request.pc \in {"tip", "health", "hash", "wallets", "node"} => request.effects = <<>>
        /\ request.pc \in {"hash", "wallets", "node", "page"}
              /\ scanner.epoch = request.ready.epoch => IsPrefix(history.log, scanner.log)
        /\ request.pc = "page" =>
              /\ Len(request.effects) <= MaxEffects
              /\ scanner.epoch = request.ready.epoch => IsPrefix(request.effects, scanner.log)
        /\ request.pc = "lookup" /\ request.effects # <<>> =>
              history.latest = Last(request.effects)

\* A transaction that the node is without has been gone since its latest event.
GoneInv == tx \/ history.gone

ReadsInv ==
    /\ TypeOK /\ ProgressInv /\ SnapshotInv /\ EffectsInv /\ GoneInv
    /\ SnapshotIsReady /\ EffectsComplete /\ TerminalIsLatest
=============================================================================
