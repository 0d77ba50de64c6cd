-------------------------- MODULE BroadcastReceipt --------------------------
(***************************************************************************)
(* POST /v1/transactions/broadcast: handleBroadcast and receiptLease       *)
(* (internal/api/api.go) over the idempotency_receipts table               *)
(* (internal/storage/sqlite/sqlite.go).  A request claims the receipt of   *)
(* its key under a lease that a heartbeat renews, submits the transaction  *)
(* to the node and stores the answer; a claim that outlives its lease is   *)
(* taken over, and the generation of the claim fences the old holder off.  *)
(*                                                                         *)
(* A step is one store statement, one node call or one wake-up of the      *)
(* heartbeat goroutine.  Time is the age of a claim, capped at the lease:  *)
(* ClaimReceipt only asks whether updated_at is a lease ago.  The node is  *)
(* external: what it knows of a transaction, and submissions whose caller  *)
(* has gone.                                                               *)
(***************************************************************************)
EXTENDS Naturals, FiniteSets

CONSTANTS
    Handlers,   \* request goroutines
    Keys,       \* idempotency keys, scoped by principal
    Txs,        \* signed transactions: the payload a key is bound to
    Valid,      \* the transactions consensus accepts
    Malformed,  \* payloads that do not decode, or whose expected_txid differs
    Unclear,    \* payloads the node may refuse, every time they are submitted,
                \* with an error the client does not class as a rejection
    NoTx, NoKey,
    Lease,      \* cfg.IdempotencyLease in ticks
    MaxFaults,  \* bound on crashes, failed calls and stalls in a behaviour
    MaxClaims   \* bound on the generation at which a payload that is refused at
                \* every retry is claimed again

ASSUME ReceiptAssumption ==
    /\ Valid \subseteq Txs /\ Malformed \subseteq Txs /\ Unclear \subseteq Txs
    /\ NoTx \notin Txs
    /\ NoKey \notin Keys
    /\ Lease \in Nat \ {0}
    /\ MaxFaults \in Nat /\ MaxClaims \in Nat

VARIABLES
    \* idempotency_receipts, a column per variable
    rstate,      \* "absent", "processing" or "complete"
    digest,      \* the payload
    generation,  \* claim_generation
    age,         \* now - updated_at, capped at Lease
    response,    \* the stored answer
    \* request goroutines
    pc, key, tx, gen,
    heartbeat,   \* "off", "on", or "lost" after a renewal failed
    outcome,     \* the answer about to be stored, or the error of Broadcast
    \* history
    told,        \* answers callers of a key received
    acceptances, \* how often a caller of a key was told accepted: true
    submitted,   \* transactions submitted under a key
    faults,
    \* external: the node
    node,        \* what the node knows of a transaction
    seen,        \* transactions that were in the mempool or the chain at some time
    stray        \* submissions that may still arrive

receipts == <<rstate, digest, generation, age, response>>
locals   == <<pc, key, tx, gen, heartbeat, outcome>>
history  == <<told, acceptances, submitted>>
external == <<node, seen, stray>>
vars     == <<receipts, locals, history, faults, external>>

Answers == {"accepted", "known", "rejected"}
PCs == {"idle", "check", "lookup", "send", "relookup", "finish", "store", "leave", "abandon"}

\* The type invariant.
TypeOK ==
    /\ rstate \in [Keys -> {"absent", "processing", "complete"}]
    /\ digest \in [Keys -> Txs \cup {NoTx}]
    /\ generation \in [Keys -> Nat]
    /\ age \in [Keys -> 0 .. Lease]
    /\ response \in [Keys -> Answers \cup {"none"}]
    /\ pc \in [Handlers -> PCs]
    /\ key \in [Handlers -> Keys \cup {NoKey}]
    /\ tx \in [Handlers -> Txs \cup {NoTx}]
    /\ gen \in [Handlers -> Nat]
    /\ heartbeat \in [Handlers -> {"off", "on", "lost"}]
    /\ outcome \in [Handlers -> Answers \cup {"none", "uncertain"}]
    /\ told \in [Keys -> SUBSET Answers]
    /\ acceptances \in [Keys -> Nat]
    /\ submitted \in [Keys -> SUBSET Txs]
    /\ faults \in 0 .. MaxFaults
    /\ node \in [Txs -> {"unknown", "mempool", "confirmed", "orphaned"}]
    /\ seen \subseteq Txs
    /\ stray \subseteq Txs

Init ==
    /\ rstate = [k \in Keys |-> "absent"]
    /\ digest = [k \in Keys |-> NoTx]
    /\ generation = [k \in Keys |-> 0]
    /\ age = [k \in Keys |-> 0]
    /\ response = [k \in Keys |-> "none"]
    /\ pc = [h \in Handlers |-> "idle"]
    /\ key = [h \in Handlers |-> NoKey]
    /\ tx = [h \in Handlers |-> NoTx]
    /\ gen = [h \in Handlers |-> 0]
    /\ heartbeat = [h \in Handlers |-> "off"]
    /\ outcome = [h \in Handlers |-> "none"]
    /\ told = [k \in Keys |-> {}]
    /\ acceptances = [k \in Keys |-> 0]
    /\ submitted = [k \in Keys |-> {}]
    /\ faults = 0
    /\ node = [t \in Txs |-> "unknown"]
    /\ seen = {}
    /\ stray = {}

-----------------------------------------------------------------------------
\* The store.

\* Mutant: an expired claim is taken over for another payload.
ClaimableByAnyPayload(k, t) ==
    \/ rstate[k] = "absent"
    \/ rstate[k] = "processing" /\ age[k] >= Lease

\* ClaimReceipt acquires a new key, or the same payload's claim once its lease
\* is over; every claim has a generation of its own.
Claimable(k, t) ==
    \/ rstate[k] = "absent"
    \/ rstate[k] = "processing" /\ digest[k] = t /\ age[k] >= Lease

ClaimReceipt(k, t) ==
    /\ Claimable(k, t)
    /\ rstate' = [rstate EXCEPT ![k] = "processing"]
    /\ digest' = [digest EXCEPT ![k] = t]
    /\ generation' = [generation EXCEPT ![k] = @ + 1]
    /\ age' = [age EXCEPT ![k] = 0]
    /\ UNCHANGED response

\* Mutant: the clause has neither the state nor the generation.
OwnedByDigest(h) == digest[key[h]] = tx[h]

\* The WHERE clause of renewal, completion and abandonment.
Owned(h) ==
    LET k == key[h] IN
    rstate[k] = "processing" /\ digest[k] = tx[h] /\ generation[k] = gen[h]

\* The stamp is the ticker's, which may be older than the statement.
RenewReceipt(h) ==
    /\ Owned(h)
    /\ \E d \in 0 .. age[key[h]] : age' = [age EXCEPT ![key[h]] = d]
    /\ UNCHANGED <<rstate, digest, generation, response>>

CompleteReceipt(h) ==
    /\ Owned(h)
    /\ rstate' = [rstate EXCEPT ![key[h]] = "complete"]
    /\ response' = [response EXCEPT ![key[h]] = outcome[h]]
    /\ age' = [age EXCEPT ![key[h]] = 0]
    /\ UNCHANGED <<digest, generation>>

\* The claim becomes reclaimable at once.
AbandonReceipt(h) ==
    /\ Owned(h)
    /\ generation' = [generation EXCEPT ![key[h]] = @ + 1]
    /\ age' = [age EXCEPT ![key[h]] = Lease]
    /\ UNCHANGED <<rstate, digest, response>>

-----------------------------------------------------------------------------
\* Request goroutines.

Fault == faults < MaxFaults /\ faults' = faults + 1

Goto(h, label) ==
    /\ pc' = [pc EXCEPT ![h] = label]
    /\ UNCHANGED <<key, tx, gen, heartbeat, outcome>>

Decide(h, label, o) ==
    /\ pc' = [pc EXCEPT ![h] = label]
    /\ outcome' = [outcome EXCEPT ![h] = o]
    /\ UNCHANGED <<key, tx, gen, heartbeat>>

Return(h) ==
    /\ pc' = [pc EXCEPT ![h] = "idle"]
    /\ key' = [key EXCEPT ![h] = NoKey]
    /\ tx' = [tx EXCEPT ![h] = NoTx]
    /\ gen' = [gen EXCEPT ![h] = 0]
    /\ heartbeat' = [heartbeat EXCEPT ![h] = "off"]
    /\ outcome' = [outcome EXCEPT ![h] = "none"]

\* A request that acquires the claim starts its heartbeat.  (One that finds
\* another payload or a running lease is refused and changes nothing.)
Acquire(h, k, t) ==
    /\ pc[h] = "idle"
    /\ t \in Malformed \cup Unclear => generation[k] < MaxClaims
    /\ ClaimReceipt(k, t)
    /\ pc' = [pc EXCEPT ![h] = "check"]
    /\ key' = [key EXCEPT ![h] = k]
    /\ tx' = [tx EXCEPT ![h] = t]
    /\ gen' = [gen EXCEPT ![h] = generation'[k]]
    /\ heartbeat' = [heartbeat EXCEPT ![h] = "on"]
    /\ UNCHANGED <<outcome, history, faults, external>>

\* A completed receipt answers every later request; accepted becomes false.
Replay(k, t) ==
    /\ rstate[k] = "complete"
    /\ digest[k] = t
    /\ told' = [told EXCEPT ![k] = @ \cup
                   {IF response[k] = "rejected" THEN "rejected" ELSE "known"}]
    /\ UNCHANGED <<receipts, locals, acceptances, submitted, faults, external>>

\* readyNode, DecodeRawTransaction and the comparison with expected_txid: a
\* malformed payload is refused at every retry, the node may fail for any.
Check(h) ==
    /\ pc[h] = "check"
    /\ \/ tx[h] \notin Malformed /\ Goto(h, "lookup") /\ UNCHANGED faults
       \/ tx[h] \in Malformed /\ Goto(h, "leave") /\ UNCHANGED faults
       \/ Goto(h, "leave") /\ Fault
    /\ UNCHANGED <<receipts, history, external>>

broadcastAlreadyKnown(t) == node[t] \in {"mempool", "confirmed"}

\* The lookup before the submission; a failed lookup goes on to submit.
Lookup(h) ==
    /\ pc[h] = "lookup"
    /\ \/ broadcastAlreadyKnown(tx[h]) /\ Decide(h, "finish", "known")
       \/ Goto(h, "send")
    /\ UNCHANGED <<receipts, history, faults, external>>

Submits(h) ==
    /\ pc[h] = "send"
    /\ submitted' = [submitted EXCEPT ![key[h]] = @ \cup {tx[h]}]
    /\ UNCHANGED <<receipts, told, acceptances>>

\* The node's answer: accepted; already known; rejected (-22, or -26 with
\* reject code 16); or a refusal of another kind, which is no definite answer
\* and may come back at every retry.
Broadcast(h) ==
    /\ Submits(h)
    /\ \/ /\ tx[h] \in Valid /\ node[tx[h]] # "confirmed"
          /\ node' = [node EXCEPT ![tx[h]] = "mempool"]
          /\ seen' = seen \cup {tx[h]}
          /\ Decide(h, "finish", "accepted")
       \/ /\ broadcastAlreadyKnown(tx[h])
          /\ Decide(h, "relookup", "known")
          /\ UNCHANGED <<node, seen>>
       \/ /\ tx[h] \notin Valid
          /\ Decide(h, "relookup", "rejected")
          /\ UNCHANGED <<node, seen>>
       \/ /\ tx[h] \in Unclear
          /\ Decide(h, "relookup", "uncertain")
          /\ UNCHANGED <<node, seen>>
    /\ UNCHANGED <<stray, faults>>

\* The call fails, or answers another txid: the node may have the transaction,
\* or get it later.
BroadcastUncertain(h) ==
    /\ Submits(h)
    /\ Decide(h, "relookup", "uncertain") \/ Goto(h, "leave")
    /\ stray' = stray \cup {tx[h]}
    /\ Fault
    /\ UNCHANGED <<node, seen>>

\* Mutant: an uncertain submission counts as rejected.
RelookupRejects(h) ==
    /\ pc[h] = "relookup"
    /\ \/ broadcastAlreadyKnown(tx[h]) /\ Decide(h, "finish", "known")
       \/ Decide(h, "finish", "rejected")
    /\ UNCHANGED <<receipts, history, faults, external>>

\* Mutant: after an uncertain submission the lookup is repeated until it finds
\* the transaction.
RelookupInsists(h) ==
    /\ pc[h] = "relookup"
    /\ \/ broadcastAlreadyKnown(tx[h]) /\ Decide(h, "finish", "known")
       \/ outcome[h] # "uncertain" /\ Goto(h, "finish")
    /\ UNCHANGED <<receipts, history, faults, external>>

\* The lookup after a failed submission; only what it finds outweighs the error.
Relookup(h) ==
    /\ pc[h] = "relookup"
    /\ \/ broadcastAlreadyKnown(tx[h]) /\ Decide(h, "finish", "known")
       \/ outcome[h] = "uncertain" /\ Goto(h, "leave")
       \/ outcome[h] # "uncertain" /\ Goto(h, "finish")
    /\ UNCHANGED <<receipts, history, faults, external>>

\* lease.stop: the heartbeat ends; when it had failed, the claim is left alone.
StopLease(h) ==
    /\ pc[h] \in {"finish", "leave"}
    /\ IF heartbeat[h] = "lost"
       THEN Return(h)
       ELSE /\ heartbeat' = [heartbeat EXCEPT ![h] = "off"]
            /\ pc' = [pc EXCEPT ![h] = IF @ = "finish" THEN "store" ELSE "abandon"]
            /\ UNCHANGED <<key, tx, gen, outcome>>
    /\ UNCHANGED <<receipts, history, faults, external>>

\* Mutant: the caller is answered whether or not the receipt was stored.
CompleteTellsAnyway(h) ==
    /\ pc[h] = "store"
    /\ Return(h)
    /\ told' = [told EXCEPT ![key[h]] = @ \cup {outcome[h]}]
    /\ acceptances' = [acceptances EXCEPT ![key[h]] =
                          IF outcome[h] = "accepted" THEN @ + 1 ELSE @]
    /\ IF Owned(h) THEN CompleteReceipt(h) ELSE UNCHANGED receipts
    /\ UNCHANGED <<submitted, faults, external>>

\* lease.Complete: the caller is told only what was stored.
Complete(h) ==
    /\ pc[h] = "store"
    /\ Return(h)
    /\ IF Owned(h)
       THEN /\ CompleteReceipt(h)
            /\ told' = [told EXCEPT ![key[h]] = @ \cup {outcome[h]}]
            /\ acceptances' = [acceptances EXCEPT ![key[h]] =
                                  IF outcome[h] = "accepted" THEN @ + 1 ELSE @]
       ELSE UNCHANGED <<receipts, told, acceptances>>
    /\ UNCHANGED <<submitted, faults, external>>

\* The statement fails, or its success is not reported; the claim is abandoned
\* if that works.  The caller is told internal.
CompleteFails(h) ==
    /\ pc[h] = "store"
    /\ Return(h)
    /\ CompleteReceipt(h) \/ AbandonReceipt(h) \/ UNCHANGED receipts
    /\ Fault
    /\ UNCHANGED <<history, external>>

\* lease.Abandon, deferred.
Abandon(h) ==
    /\ pc[h] = "abandon"
    /\ Return(h)
    /\ \/ AbandonReceipt(h) /\ UNCHANGED faults
       \/ ~Owned(h) /\ UNCHANGED <<receipts, faults>>
       \/ Fault /\ UNCHANGED receipts
    /\ UNCHANGED <<history, external>>

-----------------------------------------------------------------------------
\* The heartbeat goroutine of a lease.
LoseHeartbeat(h) ==
    /\ heartbeat' = [heartbeat EXCEPT ![h] = "lost"]
    /\ UNCHANGED <<receipts, pc, key, tx, gen, outcome>>

Heartbeat(h) ==
    /\ heartbeat[h] = "on"
    /\ IF Owned(h) THEN RenewReceipt(h) /\ UNCHANGED locals ELSE LoseHeartbeat(h)
    /\ UNCHANGED <<history, faults, external>>

\* The store fails, or the client disconnects.
HeartbeatFails(h) ==
    /\ heartbeat[h] = "on"
    /\ LoseHeartbeat(h)
    /\ Fault
    /\ UNCHANGED <<history, external>>

\* A goroutine that is alive renews every third of the lease: letting the lease
\* of its claim run out is a stall.
Stalls(h) ==
    /\ pc[h] # "idle"
    /\ heartbeat[h] # "lost"
    /\ Owned(h)
    /\ age[key[h]] + 1 = Lease

Tick ==
    /\ \E k \in Keys : rstate[k] = "processing" /\ age[k] < Lease
    /\ age' = [k \in Keys |-> IF rstate[k] = "processing" /\ age[k] < Lease
                              THEN age[k] + 1 ELSE age[k]]
    /\ IF \E h \in Handlers : Stalls(h) THEN Fault ELSE UNCHANGED faults
    /\ UNCHANGED <<rstate, digest, generation, response, locals, history, external>>

\* The process stops; a submission under way may have left it.
Crash ==
    /\ pc' = [h \in Handlers |-> "idle"]
    /\ key' = [h \in Handlers |-> NoKey]
    /\ tx' = [h \in Handlers |-> NoTx]
    /\ gen' = [h \in Handlers |-> 0]
    /\ heartbeat' = [h \in Handlers |-> "off"]
    /\ outcome' = [h \in Handlers |-> "none"]
    /\ stray' = stray \cup {tx[h] : h \in {g \in Handlers : pc[g] = "send"}}
    /\ Fault
    /\ UNCHANGED <<receipts, history, node, seen>>

-----------------------------------------------------------------------------
\* The node.

\* A submission whose caller has gone arrives, or is lost.
Arrives(t) ==
    /\ t \in stray
    /\ stray' = stray \ {t}
    /\ \/ UNCHANGED <<node, seen>>
       \/ /\ t \in Valid /\ node[t] # "confirmed"
          /\ node' = [node EXCEPT ![t] = "mempool"]
          /\ seen' = seen \cup {t}
    /\ UNCHANGED <<receipts, locals, history, faults>>

\* Blocks are mined and orphaned; the mempool forgets.
NodeMoves(t, s) ==
    /\ <<node[t], s>> \in {<<"mempool", "confirmed">>, <<"confirmed", "orphaned">>,
                           <<"orphaned", "mempool">>, <<"orphaned", "unknown">>,
                           <<"mempool", "unknown">>}
    /\ node' = [node EXCEPT ![t] = s]
    /\ UNCHANGED <<receipts, locals, history, faults, seen, stray>>

-----------------------------------------------------------------------------
Handles(h) ==
    \/ Check(h) \/ Lookup(h) \/ Broadcast(h) \/ BroadcastUncertain(h) \/ Relookup(h)
    \/ StopLease(h) \/ Complete(h) \/ CompleteFails(h) \/ Abandon(h)

Next ==
    \/ \E h \in Handlers, k \in Keys, t \in Txs : Acquire(h, k, t)
    \/ \E k \in Keys, t \in Txs : Replay(k, t)
    \/ \E h \in Handlers : Handles(h) \/ Heartbeat(h) \/ HeartbeatFails(h)
    \/ Tick
    \/ Crash
    \/ \E t \in Txs : Arrives(t)
    \/ \E t \in Txs, s \in {"unknown", "mempool", "confirmed", "orphaned"} : NodeMoves(t, s)

Spec == Init /\ [][Next]_vars

\* Goroutines run, time passes, and the client of a key repeats its request.
Fairness ==
    /\ \A h \in Handlers : WF_vars(Handles(h))
    /\ WF_vars(Tick)
    /\ \A k \in Keys : WF_vars(\E h \in Handlers : Acquire(h, k, digest[k]))

FairSpec == Spec /\ Fairness

-----------------------------------------------------------------------------
\* Properties.

\* What any caller of a key was told is the answer the receipt stores: a holder
\* whose lease was taken over, a failed statement or a crash never lets two
\* callers hear different things.
ToldIsStored ==
    \A k \in Keys : told[k] # {} =>
        /\ rstate[k] = "complete"
        /\ told[k] \subseteq IF response[k] = "rejected" THEN {"rejected"}
                                                         ELSE {"accepted", "known"}

\* One caller of a key at most is told that its submission was accepted.
AcceptedOnce == \A k \in Keys : acceptances[k] <= 1

\* A stored answer is true of the node: accepted and already known transactions
\* reached it, and only invalid ones are rejected.
AnswersAreTrue ==
    \A k \in Keys : rstate[k] = "complete" =>
        IF response[k] = "rejected" THEN digest[k] \notin Valid ELSE digest[k] \in seen

\* Whoever holds the claim, and however often it changes hands, one transaction
\* at most is submitted under a key.
KeyBindsPayload == \A k \in Keys : Cardinality(submitted[k]) <= 1

\* A completed receipt never changes, whatever late holders still do.
CompleteIsForever ==
    [][\A k \in Keys : rstate[k] = "complete" =>
          /\ rstate'[k] = "complete"
          /\ response'[k] = response[k] /\ digest'[k] = digest[k]]_vars

\* No claim is held for good: neither a crash, a stalled holder nor a lost answer
\* wedges a key.  A payload the node answers definitely is settled for the client
\* that repeats it; any other is settled, or open to the next retry again.
ClaimsSettle ==
    \A k \in Keys : rstate[k] = "processing" ~>
        \/ rstate[k] = "complete"
        \/ digest[k] \in Malformed \cup Unclear /\ Claimable(k, digest[k])

-----------------------------------------------------------------------------
\* The inductive invariant behind the properties.

\* A request under way holds a claim of its key: the row exists and has its
\* payload, and the generation it was given is not above the row's.
ClaimInv ==
    \A h \in Handlers :
        /\ heartbeat[h] = "on" => pc[h] # "idle"
        /\ pc[h] # "idle" =>
              /\ key[h] \in Keys /\ tx[h] \in Txs
              /\ rstate[key[h]] # "absent" /\ digest[key[h]] = tx[h]
              /\ gen[h] <= generation[key[h]]

\* Generations are never handed out twice.
FenceInv ==
    \A h, g \in Handlers :
        pc[h] # "idle" /\ pc[g] # "idle" /\ key[h] = key[g] /\ gen[h] = gen[g] => h = g

\* What the request is about to store follows from what the node knew.
OutcomeInv ==
    \A h \in Handlers : pc[h] \in {"relookup", "finish", "store"} =>
        /\ outcome[h] \in IF pc[h] = "relookup" THEN Answers \cup {"uncertain"} ELSE Answers
        /\ outcome[h] \in {"accepted", "known"} => tx[h] \in seen
        /\ outcome[h] = "rejected" => tx[h] \notin Valid

\* Nobody was answered before the row was complete, and what was submitted
\* under the key is the row's payload.
RowInv ==
    \A k \in Keys :
        /\ rstate[k] # "complete" => told[k] = {} /\ acceptances[k] = 0
        /\ submitted[k] \subseteq IF rstate[k] = "absent" THEN {} ELSE {digest[k]}

\* The node has only what reached it.
NodeInv == \A t \in Txs : node[t] # "unknown" => t \in seen

ReceiptInv ==
    /\ TypeOK /\ ClaimInv /\ FenceInv /\ OutcomeInv /\ RowInv /\ NodeInv
    /\ ToldIsStored /\ AcceptedOnce /\ AnswersAreTrue

\* The lease is exclusive: two requests never both pass the WHERE clause of a key.
OneHolder ==
    \A h, g \in Handlers :
        /\ pc[h] # "idle" /\ pc[g] # "idle" /\ key[h] = key[g]
        /\ Owned(h) /\ Owned(g)
        => h = g
=============================================================================
