------------------------ MODULE BroadcastReceiptProofs ------------------------
(***************************************************************************)
(* The idempotency receipts keep their promises for every number of        *)
(* request goroutines, keys and transactions, every lease and every number *)
(* of faults.                                                              *)
(***************************************************************************)
EXTENDS BroadcastReceipt, FiniteSetTheorems, TLAPS

\* The fault counter stays in its range.
LEMMA FaultsTyped ==
    ASSUME TypeOK, Fault \/ UNCHANGED faults
    PROVE  faults' \in 0 .. MaxFaults
  BY ReceiptAssumption DEF TypeOK, Fault

\* A step that leaves the rows and the answers alone leaves the invariant's
\* claims about them alone.
LEMMA RowsKept ==
    ASSUME ReceiptInv, UNCHANGED <<rstate, digest, response, history>>, seen \subseteq seen'
    PROVE  RowInv' /\ ToldIsStored' /\ AcceptedOnce' /\ AnswersAreTrue'
<1> USE DEF ReceiptInv, history
<1>1. RowInv'
  BY DEF RowInv
<1>2. ToldIsStored' /\ AcceptedOnce'
  BY DEF ToldIsStored, AcceptedOnce
<1>3. AnswersAreTrue'
  BY DEF AnswersAreTrue
<1> QED
  BY <1>1, <1>2, <1>3

\* A request that returns, or all of them at a crash, takes nothing with it
\* that the others rely on.
LEMMA ReturnKeeps ==
    ASSUME ReceiptInv, NEW h \in Handlers, Return(h), seen' = seen,
           \A k \in Keys : /\ rstate[k] # "absent" => rstate'[k] # "absent"
                           /\ digest'[k] = digest[k]
                           /\ generation[k] <= generation'[k] /\ generation'[k] \in Nat
    PROVE  /\ pc' \in [Handlers -> PCs] /\ key' \in [Handlers -> Keys \cup {NoKey}]
           /\ tx' \in [Handlers -> Txs \cup {NoTx}] /\ gen' \in [Handlers -> Nat]
           /\ heartbeat' \in [Handlers -> {"off", "on", "lost"}]
           /\ outcome' \in [Handlers -> Answers \cup {"none", "uncertain"}]
           /\ ClaimInv' /\ FenceInv' /\ OutcomeInv'
<1> USE DEF ReceiptInv
<1>1. \A g \in Handlers : IF g = h THEN pc'[g] = "idle" /\ heartbeat'[g] = "off"
                          ELSE /\ pc'[g] = pc[g] /\ key'[g] = key[g] /\ tx'[g] = tx[g]
                               /\ gen'[g] = gen[g] /\ outcome'[g] = outcome[g]
                               /\ heartbeat'[g] = heartbeat[g]
  BY DEF Return, TypeOK
<1>2. ClaimInv'
  <2> SUFFICES ASSUME NEW g \in Handlers PROVE ClaimInv!(g)'
    BY DEF ClaimInv
  <2>1. CASE g = h
    BY <1>1, <2>1
  <2>2. CASE g # h
    <3>1. g \in Handlers /\ gen[g] \in Nat
      BY DEF TypeOK
    <3>2. ASSUME pc[g] # "idle" PROVE generation[key[g]] \in Nat /\ key[g] \in Keys
      BY <3>2 DEF TypeOK, ClaimInv
    <3> QED
      BY <1>1, <2>2, <3>1, <3>2 DEF ClaimInv
  <2> QED
    BY <2>1, <2>2
<1>3. FenceInv'
  BY <1>1 DEF FenceInv
<1>4. OutcomeInv'
  <2> SUFFICES ASSUME NEW g \in Handlers PROVE OutcomeInv!(g)'
    BY DEF OutcomeInv
  <2> QED
    BY <1>1 DEF OutcomeInv
<1> QED
  BY <1>2, <1>3, <1>4 DEF Return, TypeOK, PCs

\* A request that goes on keeps its claim; what it goes on with must be true of
\* the node.
LEMMA DecideKeeps ==
    ASSUME ReceiptInv, NEW h \in Handlers, pc[h] # "idle",
           NEW l \in PCs \ {"idle"}, NEW o \in Answers \cup {"none", "uncertain"},
           Decide(h, l, o), UNCHANGED <<rstate, digest, generation>>, seen \subseteq seen',
           l \in {"relookup", "finish", "store"} =>
              /\ o \in IF l = "relookup" THEN Answers \cup {"uncertain"} ELSE Answers
              /\ o \in {"accepted", "known"} => tx[h] \in seen'
              /\ o = "rejected" => tx[h] \notin Valid
    PROVE  /\ pc' \in [Handlers -> PCs] /\ outcome' \in [Handlers -> Answers \cup {"none", "uncertain"}]
           /\ UNCHANGED <<key, tx, gen, heartbeat>>
           /\ ClaimInv' /\ FenceInv' /\ OutcomeInv'
<1> USE DEF ReceiptInv
<1>1. /\ \A g \in Handlers : IF g = h THEN pc'[g] = l /\ outcome'[g] = o
                             ELSE pc'[g] = pc[g] /\ outcome'[g] = outcome[g]
      /\ UNCHANGED <<key, tx, gen, heartbeat>>
  BY DEF Decide, TypeOK
<1>2. ClaimInv'
  BY <1>1 DEF ClaimInv
<1>3. FenceInv'
  BY <1>1 DEF FenceInv
<1>4. OutcomeInv'
  <2> SUFFICES ASSUME NEW g \in Handlers PROVE OutcomeInv!(g)'
    BY DEF OutcomeInv
  <2>1. CASE g = h
    BY <1>1, <2>1
  <2>2. CASE g # h
    BY <1>1, <2>2 DEF OutcomeInv
  <2> QED
    BY <2>1, <2>2
<1> QED
  BY <1>1, <1>2, <1>3, <1>4 DEF Decide, TypeOK, PCs

\* To go on without a new outcome is to go on with the old one.
LEMMA GotoDecides ==
    ASSUME TypeOK, NEW h \in Handlers, NEW l, Goto(h, l)
    PROVE  Decide(h, l, outcome[h]) /\ outcome[h] \in Answers \cup {"none", "uncertain"}
<1>1. outcome = [outcome EXCEPT ![h] = outcome[h]]
  BY DEF TypeOK
<1> QED
  BY <1>1 DEF Goto, Decide, TypeOK

\* The initial state satisfies the invariant.
LEMMA InitInv == Init => ReceiptInv
<1> SUFFICES ASSUME Init PROVE ReceiptInv
  OBVIOUS
<1>1. TypeOK
  BY ReceiptAssumption DEF Init, TypeOK, PCs, Answers
<1>2. ClaimInv /\ FenceInv /\ OutcomeInv
  BY DEF Init, ClaimInv, FenceInv, OutcomeInv
<1>3. RowInv /\ NodeInv
  BY DEF Init, RowInv, NodeInv
<1>4. ToldIsStored /\ AcceptedOnce /\ AnswersAreTrue
  BY DEF Init, ToldIsStored, AcceptedOnce, AnswersAreTrue
<1> QED
  BY <1>1, <1>2, <1>3, <1>4 DEF ReceiptInv

\* A claim is taken over for the same payload only, with a fresh generation.
LEMMA AcquireInv ==
    ASSUME ReceiptInv, NEW h \in Handlers, NEW k \in Keys, NEW t \in Txs, Acquire(h, k, t)
    PROVE  ReceiptInv'
<1> USE DEF ReceiptInv
<1>1. /\ \A g \in Handlers : IF g = h THEN /\ pc'[g] = "check" /\ key'[g] = k /\ tx'[g] = t
                                           /\ gen'[g] = generation[k] + 1
                             ELSE /\ pc'[g] = pc[g] /\ key'[g] = key[g] /\ tx'[g] = tx[g]
                                  /\ gen'[g] = gen[g] /\ heartbeat'[g] = heartbeat[g]
      /\ UNCHANGED <<outcome, told, acceptances, submitted, response, faults, node, seen, stray>>
  BY DEF Acquire, ClaimReceipt, TypeOK, history, external
<1>2. \A j \in Keys : IF j = k
         THEN rstate'[j] = "processing" /\ digest'[j] = t /\ generation'[j] = generation[j] + 1
         ELSE rstate'[j] = rstate[j] /\ digest'[j] = digest[j] /\ generation'[j] = generation[j]
  BY DEF Acquire, ClaimReceipt, TypeOK
<1>3. /\ rstate[k] # "complete"
      /\ rstate[k] = "absent" \/ digest[k] = t
  BY DEF Acquire, ClaimReceipt, Claimable
<1>4. \A g \in Handlers : gen[g] \in Nat /\ (key[g] \in Keys => generation[key[g]] \in Nat)
  BY DEF TypeOK
<1>5. TypeOK'
  <2>1. generation[k] + 1 \in Nat /\ 0 \in 0 .. Lease
    BY ReceiptAssumption DEF TypeOK
  <2>2. /\ rstate' \in [Keys -> {"absent", "processing", "complete"}]
        /\ digest' \in [Keys -> Txs \cup {NoTx}] /\ generation' \in [Keys -> Nat]
        /\ age' \in [Keys -> 0 .. Lease]
    BY <2>1 DEF Acquire, ClaimReceipt, TypeOK
  <2>3. /\ pc' \in [Handlers -> PCs] /\ key' \in [Handlers -> Keys \cup {NoKey}]
        /\ tx' \in [Handlers -> Txs \cup {NoTx}]
        /\ heartbeat' \in [Handlers -> {"off", "on", "lost"}]
    BY DEF Acquire, TypeOK, PCs
  <2>4. generation'[k] \in Nat
    BY <2>2
  <2>5. gen' \in [Handlers -> Nat]
    BY <2>4 DEF Acquire, TypeOK
  <2> QED
    BY <1>1, <2>2, <2>3, <2>5 DEF TypeOK
<1>6. ClaimInv'
  <2> SUFFICES ASSUME NEW g \in Handlers PROVE ClaimInv!(g)'
    BY DEF ClaimInv
  <2>1. CASE g = h
    BY <1>1, <1>2, <2>1, <1>5 DEF TypeOK
  <2>2. CASE g # h
    BY <1>1, <1>2, <1>3, <1>4, <2>2 DEF ClaimInv
  <2> QED
    BY <2>1, <2>2
<1>7. FenceInv'
  <2>1. \A g \in Handlers : pc[g] # "idle" /\ key[g] = k => gen[g] < generation[k] + 1
    BY <1>4 DEF ClaimInv
  <2> QED
    BY <1>1, <1>4, <2>1 DEF FenceInv
<1>8. OutcomeInv'
  <2> SUFFICES ASSUME NEW g \in Handlers PROVE OutcomeInv!(g)'
    BY DEF OutcomeInv
  <2> QED
    BY <1>1 DEF OutcomeInv
<1>9. RowInv'
  BY <1>1, <1>2, <1>3 DEF RowInv
<1>10. ToldIsStored' /\ AcceptedOnce' /\ AnswersAreTrue'
  BY <1>1, <1>2, <1>3 DEF ToldIsStored, AcceptedOnce, AnswersAreTrue
<1>11. NodeInv'
  BY <1>1 DEF NodeInv
<1> QED
  BY <1>5, <1>6, <1>7, <1>8, <1>9, <1>10, <1>11

\* A replay tells what is stored.
LEMMA ReplayInv ==
    ASSUME ReceiptInv, NEW k \in Keys, NEW t \in Txs, Replay(k, t)
    PROVE  ReceiptInv'
<1> USE DEF ReceiptInv
<1>1. /\ UNCHANGED <<receipts, locals, acceptances, submitted, faults, external>>
      /\ rstate[k] = "complete"
      /\ \A j \in Keys : told'[j] = IF j = k
            THEN told[j] \cup {IF response[k] = "rejected" THEN "rejected" ELSE "known"}
            ELSE told[j]
      /\ told' \in [Keys -> SUBSET Answers]
  BY DEF Replay, TypeOK, Answers
<1> USE <1>1 DEF receipts, locals, external
<1>2. TypeOK'
  BY DEF TypeOK
<1>3. ClaimInv' /\ FenceInv' /\ OutcomeInv' /\ NodeInv'
  BY DEF ClaimInv, FenceInv, OutcomeInv, NodeInv
<1>4. RowInv' /\ AcceptedOnce' /\ AnswersAreTrue'
  BY DEF RowInv, AcceptedOnce, AnswersAreTrue
<1>5. ToldIsStored'
  BY DEF ToldIsStored
<1> QED
  BY <1>2, <1>3, <1>4, <1>5

\* The steps of a request that change nothing but its place and its outcome.
LEMMA WaitingInv ==
    ASSUME ReceiptInv, NEW h \in Handlers, Check(h) \/ Lookup(h) \/ Relookup(h)
    PROVE  ReceiptInv'
<1> USE DEF ReceiptInv
<1>1. UNCHANGED <<rstate, digest, generation, age, response, told, acceptances, submitted,
                  node, seen, stray>>
  BY DEF Check, Lookup, Relookup, receipts, history, external
<1>2. faults' \in 0 .. MaxFaults
  <2>1. Fault \/ UNCHANGED faults
    BY DEF Check, Lookup, Relookup
  <2> QED
    BY <2>1, FaultsTyped
<1>3. broadcastAlreadyKnown(tx[h]) /\ pc[h] # "idle" => tx[h] \in seen
  BY DEF broadcastAlreadyKnown, NodeInv, ClaimInv
<1>4. /\ pc' \in [Handlers -> PCs] /\ outcome' \in [Handlers -> Answers \cup {"none", "uncertain"}]
      /\ UNCHANGED <<key, tx, gen, heartbeat>>
      /\ ClaimInv' /\ FenceInv' /\ OutcomeInv'
  <2>1. CASE Check(h)
    <3>1. PICK l \in {"lookup", "leave"} : Goto(h, l)
      BY <2>1 DEF Check
    <3> QED
      BY <1>1, <2>1, <3>1, GotoDecides, DecideKeeps DEF Check, PCs
  <2>2. CASE Lookup(h)
    <3>1. pc[h] = "lookup"
      BY <2>2 DEF Lookup
    <3>2. CASE Goto(h, "send")
      BY <1>1, <3>1, <3>2, GotoDecides, DecideKeeps DEF PCs
    <3>3. CASE broadcastAlreadyKnown(tx[h]) /\ Decide(h, "finish", "known")
      BY <1>1, <1>3, <3>1, <3>3, DecideKeeps DEF PCs, Answers
    <3> QED
      BY <2>2, <3>2, <3>3 DEF Lookup
  <2>3. CASE Relookup(h)
    <3>1. pc[h] = "relookup"
      BY <2>3 DEF Relookup
    <3>2. CASE broadcastAlreadyKnown(tx[h]) /\ Decide(h, "finish", "known")
      BY <1>1, <1>3, <3>1, <3>2, DecideKeeps DEF PCs, Answers
    <3>3. CASE Goto(h, "leave")
      BY <1>1, <3>1, <3>3, GotoDecides, DecideKeeps DEF PCs
    <3>4. CASE outcome[h] # "uncertain" /\ Goto(h, "finish")
      <4>1. /\ outcome[h] \in Answers
            /\ outcome[h] \in {"accepted", "known"} => tx[h] \in seen
            /\ outcome[h] = "rejected" => tx[h] \notin Valid
        BY <3>1, <3>4 DEF OutcomeInv
      <4> QED
        BY <1>1, <3>1, <3>4, <4>1, GotoDecides, DecideKeeps DEF PCs
    <3> QED
      BY <2>3, <3>2, <3>3, <3>4 DEF Relookup
  <2> QED
    BY <2>1, <2>2, <2>3
<1>5. TypeOK'
  BY <1>1, <1>2, <1>4 DEF TypeOK
<1>6. RowInv' /\ ToldIsStored' /\ AcceptedOnce' /\ AnswersAreTrue'
  BY <1>1, RowsKept DEF history
<1>7. NodeInv'
  BY <1>1 DEF NodeInv
<1> QED
  BY <1>4, <1>5, <1>6, <1>7

\* A submission is of the row's payload, and what the node answers is true.
LEMMA SubmitInv ==
    ASSUME ReceiptInv, NEW h \in Handlers, Broadcast(h) \/ BroadcastUncertain(h)
    PROVE  ReceiptInv'
<1> USE DEF ReceiptInv
<1>1. /\ pc[h] = "send" /\ UNCHANGED <<rstate, digest, generation, age, response, told, acceptances>>
      /\ submitted' = [submitted EXCEPT ![key[h]] = @ \cup {tx[h]}]
  BY DEF Broadcast, BroadcastUncertain, Submits, receipts
<1>2. /\ key[h] \in Keys /\ tx[h] \in Txs
      /\ rstate[key[h]] # "absent" /\ digest[key[h]] = tx[h]
  BY <1>1 DEF ClaimInv
<1>3. faults' \in 0 .. MaxFaults
  <2>1. Fault \/ UNCHANGED faults
    BY DEF Broadcast, BroadcastUncertain
  <2> QED
    BY <2>1, FaultsTyped
<1>4. /\ \/ UNCHANGED <<node, seen>>
         \/ node' = [node EXCEPT ![tx[h]] = "mempool"] /\ seen' = seen \cup {tx[h]}
      /\ stray' \in {stray, stray \cup {tx[h]}}
  BY DEF Broadcast, BroadcastUncertain
<1>5. seen \subseteq seen'
  BY <1>4
<1>6. /\ pc' \in [Handlers -> PCs] /\ outcome' \in [Handlers -> Answers \cup {"none", "uncertain"}]
      /\ UNCHANGED <<key, tx, gen, heartbeat>>
      /\ ClaimInv' /\ FenceInv' /\ OutcomeInv'
  <2>1. CASE Goto(h, "leave")
    BY <1>1, <1>5, <2>1, GotoDecides, DecideKeeps DEF PCs
  <2>2. CASE Decide(h, "relookup", "uncertain")
    BY <1>1, <1>5, <2>2, DecideKeeps DEF PCs, Answers
  <2>3. CASE Decide(h, "finish", "accepted") /\ tx[h] \in seen'
    BY <1>1, <1>5, <2>3, DecideKeeps DEF PCs, Answers
  <2>4. CASE Decide(h, "relookup", "known") /\ broadcastAlreadyKnown(tx[h])
    <3>1. tx[h] \in seen'
      BY <1>2, <1>5, <2>4 DEF broadcastAlreadyKnown, NodeInv
    <3> QED
      BY <1>1, <1>5, <2>4, <3>1, DecideKeeps DEF PCs, Answers
  <2>5. CASE Decide(h, "relookup", "rejected") /\ tx[h] \notin Valid
    BY <1>1, <1>5, <2>5, DecideKeeps DEF PCs, Answers
  <2> QED
    BY <2>1, <2>2, <2>3, <2>4, <2>5 DEF Broadcast, BroadcastUncertain
<1>7. TypeOK'
  <2>1. submitted' \in [Keys -> SUBSET Txs]
    BY <1>1, <1>2 DEF TypeOK
  <2>2. node' \in [Txs -> {"unknown", "mempool", "confirmed", "orphaned"}]
        /\ seen' \subseteq Txs /\ stray' \subseteq Txs
    BY <1>2, <1>4 DEF TypeOK
  <2> QED
    BY <1>1, <1>3, <1>6, <2>1, <2>2 DEF TypeOK
<1>8. RowInv'
  <2>1. \A k \in Keys : submitted'[k] = IF k = key[h] THEN submitted[k] \cup {tx[h]} ELSE submitted[k]
    BY <1>1, <1>2 DEF TypeOK
  <2> QED
    BY <1>1, <1>2, <2>1 DEF RowInv
<1>9. ToldIsStored' /\ AcceptedOnce' /\ AnswersAreTrue'
  BY <1>1, <1>5 DEF ToldIsStored, AcceptedOnce, AnswersAreTrue
<1>10. NodeInv'
  BY <1>2, <1>4 DEF NodeInv, TypeOK
<1> QED
  BY <1>6, <1>7, <1>8, <1>9, <1>10

\* Stopping the heartbeat leaves the outcome for the statement that stores it.
LEMMA StopLeaseInv == ASSUME ReceiptInv, NEW h \in Handlers, StopLease(h) PROVE ReceiptInv'
<1> USE DEF ReceiptInv
<1>1. /\ pc[h] \in {"finish", "leave"}
      /\ UNCHANGED <<rstate, digest, generation, age, response, told, acceptances, submitted,
                     faults, node, seen, stray>>
  BY DEF StopLease, receipts, history, external
<1>2. RowInv' /\ ToldIsStored' /\ AcceptedOnce' /\ AnswersAreTrue' /\ NodeInv'
  BY <1>1, RowsKept DEF history, NodeInv
<1>3. CASE Return(h)
  <2>1. \A k \in Keys : /\ rstate[k] # "absent" => rstate'[k] # "absent"
                        /\ digest'[k] = digest[k]
                        /\ generation[k] <= generation'[k] /\ generation'[k] \in Nat
    BY <1>1 DEF TypeOK
  <2>2. seen' = seen
    BY <1>1
  <2>3. /\ pc' \in [Handlers -> PCs] /\ key' \in [Handlers -> Keys \cup {NoKey}]
        /\ tx' \in [Handlers -> Txs \cup {NoTx}] /\ gen' \in [Handlers -> Nat]
        /\ heartbeat' \in [Handlers -> {"off", "on", "lost"}]
        /\ outcome' \in [Handlers -> Answers \cup {"none", "uncertain"}]
        /\ ClaimInv' /\ FenceInv' /\ OutcomeInv'
    BY <1>3, <2>1, <2>2, ReturnKeeps
  <2> QED
    BY <1>1, <1>2, <2>3 DEF TypeOK
<1>4. CASE /\ heartbeat' = [heartbeat EXCEPT ![h] = "off"]
           /\ pc' = [pc EXCEPT ![h] = IF @ = "finish" THEN "store" ELSE "abandon"]
           /\ UNCHANGED <<key, tx, gen, outcome>>
  <2>1. \A g \in Handlers :
           IF g = h THEN heartbeat'[g] = "off" /\ pc'[g] = IF pc[g] = "finish" THEN "store" ELSE "abandon"
                    ELSE pc'[g] = pc[g] /\ heartbeat'[g] = heartbeat[g]
    BY <1>4 DEF TypeOK
  <2>2. TypeOK'
    BY <1>1, <1>4 DEF TypeOK, PCs
  <2>3. ClaimInv'
    BY <1>1, <1>4, <2>1 DEF ClaimInv
  <2>4. FenceInv'
    BY <1>1, <1>4, <2>1 DEF FenceInv
  <2>5. OutcomeInv'
    BY <1>1, <1>4, <2>1 DEF OutcomeInv
  <2> QED
    BY <1>2, <2>2, <2>3, <2>4, <2>5
<1> QED
  BY <1>3, <1>4 DEF StopLease

\* What the statements of a request's end do to the row of its key: complete it
\* with the outcome, hand the claim back, or leave it.
EndOfClaim(h) == CompleteReceipt(h) \/ AbandonReceipt(h) \/ UNCHANGED receipts

LEMMA EndKeepsRows ==
    ASSUME ReceiptInv, NEW h \in Handlers, pc[h] \in {"store", "abandon"}, EndOfClaim(h),
           CompleteReceipt(h) => pc[h] = "store"
    PROVE  /\ rstate' \in [Keys -> {"absent", "processing", "complete"}]
           /\ digest' = digest
           /\ generation' \in [Keys -> Nat] /\ age' \in [Keys -> 0 .. Lease]
           /\ response' \in [Keys -> Answers \cup {"none"}]
           /\ \A k \in Keys :
                 /\ rstate[k] # "absent" => rstate'[k] # "absent"
                 /\ rstate[k] = "absent" => rstate'[k] = "absent"
                 /\ rstate[k] = "complete" => rstate'[k] = "complete" /\ response'[k] = response[k]
                 /\ rstate'[k] = "complete" /\ rstate[k] # "complete" =>
                       response'[k] = outcome[h] /\ digest[k] = tx[h] /\ pc[h] = "store"
                 /\ generation[k] <= generation'[k] /\ generation'[k] \in Nat
<1> USE DEF ReceiptInv
<1>1. key[h] \in Keys /\ (pc[h] = "store" => outcome[h] \in Answers)
  BY DEF ClaimInv, OutcomeInv
<1>2. CASE CompleteReceipt(h)
  <2>1. 0 \in 0 .. Lease
    BY ReceiptAssumption
  <2>2. rstate[key[h]] = "processing" /\ digest[key[h]] = tx[h]
    BY <1>2 DEF CompleteReceipt, Owned
  <2> QED
    BY <1>1, <1>2, <2>1, <2>2 DEF CompleteReceipt, TypeOK
<1>3. CASE AbandonReceipt(h)
  <2>1. Lease \in 0 .. Lease
    BY ReceiptAssumption
  <2>2. generation[key[h]] + 1 \in Nat /\ \A k \in Keys : generation[k] \in Nat
    BY <1>1 DEF TypeOK
  <2> QED
    BY <1>1, <1>3, <2>1, <2>2 DEF AbandonReceipt, TypeOK
<1>4. CASE UNCHANGED receipts
  BY <1>4 DEF receipts, TypeOK
<1> QED
  BY <1>2, <1>3, <1>4 DEF EndOfClaim

\* The end of a request stores the outcome under its own claim or leaves the
\* row; the caller hears of it only when it was stored.
LEMMA EndInv ==
    ASSUME ReceiptInv, NEW h \in Handlers, Complete(h) \/ CompleteFails(h) \/ Abandon(h)
    PROVE  ReceiptInv'
<1> USE DEF ReceiptInv
<1>1. /\ pc[h] \in {"store", "abandon"} /\ Return(h) /\ EndOfClaim(h)
      /\ CompleteReceipt(h) => pc[h] = "store"
  <2>1. pc[h] = "store" \/ (pc[h] = "abandon" /\ Abandon(h))
    BY DEF Complete, CompleteFails, Abandon
  <2>2. CASE pc[h] = "store"
    BY <2>2 DEF Complete, CompleteFails, Abandon, EndOfClaim, receipts
  <2>3. CASE pc[h] = "abandon" /\ Abandon(h)
    <3>1. key[h] \in Keys
      BY <2>3 DEF ClaimInv
    <3>2. rstate[key[h]] = "processing" => rstate'[key[h]] # "complete"
      BY <2>3, <3>1 DEF Abandon, AbandonReceipt, receipts
    <3>3. ~CompleteReceipt(h)
      BY <3>1, <3>2 DEF CompleteReceipt, Owned, TypeOK
    <3> QED
      BY <2>3, <3>3 DEF Abandon, EndOfClaim
  <2> QED
    BY <2>1, <2>2, <2>3
<1>2. /\ key[h] \in Keys /\ rstate[key[h]] # "absent" /\ digest[key[h]] = tx[h]
      /\ pc[h] = "store" =>
            /\ outcome[h] \in Answers
            /\ outcome[h] \in {"accepted", "known"} => tx[h] \in seen
            /\ outcome[h] = "rejected" => tx[h] \notin Valid
  BY <1>1 DEF ClaimInv, OutcomeInv
<1>3. /\ rstate' \in [Keys -> {"absent", "processing", "complete"}]
      /\ digest' = digest
      /\ generation' \in [Keys -> Nat] /\ age' \in [Keys -> 0 .. Lease]
      /\ response' \in [Keys -> Answers \cup {"none"}]
  BY <1>1, EndKeepsRows
<1>4. \A k \in Keys :
         /\ rstate[k] # "absent" => rstate'[k] # "absent"
         /\ rstate[k] = "absent" => rstate'[k] = "absent"
         /\ rstate[k] = "complete" => rstate'[k] = "complete" /\ response'[k] = response[k]
         /\ rstate'[k] = "complete" /\ rstate[k] # "complete" =>
               response'[k] = outcome[h] /\ digest[k] = tx[h] /\ pc[h] = "store"
         /\ generation[k] <= generation'[k] /\ generation'[k] \in Nat
  BY <1>1, EndKeepsRows
<1>5. UNCHANGED <<submitted, node, seen, stray>>
  BY DEF Complete, CompleteFails, Abandon, history, external
<1>6. faults' \in 0 .. MaxFaults
  <2>1. Fault \/ UNCHANGED faults
    BY DEF Complete, CompleteFails, Abandon
  <2> QED
    BY <2>1, FaultsTyped
<1>7. \/ UNCHANGED <<told, acceptances>>
      \/ /\ rstate[key[h]] = "processing" /\ rstate'[key[h]] = "complete"
         /\ response'[key[h]] = outcome[h] /\ outcome[h] \in Answers
         /\ told' = [told EXCEPT ![key[h]] = @ \cup {outcome[h]}]
         /\ acceptances' = [acceptances EXCEPT ![key[h]] =
                               IF outcome[h] = "accepted" THEN @ + 1 ELSE @]
  <2>1. CASE Complete(h) /\ Owned(h)
    BY <1>2, <2>1 DEF Complete, CompleteReceipt, Owned, TypeOK
  <2>2. CASE ~(Complete(h) /\ Owned(h))
    BY <2>2 DEF Complete, CompleteFails, Abandon, history
  <2> QED
    BY <2>1, <2>2
<1>8. /\ pc' \in [Handlers -> PCs] /\ key' \in [Handlers -> Keys \cup {NoKey}]
      /\ tx' \in [Handlers -> Txs \cup {NoTx}] /\ gen' \in [Handlers -> Nat]
      /\ heartbeat' \in [Handlers -> {"off", "on", "lost"}]
      /\ outcome' \in [Handlers -> Answers \cup {"none", "uncertain"}]
      /\ ClaimInv' /\ FenceInv' /\ OutcomeInv'
  <2>1. \A k \in Keys : /\ rstate[k] # "absent" => rstate'[k] # "absent"
                        /\ digest'[k] = digest[k]
                        /\ generation[k] <= generation'[k] /\ generation'[k] \in Nat
    BY <1>3, <1>4
  <2>2. seen' = seen
    BY <1>5
  <2> QED
    BY <1>1, <2>1, <2>2, ReturnKeeps
<1>9. /\ \A k \in Keys : told'[k] # told[k] =>
            /\ k = key[h] /\ rstate[k] = "processing" /\ rstate'[k] = "complete"
            /\ response'[k] = outcome[h] /\ outcome[h] \in Answers
            /\ told'[k] = told[k] \cup {outcome[h]}
      /\ \A k \in Keys : acceptances'[k] # acceptances[k] =>
            /\ rstate[k] = "processing" /\ rstate'[k] = "complete"
            /\ acceptances'[k] = acceptances[k] + 1
      /\ told' \in [Keys -> SUBSET Answers]
      /\ acceptances' \in [Keys -> Nat]
  <2>1. CASE UNCHANGED <<told, acceptances>>
    BY <2>1 DEF TypeOK
  <2>2. CASE ~UNCHANGED <<told, acceptances>>
    BY <1>2, <1>7, <2>2 DEF TypeOK
  <2> QED
    BY <2>1, <2>2
<1>10. TypeOK'
  BY <1>3, <1>5, <1>6, <1>8, <1>9 DEF TypeOK
<1>11. RowInv'
  BY <1>3, <1>4, <1>5, <1>9 DEF RowInv
<1>12. ToldIsStored'
  <2> SUFFICES ASSUME NEW k \in Keys PROVE ToldIsStored!(k)'
    BY DEF ToldIsStored
  <2>1. CASE told'[k] = told[k]
    BY <1>4, <2>1 DEF ToldIsStored
  <2>2. CASE told'[k] # told[k]
    <3>1. told'[k] = {outcome[h]}
      BY <1>9, <2>2 DEF RowInv
    <3> QED
      BY <1>9, <2>2, <3>1 DEF Answers
  <2> QED
    BY <2>1, <2>2
<1>13. AcceptedOnce'
  BY <1>9 DEF AcceptedOnce, RowInv
<1>14. AnswersAreTrue'
  <2> SUFFICES ASSUME NEW k \in Keys, rstate'[k] = "complete"
               PROVE  IF response'[k] = "rejected" THEN digest[k] \notin Valid
                                                   ELSE digest[k] \in seen
    BY <1>3, <1>5 DEF AnswersAreTrue
  <2>1. CASE rstate[k] = "complete"
    BY <1>4, <2>1 DEF AnswersAreTrue
  <2>2. CASE rstate[k] # "complete"
    BY <1>2, <1>4, <2>2 DEF Answers
  <2> QED
    BY <2>1, <2>2
<1>15. NodeInv'
  BY <1>5 DEF NodeInv
<1> QED
  BY <1>8, <1>10, <1>11, <1>12, <1>13, <1>14, <1>15

\* The heartbeat renews the claim it still owns, or is lost.
LEMMA HeartbeatInv ==
    ASSUME ReceiptInv, NEW h \in Handlers, Heartbeat(h) \/ HeartbeatFails(h)
    PROVE  ReceiptInv'
<1> USE DEF ReceiptInv
<1>1. /\ heartbeat[h] = "on"
      /\ UNCHANGED <<rstate, digest, generation, response, pc, key, tx, gen, outcome,
                     history, node, seen, stray>>
  BY DEF Heartbeat, HeartbeatFails, LoseHeartbeat, RenewReceipt, receipts, locals, external
<1>2. key[h] \in Keys
  BY <1>1 DEF ClaimInv
<1>3. /\ heartbeat' \in {heartbeat, [heartbeat EXCEPT ![h] = "lost"]}
      /\ \/ age' = age
         \/ \E d \in 0 .. age[key[h]] : age' = [age EXCEPT ![key[h]] = d]
      /\ Fault \/ UNCHANGED faults
  BY DEF Heartbeat, HeartbeatFails, LoseHeartbeat, RenewReceipt, receipts, locals
<1>4. TypeOK'
  <2>1. age' \in [Keys -> 0 .. Lease]
    <3>1. age[key[h]] \in 0 .. Lease /\ Lease \in Nat
      BY <1>2, ReceiptAssumption DEF TypeOK
    <3>2. 0 .. age[key[h]] \subseteq 0 .. Lease
      BY <3>1
    <3> QED
      BY <1>2, <1>3, <3>2 DEF TypeOK
  <2>2. faults' \in 0 .. MaxFaults
    BY <1>3, FaultsTyped
  <2>3. heartbeat' \in [Handlers -> {"off", "on", "lost"}]
    BY <1>3 DEF TypeOK
  <2> QED
    BY <1>1, <2>1, <2>2, <2>3 DEF TypeOK, history
<1>5. ClaimInv'
  BY <1>1, <1>3 DEF ClaimInv, TypeOK
<1>6. FenceInv' /\ OutcomeInv' /\ NodeInv'
  BY <1>1 DEF FenceInv, OutcomeInv, NodeInv
<1>7. RowInv' /\ ToldIsStored' /\ AcceptedOnce' /\ AnswersAreTrue'
  BY <1>1, RowsKept
<1> QED
  BY <1>4, <1>5, <1>6, <1>7

\* Time only ages claims.
LEMMA TickInv == ASSUME ReceiptInv, Tick PROVE ReceiptInv'
<1> USE DEF ReceiptInv
<1>1. UNCHANGED <<rstate, digest, generation, response, pc, key, tx, gen, heartbeat, outcome,
                  history, node, seen, stray>>
  BY DEF Tick, locals, external
<1>2. age' \in [Keys -> 0 .. Lease]
  <2>1. Lease \in Nat /\ \A k \in Keys : age[k] \in 0 .. Lease
    BY ReceiptAssumption DEF TypeOK
  <2>2. \A k \in Keys : (IF rstate[k] = "processing" /\ age[k] < Lease
                         THEN age[k] + 1 ELSE age[k]) \in 0 .. Lease
    BY <2>1
  <2> QED
    BY <2>2 DEF Tick
<1>3. faults' \in 0 .. MaxFaults
  <2>1. Fault \/ UNCHANGED faults
    BY DEF Tick
  <2> QED
    BY <2>1, FaultsTyped
<1>4. TypeOK'
  BY <1>1, <1>2, <1>3 DEF TypeOK, history
<1>5. ClaimInv' /\ FenceInv' /\ OutcomeInv' /\ NodeInv'
  BY <1>1 DEF ClaimInv, FenceInv, OutcomeInv, NodeInv
<1>6. RowInv' /\ ToldIsStored' /\ AcceptedOnce' /\ AnswersAreTrue'
  BY <1>1, RowsKept
<1> QED
  BY <1>4, <1>5, <1>6

\* After a crash there is no request whose claim could be wrong.
LEMMA CrashInv == ASSUME ReceiptInv, Crash PROVE ReceiptInv'
<1> USE DEF ReceiptInv
<1>1. UNCHANGED <<rstate, digest, generation, age, response, history, node, seen>>
  BY DEF Crash, receipts
<1>2. /\ pc' = [h \in Handlers |-> "idle"] /\ heartbeat' = [h \in Handlers |-> "off"]
      /\ Fault
  BY DEF Crash
<1>3. TypeOK'
  <2>1. faults' \in 0 .. MaxFaults
    BY <1>2, FaultsTyped
  <2>2. stray' \subseteq Txs
    <3>1. \A h \in Handlers : pc[h] = "send" => tx[h] \in Txs
      BY DEF ClaimInv
    <3> QED
      BY <3>1 DEF Crash, TypeOK
  <2>3. /\ pc' \in [Handlers -> PCs] /\ key' \in [Handlers -> Keys \cup {NoKey}]
        /\ tx' \in [Handlers -> Txs \cup {NoTx}] /\ gen' \in [Handlers -> Nat]
        /\ heartbeat' \in [Handlers -> {"off", "on", "lost"}]
        /\ outcome' \in [Handlers -> Answers \cup {"none", "uncertain"}]
    BY DEF Crash, PCs
  <2> QED
    BY <1>1, <2>1, <2>2, <2>3 DEF TypeOK, history
<1>4. ClaimInv' /\ FenceInv' /\ OutcomeInv'
  BY <1>2 DEF ClaimInv, FenceInv, OutcomeInv
<1>5. RowInv' /\ ToldIsStored' /\ AcceptedOnce' /\ AnswersAreTrue' /\ NodeInv'
  BY <1>1, RowsKept DEF NodeInv
<1> QED
  BY <1>3, <1>4, <1>5

\* The node may learn of a transaction late or forget it: it was seen for good.
LEMMA ExternalInv ==
    ASSUME ReceiptInv, NEW t \in Txs,
           \/ Arrives(t)
           \/ \E s \in {"unknown", "mempool", "confirmed", "orphaned"} : NodeMoves(t, s)
    PROVE  ReceiptInv'
<1> USE DEF ReceiptInv
<1>1. /\ UNCHANGED <<rstate, digest, generation, age, response, pc, key, tx, gen, heartbeat,
                     outcome, history, faults>>
      /\ stray' \subseteq stray
  BY DEF Arrives, NodeMoves, receipts, locals
<1>2. \/ UNCHANGED <<node, seen>>
      \/ node' = [node EXCEPT ![t] = "mempool"] /\ seen' = seen \cup {t}
      \/ \E s \in {"unknown", "mempool", "confirmed", "orphaned"} :
            node[t] # "unknown" /\ node' = [node EXCEPT ![t] = s] /\ seen' = seen
  BY DEF Arrives, NodeMoves
<1>3. TypeOK'
  <2>1. node' \in [Txs -> {"unknown", "mempool", "confirmed", "orphaned"}] /\ seen' \subseteq Txs
    BY <1>2 DEF TypeOK
  <2> QED
    BY <1>1, <2>1 DEF TypeOK, history
<1>4. seen \subseteq seen'
  BY <1>2
<1>5. ClaimInv' /\ FenceInv'
  BY <1>1 DEF ClaimInv, FenceInv
<1>6. OutcomeInv'
  BY <1>1, <1>4 DEF OutcomeInv
<1>7. RowInv' /\ ToldIsStored' /\ AcceptedOnce' /\ AnswersAreTrue'
  BY <1>1, <1>4, RowsKept
<1>8. NodeInv'
  BY <1>2 DEF NodeInv, TypeOK
<1> QED
  BY <1>3, <1>5, <1>6, <1>7, <1>8

\* Stuttering changes nothing.
LEMMA StutterInv == ASSUME ReceiptInv, UNCHANGED vars PROVE ReceiptInv'
<1> USE DEF ReceiptInv, vars, receipts, locals, history, external
<1>1. TypeOK'
  BY DEF TypeOK
<1>2. ClaimInv' /\ FenceInv' /\ OutcomeInv' /\ NodeInv'
  BY DEF ClaimInv, FenceInv, OutcomeInv, NodeInv
<1>3. RowInv' /\ ToldIsStored' /\ AcceptedOnce' /\ AnswersAreTrue'
  BY RowsKept
<1> QED
  BY <1>1, <1>2, <1>3

\* Every step preserves the invariant.
LEMMA NextInv == ReceiptInv /\ [Next]_vars => ReceiptInv'
<1> SUFFICES ASSUME ReceiptInv, [Next]_vars PROVE ReceiptInv'
  OBVIOUS
<1>1. ASSUME NEW h \in Handlers, NEW k \in Keys, NEW t \in Txs, Acquire(h, k, t)
      PROVE  ReceiptInv'
  BY <1>1, AcquireInv
<1>2. ASSUME NEW k \in Keys, NEW t \in Txs, Replay(k, t) PROVE ReceiptInv'
  BY <1>2, ReplayInv
<1>3. ASSUME NEW h \in Handlers, Handles(h) \/ Heartbeat(h) \/ HeartbeatFails(h)
      PROVE  ReceiptInv'
  BY <1>3, WaitingInv, SubmitInv, StopLeaseInv, EndInv, HeartbeatInv DEF Handles
<1>4. CASE Tick
  BY <1>4, TickInv
<1>5. CASE Crash
  BY <1>5, CrashInv
<1>6. ASSUME NEW t \in Txs,
             \/ Arrives(t)
             \/ \E s \in {"unknown", "mempool", "confirmed", "orphaned"} : NodeMoves(t, s)
      PROVE  ReceiptInv'
  BY <1>6, ExternalInv
<1>7. CASE UNCHANGED vars
  BY <1>7, StutterInv
<1> QED
  BY <1>1, <1>2, <1>3, <1>4, <1>5, <1>6, <1>7 DEF Next

\* In every behaviour of the handlers the rows, the requests and the node keep
\* the invariant.
THEOREM ReceiptInvariant == Spec => []ReceiptInv
<1>1. Init => ReceiptInv
  BY InitInv
<1>2. ReceiptInv /\ [Next]_vars => ReceiptInv'
  BY NextInv
<1> QED
  BY <1>1, <1>2, PTL DEF Spec

\* Every variable keeps its type.
THEOREM ReceiptTypes == Spec => []TypeOK
<1>1. ReceiptInv => TypeOK
  BY DEF ReceiptInv
<1> QED
  BY <1>1, ReceiptInvariant, PTL

\* No caller of a key hears anything but the stored answer, whoever completed
\* the receipt and whatever crashed, stalled or failed before.
THEOREM StoredIsTold == Spec => []ToldIsStored
<1>1. ReceiptInv => ToldIsStored
  BY DEF ReceiptInv
<1> QED
  BY <1>1, ReceiptInvariant, PTL

\* At most one caller of a key is told that its submission was accepted.
THEOREM OneAcceptance == Spec => []AcceptedOnce
<1>1. ReceiptInv => AcceptedOnce
  BY DEF ReceiptInv
<1> QED
  BY <1>1, ReceiptInvariant, PTL

\* A stored answer is true of the node: handleBroadcast never turns an
\* uncertain submission into an acceptance or a rejection.
THEOREM StoredIsTrue == Spec => []AnswersAreTrue
<1>1. ReceiptInv => AnswersAreTrue
  BY DEF ReceiptInv
<1> QED
  BY <1>1, ReceiptInvariant, PTL

\* One transaction at most is submitted under an idempotency key.
THEOREM KeyIsBound == Spec => []KeyBindsPayload
<1>1. ReceiptInv => KeyBindsPayload
  <2> SUFFICES ASSUME ReceiptInv, NEW k \in Keys PROVE Cardinality(submitted[k]) <= 1
    BY DEF KeyBindsPayload
  <2>1. submitted[k] \subseteq {digest[k]}
    BY DEF ReceiptInv, RowInv
  <2>2. IsFiniteSet({digest[k]}) /\ Cardinality({digest[k]}) = 1
    BY FS_Singleton
  <2> QED
    BY <2>1, <2>2, FS_Subset
<1> QED
  BY <1>1, ReceiptInvariant, PTL

\* The lease is exclusive: the generation fences every earlier holder off.
THEOREM LeaseIsExclusive == Spec => []OneHolder
<1>1. ReceiptInv => OneHolder
  BY DEF ReceiptInv, FenceInv, OneHolder, Owned
<1> QED
  BY <1>1, ReceiptInvariant, PTL

\* A completed row passes no WHERE clause.
LEMMA CompleteStays ==
    ASSUME ReceiptInv, [Next]_vars, NEW k \in Keys, rstate[k] = "complete"
    PROVE  rstate'[k] = "complete" /\ response'[k] = response[k] /\ digest'[k] = digest[k]
<1> USE DEF ReceiptInv
<1>1. CASE UNCHANGED <<rstate, response, digest>>
  BY <1>1
<1>2. ASSUME NEW h \in Handlers, NEW j \in Keys, NEW t \in Txs, Acquire(h, j, t)
      PROVE  rstate'[k] = "complete" /\ response'[k] = response[k] /\ digest'[k] = digest[k]
  BY <1>2 DEF Acquire, ClaimReceipt, Claimable, TypeOK
<1>3. ASSUME NEW h \in Handlers, CompleteReceipt(h) \/ AbandonReceipt(h), pc[h] # "idle"
      PROVE  rstate'[k] = "complete" /\ response'[k] = response[k] /\ digest'[k] = digest[k]
  BY <1>3 DEF CompleteReceipt, AbandonReceipt, Owned, ClaimInv, TypeOK
<1>4. ASSUME NEW h \in Handlers, Handles(h) \/ Heartbeat(h) \/ HeartbeatFails(h)
      PROVE  rstate'[k] = "complete" /\ response'[k] = response[k] /\ digest'[k] = digest[k]
  <2>1. CASE Complete(h) \/ CompleteFails(h) \/ Abandon(h)
    BY <1>1, <1>3, <2>1 DEF Complete, CompleteFails, Abandon, receipts
  <2>2. CASE ~(Complete(h) \/ CompleteFails(h) \/ Abandon(h))
    BY <1>1, <1>4, <2>2 DEF Handles, Check, Lookup, Broadcast, BroadcastUncertain, Submits,
       Relookup, StopLease, Heartbeat, HeartbeatFails, LoseHeartbeat, RenewReceipt, receipts
  <2> QED
    BY <2>1, <2>2
<1>5. CASE \/ \E j \in Keys, t \in Txs : Replay(j, t)
           \/ Tick \/ Crash
           \/ \E t \in Txs : Arrives(t)
           \/ \E t \in Txs, s \in {"unknown", "mempool", "confirmed", "orphaned"} : NodeMoves(t, s)
           \/ UNCHANGED vars
  BY <1>1, <1>5 DEF Replay, Tick, Crash, Arrives, NodeMoves, vars, receipts
<1> QED
  BY <1>2, <1>4, <1>5 DEF Next

\* A completed receipt never changes again, whatever late holders still do.
THEOREM ReceiptIsForever == Spec => CompleteIsForever
<1>1. ReceiptInv /\ [Next]_vars =>
         [\A k \in Keys : rstate[k] = "complete" =>
             /\ rstate'[k] = "complete"
             /\ response'[k] = response[k] /\ digest'[k] = digest[k]]_vars
  BY CompleteStays
<1> QED
  BY <1>1, ReceiptInvariant, PTL DEF Spec, CompleteIsForever
=============================================================================
