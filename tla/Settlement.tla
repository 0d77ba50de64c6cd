------------------------------ MODULE Settlement ------------------------------
(***************************************************************************)
(* The settlement of one signed attempt: reconcileAttempt of the           *)
(* coordinator (internal/coordinator/service.go) against a node whose      *)
(* chain grows and reorganises and a scanner that follows it.  Every       *)
(* answer of the node or the scanner is a step of its own: what the worker *)
(* learned from one may be stale when it acts on the next.                 *)
(*                                                                         *)
(* A chain is its height and the heights at which the attempt's            *)
(* transaction, or another one that spends its notes, is mined (0: not     *)
(* mined).  The hash of its tip is the record itself: blocks that differ   *)
(* in nothing else are not told apart, so a comparison of hashes passes    *)
(* here whenever it passes in the program.                                 *)
(*                                                                         *)
(* External: the chain, the mempool and the scanner.                       *)
(***************************************************************************)
EXTENDS AttemptStates, Naturals

CONSTANTS
    Confirmations,  \* cfg.DefaultConfirmations
    Expiry,         \* expiry_height of the signed transaction
    MaxReorg,       \* the deepest reorganisation, in blocks
    MaxHeight,      \* bound on the chain
    MaxFaults       \* bound on failed calls and scanner rebuilds

ASSUME SettlementAssumption ==
    /\ Confirmations \in Nat \ {0}
    /\ Expiry \in Nat \ {0}
    /\ MaxReorg \in Nat
    /\ MaxReorg < Confirmations
    /\ MaxHeight \in Nat
    /\ MaxFaults \in Nat

Heights == 0 .. MaxHeight
Chains == [height : Heights, mined : Heights, rival : Heights]

VARIABLES
    state,     \* state column of the attempt
    \* the worker
    pc,
    known,     \* attempt.State, the worker's copy
    found,     \* what the node said of the transaction
    tip,       \* the node's tip, as scannerProof read it
    goal,      \* the terminal state the worker is trying to prove
    \* external
    chain,     \* the node's best chain
    loose,     \* what the node knows of the transaction outside that chain
    view,      \* the chain the scanner has indexed
    attested,  \* ready, history_complete and pending_spends_ready
    faults

worker == <<pc, known, found, tip, goal>>
node   == <<chain, loose>>
vars   == <<state, worker, node, view, attested, faults>>

\* The type invariant.
TypeOK ==
    /\ state \in PostSigned \cup {"final", "released"}
    /\ pc \in {"idle", "lookup", "follow", "expiry", "tip", "health", "statuses", "settle"}
    /\ known \in PostSigned
    /\ found \in {"absent", "mempool", "orphaned", "confirmed", "deep"}
    /\ tip \in Chains
    /\ goal \in {"none", "final", "released"}
    /\ chain \in Chains
    /\ loose \in {"absent", "mempool", "orphaned"}
    /\ view \in Chains
    /\ attested \in BOOLEAN
    /\ faults \in 0 .. MaxFaults

Genesis == [height |-> 0, mined |-> 0, rival |-> 0]

Init ==
    /\ state = "signed"
    /\ pc = "idle"
    /\ known = "signed"
    /\ found = "absent"
    /\ tip = Genesis
    /\ goal = "none"
    /\ chain = Genesis
    /\ loose = "absent"
    /\ view = Genesis
    /\ attested = FALSE
    /\ faults = 0

Fault == faults < MaxFaults /\ faults' = faults + 1

-----------------------------------------------------------------------------
\* The worker.

Return ==
    /\ pc' = "idle"
    /\ known' = "signed"
    /\ found' = "absent"
    /\ tip' = Genesis
    /\ goal' = "none"

Goto(label) == pc' = label /\ UNCHANGED <<found, tip>>

\* transition: a state the copy has already is not written, and one the store
\* refuses is ignored.
Written(s) == IF known # s /\ allowedAttemptTransition(state, s) THEN s ELSE state

\* A failing store is logged, and the worker goes on.
transition(s) ==
    \/ state' = Written(s) /\ UNCHANGED faults
    \/ known # s /\ Fault /\ UNCHANGED state

\* Mutant: a settled row is dispatched like any other.
DispatchSettled ==
    /\ pc = "idle"
    /\ known' = state
    /\ Goto("lookup")
    /\ UNCHANGED <<state, goal, node, view, attested, faults>>

\* process reads the row.
Dispatch ==
    /\ pc = "idle"
    /\ state \in PostSigned
    /\ known' = state
    /\ Goto("lookup")
    /\ UNCHANGED <<state, goal, node, view, attested, faults>>

\* Mutant: the first confirmation counts for one more than it is.
BuriedEarly(c, h) == h # 0 /\ c.height + 2 >= h + Confirmations

\* The block at height h has the configured confirmations on chain c.
Buried(c, h) == h # 0 /\ c.height + 1 >= h + Confirmations

\* node.Transaction.
Lookup ==
    /\ pc = "lookup"
    /\ found' = IF chain.mined = 0 THEN loose
                ELSE IF Buried(chain, chain.mined) THEN "deep" ELSE "confirmed"
    /\ pc' = "follow"
    /\ UNCHANGED <<state, known, tip, goal, node, view, attested, faults>>

\* A confirmed transaction is mined, or final if the scanner agrees.
FollowConfirmed ==
    /\ pc = "follow"
    /\ \/ found = "confirmed" /\ transition("mined") /\ Return
       \/ /\ found = "deep"
          /\ Goto("tip")
          /\ goal' = "final"
          /\ UNCHANGED <<state, known, faults>>
    /\ UNCHANGED <<node, view, attested>>

FollowLoose ==
    /\ pc = "follow"
    /\ found \in {"absent", "mempool", "orphaned"}
    /\ IF found = "orphaned" THEN transition("orphaned") /\ known' = "orphaned"
                             ELSE UNCHANGED <<state, known, faults>>
    /\ Goto("expiry")
    /\ UNCHANGED <<goal, node, view, attested>>

pastExpiry == chain.height > Expiry

\* reconcileExpired begins.
ProveExpired ==
    /\ Goto("tip")
    /\ goal' = "released"

\* Mutant: a transaction in the mempool is not asked for its expiry.
FollowExpiryTrusting ==
    /\ pc = "expiry"
    /\ \/ found = "mempool" /\ transition("broadcast") /\ Return
       \/ found # "mempool" /\ ProveExpired /\ UNCHANGED <<state, known, faults>>
    /\ UNCHANGED <<node, view, attested>>

\* pastExpiry reads the tip; an unexpired transaction in the mempool is
\* broadcast, anything else goes on to reconcileExpired.
FollowExpiry ==
    /\ pc = "expiry"
    /\ \/ /\ pastExpiry
          /\ transition("expired_pending_reconciliation")
          /\ known' = "expired_pending_reconciliation"
          /\ ProveExpired
       \/ /\ ~pastExpiry
          /\ found = "mempool"
          /\ transition("broadcast")
          /\ Return
       \/ /\ ~pastExpiry
          /\ found # "mempool"
          /\ ProveExpired
          /\ UNCHANGED <<state, known, faults>>
    /\ UNCHANGED <<node, view, attested>>

\* A tip that cannot be read counts as not past the expiry.
ExpiryUnknown ==
    /\ pc = "expiry"
    /\ Fault
    /\ \/ found = "mempool" /\ state' = Written("broadcast") /\ Return
       \/ found # "mempool" /\ ProveExpired /\ UNCHANGED <<state, known>>
    /\ UNCHANGED <<node, view, attested>>

\* scannerProof: the node's tip ...
ProofTip ==
    /\ pc = "tip"
    /\ tip' = chain
    /\ pc' = "health"
    /\ UNCHANGED <<state, known, found, goal, node, view, attested, faults>>

\* Mutant: the attestations of the scanner are not asked for.
HealthAgreesUnattested == view = tip

\* ... the scanner's health at exactly that tip ...
HealthAgrees == attested /\ view = tip

ProofHealth ==
    /\ pc = "health"
    /\ IF HealthAgrees THEN Goto("statuses") /\ UNCHANGED <<known, goal>> ELSE Return
    /\ UNCHANGED <<state, node, view, attested, faults>>

\* What the scanner says of the selected notes: anything before it attests to
\* its view, the truth about it from then on.  It shows a spend in the mempool as
\* pending until the transaction expires; every status but the two that Proves
\* asks for ends the proof.
NoteStatuses ==
    IF ~attested THEN {"unknown", "unspent", "pending", "spent", "spent_confirmed", "foreign"}
    ELSE IF view.mined # 0
    THEN {IF Buried(view, view.mined) THEN "spent_confirmed" ELSE "spent"}
    ELSE IF view.rival # 0 THEN {"foreign"}
    ELSE IF loose = "mempool" /\ view.height < Expiry THEN {"pending", "unspent"}
    ELSE {"unspent"}

\* Mutant: the notes are released as soon as the transaction has expired.
ProvesAtExpiry(status) ==
    \/ goal = "final" /\ status = "spent_confirmed"
    \/ goal = "released" /\ status = "unspent" /\ tip.height >= Expiry

\* reconcileFinal and reconcileExpired: the whole selection spent by the
\* transaction, or unspent with the expiry buried under a stable tip.
Proves(status) ==
    \/ goal = "final" /\ status = "spent_confirmed"
    \/ /\ goal = "released"
       /\ status = "unspent"
       /\ tip.height >= Expiry + Confirmations

\* ... and the note statuses as of that tip.
ProofStatuses ==
    /\ pc = "statuses"
    /\ \E status \in NoteStatuses :
          IF view = tip /\ Proves(status) THEN Goto("settle") /\ UNCHANGED <<known, goal>>
                                          ELSE Return
    /\ UNCHANGED <<state, node, view, attested, faults>>

Settle ==
    /\ pc = "settle"
    /\ transition(goal)
    /\ Return
    /\ UNCHANGED <<node, view, attested>>

\* A call fails or a tip is unusable (network, initial block download): the
\* worker returns, and a later dispatch starts again.
GivesUp ==
    /\ pc # "idle"
    /\ Fault
    /\ Return
    /\ UNCHANGED <<state, node, view, attested>>

-----------------------------------------------------------------------------
\* The node.

\* The part of chain c up to height h.
Cut(c, h) ==
    [height |-> h,
     mined |-> IF c.mined <= h THEN c.mined ELSE 0,
     rival |-> IF c.rival <= h THEN c.rival ELSE 0]

\* Consensus: no block after the expiry holds the transaction, and its notes
\* are spent once.
Valid(c) ==
    /\ c.mined <= c.height /\ c.rival <= c.height
    /\ c.mined <= Expiry
    /\ c.mined = 0 \/ c.rival = 0

\* One more block, or a branch that replaces the last depth blocks.
NewTip(depth, c) ==
    /\ depth <= chain.height
    /\ c.height = chain.height + 1
    /\ Valid(c)
    /\ Cut(c, chain.height - depth) = Cut(chain, chain.height - depth)
    /\ chain' = c
    /\ \/ loose' = "absent"
       \/ c.mined = 0 /\ chain.mined # 0 /\ loose' \in {"mempool", "orphaned"}
       \/ c.mined = 0 /\ chain.mined = 0 /\ loose' = loose
    /\ UNCHANGED <<state, worker, view, attested, faults>>

\* The transaction is submitted, rebroadcast or dropped.
MempoolMoves(s) ==
    /\ chain.mined = 0
    /\ s = "mempool" => chain.rival = 0 /\ chain.height < Expiry
    /\ loose' = s
    /\ UNCHANGED <<state, worker, chain, view, attested, faults>>

-----------------------------------------------------------------------------
\* The scanner.

\* It indexes blocks, or rolls back to one that is still in the chain when its
\* branch was abandoned.
Scan(h) ==
    /\ h <= chain.height
    /\ view = Cut(chain, view.height) => h > view.height
    /\ view' = Cut(chain, h)
    /\ UNCHANGED <<state, worker, node, attested, faults>>

Attest ==
    /\ attested' = TRUE
    /\ UNCHANGED <<state, worker, node, view, faults>>

\* The scanner starts over.  That takes longer than the deadline under which
\* scannerProof makes its calls.
Rebuild ==
    /\ pc # "statuses"
    /\ Fault
    /\ attested' = FALSE
    /\ view' = Genesis
    /\ UNCHANGED <<state, worker, node>>

-----------------------------------------------------------------------------
Works ==
    \/ Dispatch \/ Lookup \/ FollowConfirmed \/ FollowLoose \/ FollowExpiry
    \/ ProofTip \/ ProofHealth \/ ProofStatuses \/ Settle

Scans == \E h \in Heights : Scan(h)

Grows == \E c \in Chains : NewTip(0, c)

Next ==
    \/ Works \/ ExpiryUnknown \/ GivesUp
    \/ Grows \/ \E depth \in 1 .. MaxReorg, c \in Chains : NewTip(depth, c)
    \/ \E s \in {"absent", "mempool"} : MempoolMoves(s)
    \/ Scans \/ Attest \/ Rebuild

Spec == Init /\ [][Next]_vars

\* Workers run, blocks are found, and the scanner catches up and attests.
Fairness ==
    /\ WF_vars(Works)
    /\ WF_vars(Grows)
    /\ WF_vars(Scans)
    /\ WF_vars(Attest)

FairSpec == Spec /\ Fairness

-----------------------------------------------------------------------------
\* Properties.

\* A final attempt's transaction is in the chain, and stays there whatever
\* reorganisations follow: its notes are spent for good.
FinalStaysMined == state = "final" => chain.mined # 0

\* The transaction of a released attempt is not in the chain and never will
\* be: the notes it gives back cannot be spent twice.
ReleasedNeverMined == state = "released" => chain.mined = 0

\* What the chain has decided about the transaction: mined below every possible
\* reorganisation, or shut out below it by its expiry or by another spend.
Stable(h) == h # 0 /\ h + MaxReorg <= chain.height

fate ==
    IF Stable(chain.mined) THEN "final"
    ELSE IF chain.mined = 0 /\ (chain.height >= Expiry + MaxReorg \/ Stable(chain.rival))
    THEN "dead"
    ELSE "open"

\* reconcileAttempt keeps the promise Coordinator relies on.
Fate == INSTANCE TransactionFate WITH state <- state, fate <- fate
FateIsKept == Fate!Spec

\* A signed attempt is settled in the end, unless its notes were spent by
\* another transaction: then it stays locked.
Settled == <>[](state \in {"final", "released"} \/ chain.rival # 0)

-----------------------------------------------------------------------------
\* The inductive invariant.

\* What a tip read earlier says below every reorganisation still holds.
StillTrue(c) ==
    /\ Valid(c)
    /\ c.height <= chain.height
    /\ c.mined # 0 /\ c.mined + MaxReorg <= c.height => chain.mined = c.mined
    /\ c.mined = 0 /\ c.height >= Expiry + MaxReorg => chain.mined = 0

\* The worker's proof: of the tip it read, of the scanner it asked, and of the
\* terminal state it is about to write.
ProofInv ==
    /\ pc \in {"tip", "health", "statuses", "settle"} => goal \in {"final", "released"}
    /\ pc \in {"health", "statuses", "settle"} => StillTrue(tip)
    /\ pc = "statuses" => attested
    /\ pc = "settle" /\ goal = "final"
          => tip.mined # 0 /\ tip.mined + MaxReorg <= tip.height
    /\ pc = "settle" /\ goal = "released"
          => tip.mined = 0 /\ tip.height >= Expiry + MaxReorg

SettlementInv ==
    /\ TypeOK
    /\ Valid(chain)
    /\ ProofInv
    /\ state = "final" => fate = "final"
    /\ state = "released" => fate = "dead"
=============================================================================
