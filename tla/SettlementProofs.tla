--------------------------- MODULE SettlementProofs ---------------------------
(***************************************************************************)
(* Settlement keeps the promise of TransactionFate, for every confirmation *)
(* depth, expiry height and reorganisation bound below the confirmations.  *)
(***************************************************************************)
EXTENDS Settlement, TLAPS

\* A new tip keeps what is below the reorganisation: a transaction mined or
\* another spend there stays, and an expired one stays out.
LEMMA NewTipKeeps ==
    ASSUME TypeOK, Valid(chain), NEW depth \in 0 .. MaxReorg, NEW c \in Chains,
           NewTip(depth, c)
    PROVE  /\ chain' = c /\ Valid(c) /\ c.height = chain.height + 1
           /\ chain.mined # 0 /\ chain.mined + MaxReorg <= chain.height
                 => c.mined = chain.mined
           /\ chain.rival # 0 /\ chain.rival + MaxReorg <= chain.height
                 => c.rival = chain.rival /\ c.mined = 0
           /\ chain.mined = 0 /\ chain.height >= Expiry + MaxReorg => c.mined = 0
<1>1. /\ chain' = c /\ Valid(c) /\ c.height = chain.height + 1
      /\ depth <= chain.height
      /\ Cut(c, chain.height - depth) = Cut(chain, chain.height - depth)
  BY DEF NewTip
<1>2. /\ chain.height \in Nat /\ chain.mined \in Nat /\ chain.rival \in Nat
      /\ c.height \in Nat /\ c.mined \in Nat /\ c.rival \in Nat
      /\ depth \in Nat /\ depth <= MaxReorg /\ MaxReorg \in Nat /\ Expiry \in Nat
  BY SettlementAssumption DEF TypeOK, Chains, Heights
<1> DEFINE b == chain.height - depth
<1>3. /\ (IF c.mined <= b THEN c.mined ELSE 0) = (IF chain.mined <= b THEN chain.mined ELSE 0)
      /\ (IF c.rival <= b THEN c.rival ELSE 0) = (IF chain.rival <= b THEN chain.rival ELSE 0)
  BY <1>1 DEF Cut
<1>4. b \in Nat /\ b + MaxReorg >= chain.height
  BY <1>1, <1>2
<1> HIDE DEF b
<1>5. c.mined <= Expiry /\ (c.mined = 0 \/ c.rival = 0)
  BY <1>1 DEF Valid
<1> QED
  BY <1>1, <1>2, <1>3, <1>4, <1>5

\* The invariant holds initially.
LEMMA InitInv == Init => SettlementInv
<1> SUFFICES ASSUME Init PROVE SettlementInv
  OBVIOUS
<1>1. TypeOK
  <2>1. Genesis \in Chains /\ 0 \in 0 .. MaxFaults
    BY SettlementAssumption DEF Genesis, Chains, Heights
  <2>2. "signed" \in PostSigned
    BY DEF PostSigned
  <2>3. attested \in BOOLEAN
    BY Zenon DEF Init
  <2> QED
    BY <2>1, <2>2, <2>3 DEF Init, TypeOK
<1>2. Valid(chain)
  BY SettlementAssumption DEF Init, Valid, Genesis
<1>3. ProofInv
  BY DEF Init, ProofInv
<1>4. state # "final" /\ state # "released"
  BY DEF Init
<1> QED
  BY <1>1, <1>2, <1>3, <1>4 DEF SettlementInv

\* A new tip of the node preserves the invariant.
LEMMA NewTipInv ==
    ASSUME SettlementInv, NEW depth \in 0 .. MaxReorg, NEW c \in Chains, NewTip(depth, c)
    PROVE  SettlementInv'
<1> USE DEF SettlementInv
<1>1. /\ chain' = c /\ Valid(c) /\ c.height = chain.height + 1
      /\ chain.mined # 0 /\ chain.mined + MaxReorg <= chain.height => c.mined = chain.mined
      /\ chain.rival # 0 /\ chain.rival + MaxReorg <= chain.height
            => c.rival = chain.rival /\ c.mined = 0
      /\ chain.mined = 0 /\ chain.height >= Expiry + MaxReorg => c.mined = 0
  BY NewTipKeeps
<1>2. /\ chain.height \in Nat /\ chain.mined \in Nat /\ chain.rival \in Nat
      /\ c.height \in Nat /\ c.mined \in Nat /\ c.rival \in Nat
      /\ tip.height \in Nat /\ tip.mined \in Nat
      /\ MaxReorg \in Nat /\ Expiry \in Nat
  BY SettlementAssumption DEF TypeOK, Chains, Heights
<1>3. UNCHANGED <<state, pc, known, found, tip, goal, view, attested, faults>>
  BY DEF NewTip, worker
<1>4. TypeOK'
  BY <1>1, <1>3 DEF TypeOK, NewTip
<1>5. Valid(chain)'
  BY <1>1 DEF Valid
<1>6. ASSUME StillTrue(tip) PROVE StillTrue(tip)'
  BY <1>1, <1>2, <1>3, <1>6 DEF StillTrue, Valid
<1>7. ProofInv'
  BY <1>3, <1>6 DEF ProofInv
<1>8. (state = "final" => fate = "final")' /\ (state = "released" => fate = "dead")'
  BY <1>1, <1>2, <1>3 DEF fate, Stable
<1> QED
  BY <1>4, <1>5, <1>7, <1>8

\* What the proof has established when it ends is decided by the chain.
LEMMA SettleDecided ==
    ASSUME SettlementInv, pc = "settle"
    PROVE  /\ goal \in {"final", "released"}
           /\ goal = "final" => fate = "final"
           /\ goal = "released" => fate = "dead"
<1>1. /\ goal \in {"final", "released"} /\ StillTrue(tip)
      /\ goal = "final" => tip.mined # 0 /\ tip.mined + MaxReorg <= tip.height
      /\ goal = "released" => tip.mined = 0 /\ tip.height >= Expiry + MaxReorg
  BY DEF SettlementInv, ProofInv
<1>2. /\ chain.height \in Nat /\ chain.mined \in Nat /\ tip.height \in Nat
      /\ tip.mined \in Nat /\ MaxReorg \in Nat /\ Expiry \in Nat
  BY SettlementAssumption DEF SettlementInv, TypeOK, Chains, Heights
<1> QED
  BY <1>1, <1>2 DEF StillTrue, fate, Stable

\* The worker's copy and the row move among the tracking states only.
LEMMA TransitionTracks ==
    ASSUME NEW s \in PostSigned, state \in PostSigned \cup {"final", "released"},
           s # "signed", transition(s)
    PROVE  \/ state' = state
           \/ state \in PostSigned /\ state' = s
  BY DEF transition, Written, allowedAttemptTransition, terminalAttemptState, Terminal, PostSigned

\* A terminal state is written over a tracking state only.
LEMMA TransitionSettles ==
    ASSUME NEW s \in {"final", "released"}, state \in PostSigned \cup {"final", "released"},
           transition(s)
    PROVE  \/ state' = state
           \/ state \in PostSigned /\ state' = s
  BY DEF transition, Written, allowedAttemptTransition, terminalAttemptState, Terminal, PostSigned

\* The fault counter stays in its range.
LEMMA FaultsTyped ==
    ASSUME TypeOK, Fault \/ UNCHANGED faults
    PROVE  faults' \in 0 .. MaxFaults
  BY SettlementAssumption DEF TypeOK, Fault

\* Steps that leave the chain alone leave its verdict alone.
LEMMA FateUnchanged == ASSUME UNCHANGED chain PROVE fate' = fate
  BY DEF fate, Stable

\* Every step of the worker preserves the invariant.
LEMMA WorksInv == ASSUME SettlementInv, Works \/ ExpiryUnknown PROVE SettlementInv'
<1> USE DEF SettlementInv
<1>1. UNCHANGED chain /\ UNCHANGED <<loose, view, attested>>
  BY DEF Works, Dispatch, Lookup, FollowConfirmed, FollowLoose, FollowExpiry, ProofTip,
         ProofHealth, ProofStatuses, Settle, ExpiryUnknown, node
<1>f. faults' \in 0 .. MaxFaults
  <2>1. Fault \/ UNCHANGED faults
    BY DEF Works, Dispatch, Lookup, FollowConfirmed, FollowLoose, FollowExpiry, ProofTip,
           ProofHealth, ProofStatuses, Settle, ExpiryUnknown, transition
  <2> QED BY <2>1, FaultsTyped
<1>2. Valid(chain)' /\ fate' = fate
  BY <1>1, FateUnchanged DEF Valid
<1>t. TypeOK
  OBVIOUS
<1>g. Genesis \in Chains
  BY SettlementAssumption DEF Genesis, Chains, Heights
<1>p. "mined" \in PostSigned /\ "orphaned" \in PostSigned /\ "signed" \in PostSigned
      /\ "broadcast" \in PostSigned /\ "expired_pending_reconciliation" \in PostSigned
  BY DEF PostSigned
<1>n. "final" \notin PostSigned /\ "released" \notin PostSigned
  BY DEF PostSigned
<1>r. ASSUME Return, pc' = "idle" PROVE ProofInv'
  BY <1>r DEF ProofInv
<1>3. CASE Dispatch
  <2>1. TypeOK'
    BY <1>1, <1>f, <1>3, <1>t DEF Dispatch, Goto, TypeOK
  <2>2. ProofInv' /\ state' = state
    BY <1>3 DEF Dispatch, Goto, ProofInv
  <2> QED BY <1>2, <2>1, <2>2
<1>4. CASE Lookup
  <2>1. TypeOK'
    BY <1>1, <1>f, <1>4, <1>t DEF Lookup, TypeOK
  <2>2. ProofInv' /\ state' = state
    BY <1>4 DEF Lookup, ProofInv
  <2> QED BY <1>2, <2>1, <2>2
<1>5. CASE FollowConfirmed
  <2>1. CASE found = "confirmed" /\ transition("mined") /\ Return
    <3>1. state' = state \/ (state \in PostSigned /\ state' = "mined")
      BY <2>1, <1>p, <1>t, TransitionTracks DEF TypeOK
    <3>2. TypeOK'
      BY <1>1, <1>f, <1>g, <1>p, <1>t, <2>1, <3>1 DEF TypeOK, Return
    <3>3. ProofInv'
      BY <1>r, <2>1 DEF Return
    <3> QED BY <1>2, <1>n, <3>1, <3>2, <3>3
  <2>2. CASE found = "deep" /\ Goto("tip") /\ goal' = "final" /\ UNCHANGED <<state, known>>
    <3>1. TypeOK'
      BY <1>1, <1>f, <1>t, <2>2 DEF TypeOK, Goto
    <3>2. ProofInv'
      BY <2>2 DEF ProofInv, Goto
    <3> QED BY <1>2, <2>2, <3>1, <3>2
  <2> QED BY <1>5, <2>1, <2>2 DEF FollowConfirmed
<1>6. CASE FollowLoose
  <2>1. state' = state \/ (state \in PostSigned /\ state' = "orphaned")
    BY <1>6, <1>p, <1>t, TransitionTracks DEF TypeOK, FollowLoose
  <2>2. TypeOK'
    BY <1>1, <1>f, <1>6, <1>p, <1>t, <2>1 DEF TypeOK, FollowLoose, Goto
  <2>3. ProofInv'
    BY <1>6 DEF ProofInv, FollowLoose, Goto
  <2> QED BY <1>2, <1>n, <2>1, <2>2, <2>3
<1>7. CASE FollowExpiry
  <2>1. CASE /\ transition("expired_pending_reconciliation")
             /\ known' = "expired_pending_reconciliation"
             /\ ProveExpired
    <3>1. \/ state' = state
          \/ state \in PostSigned /\ state' = "expired_pending_reconciliation"
      BY <2>1, <1>p, <1>t, TransitionTracks DEF TypeOK
    <3>2. TypeOK'
      BY <1>1, <1>f, <1>p, <1>t, <2>1, <3>1 DEF TypeOK, ProveExpired, Goto
    <3>3. ProofInv'
      BY <2>1 DEF ProofInv, ProveExpired, Goto
    <3> QED BY <1>2, <1>n, <3>1, <3>2, <3>3
  <2>2. CASE transition("broadcast") /\ Return
    <3>1. state' = state \/ (state \in PostSigned /\ state' = "broadcast")
      BY <2>2, <1>p, <1>t, TransitionTracks DEF TypeOK
    <3>2. TypeOK'
      BY <1>1, <1>f, <1>g, <1>p, <1>t, <2>2, <3>1 DEF TypeOK, Return
    <3>3. ProofInv'
      BY <1>r, <2>2 DEF Return
    <3> QED BY <1>2, <1>n, <3>1, <3>2, <3>3
  <2>3. CASE ProveExpired /\ UNCHANGED <<state, known>>
    <3>1. TypeOK'
      BY <1>1, <1>f, <1>t, <2>3 DEF TypeOK, ProveExpired, Goto
    <3>2. ProofInv'
      BY <2>3 DEF ProofInv, ProveExpired, Goto
    <3> QED BY <1>2, <2>3, <3>1, <3>2
  <2> QED BY <1>7, <2>1, <2>2, <2>3 DEF FollowExpiry
<1>8. CASE ProofTip
  <2>1. TypeOK'
    BY <1>1, <1>f, <1>8, <1>t DEF TypeOK, ProofTip
  <2>2. StillTrue(tip)'
    <3>1. chain.height \in Nat
      BY <1>t DEF TypeOK, Chains, Heights
    <3> QED BY <1>1, <1>8, <3>1 DEF ProofTip, StillTrue, Valid
  <2>3. ProofInv' /\ state' = state
    BY <1>8, <2>2 DEF ProofTip, ProofInv
  <2> QED BY <1>2, <2>1, <2>3
<1>9. CASE ProofHealth
  <2>1. CASE HealthAgrees /\ Goto("statuses") /\ UNCHANGED <<known, goal>>
    <3>1. TypeOK'
      BY <1>1, <1>f, <1>9, <1>t, <2>1 DEF TypeOK, ProofHealth, Goto
    <3>2. StillTrue(tip)' /\ attested'
      BY <1>1, <1>9, <2>1 DEF ProofHealth, ProofInv, HealthAgrees, Goto, StillTrue, Valid
    <3>3. ProofInv' /\ state' = state
      BY <1>9, <2>1, <3>2 DEF ProofHealth, ProofInv, Goto
    <3> QED BY <1>2, <3>1, <3>3
  <2>2. CASE Return
    <3>1. TypeOK'
      BY <1>1, <1>f, <1>9, <1>g, <1>p, <1>t, <2>2 DEF TypeOK, ProofHealth, Return
    <3>2. ProofInv' /\ state' = state
      BY <1>9, <1>r, <2>2 DEF ProofHealth, Return
    <3> QED BY <1>2, <3>1, <3>2
  <2> QED BY <1>9, <2>1, <2>2 DEF ProofHealth
<1>10. CASE ProofStatuses
  <2>1. PICK status \in NoteStatuses :
          IF view = tip /\ Proves(status) THEN Goto("settle") /\ UNCHANGED <<known, goal>>
                                          ELSE Return
    BY <1>10 DEF ProofStatuses
  <2>2. CASE view = tip /\ Proves(status) /\ Goto("settle") /\ UNCHANGED <<known, goal>>
    <3>1. TypeOK'
      BY <1>1, <1>f, <1>10, <1>t, <2>2 DEF TypeOK, ProofStatuses, Goto
    <3>2. StillTrue(tip) /\ attested /\ goal \in {"final", "released"}
      BY <1>10 DEF ProofStatuses, ProofInv
    <3>3. /\ tip.height \in Nat /\ tip.mined \in Nat /\ Confirmations \in Nat
          /\ MaxReorg \in Nat /\ MaxReorg < Confirmations /\ Expiry \in Nat
      BY <1>t, SettlementAssumption DEF TypeOK, Chains, Heights
    <3>4. goal = "final" => tip.mined # 0 /\ tip.mined + MaxReorg <= tip.height
      BY <2>2, <3>2, <3>3 DEF NoteStatuses, Proves, Buried
    <3>5. goal = "released" => tip.mined = 0 /\ tip.height >= Expiry + MaxReorg
      BY <2>2, <3>2, <3>3 DEF NoteStatuses, Proves, Buried
    <3>6. StillTrue(tip)'
      BY <1>1, <2>2, <3>2 DEF Goto, StillTrue, Valid
    <3>7. ProofInv' /\ state' = state
      BY <1>10, <2>2, <3>2, <3>4, <3>5, <3>6 DEF ProofStatuses, ProofInv, Goto
    <3> QED BY <1>2, <3>1, <3>7
  <2>3. CASE Return
    <3>1. TypeOK'
      BY <1>1, <1>f, <1>10, <1>g, <1>p, <1>t, <2>3 DEF TypeOK, ProofStatuses, Return
    <3>2. ProofInv' /\ state' = state
      BY <1>10, <1>r, <2>3 DEF ProofStatuses, Return
    <3> QED BY <1>2, <3>1, <3>2
  <2> QED BY <2>1, <2>2, <2>3
<1>11. CASE Settle
  <2>1. /\ goal \in {"final", "released"}
        /\ goal = "final" => fate = "final"
        /\ goal = "released" => fate = "dead"
    BY <1>11, SettleDecided DEF Settle
  <2>2. state' = state \/ (state \in PostSigned /\ state' = goal)
    BY <1>11, <1>t, <2>1, TransitionSettles DEF Settle, TypeOK
  <2>3. TypeOK'
    BY <1>1, <1>f, <1>11, <1>g, <1>p, <1>t, <2>1, <2>2 DEF TypeOK, Settle, Return
  <2>4. ProofInv'
    BY <1>11, <1>r DEF Settle, Return
  <2> QED BY <1>2, <2>1, <2>2, <2>3, <2>4
<1>12. CASE ExpiryUnknown
  <2>1. CASE state' = Written("broadcast") /\ Return
    <3>1. state' = state \/ (state \in PostSigned /\ state' = "broadcast")
      BY <1>t, <2>1 DEF TypeOK, Written, allowedAttemptTransition, terminalAttemptState,
                       Terminal, PostSigned
    <3>2. TypeOK'
      BY <1>1, <1>f, <1>g, <1>p, <1>t, <2>1, <3>1 DEF TypeOK, Return
    <3>3. ProofInv'
      BY <1>r, <2>1 DEF Return
    <3> QED BY <1>2, <1>n, <3>1, <3>2, <3>3
  <2>2. CASE ProveExpired /\ UNCHANGED <<state, known>>
    <3>1. TypeOK'
      BY <1>1, <1>f, <1>t, <2>2 DEF TypeOK, ProveExpired, Goto
    <3>2. ProofInv'
      BY <2>2 DEF ProofInv, ProveExpired, Goto
    <3> QED BY <1>2, <2>2, <3>1, <3>2
  <2> QED BY <1>12, <2>1, <2>2 DEF ExpiryUnknown
<1> QED
  BY <1>3, <1>4, <1>5, <1>6, <1>7, <1>8, <1>9, <1>10, <1>11, <1>12 DEF Works

\* The node, the scanner and a failing call leave the proof alone.
LEMMA OtherInv ==
    ASSUME SettlementInv,
           \/ GivesUp \/ Scans \/ Attest \/ Rebuild \/ UNCHANGED vars
           \/ \E s \in {"absent", "mempool"} : MempoolMoves(s)
    PROVE  SettlementInv' /\ UNCHANGED <<state, chain>>
<1> USE DEF SettlementInv
<1>1. UNCHANGED <<state, chain>>
  BY DEF GivesUp, Scans, Scan, Attest, Rebuild, vars, MempoolMoves, node
<1>2. Valid(chain)' /\ fate' = fate
  BY <1>1, FateUnchanged DEF Valid
<1>3. ASSUME NEW h \in Nat, h <= chain.height PROVE Cut(chain, h) \in Chains
  <2>1. /\ chain.height \in Nat /\ chain.mined \in Heights /\ chain.rival \in Heights
        /\ chain.height <= MaxHeight /\ MaxHeight \in Nat
    BY SettlementAssumption DEF TypeOK, Chains, Heights
  <2>2. 0 \in Heights /\ h \in Heights
    BY <1>3, <2>1 DEF Heights
  <2> QED
    BY <2>1, <2>2 DEF Chains, Cut
<1>g. Genesis \in Chains
  BY SettlementAssumption DEF Genesis, Chains, Heights
<1>4. TypeOK'
  <2>0. TypeOK /\ MaxFaults \in Nat /\ "signed" \in PostSigned
    BY SettlementAssumption DEF PostSigned
  <2>1. CASE GivesUp
    BY <1>g, <2>0, <2>1 DEF GivesUp, Fault, Return, TypeOK, node
  <2>2. CASE Scans
    BY <1>3, <2>0, <2>2 DEF Scans, Scan, TypeOK, worker, node, Heights
  <2>3. CASE Attest
    BY <2>0, <2>3 DEF Attest, TypeOK, worker, node
  <2>4. CASE Rebuild
    <3>1. attested' \in BOOLEAN
      BY <2>4, Zenon DEF Rebuild
    <3>2. faults' \in 0 .. MaxFaults
      BY <2>0, <2>4 DEF Rebuild, Fault, TypeOK
    <3> QED BY <1>g, <2>0, <2>4, <3>1, <3>2 DEF Rebuild, TypeOK, worker, node
  <2>5. CASE UNCHANGED vars
    BY <2>0, <2>5 DEF vars, TypeOK, worker, node
  <2>6. CASE \E s \in {"absent", "mempool"} : MempoolMoves(s)
    BY <2>0, <2>6 DEF MempoolMoves, TypeOK, worker
  <2> QED BY <2>1, <2>2, <2>3, <2>4, <2>5, <2>6
<1>5. ProofInv'
  <2>1. CASE GivesUp
    BY <2>1 DEF GivesUp, Return, ProofInv
  <2>2. CASE ~GivesUp
    <3>1. UNCHANGED <<pc, tip, goal>>
      BY <2>2 DEF Scans, Scan, Attest, Rebuild, vars, MempoolMoves, worker
    <3>2. pc = "statuses" => attested'
      BY <2>2 DEF Scans, Scan, Attest, Rebuild, vars, MempoolMoves, ProofInv
    <3>3. StillTrue(tip) => StillTrue(tip)'
      BY <1>1, <3>1 DEF StillTrue, Valid
    <3> QED BY <3>1, <3>2, <3>3 DEF ProofInv
  <2> QED BY <2>1, <2>2
<1> QED
  BY <1>1, <1>2, <1>4, <1>5

\* A step is one of the worker, a new tip, or one that changes neither the row
\* nor the chain.
LEMMA NextCases ==
    ASSUME [Next]_vars
    PROVE  \/ Works \/ ExpiryUnknown
           \/ \E depth \in 0 .. MaxReorg, c \in Chains : NewTip(depth, c)
           \/ \/ GivesUp \/ Scans \/ Attest \/ Rebuild \/ UNCHANGED vars
              \/ \E s \in {"absent", "mempool"} : MempoolMoves(s)
<1>1. ASSUME Grows PROVE \E depth \in 0 .. MaxReorg, c \in Chains : NewTip(depth, c)
  <2>1. 0 \in 0 .. MaxReorg
    BY SettlementAssumption
  <2> QED BY <1>1, <2>1 DEF Grows
<1>2. ASSUME NEW depth \in 1 .. MaxReorg PROVE depth \in 0 .. MaxReorg
  BY SettlementAssumption
<1> QED
  BY <1>1, <1>2 DEF Next

\* The inductive invariant: what the worker has proved of the tip it read still
\* holds of the chain, whatever the node and the scanner do meanwhile.
THEOREM SettlementInvariant == Spec => []SettlementInv
<1>1. SettlementInv /\ [Next]_vars => SettlementInv'
  BY NextCases, WorksInv, NewTipInv, OtherInv
<1> QED
  BY <1>1, InitInv, PTL DEF Spec

\* The worker's copy, its proof and the row keep their types through every
\* failure and reorganisation.
THEOREM SettlementTypeCorrect == Spec => []TypeOK
<1>1. SettlementInv => TypeOK
  BY DEF SettlementInv
<1> QED
  BY <1>1, SettlementInvariant, PTL

\* reconcileFinal: the transaction of a final attempt is in the chain, and no
\* reorganisation takes it out again.
THEOREM FinalIsForGood == Spec => []FinalStaysMined
<1>1. SettlementInv => FinalStaysMined
  BY DEF SettlementInv, FinalStaysMined, fate, Stable
<1> QED
  BY <1>1, SettlementInvariant, PTL

\* reconcileExpired: the transaction of a released attempt is never mined, so
\* the notes it gives back are not spent twice.
THEOREM ReleasedIsForGood == Spec => []ReleasedNeverMined
<1>1. SettlementInv => ReleasedNeverMined
  BY DEF SettlementInv, ReleasedNeverMined, fate, Stable
<1> QED
  BY <1>1, SettlementInvariant, PTL

\* A step of the worker tracks or settles.
LEMMA WorksKeeps ==
    ASSUME SettlementInv, Works \/ ExpiryUnknown
    PROVE  Fate!Tracks \/ Fate!Settles \/ UNCHANGED <<state, fate>>
<1>1. fate' = fate
  <2>1. UNCHANGED chain
    BY DEF Works, Dispatch, Lookup, FollowConfirmed, FollowLoose, FollowExpiry, ProofTip,
           ProofHealth, ProofStatuses, Settle, ExpiryUnknown, node
  <2> QED BY <2>1, FateUnchanged
<1>2. state \in PostSigned \cup {"final", "released"}
  BY DEF SettlementInv, TypeOK
<1>3. PostSigned = Fate!PostSigned
  BY DEF PostSigned, Fate!PostSigned
<1>t. ASSUME NEW s \in {"mined", "orphaned", "broadcast", "expired_pending_reconciliation"},
             transition(s)
      PROVE  Fate!Tracks \/ UNCHANGED <<state, fate>>
  <2>1. s \in PostSigned /\ s # "signed"
    BY DEF PostSigned
  <2>2. state' = state \/ (state \in PostSigned /\ state' = s)
    BY <1>2, <1>t, <2>1, TransitionTracks
  <2> QED BY <1>1, <1>3, <2>1, <2>2 DEF Fate!Tracks
<1>4. CASE Dispatch \/ Lookup \/ ProofTip \/ ProofHealth \/ ProofStatuses
  BY <1>1, <1>4 DEF Dispatch, Lookup, ProofTip, ProofHealth, ProofStatuses
<1>5. CASE FollowConfirmed
  BY <1>1, <1>5, <1>t DEF FollowConfirmed
<1>6. CASE FollowLoose
  BY <1>1, <1>6, <1>t DEF FollowLoose
<1>7. CASE FollowExpiry
  BY <1>1, <1>7, <1>t DEF FollowExpiry
<1>x. CASE ExpiryUnknown
  <2>1. CASE state' = Written("broadcast")
    <3>1. state' = state \/ (state \in PostSigned /\ state' = "broadcast")
      BY <1>2, <2>1 DEF Written, allowedAttemptTransition, terminalAttemptState, Terminal,
                       PostSigned
    <3>2. "broadcast" \in PostSigned
      BY DEF PostSigned
    <3> QED BY <1>1, <1>3, <3>1, <3>2 DEF Fate!Tracks
  <2> QED BY <1>1, <1>x, <2>1 DEF ExpiryUnknown
<1>8. CASE Settle
  <2>1. /\ goal \in {"final", "released"}
        /\ goal = "final" => fate = "final"
        /\ goal = "released" => fate = "dead"
    BY <1>8, SettleDecided DEF Settle
  <2>2. state' = state \/ (state \in PostSigned /\ state' = goal)
    BY <1>2, <1>8, <2>1, TransitionSettles DEF Settle
  <2> QED BY <1>1, <1>3, <2>1, <2>2 DEF Fate!Settles
<1> QED
  BY <1>4, <1>5, <1>6, <1>7, <1>8, <1>x DEF Works

\* The chain decides the fate of a transaction at most once.
LEMMA NewTipKeepsFate ==
    ASSUME SettlementInv, NEW depth \in 0 .. MaxReorg, NEW c \in Chains, NewTip(depth, c)
    PROVE  Fate!Decides \/ UNCHANGED <<state, fate>>
<1>1. /\ chain' = c /\ Valid(c) /\ c.height = chain.height + 1
      /\ chain.mined # 0 /\ chain.mined + MaxReorg <= chain.height => c.mined = chain.mined
      /\ chain.rival # 0 /\ chain.rival + MaxReorg <= chain.height
            => c.rival = chain.rival /\ c.mined = 0
      /\ chain.mined = 0 /\ chain.height >= Expiry + MaxReorg => c.mined = 0
  BY NewTipKeeps DEF SettlementInv
<1>2. /\ chain.height \in Nat /\ chain.mined \in Nat /\ chain.rival \in Nat
      /\ c.height \in Nat /\ c.mined \in Nat /\ c.rival \in Nat
      /\ MaxReorg \in Nat /\ Expiry \in Nat
  BY SettlementAssumption DEF SettlementInv, TypeOK, Chains, Heights
<1>3. UNCHANGED state
  BY DEF NewTip
<1>4. fate = "final" => fate' = "final"
  BY <1>1, <1>2 DEF fate, Stable
<1>5. fate = "dead" => fate' = "dead"
  BY <1>1, <1>2 DEF fate, Stable
<1>6. fate \in {"open", "final", "dead"} /\ fate' \in {"open", "final", "dead"}
  BY DEF fate
<1> QED
  BY <1>3, <1>4, <1>5, <1>6 DEF Fate!Decides

\* reconcileAttempt implements TransactionFate: the row ends as the chain has
\* decided, and only after it has.
THEOREM FateKept == Spec => FateIsKept
<1>1. Init => Fate!Init
  BY SettlementAssumption DEF Init, Fate!Init, fate, Stable, Genesis
<1>2. SettlementInv /\ [Next]_vars => [Fate!Next]_<<state, fate>>
  <2> SUFFICES ASSUME SettlementInv, [Next]_vars
               PROVE  Fate!Next \/ UNCHANGED <<state, fate>>
    OBVIOUS
  <2>1. CASE Works \/ ExpiryUnknown
    BY <2>1, WorksKeeps DEF Fate!Next
  <2>2. CASE \E depth \in 0 .. MaxReorg, c \in Chains : NewTip(depth, c)
    BY <2>2, NewTipKeepsFate DEF Fate!Next
  <2>3. CASE \/ GivesUp \/ Scans \/ Attest \/ Rebuild \/ UNCHANGED vars
             \/ \E s \in {"absent", "mempool"} : MempoolMoves(s)
    BY <2>3, OtherInv, FateUnchanged
  <2> QED BY <2>1, <2>2, <2>3, NextCases
<1> QED
  BY <1>1, <1>2, SettlementInvariant, PTL DEF Spec, FateIsKept, Fate!Spec
=============================================================================
