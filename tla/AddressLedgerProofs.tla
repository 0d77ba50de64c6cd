------------------------ MODULE AddressLedgerProofs ------------------------
(***************************************************************************)
(* Theorems about AddressLedger, for every set of wallets, requests,       *)
(* commands and attempts, every size of the index space and every number   *)
(* of faults.                                                              *)
(***************************************************************************)
EXTENDS AddressLedger, TLAPS

-----------------------------------------------------------------------------
(* Typing.                                                                 *)

\* A database stays typed when a row is registered.
LEMMA RowType ==
  ASSUME NEW d \in Databases, NEW w \in Wallets, NEW i \in Indices
  PROVE  /\ WithRow(d, w, i) \in Databases
         /\ WithRow(d, w, i).bound = d.bound
         /\ WithRow(d, w, i).seal = d.seal
         /\ WithRow(d, w, i).attempts = d.attempts
         /\ \A v \in Wallets : d.rows[v] \subseteq WithRow(d, w, i).rows[v]
         /\ i \in WithRow(d, w, i).rows[w]
  <1> DEFINE rs == [d.rows EXCEPT ![w] = @ \cup {i}]
             e  == WithRow(d, w, i)
  <1>1. d.rows \in [Wallets -> SUBSET Indices]
    BY DEF Databases
  <1>2. rs \in [Wallets -> SUBSET Indices]
    BY <1>1
  <1>3. e = [d EXCEPT !.rows = rs]
    BY DEF WithRow
  <1> HIDE DEF rs
  <1>4. e \in Databases /\ e.rows = rs
    BY <1>2, <1>3 DEF Databases
  <1>5. e.bound = d.bound /\ e.seal = d.seal /\ e.attempts = d.attempts
    BY <1>3 DEF Databases
  <1>6. \A v \in Wallets : d.rows[v] \subseteq rs[v]
    BY <1>1 DEF rs
  <1>7. i \in rs[w]
    BY <1>1 DEF rs
  <1> QED
    BY <1>4, <1>5, <1>6, <1>7

\* A database without rows and metadata is typed.
LEMMA EmptyType == EmptyDatabase \in Databases /\ ~ EmptyDatabase.bound
  BY DEF EmptyDatabase, Databases

\* Dropping or keeping a request's variables leaves them typed.
LEMMA DropType ==
  ASSUME TypeOK, NEW h \in Handlers, Drop(h)
  PROVE  /\ pc' \in [Handlers -> RequestSteps]
         /\ wallet' \in [Handlers -> Wallets \cup {NoWallet}]
         /\ index' \in [Handlers -> Indices]
  BY LedgerAssumption DEF TypeOK, Drop, RequestSteps, Indices

\* The steps of an allocation keep the types.
LEMMA AllocatesType ==
  ASSUME TypeOK, RequestsInv, NEW h \in Handlers, Allocates(h)
  PROVE  TypeOK'
  <1>1. ASSUME NEW w \in Wallets, ReserveAddressIndex(h, w) PROVE TypeOK'
    <2>1. next' \in [Wallets -> 0..(MaxIndex + 1)] /\ next[w] \in Indices
      BY <1>1, LedgerAssumption DEF TypeOK, ReserveAddressIndex, Advance, Indices
    <2> QED
      BY <1>1, <2>1 DEF TypeOK, ReserveAddressIndex, RequestSteps, commands, history
  <1>2. ASSUME NEW w \in Wallets, ReserveFails(h, w) PROVE TypeOK'
    BY <1>2, LedgerAssumption
       DEF TypeOK, ReserveFails, Advance, Fault, requests, commands, history
  <1>3. CASE AllocateAddressAt(h)
    <2>1. wallet[h] \in Wallets /\ index[h] \in Indices
      BY <1>3 DEF AllocateAddressAt, RequestsInv, Busy, TypeOK
    <2>2. db' \in Databases
      BY <1>3, <2>1, RowType DEF AllocateAddressAt, TypeOK
    <2> DEFINE counts == [issued[wallet[h]] EXCEPT ![index[h]] = @ + 1]
    <2>3. issued' = [issued EXCEPT ![wallet[h]] = counts]
      BY <1>3 DEF AllocateAddressAt
    <2>4. counts \in [Indices -> Nat]
      BY <2>1 DEF TypeOK
    <2> HIDE DEF counts
    <2>5. issued' \in [Wallets -> [Indices -> Nat]]
      BY <2>1, <2>3, <2>4 DEF TypeOK
    <2> QED
      BY <1>3, <2>2, <2>5, DropType
         DEF AllocateAddressAt, TypeOK, ledger, commands
  <1>4. CASE AllocateFails(h)
    <2>1. wallet[h] \in Wallets /\ index[h] \in Indices
      BY <1>4 DEF AllocateFails, RequestsInv, Busy, TypeOK
    <2>2. db' \in Databases
      BY <1>4, <2>1, RowType DEF AllocateFails, TypeOK
    <2> QED
      BY <1>4, <2>2, LedgerAssumption
         DEF AllocateFails, TypeOK, Fault, RequestSteps, ledger, commands, history
  <1>5. CASE MarkAddressIndexSkipped(h)
    <2>0. wallet[h] \in Wallets /\ index[h] \in Indices
      BY <1>5 DEF MarkAddressIndexSkipped, RequestsInv, Busy, TypeOK
    <2>1. skipped' \in [Wallets -> SUBSET Indices]
      BY <1>5, <2>0 DEF MarkAddressIndexSkipped, TypeOK
    <2> QED
      BY <1>5, <2>1, DropType DEF MarkAddressIndexSkipped, TypeOK, commands, history
  <1>6. CASE MarkFails(h)
    BY <1>6, DropType, LedgerAssumption
       DEF MarkFails, TypeOK, Fault, ledger, commands, history
  <1> QED
    BY <1>1, <1>2, <1>3, <1>4, <1>5, <1>6 DEF Allocates

\* What a command's control keeps typed.
LEMMA CommandType ==
  ASSUME TypeOK, NEW o \in Admins,
         NEW step \in {"none"} \cup InitSteps \cup RecoverSteps,
         Goto(o, step) \/ Ends(o)
  PROVE  /\ command' \in [Admins -> {"none"} \cup InitSteps \cup RecoverSteps]
         /\ targets' \in [Admins -> [Wallets -> 0..(MaxIndex + 1)]]
  <1>1. CASE Goto(o, step)
    BY <1>1 DEF TypeOK, Goto
  <1>2. CASE Ends(o)
    <2>1. command' \in [Admins -> {"none"} \cup InitSteps \cup RecoverSteps]
      BY <1>2 DEF TypeOK, Ends
    <2> DEFINE zero == [w \in Wallets |-> 0]
    <2>2. zero \in [Wallets -> 0..(MaxIndex + 1)]
      BY LedgerAssumption
    <2>3. targets' = [targets EXCEPT ![o] = zero]
      BY <1>2 DEF Ends
    <2> HIDE DEF zero
    <2> QED
      BY <2>1, <2>2, <2>3 DEF TypeOK
  <1> QED
    BY <1>1, <1>2

\* The steps of init keep the types.
LEMMA InitializesType ==
  ASSUME TypeOK, NEW o \in Admins, Initializes(o)
  PROVE  TypeOK'
  <1> USE DEF InitSteps
  <1>1. CASE InitChecks(o)
    BY <1>1, CommandType
       DEF InitChecks, TypeOK, ledger, requests, history
  <1>2. CASE InitCreate(o)
    <2>1. /\ [w \in Wallets |-> 0] \in [Wallets -> 0..(MaxIndex + 1)]
          /\ [w \in Wallets |-> {}] \in [Wallets -> SUBSET Indices]
      BY LedgerAssumption
    <2>2. /\ exists' \in BOOLEAN
          /\ next' \in [Wallets -> 0..(MaxIndex + 1)]
          /\ skipped' \in [Wallets -> SUBSET Indices]
      BY <1>2, <2>1 DEF InitCreate, TypeOK, ledger
    <2>3. Goto(o, "init_begin") \/ Ends(o)
      BY <1>2 DEF InitCreate
    <2> QED
      BY <1>2, <2>2, <2>3, CommandType DEF InitCreate, TypeOK, requests, history
  <1>3. CASE InitBegin(o)
    <2>1. db' \in Databases
      BY <1>3 DEF InitBegin, BeginInstallationRecovery, TypeOK, Databases
    <2> QED
      BY <1>3, <2>1, CommandType
         DEF InitBegin, BeginInstallationRecovery, TypeOK, ledger, requests, history
  <1>4. CASE InitBind(o)
    <2>1. db' \in Databases
      BY <1>4 DEF InitBind, bindInstallation, TypeOK, Databases
    <2> QED
      BY <1>4, <2>1, CommandType DEF InitBind, TypeOK, ledger, requests, history
  <1> QED
    BY <1>1, <1>2, <1>3, <1>4 DEF Initializes

\* The steps of recover keep the types.
LEMMA RecoversType ==
  ASSUME TypeOK, NEW o \in Admins, RecoverChecks(o) \/ Recovers(o)
  PROVE  TypeOK'
  <1> USE DEF RecoverSteps
  <1>1. CASE RecoverChecks(o)
    BY <1>1 DEF RecoverChecks, RecoveryTargets, TypeOK, ledger, requests, history
  <1>2. CASE RecoverBegin(o)
    <2>1. db' \in Databases
      BY <1>2 DEF RecoverBegin, BeginInstallationRecovery, TypeOK, Databases
    <2> QED
      BY <1>2, <2>1, CommandType
         DEF RecoverBegin, BeginInstallationRecovery, TypeOK, ledger, requests, history
  <1>3. CASE RaiseHighWater(o)
    BY <1>3, CommandType DEF RaiseHighWater, TypeOK, requests, history
  <1>4. ASSUME NEW w \in Wallets, NEW i \in Indices, RebuildRow(o, w, i) PROVE TypeOK'
    BY <1>4, RowType DEF RebuildRow, TypeOK, ledger, requests, commands, history
  <1>5. CASE ClearSkippedAddressIndices(o)
    BY <1>5 DEF ClearSkippedAddressIndices, TypeOK, requests, history
  <1>6. CASE RecoverVerifies(o)
    BY <1>6, CommandType DEF RecoverVerifies, TypeOK, ledger, requests, history
  <1>7. CASE RecoverBind(o)
    <2>1. db' \in Databases
      BY <1>7 DEF RecoverBind, bindInstallation, TypeOK, Databases
    <2> QED
      BY <1>7, <2>1, CommandType DEF RecoverBind, TypeOK, ledger, requests, history
  <1> QED
    BY <1>1, <1>2, <1>3, <1>4, <1>5, <1>6, <1>7 DEF Recovers

\* Everything else keeps the types.
LEMMA OtherType ==
  ASSUME TypeOK, 
         \/ \E o \in Admins : UnsealCoordinatorRecovery(o) \/ CommandDies(o)
         \/ \E a \in Attempts : ClaimAttempt(a)
         \/ OpenForServe \/ Environment
  PROVE  TypeOK'
  <1>1. ASSUME NEW o \in Admins, UnsealCoordinatorRecovery(o) PROVE TypeOK'
    <2>1. db' \in Databases
      BY <1>1 DEF UnsealCoordinatorRecovery, TypeOK, Databases
    <2> QED
      BY <1>1, <2>1 DEF UnsealCoordinatorRecovery, TypeOK, ledger, requests, commands
  <1>2. ASSUME NEW o \in Admins, CommandDies(o) PROVE TypeOK'
    BY <1>2, CommandType, LedgerAssumption
       DEF CommandDies, Fault, TypeOK, ledger, requests, history
  <1>3. ASSUME NEW a \in Attempts, ClaimAttempt(a) PROVE TypeOK'
    <2>1. db' \in Databases
      BY <1>3 DEF ClaimAttempt, TypeOK, Databases
    <2> QED
      BY <1>3, <2>1 DEF ClaimAttempt, TypeOK, ledger, requests, commands
  <1>4. CASE OpenForServe
    BY <1>4 DEF OpenForServe, TypeOK, ledger, requests, commands, history
  <1>5. CASE Crash
    <2>1. /\ pc' \in [Handlers -> RequestSteps]
          /\ wallet' \in [Handlers -> Wallets \cup {NoWallet}]
          /\ index' \in [Handlers -> Indices]
      BY <1>5, LedgerAssumption DEF Crash, RequestSteps, Indices
    <2>2. serving' \in BOOLEAN
      BY <1>5 DEF Crash
    <2>3. faults' \in 0..MaxFaults
      BY <1>5, LedgerAssumption DEF Crash, Fault, TypeOK
    <2> QED
      BY <1>5, <2>1, <2>2, <2>3 DEF Crash, TypeOK, ledger, commands, history
  <1>6. CASE Shutdown
    BY <1>6 DEF Shutdown, TypeOK, ledger, requests, commands, history
  <1>7. CASE LoseDatabase
    BY <1>7, EmptyType, LedgerAssumption
       DEF LoseDatabase, Fault, TypeOK, ledger, requests, commands, history
  <1>8. CASE TakeBackup
    BY <1>8 DEF TakeBackup, TypeOK, ledger, requests, commands, history
  <1>9. CASE RestoreBackup
    BY <1>9, LedgerAssumption
       DEF RestoreBackup, Fault, TypeOK, ledger, requests, commands, history
  <1> QED
    BY <1>1, <1>2, <1>3, <1>4, <1>5, <1>6, <1>7, <1>8, <1>9 DEF Environment

-----------------------------------------------------------------------------
(* The ledger.                                                             *)

\* Steps that issue nothing, take no index, drop no mark and, while the server
\* runs, keep the rows and the binding.
LEMMA LedgerQuiet ==
  ASSUME LedgerInv, TypeOK',
         UNCHANGED <<requests, issued, serving>>,
         exists => exists',
         \A w \in Wallets : next[w] <= next'[w] /\ skipped'[w] \subseteq skipped[w],
         serving => db'.bound,
         serving => \A w \in Wallets : db.rows[w] \subseteq db'.rows[w]
  PROVE  LedgerInv'
  <1>1. UNCHANGED <<pc, wallet, index>>
    BY DEF requests
  <1>2. \A w \in Wallets : /\ next[w] \in Nat /\ next'[w] \in Nat
                            /\ next[w] <= next'[w]
                            /\ skipped'[w] \subseteq skipped[w]
    BY LedgerAssumption DEF LedgerInv, TypeOK
  <1>3. RequestsInv'
    <2>1. ASSUME NEW h \in Handlers, Busy(h)'
          PROVE  /\ serving'
                 /\ wallet'[h] \in Wallets
                 /\ index'[h] < next'[wallet'[h]]
                 /\ issued'[wallet'[h]][index'[h]] = 0
                 /\ index'[h] \notin skipped'[wallet'[h]]
      <3>1. Busy(h)
        BY <1>1, <2>1 DEF Busy
      <3>2. index[h] \in Nat
        BY LedgerAssumption DEF LedgerInv, TypeOK, Indices
      <3>3. /\ serving /\ wallet[h] \in Wallets /\ index[h] < next[wallet[h]]
            /\ issued[wallet[h]][index[h]] = 0
            /\ index[h] \notin skipped[wallet[h]]
        BY <3>1 DEF LedgerInv, RequestsInv
      <3> QED
        BY <1>1, <1>2, <3>2, <3>3
    <2> QED
      BY <1>1, <2>1 DEF LedgerInv, RequestsInv, Busy
  <1>4. MarksInv'
    <2>1. \A w \in Wallets : skipped'[w] \subseteq Below(next'[w])
      BY <1>2, LedgerAssumption DEF LedgerInv, MarksInv, Below, Indices
    <2>2. ASSUME NEW w \in Wallets, NEW i \in Indices, issued'[w][i] > 0
          PROVE  exists' /\ i < next'[w] /\ i \notin skipped'[w]
      <3>1. exists /\ i < next[w] /\ i \notin skipped[w]
        BY <2>2 DEF LedgerInv, MarksInv
      <3> QED
        BY <1>2, <3>1, LedgerAssumption DEF Indices
    <2>3. serving' => exists' /\ db'.bound
      BY DEF LedgerInv, MarksInv
    <2> QED
      BY <2>1, <2>2, <2>3 DEF MarksInv
  <1>5. NeverReissued' /\ IssuedAreRegistered'
    BY DEF LedgerInv, NeverReissued, IssuedAreRegistered
  <1> QED
    BY <1>3, <1>4, <1>5 DEF LedgerInv

\* ReserveAddressIndex gives a request an index nobody has had.
LEMMA LedgerReserve ==
  ASSUME LedgerInv, TypeOK', NEW h \in Handlers, NEW w \in Wallets,
         ReserveAddressIndex(h, w)
  PROVE  LedgerInv'
  <1>1. /\ pc' = [pc EXCEPT ![h] = "allocate"]
        /\ wallet' = [wallet EXCEPT ![h] = w]
        /\ index' = [index EXCEPT ![h] = next[w]]
        /\ next' = [next EXCEPT ![w] = @ + 1]
        /\ UNCHANGED <<exists, skipped, db, serving, issued>>
        /\ serving /\ pc[h] = "idle"
    BY DEF ReserveAddressIndex, Advance, history
  <1>2. /\ \A v \in Wallets : next[v] \in Nat /\ next[v] <= next'[v]
        /\ next'[w] = next[w] + 1
        /\ next[w] \in Indices
        /\ \A g \in Handlers : index[g] \in Nat
    BY <1>1, LedgerAssumption
       DEF LedgerInv, TypeOK, Indices, ReserveAddressIndex, Advance
  <1>3. /\ issued[w][next[w]] = 0
        /\ next[w] \notin skipped[w]
    <2>1. ~ (issued[w][next[w]] > 0) /\ issued[w][next[w]] \in Nat
      BY <1>2 DEF LedgerInv, MarksInv, TypeOK
    <2> QED
      BY <1>2, <2>1 DEF LedgerInv, MarksInv, Below
  <1>4. /\ pc'[h] = "allocate" /\ wallet'[h] = w /\ index'[h] = next[w]
        /\ \A g \in Handlers : g # h =>
             pc'[g] = pc[g] /\ wallet'[g] = wallet[g] /\ index'[g] = index[g]
    BY <1>1 DEF LedgerInv, TypeOK
  <1>5. ASSUME NEW g \in Handlers, Busy(g)'
        PROVE  /\ serving'
               /\ wallet'[g] \in Wallets
               /\ index'[g] < next'[wallet'[g]]
               /\ issued'[wallet'[g]][index'[g]] = 0
               /\ index'[g] \notin skipped'[wallet'[g]]
    <2>1. CASE g = h
      BY <1>1, <1>2, <1>3, <1>4, <2>1
    <2>2. CASE g # h
      <3>1. Busy(g)
        BY <1>4, <1>5, <2>2 DEF Busy
      <3>2. /\ wallet[g] \in Wallets /\ index[g] < next[wallet[g]]
            /\ issued[wallet[g]][index[g]] = 0
            /\ index[g] \notin skipped[wallet[g]]
        BY <3>1 DEF LedgerInv, RequestsInv
      <3>3. next[wallet[g]] <= next'[wallet[g]] /\ next[wallet[g]] \in Nat
        BY <1>2, <3>2
      <3>4. next'[wallet[g]] \in Nat
        BY <3>2, LedgerAssumption DEF TypeOK
      <3>5. index[g] < next'[wallet[g]]
        BY <1>2, <3>2, <3>3, <3>4
      <3> QED
        BY <1>1, <1>4, <2>2, <3>2, <3>5
    <2> QED
      BY <2>1, <2>2
  <1>6. ASSUME NEW f \in Handlers, NEW g \in Handlers, Busy(f)', Busy(g)', f # g,
               wallet'[f] = wallet'[g]
        PROVE  index'[f] # index'[g]
    <2>1. ASSUME NEW k \in Handlers, Busy(k)', k # h, wallet'[k] = w
          PROVE  index'[k] # next[w]
      <3>1. Busy(k) /\ wallet[k] = w
        BY <1>4, <2>1 DEF Busy
      <3>2. index[k] < next[w]
        BY <3>1 DEF LedgerInv, RequestsInv
      <3> QED
        BY <1>2, <1>4, <2>1, <3>2
    <2>2. CASE f = h
      BY <1>4, <1>6, <2>1, <2>2
    <2>3. CASE g = h
      BY <1>4, <1>6, <2>1, <2>3
    <2>4. CASE f # h /\ g # h
      BY <1>4, <1>6, <2>4 DEF LedgerInv, RequestsInv, Busy
    <2> QED
      BY <2>2, <2>3, <2>4
  <1>7. MarksInv'
    <2>1. \A v \in Wallets : next'[v] \in Nat
      BY LedgerAssumption DEF TypeOK
    <2>2. \A v \in Wallets : skipped'[v] \subseteq Below(next'[v])
      BY <1>1, <1>2, <2>1, LedgerAssumption DEF LedgerInv, MarksInv, Below, Indices
    <2>3. ASSUME NEW v \in Wallets, NEW i \in Indices, issued'[v][i] > 0
          PROVE  exists' /\ i < next'[v] /\ i \notin skipped'[v]
      <3>1. exists /\ i < next[v] /\ i \notin skipped[v]
        BY <1>1, <2>3 DEF LedgerInv, MarksInv
      <3> QED
        BY <1>1, <1>2, <2>1, <3>1, LedgerAssumption DEF Indices
    <2> QED
      BY <1>1, <2>2, <2>3 DEF LedgerInv, MarksInv
  <1>8. NeverReissued' /\ IssuedAreRegistered'
    BY <1>1 DEF LedgerInv, NeverReissued, IssuedAreRegistered
  <1> QED
    BY <1>5, <1>6, <1>7, <1>8 DEF LedgerInv, RequestsInv

\* What a working request owns.
LEMMA BusyOwns ==
  ASSUME LedgerInv, NEW h \in Handlers, Busy(h)
  PROVE  /\ serving
         /\ wallet[h] \in Wallets
         /\ index[h] \in Indices
         /\ index[h] < next[wallet[h]]
         /\ issued[wallet[h]][index[h]] = 0
         /\ index[h] \notin skipped[wallet[h]]
  BY DEF LedgerInv, RequestsInv, TypeOK

\* When a request ends, the others stand as they stood, each on its own index.
LEMMA DropOthers ==
  ASSUME LedgerInv, NEW h \in Handlers, Busy(h), Drop(h)
  PROVE  /\ ~ Busy(h)'
         /\ \A g \in Handlers : Busy(g)' =>
              /\ g # h /\ Busy(g)
              /\ wallet'[g] = wallet[g] /\ index'[g] = index[g]
              /\ wallet[g] = wallet[h] => index[g] # index[h]
         /\ \A f, g \in Handlers :
              Busy(f)' /\ Busy(g)' /\ f # g /\ wallet'[f] = wallet'[g]
              => index'[f] # index'[g]
  <1>1. pc'[h] = "idle"
    BY DEF Drop, LedgerInv, TypeOK
  <1>2. \A g \in Handlers : g # h =>
           pc'[g] = pc[g] /\ wallet'[g] = wallet[g] /\ index'[g] = index[g]
    BY DEF Drop, LedgerInv, TypeOK
  <1>3. \A g \in Handlers : Busy(g)' => g # h /\ Busy(g)
    BY <1>1, <1>2 DEF Busy
  <1> QED
    BY <1>1, <1>2, <1>3 DEF LedgerInv, RequestsInv, Busy

\* An address is returned to one caller, and its row is there.
LEMMA LedgerAllocate ==
  ASSUME LedgerInv, TypeOK', NEW h \in Handlers, AllocateAddressAt(h)
  PROVE  LedgerInv'
  <1> DEFINE w == wallet[h]
             i == index[h]
  <1>1. Busy(h)
    BY DEF AllocateAddressAt, Busy
  <1>2. /\ serving /\ w \in Wallets /\ i \in Indices /\ i < next[w]
        /\ issued[w][i] = 0 /\ i \notin skipped[w]
    BY <1>1, BusyOwns
  <1>3. /\ Drop(h) /\ db' = WithRow(db, w, i)
        /\ issued' = [issued EXCEPT ![w][i] = @ + 1]
        /\ UNCHANGED <<exists, next, skipped, serving>>
    BY DEF AllocateAddressAt, ledger
  <1>4. db' \in Databases /\ db'.bound = db.bound
    BY <1>2, <1>3, RowType DEF LedgerInv, TypeOK
  <1>5. /\ \A v \in Wallets : db.rows[v] \subseteq db'.rows[v]
        /\ i \in db'.rows[w]
    BY <1>2, <1>3, RowType DEF LedgerInv, TypeOK
  <1>6. /\ issued'[w][i] = 1
        /\ \A v \in Wallets, j \in Indices : ~ (v = w /\ j = i) => issued'[v][j] = issued[v][j]
    BY <1>2, <1>3 DEF LedgerInv, TypeOK
  <1> HIDE DEF w, i
  <1>7. RequestsInv'
    <2>1. ASSUME NEW g \in Handlers, Busy(g)'
          PROVE  /\ serving'
                 /\ wallet'[g] \in Wallets
                 /\ index'[g] < next'[wallet'[g]]
                 /\ issued'[wallet'[g]][index'[g]] = 0
                 /\ index'[g] \notin skipped'[wallet'[g]]
      <3>1. /\ Busy(g) /\ wallet'[g] = wallet[g] /\ index'[g] = index[g]
            /\ ~ (wallet[g] = w /\ index[g] = i)
        BY <1>1, <1>3, <2>1, DropOthers DEF w, i
      <3>2. /\ wallet[g] \in Wallets /\ index[g] \in Indices
            /\ index[g] < next[wallet[g]]
            /\ issued[wallet[g]][index[g]] = 0
            /\ index[g] \notin skipped[wallet[g]]
        BY <3>1, BusyOwns
      <3> QED
        BY <1>2, <1>3, <1>6, <3>1, <3>2
    <2>2. \A f, g \in Handlers :
            Busy(f)' /\ Busy(g)' /\ f # g /\ wallet'[f] = wallet'[g]
            => index'[f] # index'[g]
      BY <1>1, <1>3, DropOthers
    <2> QED
      BY <2>1, <2>2 DEF RequestsInv
  <1>8. MarksInv'
    <2>1. ASSUME NEW v \in Wallets, NEW j \in Indices, issued'[v][j] > 0
          PROVE  exists /\ j < next[v] /\ j \notin skipped[v]
      <3>1. CASE v = w /\ j = i
        BY <1>2, <3>1 DEF LedgerInv, MarksInv
      <3>2. CASE ~ (v = w /\ j = i)
        BY <1>6, <2>1, <3>2 DEF LedgerInv, MarksInv
      <3> QED
        BY <3>1, <3>2
    <2> QED
      BY <1>2, <1>3, <1>4, <2>1 DEF LedgerInv, MarksInv
  <1>9. NeverReissued'
    BY <1>6 DEF LedgerInv, NeverReissued
  <1>10. IssuedAreRegistered'
    BY <1>2, <1>5, <1>6 DEF LedgerInv, IssuedAreRegistered
  <1> QED
    BY <1>7, <1>8, <1>9, <1>10 DEF LedgerInv

\* A failed allocation keeps its index to itself.
LEMMA LedgerAllocateFails ==
  ASSUME LedgerInv, TypeOK', NEW h \in Handlers, AllocateFails(h)
  PROVE  LedgerInv'
  <1>1. Busy(h)
    BY DEF AllocateFails, Busy
  <1>2. serving /\ wallet[h] \in Wallets /\ index[h] \in Indices
    BY <1>1, BusyOwns
  <1>3. UNCHANGED <<exists, next, skipped, serving, wallet, index, issued>>
    BY DEF AllocateFails, ledger, history
  <1>4. /\ db'.bound = db.bound
        /\ \A w \in Wallets : db.rows[w] \subseteq db'.rows[w]
    BY <1>2, RowType DEF AllocateFails, LedgerInv, TypeOK
  <1>5. \A g \in Handlers : Busy(g)' => Busy(g)
    BY <1>1 DEF AllocateFails, Busy, LedgerInv, TypeOK
  <1>6. RequestsInv'
    BY <1>3, <1>5 DEF LedgerInv, RequestsInv
  <1>7. MarksInv'
    BY <1>3, <1>4 DEF LedgerInv, MarksInv
  <1>8. NeverReissued' /\ IssuedAreRegistered'
    BY <1>3, <1>4 DEF LedgerInv, NeverReissued, IssuedAreRegistered
  <1> QED
    BY <1>6, <1>7, <1>8 DEF LedgerInv

\* Only an index that was never issued is recorded as skipped.
LEMMA LedgerMark ==
  ASSUME LedgerInv, TypeOK', NEW h \in Handlers,
         MarkAddressIndexSkipped(h) \/ MarkFails(h)
  PROVE  LedgerInv'
  <1> DEFINE w == wallet[h]
             i == index[h]
  <1>1. Busy(h) /\ Drop(h) /\ UNCHANGED <<exists, next, db, serving, issued>>
    BY DEF MarkAddressIndexSkipped, MarkFails, Busy, ledger, history
  <1>2. /\ serving /\ w \in Wallets /\ i \in Indices /\ i < next[w]
        /\ issued[w][i] = 0
    BY <1>1, BusyOwns
  <1>3. \A v \in Wallets : skipped'[v] \subseteq skipped[v] \cup (IF v = w THEN {i} ELSE {})
    <2>1. CASE MarkAddressIndexSkipped(h)
      <3>1. skipped' = [skipped EXCEPT ![w] = skipped[w] \cup {i}]
        BY <2>1 DEF MarkAddressIndexSkipped
      <3> QED
        BY <1>2, <3>1 DEF LedgerInv, TypeOK
    <2>2. CASE MarkFails(h)
      BY <2>2 DEF MarkFails, ledger
    <2> QED
      BY <2>1, <2>2
  <1> HIDE DEF w, i
  <1>4. RequestsInv'
    <2>1. ASSUME NEW g \in Handlers, Busy(g)'
          PROVE  /\ serving'
                 /\ wallet'[g] \in Wallets
                 /\ index'[g] < next'[wallet'[g]]
                 /\ issued'[wallet'[g]][index'[g]] = 0
                 /\ index'[g] \notin skipped'[wallet'[g]]
      <3>1. /\ Busy(g) /\ wallet'[g] = wallet[g] /\ index'[g] = index[g]
            /\ ~ (wallet[g] = w /\ index[g] = i)
        BY <1>1, <2>1, DropOthers DEF w, i
      <3>2. /\ wallet[g] \in Wallets /\ index[g] < next[wallet[g]]
            /\ issued[wallet[g]][index[g]] = 0
            /\ index[g] \notin skipped[wallet[g]]
        BY <3>1, BusyOwns
      <3> QED
        BY <1>1, <1>2, <1>3, <3>1, <3>2
    <2>2. \A f, g \in Handlers :
            Busy(f)' /\ Busy(g)' /\ f # g /\ wallet'[f] = wallet'[g]
            => index'[f] # index'[g]
      BY <1>1, DropOthers
    <2> QED
      BY <2>1, <2>2 DEF RequestsInv
  <1>5. MarksInv'
    <2>1. \A v \in Wallets : skipped'[v] \subseteq Below(next'[v])
      BY <1>1, <1>2, <1>3 DEF LedgerInv, MarksInv, Below
    <2>2. ASSUME NEW v \in Wallets, NEW j \in Indices, issued'[v][j] > 0
          PROVE  exists' /\ j < next'[v] /\ j \notin skipped'[v]
      <3>1. exists /\ j < next[v] /\ j \notin skipped[v] /\ ~ (v = w /\ j = i)
        BY <1>1, <1>2, <2>2 DEF LedgerInv, MarksInv
      <3> QED
        BY <1>1, <1>3, <3>1
    <2> QED
      BY <1>1, <2>1, <2>2 DEF LedgerInv, MarksInv
  <1>6. NeverReissued' /\ IssuedAreRegistered'
    BY <1>1 DEF LedgerInv, NeverReissued, IssuedAreRegistered
  <1> QED
    BY <1>4, <1>5, <1>6 DEF LedgerInv

\* The coverage check of serve finds every issued address, because none of them
\* is among the skipped indices.
LEMMA LedgerOpen ==
  ASSUME LedgerInv, TypeOK', OpenForServe
  PROVE  LedgerInv'
  <1>1. UNCHANGED <<exists, next, skipped, db, pc, wallet, index, issued>>
    BY DEF OpenForServe, ledger, requests, history
  <1>2. ~ serving /\ serving' /\ exists /\ db.bound
    BY DEF OpenForServe
  <1>3. \A h \in Handlers : ~ Busy(h)
    BY <1>2 DEF LedgerInv, RequestsInv
  <1>4. RequestsInv'
    BY <1>1, <1>3 DEF RequestsInv, Busy
  <1>5. MarksInv'
    BY <1>1, <1>2 DEF LedgerInv, MarksInv
  <1>6. ASSUME NEW w \in Wallets, NEW i \in Indices, issued[w][i] > 0
        PROVE  i \in db.rows[w]
    <2>1. i < next[w] /\ i \notin skipped[w]
      BY <1>6 DEF LedgerInv, MarksInv
    <2>2. db.rows[w] \cup skipped[w] = Below(next[w])
      BY DEF OpenForServe, Covered, verifyAddressCoverage
    <2> QED
      BY <2>1, <2>2 DEF Below
  <1>7. NeverReissued' /\ IssuedAreRegistered'
    BY <1>1, <1>6 DEF LedgerInv, NeverReissued, IssuedAreRegistered
  <1> QED
    BY <1>4, <1>5, <1>7 DEF LedgerInv

\* A server that is gone leaves no request behind.
LEMMA LedgerStops ==
  ASSUME LedgerInv, TypeOK', Crash \/ Shutdown
  PROVE  LedgerInv'
  <1>1. UNCHANGED <<exists, next, skipped, db, issued>> /\ ~ serving'
    BY DEF Crash, Shutdown, ledger, history
  <1>2. \A h \in Handlers : pc'[h] = "idle"
    BY DEF Crash, Shutdown, requests
  <1>3. RequestsInv'
    BY <1>2 DEF RequestsInv, Busy
  <1>4. MarksInv' /\ NeverReissued' /\ IssuedAreRegistered'
    BY <1>1 DEF LedgerInv, MarksInv, NeverReissued, IssuedAreRegistered
  <1> QED
    BY <1>3, <1>4 DEF LedgerInv

\* A manifest is created only where nothing was ever issued.
LEMMA LedgerCreate ==
  ASSUME LedgerInv, TypeOK', NEW o \in Admins, InitCreate(o), ~ exists
  PROVE  LedgerInv'
  <1>1. UNCHANGED <<db, serving, pc, wallet, index, issued>>
    BY DEF InitCreate, requests, history
  <1>2. /\ \A w \in Wallets : skipped'[w] = {}
    BY DEF InitCreate
  <1>3. ~ serving /\ \A w \in Wallets, i \in Indices : ~ (issued[w][i] > 0)
    BY DEF LedgerInv, MarksInv
  <1>4. \A h \in Handlers : ~ Busy(h)'
    BY <1>1, <1>3 DEF LedgerInv, RequestsInv, Busy
  <1>5. RequestsInv'
    BY <1>4 DEF RequestsInv
  <1>6. MarksInv'
    BY <1>1, <1>2, <1>3 DEF MarksInv
  <1>7. NeverReissued' /\ IssuedAreRegistered'
    BY <1>1, <1>3 DEF LedgerInv, NeverReissued, IssuedAreRegistered
  <1> QED
    BY <1>5, <1>6, <1>7 DEF LedgerInv

\* The administrative commands, the coordinator's claims and the operator's
\* hand on the database file are quiet.
LEMMA LedgerAside ==
  ASSUME LedgerInv, TypeOK',
         \/ \E h \in Handlers, w \in Wallets : ReserveFails(h, w)
         \/ \E o \in Admins : Administers(o)
         \/ \E a \in Attempts : ClaimAttempt(a)
         \/ LoseDatabase \/ TakeBackup \/ RestoreBackup
  PROVE  LedgerInv'
  <1> DEFINE Quiet ==
        /\ UNCHANGED <<requests, issued, serving>>
        /\ exists => exists'
        /\ \A w \in Wallets : next[w] <= next'[w] /\ skipped'[w] \subseteq skipped[w]
        /\ serving => db'.bound
        /\ serving => \A w \in Wallets : db.rows[w] \subseteq db'.rows[w]
  <1>0. /\ db \in Databases
        /\ \A w \in Wallets : next[w] \in Nat
        /\ serving => exists /\ db.bound
    BY LedgerAssumption DEF LedgerInv, TypeOK, MarksInv
  <1>1. ASSUME NEW h \in Handlers, NEW w \in Wallets, ReserveFails(h, w) PROVE Quiet
    <2>1. UNCHANGED <<requests, issued, serving, exists, skipped, db>>
      BY <1>1 DEF ReserveFails, history
    <2>2. \A v \in Wallets : next[v] <= next'[v]
      BY <1>0, <1>1 DEF ReserveFails, Advance, LedgerInv, TypeOK
    <2> QED
      BY <1>0, <2>1, <2>2
  <1>2. ASSUME NEW o \in Admins, Initializes(o), InitCreate(o) => exists PROVE Quiet
    <2>1. UNCHANGED <<requests, issued, serving>>
      BY <1>2 DEF Initializes, InitChecks, InitCreate, InitBegin, InitBind, history
    <2>2. CASE InitChecks(o)
      BY <1>0, <2>1, <2>2 DEF InitChecks, ledger
    <2>3. CASE InitCreate(o)
      BY <1>0, <1>2, <2>1, <2>3 DEF InitCreate, ledger
    <2>4. CASE InitBegin(o)
      BY <1>0, <2>1, <2>4 DEF InitBegin, BeginInstallationRecovery, ledger, Databases
    <2>5. CASE InitBind(o)
      BY <1>0, <2>1, <2>5 DEF InitBind, bindInstallation, ledger, Databases
    <2> QED
      BY <1>2, <2>2, <2>3, <2>4, <2>5 DEF Initializes
  <1>3. ASSUME NEW o \in Admins, RecoverChecks(o) \/ Recovers(o) PROVE Quiet
    <2>1. UNCHANGED <<requests, issued, serving, exists>>
      BY <1>3 DEF Recovers, RecoverChecks, RecoverBegin, RaiseHighWater, RebuildRow,
                  ClearSkippedAddressIndices, RecoverVerifies, RecoverBind, history, ledger
    <2>2. CASE RecoverChecks(o) \/ RecoverVerifies(o)
      BY <1>0, <2>1, <2>2 DEF RecoverChecks, RecoverVerifies, ledger
    <2>3. CASE RecoverBegin(o)
      BY <1>0, <2>1, <2>3 DEF RecoverBegin, BeginInstallationRecovery, ledger, Databases
    <2>4. CASE RaiseHighWater(o)
      <3>1. \A w \in Wallets : next[w] <= next'[w]
        BY <1>0, <2>4, LedgerAssumption DEF RaiseHighWater, RecoveryTargets
      <3> QED
        BY <1>0, <2>1, <2>4, <3>1 DEF RaiseHighWater
    <2>5. ASSUME NEW w \in Wallets, NEW i \in Indices, RebuildRow(o, w, i) PROVE Quiet
      BY <1>0, <2>1, <2>5, RowType DEF RebuildRow, ledger
    <2>6. CASE ClearSkippedAddressIndices(o)
      BY <1>0, <2>1, <2>6 DEF ClearSkippedAddressIndices
    <2>7. CASE RecoverBind(o)
      BY <1>0, <2>1, <2>7 DEF RecoverBind, bindInstallation, ledger, Databases
    <2> QED
      BY <1>3, <2>2, <2>3, <2>4, <2>5, <2>6, <2>7 DEF Recovers
  <1>4. ASSUME NEW o \in Admins, UnsealCoordinatorRecovery(o) PROVE Quiet
    BY <1>0, <1>4 DEF UnsealCoordinatorRecovery, ledger, Databases
  <1>5. ASSUME NEW o \in Admins, CommandDies(o) PROVE Quiet
    BY <1>0, <1>5 DEF CommandDies, ledger, history
  <1>6. ASSUME NEW a \in Attempts, ClaimAttempt(a) PROVE Quiet
    BY <1>0, <1>6 DEF ClaimAttempt, ledger, Databases
  <1>7. CASE LoseDatabase \/ TakeBackup \/ RestoreBackup
    <2>1. Quiet
      BY <1>0, <1>7 DEF LoseDatabase, TakeBackup, RestoreBackup, DatabaseClosed, ledger, history
    <2> QED
      BY <2>1, LedgerQuiet
  <1>8. ASSUME NEW o \in Admins, Administers(o) PROVE LedgerInv'
    <2>1. CASE InitCreate(o) /\ ~ exists
      BY <2>1, LedgerCreate
    <2>2. CASE ~ (InitCreate(o) /\ ~ exists)
      <3>1. Quiet
        BY <1>2, <1>3, <1>4, <1>5, <1>8, <2>2 DEF Administers
      <3> QED
        BY <3>1, LedgerQuiet
    <2> QED
      BY <2>1, <2>2
  <1>9. ASSUME NEW h \in Handlers, NEW w \in Wallets, ReserveFails(h, w) PROVE LedgerInv'
    BY <1>1, <1>9, LedgerQuiet
  <1>10. ASSUME NEW a \in Attempts, ClaimAttempt(a) PROVE LedgerInv'
    BY <1>6, <1>10, LedgerQuiet
  <1> QED
    BY <1>7, <1>8, <1>9, <1>10

\* The ledger invariant holds initially.
LEMMA LedgerInit == Init => LedgerInv
  <1> SUFFICES ASSUME Init PROVE LedgerInv
    OBVIOUS
  <1>1. TypeOK
    <2>1. 0 \in 0..(MaxIndex + 1) /\ 0 \in Indices /\ 0 \in 0..MaxFaults
      BY LedgerAssumption DEF Indices
    <2>2. /\ issued \in [Wallets -> [Indices -> Nat]]
          /\ targets \in [Admins -> [Wallets -> 0..(MaxIndex + 1)]]
      BY <2>1 DEF Init
    <2> QED
      BY <2>1, <2>2, EmptyType DEF Init, TypeOK, RequestSteps
  <1>2. RequestsInv
    BY DEF Init, RequestsInv, Busy
  <1>3. MarksInv /\ NeverReissued /\ IssuedAreRegistered
    BY DEF Init, MarksInv, NeverReissued, IssuedAreRegistered
  <1> QED
    BY <1>1, <1>2, <1>3 DEF LedgerInv

\* Every step keeps the ledger invariant.
LEMMA LedgerStep == LedgerInv /\ [Next]_vars => LedgerInv'
  <1> SUFFICES ASSUME LedgerInv, [Next]_vars PROVE LedgerInv'
    OBVIOUS
  <1>0. TypeOK /\ RequestsInv
    BY DEF LedgerInv
  <1>1. ASSUME NEW h \in Handlers, Allocates(h) PROVE LedgerInv'
    <2>1. TypeOK'
      BY <1>0, <1>1, AllocatesType
    <2> QED
      BY <1>1, <2>1, LedgerReserve, LedgerAside, LedgerAllocate, LedgerAllocateFails,
         LedgerMark DEF Allocates
  <1>2. ASSUME NEW o \in Admins, Administers(o) PROVE LedgerInv'
    <2>1. TypeOK'
      BY <1>0, <1>2, InitializesType, RecoversType, OtherType DEF Administers
    <2> QED
      BY <1>2, <2>1, LedgerAside
  <1>3. CASE \/ \E a \in Attempts : ClaimAttempt(a)
             \/ OpenForServe \/ Environment
    <2>1. TypeOK'
      BY <1>0, <1>3, OtherType
    <2> QED
      BY <1>3, <2>1, LedgerAside, LedgerOpen, LedgerStops DEF Environment
  <1>4. CASE UNCHANGED vars
    BY <1>4 DEF vars, ledger, requests, commands, history, LedgerInv, TypeOK,
                RequestsInv, Busy, MarksInv, NeverReissued, IssuedAreRegistered
  <1> QED
    BY <1>1, <1>2, <1>3, <1>4 DEF Next

\* The ledger invariant of the specification: the strengthening the next three
\* theorems follow from.
THEOREM LedgerInvariant == Spec => []LedgerInv
  BY LedgerInit, LedgerStep, PTL DEF Spec

\* Type correctness of the manifest, the database and the processes.
THEOREM LedgerTypeCorrect == Spec => []TypeOK
  <1>1. LedgerInv => TypeOK
    BY DEF LedgerInv
  <1> QED
    BY <1>1, LedgerInvariant, PTL

\* guarded.AllocateAddress returns no address twice.
THEOREM AddressesNeverReissued == Spec => []NeverReissued
  <1>1. LedgerInv => NeverReissued
    BY DEF LedgerInv
  <1> QED
    BY <1>1, LedgerInvariant, PTL

\* A server past OpenForServe has a row for every address it ever returned.
THEOREM IssuedRegistered == Spec => []IssuedAreRegistered
  <1>1. LedgerInv => IssuedAreRegistered
    BY DEF LedgerInv
  <1> QED
    BY <1>1, LedgerInvariant, PTL

-----------------------------------------------------------------------------
(* The seal.                                                               *)

\* Every step keeps the seal invariant when only complete backups are restored.
LEMMA SealStep ==
  ASSUME ~ StaleBackups, LedgerInv, SealInv, [Next]_vars
  PROVE  SealInv'
  <1>0. /\ TypeOK
        /\ db \in Databases
        /\ serving => exists /\ db.bound
    BY DEF LedgerInv, TypeOK, MarksInv
  <1>1. ASSUME UNCHANGED <<written, reconciled>>, exists => exists',
               \A o \in Admins : command'[o] \in InitSteps => command[o] \in InitSteps,
               db'.attempts = db.attempts, db.bound => db'.bound,
               db.seal => db'.seal, db'.bound /\ ~ db'.seal => db.bound
        PROVE  SealInv'
    BY <1>1 DEF SealInv
  <1>2. ASSUME NEW h \in Handlers, Allocates(h) PROVE SealInv'
    <2>1. UNCHANGED <<written, reconciled, exists, command>>
      BY <1>2 DEF Allocates, ReserveAddressIndex, ReserveFails, AllocateAddressAt,
                  AllocateFails, MarkAddressIndexSkipped, MarkFails, history, commands, ledger
    <2>2. db' = db \/ (Busy(h) /\ db' = WithRow(db, wallet[h], index[h]))
      BY <1>2 DEF Allocates, ReserveAddressIndex, ReserveFails, AllocateAddressAt,
                  AllocateFails, MarkAddressIndexSkipped, MarkFails, Busy
    <2>3. db'.attempts = db.attempts /\ db'.bound = db.bound /\ db'.seal = db.seal
      BY <1>0, <2>2, BusyOwns, RowType
    <2> QED
      BY <1>1, <2>1, <2>3
  <1>3. ASSUME NEW o \in Admins, Initializes(o) PROVE SealInv'
    <2>0. UNCHANGED <<written, reconciled>>
      BY <1>3 DEF Initializes, InitChecks, InitCreate, InitBegin, InitBind, history
    <2>a. exists' = exists \/ exists' = TRUE
      BY <1>3 DEF Initializes, InitChecks, InitCreate, InitBegin, InitBind, ledger
    <2>1. UNCHANGED <<written, reconciled>> /\ (exists => exists')
      BY <2>0, <2>a
    <2>2. CASE InitChecks(o)
      BY <2>1, <2>2 DEF InitChecks, SealInv, ledger
    <2>3. CASE InitCreate(o)
      <3>1. CASE ~ exists
        BY <2>1, <2>3, <3>1 DEF InitCreate, SealInv
      <3>2. CASE exists
        <4>1. \A p \in Admins : command'[p] \in InitSteps => command[p] \in InitSteps
          BY <1>0, <2>3, <3>2 DEF InitCreate, Ends, TypeOK, InitSteps
        <4>2. db' = db
          BY <2>3 DEF InitCreate
        <4> QED
          BY <1>1, <2>1, <4>1, <4>2
      <3> QED
        BY <3>1, <3>2
    <2>4. CASE InitBegin(o)
      <3>1. db'.attempts = db.attempts /\ db'.bound = db.bound /\ db'.seal = db.seal
        BY <1>0, <2>4 DEF InitBegin, BeginInstallationRecovery, Databases
      <3>2. \A p \in Admins : command'[p] \in InitSteps => command[p] \in InitSteps
        BY <1>0, <2>4 DEF InitBegin, BeginInstallationRecovery, Goto, Ends, TypeOK, InitSteps
      <3> QED
        BY <1>1, <2>1, <3>1, <3>2
    <2>5. CASE InitBind(o)
      <3>1. db'.attempts = db.attempts /\ (db.bound => db'.bound) /\ db'.seal = db.seal
        BY <1>0, <2>5 DEF InitBind, bindInstallation, Databases
      <3>2. \A p \in Admins : command'[p] \in InitSteps => command[p] \in InitSteps
        BY <1>0, <2>5 DEF InitBind, Ends, TypeOK, InitSteps
      <3>3. written = {} \/ db.bound
        BY <2>5 DEF InitBind, SealInv, InitSteps
      <3> QED
        BY <2>1, <3>1, <3>2, <3>3 DEF SealInv
    <2> QED
      BY <1>3, <2>2, <2>3, <2>4, <2>5 DEF Initializes
  <1>4. ASSUME NEW o \in Admins, RecoverChecks(o) \/ Recovers(o) PROVE SealInv'
    <2>1. UNCHANGED <<written, reconciled, exists>>
      BY <1>4 DEF Recovers, RecoverChecks, RecoverBegin, RaiseHighWater, RebuildRow,
                  ClearSkippedAddressIndices, RecoverVerifies, RecoverBind, history, ledger
    <2>2. \A p \in Admins : command'[p] \in InitSteps => command[p] \in InitSteps
      BY <1>0, <1>4 DEF Recovers, RecoverChecks, RecoverBegin, RaiseHighWater, RebuildRow,
                  ClearSkippedAddressIndices, RecoverVerifies, RecoverBind,
                  BeginInstallationRecovery, Goto, Ends, TypeOK, InitSteps, commands
    <2>3. CASE \/ RecoverChecks(o) \/ RaiseHighWater(o)
               \/ ClearSkippedAddressIndices(o) \/ RecoverVerifies(o)
      <3>1. db' = db
        BY <2>3 DEF RecoverChecks, RaiseHighWater, ClearSkippedAddressIndices, RecoverVerifies
      <3> QED
        BY <1>1, <2>1, <2>2, <3>1
    <2>4. CASE RecoverBegin(o)
      <3>1. db'.attempts = db.attempts /\ db'.bound = db.bound /\ db'.seal = db.seal
        BY <1>0, <2>4 DEF RecoverBegin, BeginInstallationRecovery, Databases
      <3> QED
        BY <1>1, <2>1, <2>2, <3>1
    <2>5. ASSUME NEW w \in Wallets, NEW i \in Indices, RebuildRow(o, w, i) PROVE SealInv'
      <3>1. db'.attempts = db.attempts /\ db'.bound = db.bound /\ db'.seal = db.seal
        BY <1>0, <2>5, RowType DEF RebuildRow
      <3> QED
        BY <1>1, <2>1, <2>2, <3>1
    <2>6. CASE RecoverBind(o)
      <3>1. /\ db'.attempts = db.attempts /\ (db.bound => db'.bound)
            /\ (db.seal => db'.seal) /\ (db'.bound => db'.seal)
        BY <1>0, <2>6 DEF RecoverBind, bindInstallation, Databases
      <3> QED
        BY <1>1, <2>1, <2>2, <3>1
    <2> QED
      BY <1>4, <2>3, <2>4, <2>5, <2>6 DEF Recovers
  <1>5. ASSUME NEW o \in Admins, UnsealCoordinatorRecovery(o) PROVE SealInv'
    BY <1>0, <1>5 DEF UnsealCoordinatorRecovery, SealInv, Databases, ledger, commands
  <1>6. ASSUME NEW o \in Admins, CommandDies(o) PROVE SealInv'
    BY <1>0, <1>6 DEF CommandDies, Ends, SealInv, TypeOK, InitSteps, ledger, history
  <1>7. ASSUME NEW a \in Attempts, ClaimAttempt(a) PROVE SealInv'
    BY <1>0, <1>7 DEF ClaimAttempt, SealInv, Databases, ledger, commands
  <1>8. CASE OpenForServe \/ Crash \/ Shutdown \/ TakeBackup
    BY <1>8 DEF OpenForServe, Crash, Shutdown, TakeBackup, SealInv, ledger, commands, history
  <1>9. CASE LoseDatabase
    BY <1>9, EmptyType
       DEF LoseDatabase, DatabaseClosed, SealInv, InitSteps, ledger, commands, history
  <1>10. CASE RestoreBackup
    BY <1>10 DEF RestoreBackup, DatabaseClosed, SealInv, InitSteps, ledger, commands, history
  <1>11. CASE UNCHANGED vars
    BY <1>11 DEF vars, SealInv, ledger, commands, history
  <1> QED
    BY <1>2, <1>3, <1>4, <1>5, <1>6, <1>7, <1>8, <1>9, <1>10, <1>11
       DEF Next, Administers, Environment

\* Unless an incomplete backup is restored, the coordinator creates attempts only
\* over a database that holds every earlier attempt no operator has reconciled.
THEOREM RebuiltDatabaseIsSealed == ~ StaleBackups /\ Spec => []NothingForgotten
  <1>1. Init => SealInv
    BY DEF Init, SealInv, InitSteps, EmptyDatabase
  <1> SUFFICES ASSUME ~ StaleBackups PROVE Spec => []NothingForgotten
    OBVIOUS
  <1>2. LedgerInv /\ SealInv /\ [Next]_vars => SealInv'
    BY SealStep
  <1>3. LedgerInv /\ SealInv => NothingForgotten
    BY DEF LedgerInv, MarksInv, SealInv, NothingForgotten
  <1> QED
    BY <1>1, <1>2, <1>3, LedgerInvariant, PTL DEF Spec
=============================================================================
