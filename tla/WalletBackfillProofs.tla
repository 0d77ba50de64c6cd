------------------------- MODULE WalletBackfillProofs -------------------------
(***************************************************************************)
(* Readiness and registration are safe for every number of wallets, their  *)
(* birthdays, every batch size, lag and chain and every number of faults.  *)
(***************************************************************************)
EXTENDS WalletBackfill, TLAPS

\* The fault counter stays in its range.
LEMMA FaultsTyped ==
    ASSUME TypeOK, Fault \/ UNCHANGED faults
    PROVE  faults' \in 0 .. MaxFaults
  BY BackfillAssumption DEF TypeOK, Fault

\* The loop at rest and the missing request are of their types.
LEMMA RestTyped ==
    /\ LoopAtRest.pc = "wait" /\ LoopAtRest.at = 1
    /\ LoopAtRest \in LoopStates
    /\ NoRequest.pc = "idle" /\ NoRequest.intact = FALSE
    /\ NoRequest \in Requests
    /\ NoStatus \in Statuses
    /\ NoRow \in WalletRows
<1>1. /\ 1 \in Wallets /\ 1 \in 1 .. N + 1 /\ 0 \in Heights /\ 1 \in NextHeights
  BY BackfillAssumption DEF Wallets, Heights, NextHeights
<1>2. NoStatus \in Statuses /\ NoRow \in WalletRows
  BY <1>1 DEF NoStatus, Statuses, NoRow, WalletRows
<1>3. [w \in Wallets |-> NoStatus] \in [Wallets -> Statuses]
  BY <1>2
<1> QED
  BY <1>1, <1>2, <1>3 DEF LoopAtRest, NoRequest, LoopStates, Requests

\* The initial states satisfy the invariant.
LEMMA InitInv == Init => BackfillInv
<1> SUFFICES ASSUME Init PROVE BackfillInv
  OBVIOUS
<1>0. /\ \A w \in Wallets : Birthday[w] \in NextHeights
      /\ 1 \in NextHeights /\ 0 \in Heights /\ 1 \in Heights /\ 0 \in 0 .. MaxFaults
      /\ 1 \in 1 .. N + 1 /\ 1 \in Wallets
  BY BackfillAssumption DEF Wallets, Heights, NextHeights
<1>1. rows \in [Wallets -> WalletRows]
  <2>1. PICK b \in {"none", "legacy"} :
           rows = [w \in Wallets |->
                     [binding |-> b, next |-> IF b = "none" THEN 1 ELSE Birthday[w]]]
    BY DEF Init
  <2> QED
    BY <1>0, <2>1 DEF WalletRows
<1>2. entry \in [Wallets -> Statuses]
  <2>1. PICK s \in {"absent", "pending", "foreign", "misdated"} :
           entry = [w \in Wallets |->
                      [state |-> s, next |-> IF s = "absent" THEN 1 ELSE Birthday[w]]]
    BY DEF Init
  <2> QED
    BY <1>0, <2>1 DEF Statuses
<1>3. TypeOK
  BY <1>0, <1>1, <1>2, RestTyped DEF Init, TypeOK
<1>4. ScanInv /\ LoopInv /\ CheckedInv /\ KnownInv
  BY RestTyped DEF Init, ScanInv, LoopInv, CheckedInv, KnownInv
<1> QED
  BY <1>3, <1>4 DEF BackfillInv

\* A step of the scanner that lets no entry shrink and takes none away.
Grows ==
    \A w \in Wallets : /\ entry[w].state = "complete" => entry'[w].state = "complete"
                       /\ entry[w].state # "absent" => entry'[w].state # "absent"
                       /\ entry[w].state = "complete" => entry'[w].next >= entry[w].next

\* Entries that do not shrink keep what a readiness check has seen.
LEMMA GrowthKeeps ==
    ASSUME BackfillInv, UNCHANGED ready, entry' \in [Wallets -> Statuses],
           Grows
    PROVE  CheckedInv'
<1> USE DEF BackfillInv
<1>1. \A w \in Wallets : entry[w].next \in Nat /\ entry'[w].next \in Nat
  BY DEF TypeOK, Statuses, NextHeights
<1>2. ready.wallet \in Wallets /\ ready.status.next \in Nat /\ ready.height \in Nat
  BY DEF TypeOK, Requests, Statuses, NextHeights, Heights
<1> QED
  BY <1>1, <1>2 DEF CheckedInv, CompleteThrough, Grows

\* A step that touches the wallets' rows through SetBackfillProgress only keeps
\* the bindings.
LEMMA MirrorTyped ==
    ASSUME TypeOK, NEW w \in Wallets, NEW n \in NextHeights, SetBackfillProgress(w, n)
    PROVE  /\ rows' \in [Wallets -> WalletRows]
           /\ rows'[1].binding = rows[1].binding
<1>1. 1 \in Wallets
  BY BackfillAssumption DEF Wallets
<1> QED
  BY <1>1 DEF SetBackfillProgress, TypeOK, WalletRows

\* newWalletRegistry binds a row only when the scanner agrees, so it does not
\* get past the first wallet after a forgotten installation.
LEMMA BootsInv == ASSUME BackfillInv, Boots PROVE BackfillInv'
<1> USE DEF BackfillInv
<1>1. UNCHANGED <<registered, loop, ready, scanner, tip, faults, history>>
  BY DEF Boots, Start, BootWallet, BootDone
<1>2. /\ 1 \in Wallets /\ N \in Nat \ {0} /\ \A w \in Wallets : Birthday[w] \in NextHeights
  BY BackfillAssumption DEF Wallets, NextHeights
<1>3. TypeOK'
  <2>1. CASE Start
    BY <1>1, <1>2, <2>1 DEF Start, TypeOK, scanner, history
  <2>2. CASE BootDone
    BY <1>1, <2>2 DEF BootDone, TypeOK, scanner, history
  <2>3. CASE BootWallet
    <3>1. at \in Wallets /\ at + 1 \in 1 .. N + 1
      BY <1>2, <2>3 DEF BootWallet, TypeOK, Wallets
    <3>2. CASE EnsureWallet(at) /\ at' = at + 1 /\ up' = up
      <4>1. rows' \in [Wallets -> WalletRows]
        BY <1>2, <3>1, <3>2 DEF EnsureWallet, TypeOK, WalletRows
      <4> QED
        BY <1>1, <3>1, <3>2, <4>1 DEF TypeOK, scanner, history
    <3>3. CASE up' = "down" /\ UNCHANGED <<rows, at>>
      BY <1>1, <3>3 DEF TypeOK, scanner, history
    <3> QED
      BY <2>3, <3>2, <3>3 DEF BootWallet
  <2> QED
    BY <2>1, <2>2, <2>3 DEF Boots
<1>4. ScanInv' /\ LoopInv' /\ CheckedInv'
  BY <1>1 DEF ScanInv, LoopInv, CheckedInv, CompleteThrough, scanner
<1>5. KnownInv'
  <2>1. CASE ~forgotten
    BY <1>1, <2>1 DEF KnownInv, scanner, history
  <2>2. CASE forgotten
    <3>1. /\ up # "serving" /\ (up = "boot" => at = 1) /\ rows[1].binding = "none"
          /\ entry[1].state # "absent"
      BY <1>2, <2>2 DEF KnownInv
    <3>2. CASE Start
      BY <1>1, <3>1, <3>2 DEF Start, KnownInv, scanner, history
    <3>3. ~BootDone
      BY <1>2, <3>1 DEF BootDone
    <3>4. CASE BootWallet
      <4>1. up' = "down" /\ rows' = rows
        BY <3>1, <3>4 DEF BootWallet, BootAccepts
      <4> QED
        BY <1>1, <3>1, <4>1 DEF KnownInv, scanner, history
    <3> QED
      BY <3>2, <3>3, <3>4 DEF Boots
  <2> QED
    BY <2>1, <2>2
<1> QED
  BY <1>3, <1>4, <1>5

\* A stopped process has neither a loop nor a request.
LEMMA StopInv == ASSUME BackfillInv, Stop PROVE BackfillInv'
<1> USE DEF BackfillInv
<1>1. /\ UNCHANGED <<rows, at, scanner, tip, history>> /\ Fault
      /\ up' = "down" /\ registered' = {} /\ loop' = LoopAtRest /\ ready' = NoRequest
  BY DEF Stop
<1>2. faults' \in 0 .. MaxFaults
  BY <1>1, FaultsTyped
<1>3. TypeOK'
  BY <1>1, <1>2, RestTyped DEF TypeOK, scanner, history
<1>4. ScanInv' /\ LoopInv' /\ CheckedInv' /\ KnownInv'
  BY <1>1, RestTyped DEF ScanInv, LoopInv, CheckedInv, KnownInv, scanner, history
<1> QED
  BY <1>3, <1>4

\* The steps of the loop that call nobody or read the scanner only.
LEMMA LoopReadsInv ==
    ASSUME BackfillInv, RoundWithSync \/ LoopHealth \/ LoopStatus \/ Pick \/ LoopFails
    PROVE  BackfillInv'
<1> USE DEF BackfillInv
<1>1. UNCHANGED <<rows, process, ready, scanner, tip, history>>
  BY DEF RoundWithSync, LoopHealth, LoopStatus, Pick, LoopFails
<1>2. faults' \in 0 .. MaxFaults
  <2>1. Fault \/ UNCHANGED faults
    BY DEF RoundWithSync, LoopHealth, LoopStatus, Pick, LoopFails
  <2> QED
    BY <2>1, FaultsTyped
<1>3. loop' \in LoopStates /\ LoopInv'
  <2>1. CASE loop' = LoopAtRest
    BY <2>1, RestTyped DEF LoopInv
  <2>2. CASE RoundWithSync
    BY <2>2 DEF RoundWithSync, TypeOK, LoopStates, LoopInv
  <2>3. CASE LoopHealth /\ loop' # LoopAtRest
    <3>1. loop.at = 1 /\ 1 <= N
      BY <2>3, BackfillAssumption DEF LoopHealth, LoopInv
    <3> QED
      BY <2>3, <3>1 DEF LoopHealth, TypeOK, LoopStates, LoopInv
  <2>4. CASE LoopStatus /\ loop' # LoopAtRest
    <3>1. loop.at \in Wallets /\ loop.at <= N
      BY <2>4, BackfillAssumption DEF LoopStatus, LoopInv, TypeOK, LoopStates, Wallets
    <3>2. [loop.status EXCEPT ![loop.at] = entry[loop.at]] \in [Wallets -> Statuses]
      BY <3>1 DEF TypeOK, LoopStates
    <3> QED
      BY <2>4, <3>1, <3>2 DEF LoopStatus, TypeOK, LoopStates, LoopInv
  <2>5. CASE Pick /\ loop' # LoopAtRest
    BY <2>5 DEF Pick, TypeOK, LoopStates, LoopInv
  <2> QED
    BY <2>1, <2>2, <2>3, <2>4, <2>5 DEF LoopFails
<1>4. TypeOK'
  BY <1>1, <1>2, <1>3 DEF TypeOK, process, scanner, history
<1>5. ScanInv' /\ CheckedInv' /\ KnownInv'
  BY <1>1 DEF ScanInv, CheckedInv, CompleteThrough, KnownInv, process, scanner, history
<1> QED
  BY <1>3, <1>4, <1>5

\* Mirroring the scanner's progress touches next_backfill_height alone.
LEMMA LoopStoresInv == ASSUME BackfillInv, LoopMirror \/ StoreNext PROVE BackfillInv'
<1> USE DEF BackfillInv
<1>1. UNCHANGED <<process, ready, scanner, tip, faults, history>>
  BY DEF LoopMirror, StoreNext
<1>2. loop' \in LoopStates /\ LoopInv' /\ rows' \in [Wallets -> WalletRows]
      /\ rows'[1].binding = rows[1].binding
  <2>1. CASE StoreNext
    <3>1. loop.pick \in Wallets /\ loop.next \in NextHeights
      BY DEF TypeOK, LoopStates
    <3> QED
      BY <2>1, <3>1, MirrorTyped, RestTyped DEF StoreNext, LoopInv
  <2>2. CASE LoopMirror
    <3>1. loop.at \in Wallets /\ N \in Nat
      BY <2>2, BackfillAssumption DEF LoopMirror, LoopInv, TypeOK, LoopStates, Wallets
    <3>2. loop.status[loop.at].next \in NextHeights
      BY <3>1 DEF TypeOK, LoopStates, Statuses
    <3>3. rows' \in [Wallets -> WalletRows] /\ rows'[1].binding = rows[1].binding
      BY <2>2, <3>1, <3>2, MirrorTyped DEF LoopMirror
    <3>4. loop.at \in 1 .. N
      BY <3>1 DEF Wallets
    <3>5. loop.at + 1 \in 1 .. N + 1 /\ (loop.at # N => loop.at + 1 <= N)
      BY <3>1, <3>4
    <3>6. loop' \in LoopStates /\ LoopInv'
      BY <2>2, <3>5 DEF LoopMirror, TypeOK, LoopStates, LoopInv
    <3> QED
      BY <3>3, <3>6
  <2> QED
    BY <2>1, <2>2
<1>3. TypeOK'
  BY <1>1, <1>2 DEF TypeOK, process, scanner, history
<1>4. ScanInv' /\ CheckedInv' /\ KnownInv'
  BY <1>1, <1>2 DEF ScanInv, CheckedInv, CompleteThrough, KnownInv, process, scanner, history
<1> QED
  BY <1>2, <1>3, <1>4

\* Registering a wallet with the scanner adds an entry or leaves it.
LEMMA SyncInv == ASSUME BackfillInv, Sync PROVE BackfillInv'
<1> USE DEF BackfillInv
<1>1. UNCHANGED <<rows, up, at, ready, scanned, stale, attested, tip, history>> /\ loop.pc = "sync"
  BY DEF Sync
<1>2. /\ \A w \in Wallets : Birthday[w] \in NextHeights /\ entry[w].next \in Nat
      /\ loop.todo \subseteq Wallets
  BY BackfillAssumption DEF TypeOK, LoopStates, NextHeights, Statuses
<1>3. registered' \subseteq Wallets /\ entry' \in [Wallets -> Statuses] /\ Grows
      /\ (Fault \/ UNCHANGED faults)
  <2>1. CASE UNCHANGED <<registered, entry, faults>>
    BY <1>2, <2>1 DEF TypeOK, Grows
  <2>2. ASSUME NEW w \in loop.todo, entry' \in {entry, WithWallet(w)}
        PROVE  entry' \in [Wallets -> Statuses] /\ Grows
    <3>1. w \in Wallets
      BY <1>2
    <3>2. [state |-> "pending", next |-> Birthday[w]] \in Statuses
      BY <1>2, <3>1 DEF Statuses
    <3>3. entry' \in [Wallets -> Statuses]
      BY <2>2, <3>1, <3>2 DEF WithWallet, TypeOK
    <3>4. \A v \in Wallets : entry[v].state # "absent" => entry'[v] = entry[v]
      BY <2>2, <3>1 DEF WithWallet, TypeOK
    <3> QED
      BY <1>2, <3>3, <3>4 DEF Grows
  <2>3. ASSUME NEW w \in loop.todo, UpsertWallet(w) \/ UpsertFails(w)
        PROVE  registered' \subseteq Wallets /\ entry' \in {entry, WithWallet(w)}
               /\ (Fault \/ UNCHANGED faults)
    BY <1>2, <2>3 DEF UpsertWallet, UpsertFails, TypeOK
  <2> QED
    BY <2>1, <2>2, <2>3 DEF Sync
<1>4. loop' \in LoopStates /\ LoopInv'
  BY <1>1, <1>2 DEF Sync, TypeOK, LoopStates, LoopInv
<1>5. faults' \in 0 .. MaxFaults
  BY <1>3, FaultsTyped
<1>6. TypeOK'
  BY <1>1, <1>3, <1>4, <1>5 DEF TypeOK, history
<1>7. CheckedInv'
  BY <1>1, <1>3, GrowthKeeps
<1>8. ScanInv' /\ KnownInv'
  BY <1>1, <1>3 DEF ScanInv, KnownInv, history, Grows
<1> QED
  BY <1>4, <1>6, <1>7, <1>8

\* A backfill call advances the entry of its wallet or leaves it.
LEMMA BackfillStepInv == ASSUME BackfillInv, Backfill PROVE BackfillInv'
<1> USE DEF BackfillInv
<1>1. UNCHANGED <<rows, process, ready, scanned, stale, attested, tip, history>>
  BY DEF Backfill
<1>2. loop.pick \in Wallets /\ loop.height \in Nat
  BY DEF TypeOK, LoopStates, Heights
<1>3. /\ entry' \in [Wallets -> Statuses] /\ Grows
      /\ loop' = LoopAtRest \/ \E next \in NextHeights : loop' = [loop EXCEPT !.pc = "store", !.next = next]
      /\ Fault \/ UNCHANGED faults
  <2>1. \A w \in Wallets : entry[w].next \in Nat
    BY DEF TypeOK, Statuses, NextHeights
  <2>2. CASE UNCHANGED entry /\ loop' = LoopAtRest /\ UNCHANGED faults
    BY <2>1, <2>2 DEF TypeOK, Grows
  <2>3. CASE \E next \in NextHeights :
                /\ BackfillTo(loop.pick, loop.height, Smaller(BatchSize, Remaining(loop.pick)), next)
                /\ \/ loop' = [loop EXCEPT !.pc = "store", !.next = next] /\ UNCHANGED faults
                   \/ loop' = LoopAtRest /\ (Fault \/ UNCHANGED faults)
    <3> DEFINE w == loop.pick
               batch == Smaller(BatchSize, Remaining(w))
    <3>1. PICK next \in NextHeights :
                /\ BackfillTo(w, loop.height, batch, next)
                /\ \/ loop' = [loop EXCEPT !.pc = "store", !.next = next] /\ UNCHANGED faults
                   \/ loop' = LoopAtRest /\ (Fault \/ UNCHANGED faults)
      BY <2>3
    <3> HIDE DEF batch
    <3>2. /\ entry[w].state \in {"pending", "complete"}
          /\ \/ next = entry[w].next
             \/ next \in entry[w].next + 1 .. Smaller(entry[w].next + batch, 1 + Smaller(loop.height, scanned))
          /\ entry' = [entry EXCEPT ![w] =
                          [state |-> IF next > loop.height THEN "complete" ELSE @.state, next |-> next]]
      BY <3>1 DEF BackfillTo, Identified
    <3>3. next \in Nat /\ next >= entry[w].next
      BY <1>2, <2>1, <3>2 DEF NextHeights
    <3>4. entry' \in [Wallets -> Statuses]
      BY <1>2, <3>1, <3>2 DEF TypeOK, Statuses
    <3>5. Grows
      BY <1>2, <2>1, <3>2, <3>3 DEF TypeOK, Grows
    <3> QED
      BY <3>1, <3>4, <3>5
  <2> QED
    BY <2>2, <2>3 DEF Backfill
<1>4. loop' \in LoopStates /\ LoopInv'
  BY <1>3, RestTyped DEF TypeOK, LoopStates, LoopInv
<1>5. faults' \in 0 .. MaxFaults
  BY <1>3, FaultsTyped
<1>6. TypeOK'
  BY <1>1, <1>3, <1>4, <1>5 DEF TypeOK, process, history
<1>7. CheckedInv'
  BY <1>1, <1>3, GrowthKeeps
<1>8. ScanInv' /\ KnownInv'
  BY <1>1, <1>3 DEF ScanInv, KnownInv, process, history, Grows
<1> QED
  BY <1>4, <1>6, <1>7, <1>8

\* A readiness check goes past a wallet only when the scanner has it complete
\* through the height of its health answer.
LEMMA ChecksInv == ASSUME BackfillInv, Checks \/ ReadyFails PROVE BackfillInv'
<1> USE DEF BackfillInv
<1>1. UNCHANGED <<process, loop, scanner, tip, forgotten>>
  BY DEF Checks, ReadyFails, ReadyTip, ReadyHealth, ReadyHash, ReadyStatus, ReadyMirror, Proceed,
         history
<1>2. faults' \in 0 .. MaxFaults
  <2>1. Fault \/ UNCHANGED faults
    BY DEF Checks, ReadyFails, ReadyTip, ReadyHealth, ReadyHash, ReadyStatus, ReadyMirror, Proceed
  <2> QED
    BY <2>1, FaultsTyped
<1>3. ready.wallet \in Wallets /\ ready.status \in Statuses /\ ready.todo \subseteq Wallets
      /\ ready.height \in Nat
      /\ ready.status.next \in NextHeights /\ ready.status.next \in Nat
      /\ \A w \in Wallets : entry[w] \in Statuses /\ entry[w].next \in Nat
  BY DEF TypeOK, Requests, Statuses, NextHeights, Heights
<1>4. rows' \in [Wallets -> WalletRows] /\ rows'[1].binding = rows[1].binding
  <2>1. CASE ReadyMirror
    BY <1>3, <2>1, MirrorTyped DEF ReadyMirror
  <2>2. CASE ~ReadyMirror
    BY <2>2 DEF Checks, ReadyFails, ReadyTip, ReadyHealth, ReadyHash, ReadyStatus, Proceed, TypeOK
  <2> QED
    BY <2>1, <2>2
<1>5. ready' \in Requests /\ CheckedInv'
  <2>1. CASE ready' = NoRequest
    BY <2>1, RestTyped DEF CheckedInv
  <2>2. CASE ReadyTip
    BY <2>2 DEF ReadyTip, TypeOK, Requests, CheckedInv
  <2>3. CASE ReadyHealth /\ ready' # NoRequest
    <3>1. (~stale) \in BOOLEAN
      BY DEF TypeOK
    <3> QED
      BY <2>3, <3>1 DEF ReadyHealth, TypeOK, Requests, CheckedInv
  <2>4. CASE ReadyHash /\ ready' # NoRequest
    BY <2>4 DEF ReadyHash, TypeOK, Requests, CheckedInv
  <2>5. ASSUME NEW w \in Wallets, ReadyStatus(w), ready' # NoRequest
        PROVE  ready' \in Requests /\ CheckedInv'
    <3>1. /\ ready.pc = "status" /\ w \in ready.todo
          /\ ready' = [ready EXCEPT !.pc = "mirror", !.wallet = w, !.status = entry[w]]
      BY <2>5 DEF ReadyStatus
    <3>2. ready' \in Requests
      BY <1>3, <3>1 DEF TypeOK, Requests
    <3>3. /\ ready'.pc = "mirror" /\ ready'.wallet = w /\ ready'.status = entry[w]
          /\ ready'.todo = ready.todo /\ ready'.height = ready.height /\ ready'.intact = ready.intact
      BY <3>1 DEF TypeOK, Requests
    <3>4. entry' = entry
      BY <1>1 DEF scanner
    <3> QED
      BY <1>3, <3>1, <3>2, <3>3, <3>4 DEF CheckedInv, CompleteThrough
  <2>6. CASE ReadyMirror /\ ready' # NoRequest
    <3>1. /\ ready.pc = "mirror" /\ CompleteThrough(ready.status, ready.height)
          /\ ready' = [ready EXCEPT !.pc = IF ready.todo = {ready.wallet} THEN "yes" ELSE "status",
                                    !.todo = @ \ {ready.wallet}, !.wallet = 1, !.status = NoStatus]
      BY <2>6 DEF ReadyMirror
    <3>2. 1 \in Wallets
      BY BackfillAssumption DEF Wallets
    <3>3. ready' \in Requests
      BY <3>1, <3>2, RestTyped DEF TypeOK, Requests
    <3>4. /\ ready'.pc = IF ready.todo = {ready.wallet} THEN "yes" ELSE "status"
          /\ ready'.todo = ready.todo \ {ready.wallet}
          /\ ready'.height = ready.height /\ ready'.intact = ready.intact
      BY <3>1 DEF TypeOK, Requests
    <3>5. entry' = entry
      BY <1>1 DEF scanner
    <3>6. ready.intact => CompleteThrough(entry[ready.wallet], ready.height)
      BY <1>3, <3>1 DEF CheckedInv, CompleteThrough
    <3>7. ready.intact => \A w \in Wallets \ ready.todo : CompleteThrough(entry[w], ready.height)
      BY <3>1 DEF CheckedInv
    <3> QED
      BY <3>3, <3>4, <3>5, <3>6, <3>7 DEF CheckedInv
  <2> QED
    BY <2>1, <2>2, <2>3, <2>4, <2>5, <2>6 DEF Checks, ReadyFails, Proceed
<1>6. evidence' \in BOOLEAN /\ (evidence' => evidence \/ (ready.pc = "yes" /\ ready.intact))
  <2>1. CASE UNCHANGED evidence
    BY <2>1 DEF TypeOK
  <2>2. CASE \E issues \in BOOLEAN : Proceed(issues)
    BY Zenon, <2>2 DEF Proceed
  <2> QED
    BY <2>1, <2>2 DEF Checks, ReadyFails, ReadyTip, ReadyHealth, ReadyHash, ReadyStatus, ReadyMirror,
                      history
<1>7. TypeOK'
  BY <1>1, <1>2, <1>4, <1>5, <1>6 DEF TypeOK, process, scanner
<1>8. ScanInv' /\ LoopInv'
  BY <1>1 DEF ScanInv, LoopInv, scanner
<1>9. KnownInv'
  <2>1. ready.pc = "yes" /\ ready.intact => \A w \in Wallets : entry[w].state # "absent"
    BY DEF CheckedInv, CompleteThrough
  <2> QED
    BY <1>1, <1>4, <1>6, <2>1 DEF KnownInv, process, scanner
<1> QED
  BY <1>5, <1>7, <1>8, <1>9

\* Blocks, reorganisations and attestations do not touch the entries; a new
\* indexed block lets complete wallets follow.
LEMMA ChainInv == ASSUME BackfillInv, NewBlock \/ Reorg \/ Index \/ Attest PROVE BackfillInv'
<1> USE DEF BackfillInv
<1>1. UNCHANGED <<rows, process, loop, history>>
  BY DEF NewBlock, Reorg, Index, Attest
<1>2. faults' \in 0 .. MaxFaults
  <2>1. Fault \/ UNCHANGED faults
    BY DEF NewBlock, Reorg, Index, Attest
  <2> QED
    BY <2>1, FaultsTyped
<1>3. /\ tip \in Nat /\ scanned \in Nat /\ MaxHeight \in Nat /\ tip <= MaxHeight
      /\ \A w \in Wallets : entry[w].next \in Nat
  BY BackfillAssumption DEF TypeOK, Heights, Statuses, NextHeights
<1>4. entry' \in [Wallets -> Statuses] /\ Grows
  <2>1. CASE UNCHANGED entry
    BY <1>3, <2>1 DEF TypeOK, Grows
  <2>2. CASE Index
    <3>1. PICK follow \in SUBSET {w \in Wallets : entry[w].state = "complete"} :
             entry' = [w \in Wallets |->
                         IF w \in follow /\ entry[w].next = scanned + 1
                         THEN [entry[w] EXCEPT !.next = scanned + 2] ELSE entry[w]]
      BY <2>2 DEF Index
    <3>2. scanned + 2 \in NextHeights
      BY <1>3, <2>2 DEF Index, NextHeights
    <3>3. \A w \in Wallets : entry[w] \in Statuses
      BY DEF TypeOK
    <3>4. entry' \in [Wallets -> Statuses]
      BY <3>1, <3>2, <3>3 DEF Statuses
    <3>5. \A w \in Wallets : entry'[w].state = entry[w].state /\ entry'[w].next >= entry[w].next
      BY <1>3, <3>1, <3>3 DEF Statuses
    <3> QED
      BY <3>4, <3>5 DEF Grows
  <2> QED
    BY <2>1, <2>2 DEF NewBlock, Reorg, Attest, scanner
<1>5. /\ scanned' \in Heights /\ tip' \in Heights /\ stale' \in BOOLEAN /\ attested' \in BOOLEAN
      /\ ScanInv'
  <2>1. scanned' \in Heights /\ tip' \in Heights /\ scanned' <= tip'
        /\ (scanned # 0 => scanned' # 0)
    BY <1>3 DEF NewBlock, Reorg, Index, Attest, scanner, TypeOK, Heights, ScanInv
  <2>2. stale' \in BOOLEAN /\ attested' \in BOOLEAN
    BY Zenon DEF NewBlock, Reorg, Index, Attest, scanner, TypeOK
  <2>3. stale' => scanned # 0
    BY DEF NewBlock, Reorg, Index, Attest, scanner, ScanInv
  <2> QED
    BY <2>1, <2>2, <2>3 DEF ScanInv
<1>6. ready' \in Requests /\ CheckedInv'
  <2>1. CASE UNCHANGED ready
    BY <1>4, <2>1, GrowthKeeps DEF TypeOK
  <2>2. CASE Reorg
    <3>1. ready' = [ready EXCEPT !.onChain = FALSE] /\ entry' = entry
      BY <2>2 DEF Reorg
    <3> QED
      BY <3>1 DEF TypeOK, Requests, CheckedInv, CompleteThrough
  <2> QED
    BY <2>1, <2>2 DEF NewBlock, Index, Attest
<1>7. TypeOK'
  BY <1>1, <1>2, <1>4, <1>5, <1>6 DEF TypeOK, process, history
<1>8. LoopInv' /\ KnownInv'
  BY <1>1, <1>4 DEF LoopInv, KnownInv, Grows, process, history
<1> QED
  BY <1>5, <1>6, <1>7, <1>8

\* When the scanner loses blocks or data, a check under way is no longer intact.
LEMMA LossInv == ASSUME BackfillInv, Rollback \/ WipeScanner PROVE BackfillInv'
<1> USE DEF BackfillInv
<1>1. /\ UNCHANGED <<rows, process, loop, tip>>
      /\ ready' = [ready EXCEPT !.intact = FALSE]
  BY DEF Rollback, WipeScanner
<1>2. faults' \in 0 .. MaxFaults
  <2>1. Fault \/ UNCHANGED faults
    BY DEF Rollback, WipeScanner
  <2> QED
    BY <2>1, FaultsTyped
<1>3. /\ tip \in Nat /\ scanned \in Nat /\ MaxHeight \in Nat /\ tip <= MaxHeight
      /\ \A w \in Wallets : entry[w] \in Statuses /\ entry[w].next \in 1 .. MaxHeight + 1
      /\ \A w \in Wallets : Birthday[w] \in Nat /\ Birthday[w] >= 1
  BY BackfillAssumption DEF TypeOK, Heights, Statuses, NextHeights
<1>4. entry' \in [Wallets -> Statuses]
      /\ (Rollback => \A w \in Wallets : entry'[w].state = entry[w].state)
  <2>1. CASE WipeScanner /\ ~Rollback
    BY <2>1, RestTyped DEF WipeScanner
  <2>2. CASE Rollback
    <3>1. \A w \in Wallets : (IF entry[w].next > scanned /\ entry[w].next > Birthday[w]
                              THEN entry[w].next - 1 ELSE entry[w].next) \in NextHeights
      BY <1>3 DEF NextHeights
    <3>2. \A w \in Wallets :
             entry'[w] = [entry[w] EXCEPT !.next =
                            IF entry[w].next > scanned /\ entry[w].next > Birthday[w]
                            THEN entry[w].next - 1 ELSE entry[w].next]
      BY <1>3, <2>2 DEF Rollback, Statuses
    <3>3. \A w \in Wallets : entry'[w] \in Statuses /\ entry'[w].state = entry[w].state
      BY <1>3, <3>1, <3>2 DEF Statuses
    <3>4. entry' = [w \in Wallets |-> entry'[w]]
      BY <2>2 DEF Rollback
    <3> QED
      BY <3>3, <3>4
  <2> QED
    BY <2>1, <2>2
<1>5. /\ scanned' \in Heights /\ stale' \in BOOLEAN /\ attested' \in BOOLEAN /\ ScanInv'
  <2>1. scanned' \in Heights /\ scanned' <= tip
    BY <1>3 DEF Rollback, WipeScanner, TypeOK, Heights, ScanInv
  <2>2. stale' = FALSE /\ attested' \in BOOLEAN
    BY Zenon DEF Rollback, WipeScanner, TypeOK
  <2> QED
    BY <1>1, <2>1, <2>2 DEF ScanInv
<1>6. ready' \in Requests /\ CheckedInv'
  BY <1>1 DEF TypeOK, Requests, CheckedInv
<1>7. /\ evidence' \in BOOLEAN /\ forgotten' \in BOOLEAN
      /\ (evidence' \/ forgotten') => Rollback /\ UNCHANGED <<evidence, forgotten>>
  BY DEF Rollback, WipeScanner, history, TypeOK
<1>8. TypeOK'
  BY <1>1, <1>2, <1>4, <1>5, <1>6, <1>7 DEF TypeOK, process
<1>9. LoopInv' /\ KnownInv'
  BY <1>1, <1>4, <1>7 DEF LoopInv, KnownInv, process
<1> QED
  BY <1>5, <1>6, <1>8, <1>9

\* A lost database leaves rows without bindings beside the scanner's entries.
LEMMA LoseDatabaseInv == ASSUME BackfillInv, LoseDatabase PROVE BackfillInv'
<1> USE DEF BackfillInv
<1>1. /\ UNCHANGED <<at, scanner, tip>> /\ Fault
      /\ up' = "down" /\ registered' = {} /\ loop' = LoopAtRest /\ ready' = NoRequest
      /\ rows' = [w \in Wallets |-> NoRow] /\ evidence' = FALSE
      /\ forgotten' = (forgotten \/ evidence)
  BY DEF LoseDatabase
<1>2. faults' \in 0 .. MaxFaults
  BY <1>1, FaultsTyped
<1>3. rows' \in [Wallets -> WalletRows] /\ rows'[1].binding = "none"
  <2>1. 1 \in Wallets /\ NoRow.binding = "none"
    BY BackfillAssumption DEF Wallets, NoRow
  <2> QED
    BY <1>1, <2>1, RestTyped
<1>4. forgotten' \in BOOLEAN
  BY Zenon, <1>1
<1>5. TypeOK'
  BY <1>1, <1>2, <1>3, <1>4, RestTyped DEF TypeOK, scanner
<1>6. ScanInv' /\ LoopInv' /\ CheckedInv' /\ KnownInv'
  BY <1>1, <1>3, RestTyped DEF ScanInv, LoopInv, CheckedInv, KnownInv, scanner
<1> QED
  BY <1>5, <1>6

\* Every step preserves the invariant.
LEMMA NextInv == BackfillInv /\ [Next]_vars => BackfillInv'
<1> SUFFICES ASSUME BackfillInv, [Next]_vars PROVE BackfillInv'
  OBVIOUS
<1>1. CASE Boots \/ Stop
  BY <1>1, BootsInv, StopInv
<1>2. CASE Loops \/ LoopFails
  BY <1>2, LoopReadsInv, LoopStoresInv, SyncInv, BackfillStepInv DEF Loops
<1>3. CASE Checks \/ ReadyFails
  BY <1>3, ChecksInv
<1>4. CASE NewBlock \/ Reorg \/ Index \/ Attest
  BY <1>4, ChainInv
<1>5. CASE Rollback \/ WipeScanner \/ LoseDatabase
  BY <1>5, LossInv, LoseDatabaseInv
<1>6. CASE UNCHANGED vars
  <2> USE <1>6 DEF BackfillInv, vars, process, scanner, history
  <2>1. TypeOK'
    BY DEF TypeOK
  <2>2. ScanInv' /\ LoopInv' /\ CheckedInv' /\ KnownInv'
    BY DEF ScanInv, LoopInv, CheckedInv, CompleteThrough, KnownInv
  <2> QED
    BY <2>1, <2>2
<1> QED
  BY <1>1, <1>2, <1>3, <1>4, <1>5, <1>6 DEF Next

\* The registry, the loop, the checks and the scanner keep the invariant.
THEOREM BackfillInvariant == Spec => []BackfillInv
<1>1. Init => BackfillInv
  BY InitInv
<1>2. BackfillInv /\ [Next]_vars => BackfillInv'
  BY NextInv
<1> QED
  BY <1>1, <1>2, PTL DEF Spec

\* A positive checkReady means that the scanner has every wallet's history
\* through the reported height, while the loop and the scanner went on beside it.
THEOREM ReadyMeansComplete == Spec => []ReadyIsComplete
<1>1. BackfillInv => ReadyIsComplete
  BY DEF BackfillInv, CheckedInv, CompleteThrough, ReadyIsComplete
<1> QED
  BY <1>1, BackfillInvariant, PTL

\* newWalletRegistry does not come up with fresh rows beside a scanner that
\* knows the wallets addresses were issued for.
THEOREM ResetIsRefused == Spec => []NoSilentReset
<1>1. BackfillInv => NoSilentReset
  BY DEF BackfillInv, KnownInv, NoSilentReset
<1> QED
  BY <1>1, BackfillInvariant, PTL
=============================================================================
