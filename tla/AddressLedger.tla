---------------------------- MODULE AddressLedger ----------------------------
(***************************************************************************)
(* The address high-water ledger and the life of an installation: the      *)
(* manifest file (internal/installation/state.go), the guarded allocation  *)
(* of an address (internal/storage/guarded), the commands init, serve,     *)
(* recover and recovery-unseal-coordinator (internal/lifecycle) and the    *)
(* tables they use (internal/storage/sqlite).                              *)
(*                                                                         *)
(* The manifest and the database are two files no transaction spans.  A    *)
(* step is one locked rewrite of the manifest or one database transaction. *)
(* Nothing excludes two commands from running at once, nor a command from  *)
(* running beside the server, so every interleaving is allowed; only the   *)
(* operator's replacement of the database file waits until nobody has it   *)
(* open.  The installation ID is constant: a second manifest is never made *)
(* for the same database.  The wallets table is left out: EnsureWallet is  *)
(* idempotent, and its rows matter only to the emptiness tests, where the  *)
(* marker written before them decides.                                     *)
(***************************************************************************)
EXTENDS Naturals, FiniteSets

CONSTANTS
    Wallets,       \* configured wallets
    MaxIndex,      \* the last diversifier index: math.MaxUint32 in the code
    Handlers,      \* request goroutines of the server
    Admins,        \* processes that run init, recover or the unseal command
    Attempts,      \* coordinator attempts, for what a lost database forgets
    NoWallet, NoBackup,
    StaleBackups,  \* may a backup that lacks attempts be restored?
    MaxFaults      \* bound on crashes, errors and replaced databases

ASSUME LedgerAssumption ==
    /\ MaxIndex \in Nat
    /\ MaxFaults \in Nat
    /\ NoWallet \notin Wallets
    /\ StaleBackups \in BOOLEAN

Indices == 0..MaxIndex
Below(n) == {i \in Indices : i < n}

(* The gateway database: address rows, the metadata keys installation_id,  *)
(* recovery_installation_id and coordinator_recovery_seal, and the         *)
(* transaction attempts.                                                   *)
Databases ==
    [rows : [Wallets -> SUBSET Indices], bound : BOOLEAN, marker : BOOLEAN,
     seal : BOOLEAN, attempts : SUBSET Attempts]

EmptyDatabase ==
    [rows |-> [w \in Wallets |-> {}], bound |-> FALSE, marker |-> FALSE,
     seal |-> FALSE, attempts |-> {}]

ASSUME BackupAssumption == NoBackup \notin Databases

VARIABLES
    \* the manifest
    exists,      \* the file is there
    next,        \* next_address_index of a wallet
    skipped,     \* skipped_address_indices of a wallet
    \* the database, and a copy the operator keeps
    db,
    backup,
    \* the server and its requests
    serving,
    pc, wallet, index,
    \* administrative commands
    command,     \* the step an admin process takes next
    targets,     \* the high-water marks it recovers to
    \* history
    issued,      \* how often the address at an index was returned to a caller
    written,     \* attempts ever claimed
    reconciled,  \* attempts an operator vouched for with the unseal command
    faults

ledger   == <<exists, next, skipped>>
requests == <<pc, wallet, index>>
commands == <<command, targets>>
history  == <<issued, written, reconciled>>
vars     == <<ledger, db, backup, serving, requests, commands, history, faults>>

RequestSteps == {"idle", "allocate", "mark"}
InitSteps    == {"create", "init_begin", "init_bind"}
RecoverSteps == {"begin", "raise", "rebuild", "verify", "bind"}

(* Every variable has its type: what the two files and the processes hold. *)
TypeOK ==
    /\ exists \in BOOLEAN
    /\ next \in [Wallets -> 0..(MaxIndex + 1)]
    /\ skipped \in [Wallets -> SUBSET Indices]
    /\ db \in Databases
    /\ backup \in Databases \cup {NoBackup}
    /\ serving \in BOOLEAN
    /\ pc \in [Handlers -> RequestSteps]
    /\ wallet \in [Handlers -> Wallets \cup {NoWallet}]
    /\ index \in [Handlers -> Indices]
    /\ command \in [Admins -> {"none"} \cup InitSteps \cup RecoverSteps]
    /\ targets \in [Admins -> [Wallets -> 0..(MaxIndex + 1)]]
    /\ issued \in [Wallets -> [Indices -> Nat]]
    /\ written \subseteq Attempts
    /\ reconciled \subseteq Attempts
    /\ faults \in 0..MaxFaults

Init ==
    /\ exists = FALSE
    /\ next = [w \in Wallets |-> 0]
    /\ skipped = [w \in Wallets |-> {}]
    /\ db = EmptyDatabase
    /\ backup = NoBackup
    /\ serving = FALSE
    /\ pc = [h \in Handlers |-> "idle"]
    /\ wallet = [h \in Handlers |-> NoWallet]
    /\ index = [h \in Handlers |-> 0]
    /\ command = [o \in Admins |-> "none"]
    /\ targets = [o \in Admins |-> [w \in Wallets |-> 0]]
    /\ issued = [w \in Wallets |-> [i \in Indices |-> 0]]
    /\ written = {}
    /\ reconciled = {}
    /\ faults = 0

Fault ==
    /\ faults < MaxFaults
    /\ faults' = faults + 1

----------------------------------------------------------------------------
(* One allocation: guarded.Store.AllocateAddress.                          *)

Drop(h) ==
    /\ pc' = [pc EXCEPT ![h] = "idle"]
    /\ wallet' = [wallet EXCEPT ![h] = NoWallet]
    /\ index' = [index EXCEPT ![h] = 0]

(* Mutant: an exhausted wallet is not noticed.                             *)
AdvanceBeyond(w) == next' = [next EXCEPT ![w] = @ + 1]

Advance(w) ==
    /\ next[w] <= MaxIndex
    /\ next' = [next EXCEPT ![w] = @ + 1]

ReserveAddressIndex(h, w) ==
    /\ serving
    /\ pc[h] = "idle"
    /\ Advance(w)
    /\ pc' = [pc EXCEPT ![h] = "allocate"]
    /\ wallet' = [wallet EXCEPT ![h] = w]
    /\ index' = [index EXCEPT ![h] = next[w]]
    /\ UNCHANGED <<exists, skipped, db, backup, serving, commands, history, faults>>

(* writeAtomic fails after the rename: the mark has advanced, and the      *)
(* index it passed belongs to nobody.  (An earlier failure changes         *)
(* nothing.)                                                               *)
ReserveFails(h, w) ==
    /\ serving
    /\ pc[h] = "idle"
    /\ Advance(w)
    /\ Fault
    /\ UNCHANGED <<exists, skipped, db, backup, serving, requests, commands, history>>

WithRow(d, w, i) == [d EXCEPT !.rows = [d.rows EXCEPT ![w] = @ \cup {i}]]

(* The row commits and the address goes to the caller.  An existing row    *)
(* has the same address, derived from the same key and index.              *)
AllocateAddressAt(h) ==
    /\ pc[h] = "allocate"
    /\ db' = WithRow(db, wallet[h], index[h])
    /\ issued' = [issued EXCEPT ![wallet[h]][index[h]] = @ + 1]
    /\ Drop(h)
    /\ UNCHANGED <<ledger, backup, serving, commands, written, reconciled, faults>>

(* Derivation fails, the caller hangs up, or the commit reports an error   *)
(* although the row may have landed.                                       *)
AllocateFails(h) ==
    /\ pc[h] = "allocate"
    /\ Fault
    /\ db' \in {db, WithRow(db, wallet[h], index[h])}
    /\ pc' = [pc EXCEPT ![h] = "mark"]
    /\ UNCHANGED <<ledger, backup, serving, wallet, index, commands, history>>

MarkAddressIndexSkipped(h) ==
    /\ pc[h] = "mark"
    /\ skipped' = [skipped EXCEPT ![wallet[h]] = @ \cup {index[h]}]
    /\ Drop(h)
    /\ UNCHANGED <<exists, next, db, backup, serving, commands, history, faults>>

MarkFails(h) ==
    /\ pc[h] = "mark"
    /\ Fault
    /\ Drop(h)
    /\ UNCHANGED <<ledger, db, backup, serving, commands, history>>

----------------------------------------------------------------------------
(* init: lifecycle.Initialize.                                             *)

Goto(o, step) ==
    /\ command' = [command EXCEPT ![o] = step]
    /\ UNCHANGED targets

Ends(o) ==
    /\ command' = [command EXCEPT ![o] = "none"]
    /\ targets' = [targets EXCEPT ![o] = [w \in Wallets |-> 0]]

InitChecks(o) ==
    /\ command[o] = "none"
    /\ ~ exists
    /\ db = EmptyDatabase          \* AssertInitializable
    /\ Goto(o, "create")
    /\ UNCHANGED <<ledger, db, backup, serving, requests, history, faults>>

(* installation.Create, under the exclusive file lock: the loser of two    *)
(* concurrent inits stops here.                                            *)
InitCreate(o) ==
    /\ command[o] = "create"
    /\ \/ /\ ~ exists
          /\ exists' = TRUE
          /\ next' = [w \in Wallets |-> 0]
          /\ skipped' = [w \in Wallets |-> {}]
          /\ Goto(o, "init_begin")
       \/ /\ exists
          /\ Ends(o)
          /\ UNCHANGED ledger
    /\ UNCHANGED <<db, backup, serving, requests, history, faults>>

(* Mutant: an interrupted recovery is not recognised by its marker.        *)
AdmittedEmptyOnly(d) == d = EmptyDatabase

(* Sets the marker in an empty database, or finds it; TRUE when accepted.  *)
RecoveryAdmitted(d) == d.marker \/ d = EmptyDatabase

BeginInstallationRecovery(o, then) ==
    \/ /\ RecoveryAdmitted(db)
       /\ db' = [db EXCEPT !.marker = TRUE]
       /\ Goto(o, then)
    \/ /\ ~ RecoveryAdmitted(db)
       /\ Ends(o)
       /\ UNCHANGED db

InitBegin(o) ==
    /\ command[o] = "init_begin"
    /\ BeginInstallationRecovery(o, "init_bind")
    /\ UNCHANGED <<ledger, backup, serving, requests, history, faults>>

(* Mutant: a recovered database is bound without the seal.                 *)
bindUnsealed(sealCoordinator) ==
    \/ /\ ~ db.bound
       /\ db.marker
       /\ db' = [db EXCEPT !.bound = TRUE, !.marker = FALSE]
    \/ /\ db.bound \/ ~ db.marker
       /\ UNCHANGED db

(* An unbound database needs the marker, which the binding consumes; a     *)
(* database bound already is only sealed, and only by recovery.            *)
bindInstallation(sealCoordinator) ==
    \/ /\ db.bound
       /\ db' = [db EXCEPT !.seal = @ \/ sealCoordinator]
    \/ /\ ~ db.bound
       /\ db.marker
       /\ db' = [db EXCEPT !.bound = TRUE, !.marker = FALSE,
                           !.seal = @ \/ sealCoordinator]
    \/ /\ ~ db.bound
       /\ ~ db.marker
       /\ UNCHANGED db

InitBind(o) ==
    /\ command[o] = "init_bind"
    /\ bindInstallation(FALSE)
    /\ Ends(o)
    /\ UNCHANGED <<ledger, backup, serving, requests, history, faults>>

----------------------------------------------------------------------------
(* recover: lifecycle.Recover.  The operator chooses targets at or above   *)
(* the marks and confirms the checksum of the mapping they derive.         *)

RecoveryTargets ==
    {t \in [Wallets -> 0..(MaxIndex + 1)] : \A w \in Wallets : t[w] >= next[w]}

RecoverChecks(o) ==
    /\ command[o] = "none"
    /\ exists
    /\ ~ db.bound
    /\ \E t \in RecoveryTargets : targets' = [targets EXCEPT ![o] = t]
    /\ command' = [command EXCEPT ![o] = "begin"]
    /\ UNCHANGED <<ledger, db, backup, serving, requests, history, faults>>

RecoverBegin(o) ==
    /\ command[o] = "begin"
    /\ BeginInstallationRecovery(o, "raise")
    /\ UNCHANGED <<ledger, backup, serving, requests, history, faults>>

(* Mutant: the marks are set to the targets without comparing them.        *)
SetHighWater(o) ==
    /\ command[o] = "raise"
    /\ next' = targets[o]
    /\ Goto(o, "rebuild")
    /\ UNCHANGED <<exists, skipped, db, backup, serving, requests, history, faults>>

RaiseHighWater(o) ==
    /\ command[o] = "raise"
    /\ \/ /\ targets[o] \in RecoveryTargets
          /\ next' = targets[o]
          /\ Goto(o, "rebuild")
       \/ /\ targets[o] \notin RecoveryTargets
          /\ Ends(o)
          /\ UNCHANGED next
    /\ UNCHANGED <<exists, skipped, db, backup, serving, requests, history, faults>>

(* forEachDerivedAddress registers 0, 1, ... up to the target; rows that   *)
(* are there already are visited without effect.                           *)
RebuildRow(o, w, i) ==
    /\ command[o] = "rebuild"
    /\ i \in Below(targets[o][w]) \ db.rows[w]
    /\ Below(i) \subseteq db.rows[w]
    /\ db' = WithRow(db, w, i)
    /\ UNCHANGED <<ledger, backup, serving, requests, commands, history, faults>>

(* The manifest this rewrite returns is the one verified next.             *)
ClearSkippedAddressIndices(o) ==
    /\ command[o] = "rebuild"
    /\ \A w \in Wallets : Below(targets[o][w]) \subseteq db.rows[w]
    /\ skipped' = [w \in Wallets |-> {}]
    /\ targets' = [targets EXCEPT ![o] = next]
    /\ command' = [command EXCEPT ![o] = "verify"]
    /\ UNCHANGED <<exists, next, db, backup, serving, requests, history, faults>>

(* The merge of two ascending lists: together they are 0 .. next - 1.      *)
verifyAddressCoverage(n, gaps, present) == present \cup gaps = Below(n)

RecoverVerifies(o) ==
    /\ command[o] = "verify"
    /\ \/ /\ \A w \in Wallets : verifyAddressCoverage(targets[o][w], {}, db.rows[w])
          /\ Goto(o, "bind")
       \/ /\ \E w \in Wallets : ~ verifyAddressCoverage(targets[o][w], {}, db.rows[w])
          /\ Ends(o)
    /\ UNCHANGED <<ledger, db, backup, serving, requests, history, faults>>

RecoverBind(o) ==
    /\ command[o] = "bind"
    /\ bindInstallation(TRUE)
    /\ Ends(o)
    /\ UNCHANGED <<ledger, backup, serving, requests, history, faults>>

(* recovery-unseal-coordinator: the operator states that every attempt     *)
(* made so far is reconciled.                                              *)
UnsealCoordinatorRecovery(o) ==
    /\ command[o] = "none"
    /\ exists
    /\ db.bound
    /\ db.seal
    /\ db' = [db EXCEPT !.seal = FALSE]
    /\ reconciled' = written
    /\ UNCHANGED <<ledger, backup, serving, requests, commands, issued, written, faults>>

----------------------------------------------------------------------------
(* serve: lifecycle.OpenForServe, and the coordinator's claims.            *)

Covered == \A w \in Wallets : verifyAddressCoverage(next[w], skipped[w], db.rows[w])

(* Mutant: serve trusts the binding and does not check the registry.       *)
OpenUnchecked ==
    /\ ~ serving
    /\ exists
    /\ db.bound
    /\ serving' = TRUE
    /\ UNCHANGED <<ledger, db, backup, requests, commands, history, faults>>

OpenForServe ==
    /\ ~ serving
    /\ exists
    /\ db.bound
    /\ Covered
    /\ serving' = TRUE
    /\ UNCHANGED <<ledger, db, backup, requests, commands, history, faults>>

(* The coordinator's Create: refused while sealed.                         *)
ClaimAttempt(a) ==
    /\ serving
    /\ ~ db.seal
    /\ a \notin written
    /\ db' = [db EXCEPT !.attempts = @ \cup {a}]
    /\ written' = written \cup {a}
    /\ UNCHANGED <<ledger, backup, serving, requests, commands, issued, reconciled, faults>>

----------------------------------------------------------------------------
(* Failures and the operator's hand on the database file.                  *)

(* The server dies, and its requests with it.                              *)
Crash ==
    /\ serving
    /\ Fault
    /\ serving' = FALSE
    /\ pc' = [h \in Handlers |-> "idle"]
    /\ wallet' = [h \in Handlers |-> NoWallet]
    /\ index' = [h \in Handlers |-> 0]
    /\ UNCHANGED <<ledger, db, backup, commands, history>>

(* A graceful shutdown waits for the requests.                             *)
Shutdown ==
    /\ serving
    /\ \A h \in Handlers : pc[h] = "idle"
    /\ serving' = FALSE
    /\ UNCHANGED <<ledger, db, backup, requests, commands, history, faults>>

(* A command dies, or an error ends it after its last step took effect.    *)
CommandDies(o) ==
    /\ command[o] # "none"
    /\ Fault
    /\ Ends(o)
    /\ UNCHANGED <<ledger, db, backup, serving, requests, history>>

DatabaseClosed == ~ serving /\ \A o \in Admins : command[o] = "none"

LoseDatabase ==
    /\ DatabaseClosed
    /\ db # EmptyDatabase
    /\ Fault
    /\ db' = EmptyDatabase
    /\ UNCHANGED <<ledger, backup, serving, requests, commands, history>>

TakeBackup ==
    /\ DatabaseClosed
    /\ db.bound
    /\ backup' = db
    /\ UNCHANGED <<ledger, db, serving, requests, commands, history, faults>>

RestoreBackup ==
    /\ DatabaseClosed
    /\ backup # NoBackup
    /\ StaleBackups \/ written \subseteq backup.attempts \cup reconciled
    /\ Fault
    /\ db' = backup
    /\ UNCHANGED <<ledger, backup, serving, requests, commands, history>>

----------------------------------------------------------------------------
Allocates(h) ==
    \/ \E w \in Wallets : ReserveAddressIndex(h, w) \/ ReserveFails(h, w)
    \/ AllocateAddressAt(h) \/ AllocateFails(h)
    \/ MarkAddressIndexSkipped(h) \/ MarkFails(h)

Initializes(o) == InitChecks(o) \/ InitCreate(o) \/ InitBegin(o) \/ InitBind(o)

Recovers(o) ==
    \/ RecoverBegin(o) \/ RaiseHighWater(o)
    \/ \E w \in Wallets, i \in Indices : RebuildRow(o, w, i)
    \/ ClearSkippedAddressIndices(o) \/ RecoverVerifies(o) \/ RecoverBind(o)

Administers(o) ==
    \/ Initializes(o) \/ RecoverChecks(o) \/ Recovers(o)
    \/ UnsealCoordinatorRecovery(o) \/ CommandDies(o)

Environment == Crash \/ Shutdown \/ LoseDatabase \/ TakeBackup \/ RestoreBackup

Next ==
    \/ \E h \in Handlers : Allocates(h)
    \/ \E o \in Admins : Administers(o)
    \/ \E a \in Attempts : ClaimAttempt(a)
    \/ OpenForServe
    \/ Environment

Spec == Init /\ [][Next]_vars

(* A command that runs goes on, and an operator whose database is unbound  *)
(* runs recover again.                                                     *)
Fairness ==
    \A o \in Admins :
        /\ WF_vars(InitCreate(o) \/ InitBegin(o) \/ InitBind(o))
        /\ WF_vars(Recovers(o))
        /\ WF_vars(RecoverChecks(o))

FairSpec == Spec /\ Fairness

----------------------------------------------------------------------------
(* No address is returned to two callers, whatever crashes, failed writes, *)
(* lost or restored databases and concurrent recoveries lie between        *)
(* (guarded.go AllocateAddress, state.go ReserveAddressIndex).             *)
NeverReissued == \A w \in Wallets, i \in Indices : issued[w][i] <= 1

(* A server that has passed OpenForServe knows every address customers     *)
(* hold: deposits to them are attributed (lifecycle.go OpenForServe).      *)
IssuedAreRegistered ==
    serving => \A w \in Wallets, i \in Indices : issued[w][i] > 0 => i \in db.rows[w]

(* The coordinator creates attempts only over a database that holds every  *)
(* earlier attempt an operator has not reconciled: a rebuilt database is   *)
(* sealed (sqlite.go bindInstallation, service.go Create), and, as         *)
(* README.md says, a stale one "fails closed".                             *)
NothingForgotten ==
    serving /\ ~ db.seal => written \subseteq db.attempts \cup reconciled

ServeAsksForRecovery == exists /\ (~ db.bound \/ ~ Covered)
RecoverRefuses == db.bound \/ ~ RecoveryAdmitted(db)

(* When serve refuses an incomplete registry it says "run audited          *)
(* recovery" (lifecycle.go verifyAddressCoverage, state.go                 *)
(* MarkAddressIndexSkipped); recover then does not refuse to run.          *)
AuditedRecoveryRuns == DatabaseClosed /\ ServeAsksForRecovery => ~ RecoverRefuses

(* An unbound database that recovery admits is bound in the end, through   *)
(* deaths of the command, concurrent commands and failed verification      *)
(* (lifecycle.go Recover, sqlite.go BeginInstallationRecovery).            *)
RecoveryCompletes == (exists /\ ~ db.bound) ~> db.bound

----------------------------------------------------------------------------
(* The inductive invariants behind the safety properties.                  *)

Busy(h) == pc[h] # "idle"

(* A request owns an index nobody else has: it is below the mark, never    *)
(* issued, not recorded as skipped, and no other request works on it.      *)
RequestsInv ==
    /\ \A h \in Handlers : Busy(h) =>
          /\ serving
          /\ wallet[h] \in Wallets
          /\ index[h] < next[wallet[h]]
          /\ issued[wallet[h]][index[h]] = 0
          /\ index[h] \notin skipped[wallet[h]]
    /\ \A g, h \in Handlers :
          Busy(g) /\ Busy(h) /\ g # h /\ wallet[g] = wallet[h] => index[g] # index[h]

(* Issued addresses lie below the mark and are not recorded as skipped.    *)
MarksInv ==
    /\ \A w \in Wallets : skipped[w] \subseteq Below(next[w])
    /\ \A w \in Wallets, i \in Indices :
          issued[w][i] > 0 => exists /\ i < next[w] /\ i \notin skipped[w]
    /\ serving => exists /\ db.bound

LedgerInv ==
    /\ TypeOK
    /\ RequestsInv
    /\ MarksInv
    /\ NeverReissued
    /\ IssuedAreRegistered

(* An init that is still running binds a database no attempt ever went to, *)
(* or one bound already; a bound database without the seal is complete.    *)
SealInv ==
    /\ ~ exists => written = {}
    /\ \A o \in Admins : command[o] \in InitSteps => written = {} \/ db.bound
    /\ db.bound /\ ~ db.seal => written \subseteq db.attempts \cup reconciled

=============================================================================
