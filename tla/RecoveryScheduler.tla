-------------------------- MODULE RecoveryScheduler --------------------------
(***************************************************************************)
(* How attempts reach the workers (internal/coordinator/service.go): the   *)
(* bounded dispatch channel that drops what it cannot take, the recovery   *)
(* loop that pages through the recoverable rows with a cursor, the one     *)
(* minute a signing_unknown row rests, and the workers' inflight set.      *)
(* Coordinator lets any recoverable row be scheduled at any time; here it  *)
(* is shown that every one of them is, again and again.                    *)
(*                                                                         *)
(* A row is what the scheduler sees of it: what a worker does with it is   *)
(* any outcome, a row that is never settled included.  The database is not *)
(* sealed: a sealed one has no rows.  Callers are external.                *)
(***************************************************************************)
EXTENDS Naturals, Sequences, FiniteSets

CONSTANTS
    MaxId,       \* attempt ids are 1 .. MaxId, in the order of ORDER BY attempt_id
    WorkerCount, \* 4 in the code
    QueueCap,    \* capacity of the channel (1000 in the code)
    BatchSize,   \* recoveryBatchSize (1000 in the code)
    MaxFaults    \* bound on repeated requests, crashes and failed reads of the store

ASSUME SchedulerAssumption ==
    /\ MaxId \in Nat
    /\ WorkerCount \in Nat \ {0}
    /\ QueueCap \in Nat \ {0}
    /\ BatchSize \in Nat \ {0}
    /\ MaxFaults \in Nat

Ids == 1 .. MaxId

\* "resting" is signing_unknown updated less than a minute ago, "due" any other
\* recoverable state.
Recoverable == {"due", "resting"}
Rows == {"none", "settled"} \cup Recoverable

VARIABLES
    row,           \* transaction_attempts
    queue,         \* the dispatch channel
    inflight,      \* attempts that a worker is processing
    recoveryAfter, \* the cursor; 0 is the empty string
    scan,          \* scheduleRecoverable: its place, limit, rows to go, short page
    missed,        \* history: sweeps that ended since the scan last looked at a row
    faults

vars == <<row, queue, inflight, recoveryAfter, scan, missed, faults>>

NoScan == [pc |-> "idle", limit |-> 0, values |-> <<>>, short |-> FALSE]

\* The type invariant: no channel over capacity, no more rows in work than
\* workers, pages in the order of their ids and within the limit.
TypeOK ==
    /\ row \in [Ids -> Rows]
    /\ queue \in Seq(Ids) /\ Len(queue) <= QueueCap
    /\ inflight \subseteq Ids /\ Cardinality(inflight) <= WorkerCount
    /\ recoveryAfter \in 0 .. MaxId
    /\ scan \in [pc : {"idle", "read", "send"}, limit : 0 .. BatchSize,
                 values : Seq([id : Ids, due : BOOLEAN]), short : BOOLEAN]
    /\ Len(scan.values) <= scan.limit
    /\ \A i \in DOMAIN scan.values : scan.values[i].id > recoveryAfter
    /\ missed \in [Ids -> 0 .. 2]
    /\ faults \in 0 .. MaxFaults

Init ==
    /\ row = [a \in Ids |-> "none"]
    /\ queue = <<>>
    /\ inflight = {}
    /\ recoveryAfter = 0
    /\ scan = NoScan
    /\ missed = [a \in Ids |-> 0]
    /\ faults = 0

Fault == faults < MaxFaults /\ faults' = faults + 1

-----------------------------------------------------------------------------
\* Callers.

\* Mutant: one id too many is taken.
CanEnqueueOneMore == Len(queue) <= QueueCap

\* A non-blocking send: a full channel drops the id.
CanEnqueue == Len(queue) < QueueCap

enqueue(a) == queue' = IF CanEnqueue THEN Append(queue, a) ELSE queue

\* Create with a new key.
Create(a) ==
    /\ row[a] = "none"
    /\ row' = [row EXCEPT ![a] = "due"]
    /\ enqueue(a)
    /\ UNCHANGED <<inflight, recoveryAfter, scan, missed, faults>>

\* Create with a used key, or a GET that finds a transaction expired.
Replay(a) ==
    /\ row[a] \in Recoverable
    /\ Fault
    /\ enqueue(a)
    /\ UNCHANGED <<row, inflight, recoveryAfter, scan, missed>>

\* Only an unsigned row can be cancelled, and one that rests may be signed.
Cancel(a) ==
    /\ row[a] = "due"
    /\ row' = [row EXCEPT ![a] = "settled"]
    /\ UNCHANGED <<queue, inflight, recoveryAfter, scan, missed, faults>>

-----------------------------------------------------------------------------
\* recoverLoop: scheduleRecoverable runs at the start and on every tick.

\* The history when a sweep ends: every recoverable row waits for the next one.
Missed(history) ==
    [a \in Ids |-> IF row[a] \in Recoverable /\ history[a] < 2
                   THEN history[a] + 1 ELSE history[a]]

\* The free places of the channel bound the page.
Measure ==
    /\ scan.pc = "idle"
    /\ CanEnqueue
    /\ scan' = [NoScan EXCEPT !.pc = "read",
                  !.limit = IF BatchSize < QueueCap - Len(queue)
                            THEN BatchSize ELSE QueueCap - Len(queue)]
    /\ UNCHANGED <<row, queue, inflight, recoveryAfter, missed, faults>>

\* SELECT ... WHERE attempt_id > ? ORDER BY attempt_id LIMIT ?
RecoverableAttempts(after, limit) ==
    LET found == {a \in Ids : a > after /\ row[a] \in Recoverable}
        page == {a \in found : Cardinality({b \in found : b <= a}) <= limit}
        Nth(i) == CHOOSE a \in page : Cardinality({b \in page : b <= a}) = i
    IN  [i \in 1 .. Cardinality(page) |-> [id |-> Nth(i), due |-> row[Nth(i)] = "due"]]

\* Mutant: an empty page leaves the cursor at the end of the table.
ReadWithoutRewind ==
    LET values == RecoverableAttempts(recoveryAfter, scan.limit)
    IN  /\ scan.pc = "read"
        /\ scan' = IF values = <<>> THEN NoScan
                   ELSE [scan EXCEPT !.pc = "send", !.values = values,
                                     !.short = Len(values) < scan.limit]
        /\ UNCHANGED <<row, queue, inflight, recoveryAfter, missed, faults>>

Read ==
    LET values == RecoverableAttempts(recoveryAfter, scan.limit)
    IN  /\ scan.pc = "read"
        /\ IF values = <<>>
           THEN scan' = NoScan /\ recoveryAfter' = 0 /\ missed' = Missed(missed)
           ELSE /\ scan' = [scan EXCEPT !.pc = "send", !.values = values,
                                        !.short = Len(values) < scan.limit]
                /\ UNCHANGED <<recoveryAfter, missed>>
        /\ UNCHANGED <<row, queue, inflight, faults>>

ReadFails ==
    /\ scan.pc = "read"
    /\ Fault
    /\ scan' = NoScan
    /\ UNCHANGED <<row, queue, inflight, recoveryAfter, missed>>

\* The scan has looked at the first row of its page and goes on behind it, or
\* starts over if that was the last row of a short page.
Passes ==
    LET value == Head(scan.values)
        looked == [missed EXCEPT ![value.id] = 0]
    IN  /\ queue' = IF value.due THEN Append(queue, value.id) ELSE queue
        /\ IF Len(scan.values) > 1
           THEN scan' = [scan EXCEPT !.values = Tail(@)]
           ELSE scan' = NoScan
        /\ IF Len(scan.values) = 1 /\ scan.short
           THEN recoveryAfter' = 0 /\ missed' = Missed(looked)
           ELSE recoveryAfter' = value.id /\ missed' = looked

\* Mutant: the cursor stays on the row that did not fit.
SendSkips ==
    LET value == Head(scan.values)
    IN  /\ scan.pc = "send"
        /\ IF value.due /\ ~CanEnqueue
           THEN /\ recoveryAfter' = value.id
                /\ scan' = NoScan
                /\ UNCHANGED <<queue, missed>>
           ELSE Passes
        /\ UNCHANGED <<row, inflight, faults>>

\* One row of the page, as it was when it was read: skipped while it rests,
\* else sent; a full channel ends the scan before the row.
Send ==
    LET value == Head(scan.values)
    IN  /\ scan.pc = "send"
        /\ IF value.due /\ ~CanEnqueue
           THEN scan' = NoScan /\ UNCHANGED <<queue, recoveryAfter, missed>>
           ELSE Passes
        /\ UNCHANGED <<row, inflight, faults>>

-----------------------------------------------------------------------------
\* Workers.

\* An idle worker receives an id; one that is in work already is dropped.
Dequeue ==
    /\ queue # <<>>
    /\ Cardinality(inflight) < WorkerCount
    /\ queue' = Tail(queue)
    /\ inflight' = inflight \cup {Head(queue)}
    /\ UNCHANGED <<row, recoveryAfter, scan, missed, faults>>

\* process, then endAttempt: a settled row stays so, any other may be settled,
\* left for the next scan, or left in signing_unknown.
Process(a) ==
    /\ a \in inflight
    /\ inflight' = inflight \ {a}
    /\ row' \in {[row EXCEPT ![a] = s] : s \in IF row[a] \in Recoverable
                                               THEN Rows \ {"none"} ELSE {row[a]}}
    /\ UNCHANGED <<queue, recoveryAfter, scan, missed, faults>>

\* A minute passes.
Rested(a) ==
    /\ row[a] = "resting"
    /\ row' = [row EXCEPT ![a] = "due"]
    /\ UNCHANGED <<queue, inflight, recoveryAfter, scan, missed, faults>>

\* The process dies and starts again: channel, cursor and inflight set are gone.
Crash ==
    /\ Fault
    /\ queue' = <<>>
    /\ inflight' = {}
    /\ recoveryAfter' = 0
    /\ scan' = NoScan
    /\ missed' = [a \in Ids |-> 0]
    /\ UNCHANGED row

-----------------------------------------------------------------------------
Next ==
    \/ \E a \in Ids : Create(a) \/ Replay(a) \/ Cancel(a) \/ Process(a) \/ Rested(a)
    \/ Measure \/ Read \/ ReadFails \/ Send \/ Dequeue \/ Crash

Spec == Init /\ [][Next]_vars

\* The ticker fires and the scan runs, idle workers receive, every call a worker
\* makes has a deadline, and time passes.
Fairness ==
    /\ WF_vars(Measure) /\ WF_vars(Read) /\ WF_vars(Send)
    /\ WF_vars(Dequeue)
    /\ \A a \in Ids : WF_vars(Process(a)) /\ WF_vars(Rested(a))

FairSpec == Spec /\ Fairness

-----------------------------------------------------------------------------
\* Properties.

\* The scan never goes round twice past a recoverable row: a row created behind
\* the cursor or after a page was read is missed by that sweep only, and a row
\* for which the channel had no room is the first of the next page.
NoRowMissedTwice == \A a \in Ids : row[a] \in Recoverable => missed[a] < 2

\* Every row that is not settled is dispatched again and again, whatever the
\* channel dropped, the crash lost or the page left out, also beside rows that
\* are retried for ever.
DispatchedAgain == \A a \in Ids : []<>(row[a] \notin Recoverable \/ a \in inflight)

-----------------------------------------------------------------------------
\* The inductive invariant behind NoRowMissedTwice.

\* A page that is read has room, and one that is sent has rows, in order.
PageInv ==
    /\ scan.pc = "read" => scan.limit # 0
    /\ scan.pc = "send" =>
          /\ scan.values # <<>>
          /\ \A i, j \in DOMAIN scan.values : i < j => scan.values[i].id < scan.values[j].id

\* A row that the last sweep missed is still ahead of this one: the cursor has
\* not passed it and, while a page is sent, it is in the page or comes after a
\* full one.
SweepInv ==
    \A a \in Ids :
        /\ row[a] = "none" => missed[a] = 0
        /\ row[a] \in Recoverable /\ missed[a] # 0 =>
              /\ missed[a] = 1
              /\ a > recoveryAfter
              /\ scan.pc = "send" =>
                    \/ \E i \in DOMAIN scan.values : scan.values[i].id = a
                    \/ ~scan.short /\ \A i \in DOMAIN scan.values : scan.values[i].id < a

SchedulerInv == TypeOK /\ PageInv /\ SweepInv
=============================================================================
