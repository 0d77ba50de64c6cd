---------------------------- MODULE AttemptStore ----------------------------
(***************************************************************************)
(* The coordinator's tables in the gateway database: transaction_attempts  *)
(* and active_note_reservations, and the store operations on them          *)
(* (internal/storage/sqlite/attempts.go).  Every operation is one SQLite   *)
(* transaction under the store's mutex, so every operation is one step.    *)
(*                                                                         *)
(* A column is a function from attempt ids.  Kept: what control depends    *)
(* on.  Left out: timestamps, fee, raw bytes, the event log and the error  *)
(* text (of the error codes only notes_reserved is ever tested).           *)
(***************************************************************************)
EXTENDS AttemptStates, Naturals, FiniteSets

CONSTANTS
    Attempts,   \* attempt ids; newAttemptID draws 128 random bits: never reused
    Requests,   \* create requests: [key, digest, wallet], key scoped by principal
    Wallets,
    Notes,      \* notes, identified by the key of a reservation: wallet and note id
    NoteWallet, \* the wallet of each note
    NoAttempt,  \* a note that nobody reserves, a worker without a job
    NoRequest   \* the request of a row that does not exist

ASSUME StoreAssumption ==
    /\ NoAttempt \notin Attempts
    /\ NoRequest \notin Requests
    /\ \A r \in Requests : r.wallet \in Wallets
    /\ NoteWallet \in [Notes -> Wallets]

VARIABLES
    state,          \* state column; "none" when there is no row
    request,        \* scoped_idempotency_key, request_digest, wallet_id
    changeAddress,  \* change_address IS NOT NULL
    errorCode,      \* "notes_reserved" or "other" (any other code, or NULL)
    plan,           \* selected_note_ids_json, the plan's notes; {} before a plan
    reservedBy      \* active_note_reservations: PRIMARY KEY(wallet, note) -> attempt

tables == <<state, request, changeAddress, errorCode, plan, reservedBy>>

Wallet(a) == request[a].wallet

\* The reservations of attempt a.
HeldBy(a) == {n \in Notes : reservedBy[n] = a}

\* SELECT note_id ... WHERE wallet_id=?: the exclusions a planner is given.
ActiveNoteIDs(w) == {n \in Notes : NoteWallet[n] = w /\ reservedBy[n] # NoAttempt}

\* DELETE FROM active_note_reservations WHERE attempt_id=?
Without(a) == [n \in Notes |-> IF reservedBy[n] = a THEN NoAttempt ELSE reservedBy[n]]

TablesTypeOK ==
    /\ state \in [Attempts -> States]
    /\ request \in [Attempts -> Requests \cup {NoRequest}]
    /\ changeAddress \in [Attempts -> BOOLEAN]
    /\ errorCode \in [Attempts -> {"other", "notes_reserved"}]
    /\ plan \in [Attempts -> SUBSET Notes]
    /\ reservedBy \in [Notes -> Attempts \cup {NoAttempt}]
    /\ \A a \in Attempts : state[a] # "none" => request[a] # NoRequest

-----------------------------------------------------------------------------
\* The rows stored under the idempotency key of request r.
ClaimedFor(r) == {a \in Attempts : state[a] # "none" /\ request[a].key = r.key}

\* ClaimAttempt inserts a row for a key that has none; a used key replays the
\* row or, with another digest, is a conflict: neither writes.
ClaimAttempt(a, r) ==
    /\ ClaimedFor(r) = {}
    /\ state[a] = "none"
    /\ state' = [state EXCEPT ![a] = "planning"]
    /\ request' = [request EXCEPT ![a] = r]
    /\ UNCHANGED <<changeAddress, errorCode, plan, reservedBy>>

\* A planning row receives its change address once; a worker only asks for a
\* row without one, so only the state can make it fail.
CanSetChangeAddress(a) == state[a] = "planning"

SetAttemptChangeAddress(a) ==
    /\ CanSetChangeAddress(a)
    /\ changeAddress' = [changeAddress EXCEPT ![a] = TRUE]
    /\ UNCHANGED <<state, request, errorCode, plan, reservedBy>>

\* INSERT OR IGNORE of every note, rolled back when one of them is taken.
NotesFree(notes) == \A n \in notes : reservedBy[n] = NoAttempt

\* Mutant: the insert replaces a reservation that exists.
ReserveOverwrites(a, notes) ==
    /\ notes # {}
    /\ state[a] = "planning"
    /\ reservedBy' = [n \in Notes |-> IF n \in notes THEN a ELSE reservedBy[n]]
    /\ state' = [state EXCEPT ![a] = "reserved"]
    /\ plan' = [plan EXCEPT ![a] = notes]
    /\ errorCode' = [errorCode EXCEPT ![a] = "other"]
    /\ UNCHANGED <<request, changeAddress>>

ReserveAttemptPlan(a, notes) ==
    /\ notes # {}
    /\ state[a] = "planning"
    /\ NotesFree(notes)
    /\ reservedBy' = [n \in Notes |-> IF n \in notes THEN a ELSE reservedBy[n]]
    /\ state' = [state EXCEPT ![a] = "reserved"]
    /\ plan' = [plan EXCEPT ![a] = notes]
    /\ errorCode' = [errorCode EXCEPT ![a] = "other"]
    /\ UNCHANGED <<request, changeAddress>>

\* A recovered signing or signing_unknown row keeps its uncertainty.
BeginAttemptSigning(a) ==
    /\ state[a] \in SignStates
    /\ IF state[a] = "reserved"
       THEN /\ state' = [state EXCEPT ![a] = "signing"]
            /\ errorCode' = [errorCode EXCEPT ![a] = "other"]
            /\ UNCHANGED <<request, changeAddress, plan, reservedBy>>
       ELSE UNCHANGED tables

CompleteAttemptSigning(a) ==
    /\ state[a] \in {"signing", "signing_unknown"}
    /\ state' = [state EXCEPT ![a] = "signed"]
    /\ errorCode' = [errorCode EXCEPT ![a] = "other"]
    /\ UNCHANGED <<request, changeAddress, plan, reservedBy>>

\* Mutant: the transition table is not consulted.
MarkUnchecked(a, next, code, release) ==
    /\ state' = [state EXCEPT ![a] = next]
    /\ errorCode' = [errorCode EXCEPT ![a] = code]
    /\ reservedBy' = IF release THEN Without(a) ELSE reservedBy
    /\ UNCHANGED <<request, changeAddress, plan>>

\* MarkAttemptState: a transition the tables refuse changes nothing (its
\* callers ignore the conflict); the refresh of an unchanged row releases nothing.
MarkAttemptState(a, next, code, release) ==
    IF /\ allowedAttemptTransition(state[a], next)
       /\ release => safeReservationReleaseTransition(state[a], next)
    THEN /\ state' = [state EXCEPT ![a] = next]
         /\ errorCode' = [errorCode EXCEPT ![a] = code]
         /\ reservedBy' = IF release /\ ~(state[a] = next /\ errorCode[a] = code)
                          THEN Without(a) ELSE reservedBy
         /\ UNCHANGED <<request, changeAddress, plan>>
    ELSE UNCHANGED tables

\* Mutant: the reservations of a cancelled row stay.
CancelKeepsNotes(a) ==
    /\ state[a] \in Unsigned
    /\ state' = [state EXCEPT ![a] = "cancelled"]
    /\ errorCode' = [errorCode EXCEPT ![a] = "other"]
    /\ UNCHANGED <<request, changeAddress, plan, reservedBy>>

\* Only planning and reserved rows can be cancelled; their notes are released.
CancelAttempt(a) ==
    /\ state[a] \in Unsigned
    /\ state' = [state EXCEPT ![a] = "cancelled"]
    /\ reservedBy' = Without(a)
    /\ errorCode' = [errorCode EXCEPT ![a] = "other"]
    /\ UNCHANGED <<request, changeAddress, plan>>
=============================================================================
