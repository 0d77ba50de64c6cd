---------------------------- MODULE NoteArithmetic ----------------------------
(***************************************************************************)
(* The checks on the scanner's amounts (internal/domain/types.go):         *)
(* Balance.ValidFor and WalletNoteSummary.ValidFor, in integers of a small *)
(* width.  Identities, hashes and a balance's heights, which are compared  *)
(* with each other, are left out.  None stands for a null.                 *)
(*                                                                         *)
(* An answer is anything that decodes, or the summary of a wallet that an  *)
(* honest scanner makes note by note (external).                           *)
(***************************************************************************)
EXTENDS Integers, FiniteSetsExt

CONSTANTS
    MaxInt,   \* the largest integer (2^63 - 1 in the code)
    None,
    Received, \* answers of any scanner
    MinNotes, \* values of min_note_zat
    MaxNotes, \* notes of a wallet that may be summed up (cfg.NoteSummaryMaxNotes)
    Horizon   \* bound on heights

\* The integers of the width.
Amount == -(MaxInt + 1) .. MaxInt

Balances ==
    [kind : {"balance"}, available : Amount, incoming : Amount, outgoing : Amount, total : Amount]

Buckets == [count : Amount, value : Amount]

Summaries ==
    [kind : {"summary"}, minNote : 0 .. MaxInt, height : Amount, total : Buckets,
     spendable : [count : Amount, value : Amount, smallest : Amount \cup {None},
                  largest : Amount \cup {None}],
     immature : Buckets,
     pending : [count : Amount, value : Amount, known : Amount, next : Amount \cup {None},
                last : Amount \cup {None}],
     below : Buckets, unwitnessed : Buckets]

ASSUME WidthAssumption ==
    /\ MaxInt \in Nat \ {0} /\ None \notin Int
    /\ Received \subseteq Balances \cup Summaries
    /\ MinNotes \subseteq 0 .. MaxInt
    /\ MaxNotes \in 1 .. MaxInt
    /\ Horizon \in 0 .. MaxInt

VARIABLE answer

\* Addition and multiplication as the processor does them.
Wrap(n) == ((n + MaxInt + 1) % (2 * (MaxInt + 1))) - (MaxInt + 1)

\* Balance.ValidFor.
BalanceValid(b) ==
    /\ b.available >= 0 /\ b.incoming >= 0 /\ b.outgoing >= 0 /\ b.total >= 0
    /\ b.available <= b.total /\ b.incoming <= b.total /\ b.outgoing <= b.total
    /\ b.available <= MaxInt - b.incoming
    /\ Wrap(b.available + b.incoming) <= MaxInt - b.outgoing
    /\ Wrap(Wrap(b.available + b.incoming) + b.outgoing) = b.total

\* Mutant: without the two tests for an overflow.
AddBucketUnchecked(sum, bucket) ==
    [ok |-> /\ sum.ok
            /\ bucket.count >= 0 /\ bucket.value >= 0
            /\ bucket.count = 0 => bucket.value = 0,
     count |-> Wrap(sum.count + bucket.count), value |-> Wrap(sum.value + bucket.value)]

\* One turn of the loop over the buckets.
AddBucket(sum, bucket) ==
    [ok |-> /\ sum.ok
            /\ bucket.count >= 0 /\ bucket.value >= 0
            /\ bucket.count = 0 => bucket.value = 0
            /\ sum.count <= MaxInt - bucket.count
            /\ sum.value <= MaxInt - bucket.value,
     count |-> Wrap(sum.count + bucket.count), value |-> Wrap(sum.value + bucket.value)]

NoSum == [ok |-> TRUE, count |-> 0, value |-> 0]

SpendableValid(s, minNote) ==
    IF s.count = 0 THEN s.smallest = None /\ s.largest = None
    ELSE /\ s.smallest # None /\ s.largest # None
         /\ s.smallest > 0 /\ s.smallest >= minNote
         /\ s.smallest <= s.largest /\ s.largest <= s.value
         /\ s.smallest <= MaxInt \div s.count
         /\ Wrap(s.smallest * s.count) <= s.value
         /\ s.largest <= MaxInt \div s.count => Wrap(s.largest * s.count) >= s.value

PendingValid(p, height) ==
    /\ p.known >= 0 /\ p.known <= p.count
    /\ IF p.known = 0 THEN p.next = None /\ p.last = None
       ELSE /\ p.next # None /\ p.last # None
            /\ p.next >= height /\ p.next <= p.last

BelowValid(b, minNote) ==
    IF b.count = 0 \/ minNote = 0 \/ minNote = 1 THEN b.value = 0
    ELSE b.count > MaxInt \div (minNote - 1) \/ b.value <= Wrap(b.count * (minNote - 1))

\* WalletNoteSummary.ValidFor.
SummaryValid(s, minNote, maxNotes) ==
    LET sum == AddBucket(AddBucket(AddBucket(AddBucket(AddBucket(NoSum, s.spendable),
                   s.immature), s.pending), s.below), s.unwitnessed)
    IN  /\ s.height >= 0 /\ maxNotes >= 1
        /\ sum.ok
        /\ s.total.count >= 0 /\ s.total.value >= 0 /\ s.total.count <= maxNotes
        /\ sum.count = s.total.count /\ sum.value = s.total.value
        /\ SpendableValid(s.spendable, minNote)
        /\ PendingValid(s.pending, s.height)
        /\ BelowValid(s.below, minNote)

-----------------------------------------------------------------------------
\* The answers.

AmountsInit == answer = [kind |-> "none"]

Receive == answer.kind = "none" /\ answer' \in Received

Bucket(count, value) == [count |-> count, value |-> value]
Nothing == Bucket(0, 0)

\* The summary of a wallet without notes.
NoNotes(minNote, height) ==
    [kind |-> "notes", minNote |-> minNote, height |-> height, total |-> Nothing,
     spendable |-> [count |-> 0, value |-> 0, smallest |-> None, largest |-> None],
     immature |-> Nothing,
     pending |-> [count |-> 0, value |-> 0, known |-> 0, next |-> None, last |-> None],
     below |-> Nothing, unwitnessed |-> Nothing]

SumUp ==
    /\ answer.kind = "none"
    /\ \E minNote \in MinNotes, height \in 0 .. Horizon : answer' = NoNotes(minNote, height)

Lower(old, new) == IF old = None \/ new < old THEN new ELSE old
Higher(old, new) == IF old = None \/ new > old THEN new ELSE old

\* There is room for the note; the values of all notes are an integer.
Room(value) ==
    /\ answer.kind = "notes"
    /\ answer.total.count < MaxNotes /\ answer.total.value + value <= MaxInt

NextTotal(value) == Bucket(answer.total.count + 1, answer.total.value + value)

\* A note worth nothing is below any minimum.
AddSpendable(value) ==
    LET b == answer.spendable IN
    /\ Room(value) /\ value >= Max({answer.minNote, 1})
    /\ answer' = [answer EXCEPT !.total = NextTotal(value),
                   !.spendable = [count |-> b.count + 1, value |-> b.value + value,
                                  smallest |-> Lower(b.smallest, value),
                                  largest |-> Higher(b.largest, value)]]

AddBelow(value) ==
    LET b == answer.below IN
    /\ Room(value) /\ value < Max({answer.minNote, 1})
    /\ answer' = [answer EXCEPT !.total = NextTotal(value),
                   !.below = Bucket(b.count + 1, b.value + value)]

AddImmature(value) ==
    LET b == answer.immature IN
    /\ Room(value)
    /\ answer' = [answer EXCEPT !.total = NextTotal(value),
                   !.immature = Bucket(b.count + 1, b.value + value)]

AddUnwitnessed(value) ==
    LET b == answer.unwitnessed IN
    /\ Room(value)
    /\ answer' = [answer EXCEPT !.total = NextTotal(value),
                   !.unwitnessed = Bucket(b.count + 1, b.value + value)]

\* A pending spend may be known to expire, at the scanner's height or later.
AddPending(value, expiry) ==
    LET b == answer.pending
        expires == expiry # None
    IN  /\ Room(value)
        /\ expires => expiry >= answer.height
        /\ answer' = [answer EXCEPT !.total = NextTotal(value),
                       !.pending = [count |-> b.count + 1, value |-> b.value + value,
                                    known |-> IF expires THEN b.known + 1 ELSE b.known,
                                    next |-> IF expires THEN Lower(b.next, expiry) ELSE b.next,
                                    last |-> IF expires THEN Higher(b.last, expiry) ELSE b.last]]

AddNote ==
    \E value \in 0 .. MaxInt :
        \/ AddSpendable(value) \/ AddBelow(value) \/ AddImmature(value) \/ AddUnwitnessed(value)
        \/ \E expiry \in 0 .. Horizon \cup {None} : AddPending(value, expiry)

AmountsNext == Receive \/ SumUp \/ AddNote

AmountsSpec == AmountsInit /\ [][AmountsNext]_answer

-----------------------------------------------------------------------------
\* What the checks are for.

\* The parts of an accepted balance add up to its total, without a carry lost.
BalanceIsExact(b) == BalanceValid(b) => b.available + b.incoming + b.outgoing = b.total

\* So do the buckets of an accepted summary, and no bucket of it claims a value
\* that its notes cannot have.
SummaryIsExact(s, minNote, maxNotes) ==
    SummaryValid(s, minNote, maxNotes) =>
        /\ s.total.count = s.spendable.count + s.immature.count + s.pending.count
                              + s.below.count + s.unwitnessed.count
        /\ s.total.value = s.spendable.value + s.immature.value + s.pending.value
                              + s.below.value + s.unwitnessed.value
        /\ s.spendable.count > 0 =>
              /\ s.spendable.count * s.spendable.smallest <= s.spendable.value
              /\ s.spendable.value <= s.spendable.count * s.spendable.largest
        /\ s.below.value <= s.below.count * Max({minNote - 1, 0})

\* Balance.ValidFor and WalletNoteSummary.ValidFor accept nothing that does not
\* add up, although their sums and products wrap, and refuse no summary of notes
\* that are really there because of a test for an overflow.
AmountsAreExact ==
    /\ answer.kind = "balance" => BalanceIsExact(answer)
    /\ answer.kind = "summary" => SummaryIsExact(answer, answer.minNote, MaxNotes)
    /\ answer.kind = "notes" => SummaryValid(answer, answer.minNote, MaxNotes)

-----------------------------------------------------------------------------
\* The inductive invariant behind AmountsAreExact.

\* The buckets of an honest summary.
TotalsInv(s) ==
    /\ \A b \in {s.spendable, s.immature, s.pending, s.below, s.unwitnessed} :
          b.count \in Nat /\ b.value \in Nat /\ (b.count = 0 => b.value = 0)
    /\ s.total.count = s.spendable.count + s.immature.count + s.pending.count
                          + s.below.count + s.unwitnessed.count
    /\ s.total.value = s.spendable.value + s.immature.value + s.pending.value
                          + s.below.value + s.unwitnessed.value
    /\ s.total.count <= MaxNotes /\ s.total.value <= MaxInt

SpendableInv(b, minNote) ==
    IF b.count = 0 THEN b.smallest = None /\ b.largest = None
    ELSE /\ b.smallest \in Nat \ {0} /\ b.largest \in Nat
         /\ minNote <= b.smallest /\ b.smallest <= b.largest /\ b.largest <= b.value
         /\ b.count * b.smallest <= b.value /\ b.value <= b.count * b.largest

PendingInv(b, height) ==
    /\ b.known \in 0 .. b.count
    /\ IF b.known = 0 THEN b.next = None /\ b.last = None
       ELSE b.next \in Int /\ b.last \in Int /\ height <= b.next /\ b.next <= b.last

BelowInv(b, minNote) == b.value <= b.count * Max({minNote - 1, 0})

NoteFields == DOMAIN NoNotes(0, 0)

HonestInv(s) ==
    /\ s.kind = "notes" /\ s.minNote \in 0 .. MaxInt /\ s.height \in Nat
    /\ s = [f \in NoteFields |-> s[f]]
    /\ TotalsInv(s)
    /\ SpendableInv(s.spendable, s.minNote)
    /\ PendingInv(s.pending, s.height)
    /\ BelowInv(s.below, s.minNote)

AmountsInv ==
    answer.kind = "none" \/ answer \in Balances \cup Summaries \/ HonestInv(answer)
=============================================================================
