---------------------------- MODULE MCAlgorithms ----------------------------
(***************************************************************************)
(* The rate limiter, the change split and the amounts.  They share nothing *)
(* and a behaviour is of one of them, while the others stay as they were.  *)
(***************************************************************************)
EXTENDS RateLimit, ChangeSplit, NoteArithmetic

VARIABLE subject

MCBalances ==
    [kind : {"balance"}, available : Amount, incoming : Amount, outgoing : Amount,
     total : 0 .. MaxInt]

AnySummary(minNote, total, spendable, immature, pending, below, unwitnessed) ==
    [kind |-> "summary", minNote |-> minNote, height |-> 0, total |-> total,
     spendable |-> spendable, immature |-> immature, pending |-> pending, below |-> below,
     unwitnessed |-> unwitnessed]

NoSpendable == NoNotes(0, 0).spendable
NoPending == NoNotes(0, 0).pending

\* Buckets at the edges of the integers, with the total the processor would get.
MCBuckets ==
    {AnySummary(minNote,
                Bucket(Wrap(c[1] + c[2] + c[3] + c[4]), Wrap(v[1] + v[2] + v[3] + v[4])),
                NoSpendable, Bucket(c[1], v[1]), [NoPending EXCEPT !.count = c[2], !.value = v[2]],
                Bucket(c[3], v[3]), Bucket(c[4], v[4])) :
        c, v \in [1 .. 4 -> {0, 1, MaxInt}], minNote \in {0, 3}}

MCSpendable ==
    {AnySummary(minNote, Bucket(b.count, b.value), b, Nothing, NoPending, Nothing, Nothing) :
        b \in [count : 0 .. MaxInt, value : 0 .. MaxInt, smallest : 0 .. MaxInt \cup {None},
               largest : 0 .. MaxInt \cup {None}],
        minNote \in {0, 3}}

MCReceived == MCBalances \cup MCBuckets \cup MCSpendable

\* One initial state of those that are not the subject.
Init ==
    /\ subject \in {"rate", "split", "amounts"}
    /\ newLimiter /\ SplitInit /\ AmountsInit
    /\ subject # "rate" => ~cleans
    /\ subject # "split" => cfg = [target |-> 0, max |-> 0] /\ unreserved = 0

Next ==
    \/ subject = "rate" /\ LimitNext /\ UNCHANGED <<subject, splitVars, answer>>
    \/ subject = "split" /\ SplitNext /\ UNCHANGED <<subject, limitVars, answer>>
    \/ subject = "amounts" /\ AmountsNext /\ UNCHANGED <<subject, limitVars, splitVars>>

Spec == Init /\ [][Next]_<<subject, limitVars, splitVars, answer>>
=============================================================================
