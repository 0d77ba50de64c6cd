------------------------------ MODULE RateLimit ------------------------------
(***************************************************************************)
(* The token buckets in front of the two HTTP servers                      *)
(* (internal/api/ratelimit.go and internal/coordinator/http.go).  A caller *)
(* reads the clock before it waits for the mutex, so the times reach the   *)
(* buckets out of order by up to Skew, and a bucket may go back in time    *)
(* and below zero.                                                         *)
(*                                                                         *)
(* Tokens are counted in fractions 1/Unit, Rate is in fractions for each   *)
(* tick of the clock.                                                      *)
(***************************************************************************)
EXTENDS Integers, Sequences

CONSTANTS
    Keys,         \* principal and remote address
    Unit, Rate, Burst,
    IdleTime,     \* a bucket not used for longer is removed (10 minutes)
    CleanupEvery, \* time between two cleanups (5 minutes)
    Skew,         \* bound on the wait for the mutex
    MaxTime       \* bound on the clock

\* A bucket that is removed would have been full again, also if it was last used
\* by a late caller: the configuration does not enforce it, its defaults satisfy it.
ASSUME LimitAssumption ==
    /\ {Unit, Rate, Burst} \subseteq Nat \ {0}
    /\ {IdleTime, CleanupEvery, Skew, MaxTime} \subseteq Nat
    /\ Burst * Unit <= Rate * (IdleTime - 2 * Skew)

VARIABLES
    cleans,      \* the gateway's limiter removes idle buckets, the coordinator's does not
    buckets,
    lastCleanup,
    latest,      \* history: the latest time that reached the limiter
    admitted     \* history: the times of the admitted calls of a key, in their order

limitVars == <<cleans, buckets, lastCleanup, latest, admitted>>

NoBucket == [tokens |-> -1, updated |-> -1]

LimitTypeOK ==
    /\ cleans \in BOOLEAN
    /\ buckets \in [Keys -> [tokens : Int, updated : Int]]
    /\ lastCleanup \in Int
    /\ latest \in Nat
    /\ admitted \in [Keys -> Seq(Int)]

\* No bucket, and the zero time for the last cleanup.
newLimiter ==
    /\ cleans \in BOOLEAN
    /\ buckets = [k \in Keys |-> NoBucket]
    /\ lastCleanup = -CleanupEvery - 1
    /\ latest = 0
    /\ admitted = [k \in Keys |-> <<>>]

Clamped(tokens) == IF tokens > Burst * Unit THEN Burst * Unit ELSE tokens

\* Mutant: a time before the last one earns nothing, but is stored.
RefillForwards(b, now) ==
    IF b = NoBucket THEN [tokens |-> Burst * Unit, updated |-> now]
    ELSE [tokens |-> Clamped(b.tokens + (IF now > b.updated THEN now - b.updated ELSE 0) * Rate),
          updated |-> now]

\* The bucket at a time, which may be before the last one.
Refill(b, now) ==
    IF b = NoBucket THEN [tokens |-> Burst * Unit, updated |-> now]
    ELSE [tokens |-> Clamped(b.tokens + (now - b.updated) * Rate), updated |-> now]

Allowed(b, now) == Refill(b, now).tokens >= Unit

\* The bucket after the call.
Take(b, now) ==
    LET refilled == Refill(b, now)
    IN  IF Allowed(b, now) THEN [refilled EXCEPT !.tokens = @ - Unit] ELSE refilled

IsIdle(b, now) == b # NoBucket /\ now - b.updated > IdleTime

\* A call that read the time now gets the mutex.
allow(key, now) ==
    LET taken == [buckets EXCEPT ![key] = Take(@, now)]
        cleanup == cleans /\ now - lastCleanup > CleanupEvery
    IN  /\ now >= latest - Skew
        /\ buckets' = IF cleanup
                      THEN [k \in Keys |-> IF IsIdle(taken[k], now) THEN NoBucket ELSE taken[k]]
                      ELSE taken
        /\ lastCleanup' = IF cleanup THEN now ELSE lastCleanup
        /\ latest' = IF now > latest THEN now ELSE latest
        /\ admitted' = IF Allowed(buckets[key], now)
                       THEN [admitted EXCEPT ![key] = Append(@, now)]
                       ELSE admitted
        /\ UNCHANGED cleans

LimitNext == \E key \in Keys, now \in 0 .. MaxTime : allow(key, now)

LimitSpec == newLimiter /\ [][LimitNext]_limitVars

-----------------------------------------------------------------------------
\* Between two admitted calls of a key, both included, the calls admitted are no
\* more than a full bucket and what the time between them earns: whatever the
\* order in which the calls get the mutex, and whichever buckets are removed
\* (limiter.allow, coordinatorLimiter.allow).
RateIsBounded ==
    \A key \in Keys : \A i, j \in DOMAIN admitted[key] : i <= j =>
        (j - i + 1) * Unit <= Burst * Unit + (admitted[key][j] - admitted[key][i]) * Rate

-----------------------------------------------------------------------------
\* The inductive invariant behind RateIsBounded.

\* A bucket is never over its burst; it is below zero only as far as a late call
\* can set it back, and not at the latest time.
TokensInv ==
    \A key \in Keys : LET b == buckets[key] IN b # NoBucket =>
        /\ b.updated >= 0 /\ b.updated <= latest
        /\ -(Skew * Rate) <= b.tokens /\ b.tokens <= Burst * Unit
        /\ b.tokens + (latest - b.updated) * Rate >= 0

\* What was admitted since some call has been paid for: with the tokens left, from
\* a full bucket and the time up to the bucket's; without a bucket, from the time
\* up to the earliest call that may follow.
PaidInv ==
    \A key \in Keys : \A i \in DOMAIN admitted[key] :
        LET b == buckets[key]
            cost == (Len(admitted[key]) - i + 1) * Unit
        IN  IF b = NoBucket THEN cost <= (latest - Skew - admitted[key][i]) * Rate
            ELSE cost + b.tokens <= Burst * Unit + (b.updated - admitted[key][i]) * Rate

LimitInv == LimitTypeOK /\ TokensInv /\ PaidInv /\ RateIsBounded
=============================================================================
