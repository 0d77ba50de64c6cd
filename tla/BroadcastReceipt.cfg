SPECIFICATION FairSpec
CONSTANTS
    Handlers = {h1, h2}
    Keys = {k1, k2}
    Txs = {t1, t2, t3}
    Valid = {t1}
    Malformed = {t2}
    Unclear = {t3}
    NoTx = NoTx
    NoKey = NoKey
    Lease = 2
    MaxFaults = 1
    MaxClaims = 3
INVARIANTS
    ToldIsStored
    AcceptedOnce
    AnswersAreTrue
    KeyBindsPayload
PROPERTIES
    CompleteIsForever
    ClaimsSettle
CHECK_DEADLOCK FALSE
