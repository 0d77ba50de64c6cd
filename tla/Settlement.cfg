SPECIFICATION FairSpec
CONSTANTS
    Confirmations = 2
    Expiry = 1
    MaxReorg = 1
    MaxHeight = 4
    MaxFaults = 1
INVARIANTS TypeOK FinalStaysMined ReleasedNeverMined
PROPERTIES FateIsKept Settled
