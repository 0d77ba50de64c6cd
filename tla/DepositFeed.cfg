SPECIFICATION FairSpec
CONSTANTS
    Streams <- MCStreams
    Kinds <- MCKinds
    Registered <- MCRegistered
    Listed <- MCListed
    Matches <- MCMatches
    Handlers = {h1}
    PageSize = 2
    Limits = {1}
    MaxEvents = 2
    MaxEpochs = 2
    MaxFaults = 1
INVARIANTS NothingSkipped
PROPERTY CatchesUp
