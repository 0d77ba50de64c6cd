SPECIFICATION FairSpec
CONSTANTS
    N = 2
    Birthday <- MCBirthday
    BatchSize = 1
    MaxLag = 1
    MaxHeight = 2
    MaxFaults = 1
INVARIANTS ReadyIsComplete NoSilentReset
PROPERTIES ReadyAgain MirrorConverges
