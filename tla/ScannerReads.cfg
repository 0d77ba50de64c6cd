SPECIFICATION Spec
CONSTANTS
    MaxLag = 0
    PageSize = 2
    MaxEffects = 2
    Expiry = 1
    MaxHeight = 2
    MaxEvents = 3
    MaxEpochs = 2
INVARIANTS
    SnapshotIsReady
    EffectsComplete
    TerminalIsLatest
