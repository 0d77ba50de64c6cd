SPECIFICATION FairSpec
CONSTANTS
    Wallets = {w1}
    MaxIndex = 1
    Handlers = {h1, h2}
    Admins = {o1, o2}
    Attempts = {a1}
    NoWallet = NoWallet
    NoBackup = NoBackup
    StaleBackups = FALSE
    MaxFaults = 3
INVARIANTS TypeOK NeverReissued IssuedAreRegistered NothingForgotten
PROPERTY RecoveryCompletes
