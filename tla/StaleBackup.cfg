SPECIFICATION Spec
CONSTANTS
    Wallets = {w1}
    MaxIndex = 0
    Handlers = {h1, h2}
    Admins = {o1, o2}
    Attempts = {a1}
    NoWallet = NoWallet
    NoBackup = NoBackup
    StaleBackups = TRUE
    MaxFaults = 3
SYMMETRY Symmetry
INVARIANT NothingForgotten
