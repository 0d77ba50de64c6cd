SPECIFICATION AnySignerSpec
CONSTANTS
    w1 = w1
    k1 = k1
    k2 = k2
    d1 = d1
    d2 = d2
    Attempts = {a1, a2}
    Notes = {n1, n2}
    Workers = {p1}
    Wallets = {w1}
    Requests <- MCRequests
    NoteWallet <- MCNoteWallet
    NoAttempt = NoAttempt
    NoRequest = NoRequest
    NoWorker = NoWorker
    QueueCap = 1
    MaxReplans = 1
    MaxSteps = 3
    ParkedAttempts = {}
SYMMETRY Symmetry
INVARIANT UnsignedTerminal
