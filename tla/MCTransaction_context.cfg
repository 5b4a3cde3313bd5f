CONSTANTS
    Callers = {c1, c2}
    Readers = {}
    Hooks = {h1}
    NoCaller = NoCaller
    MaxTx = 2
    MaxHooks = 1
    ContextMayEnd = TRUE
SPECIFICATION FairSpec
PROPERTY EveryTransactionEnds
