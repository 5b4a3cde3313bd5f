CONSTANTS
    Callers = {c1, c2}
    Readers = {r1}
    Hooks = {h1, h2}
    NoCaller = NoCaller
    MaxTx = 2
    MaxHooks = 2
    ContextMayEnd = FALSE
SPECIFICATION Spec
SYMMETRY Symmetry
INVARIANTS
    TypeOK
    OneOpenTransaction
    CommittedIsKept
    RolledBackInReverse
    DoneMeansWorkDone
PROPERTIES
    NoReportFromClosed
    ImplementsUndoLog
