CONSTANTS
    Callers = {c1, c2}
    Ids = {r1}
    Versions = {1, 2}
    MaxFaults = 1
    MaxCalls = 3
SPECIFICATION Spec
INVARIANTS
    LinkedIsWhole
    SuccessMeansServed
    ServesWhatIsLinked
PROPERTY
    EveryCallReturns
