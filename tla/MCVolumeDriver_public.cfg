CONSTANTS
    Workers = {w1, w2}
    Names = {n1, n2}
    Nobody = Nobody
    OwnDirectory = TRUE
SPECIFICATION FairSpec
INVARIANTS
    FileIsCurrent
    KnownHasDirectory
PROPERTY EveryRequestIsAnswered
