CONSTANTS
    AddOns = {a1}
    MaxVersion = 2
    Clients = {c1, c2}
    Nobody = Nobody
    Installer = Installer
    MaxCrashes = 1
SPECIFICATION FairSpec
INVARIANT PackageThereWhileInstalling
PROPERTIES
    HandledBeforeDeleted
    EveryRunEnds
