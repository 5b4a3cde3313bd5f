CONSTANTS
    AddOns = {a1}
    MaxVersion = 1
    Clients = {c1}
    Nobody = Nobody
    Installer = Installer
    MaxCrashes = 0
SPECIFICATION Spec
PROPERTY CopiedAppsAreTried
