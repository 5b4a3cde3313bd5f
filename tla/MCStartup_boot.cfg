CONSTANTS
    AddOnOrder <- MCAddOnOrder
    SameName = {"addon"}
    ManifestOf <- MCManifestOf
    UserEnv <- MCUserEnv
    MaxFaults = 3
    Origins = {"factory", "portainer", "no_vendor", "compose", "0.5.2", "newer"}
SPECIFICATION Spec
INVARIANTS
    CurrentMeansMigrated
    DataKept
    SettingsKept
    UnchangedSettingsStay
    ServingMeansStarted
PROPERTY
    ComesUpOrStuck
