CONSTANTS
    DockerImages <- MCDockerImages
    ImageSize <- MCImageSize
    Platform = "arm"
    TagOrder <- MCTagOrder
    Legacy <- MCLegacy
    Submissions <- MCSubmissions
    Malformed <- MCMalformed
    None = None
    MaxJobs = 2
    MaxOutages = 1
    MaxRequests = 2
    MaxEvents = 3
    MaxAtOnce = 2
    Wanted <- MCWanted
    Attempts = 2
    Space = 15
    RootAccess = FALSE
    Preinstalled <- MCPreinstalled
SPECIFICATION Spec
INVARIANTS
    ExportIsOnePackage
    RepliesAreTrue
    InstallIsOnePackage
    InstallFits
PROPERTIES
    LatestIsGreatest
    RefusedUpdateKeepsOld
    EveryRequestAnswered
CHECK_DEADLOCK FALSE
