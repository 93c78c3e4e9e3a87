SPECIFICATION MCSpec
CONSTANTS
    u1 = u1
    u2 = u2
    p1 = p1
    p2 = p2
    r1 = r1
    r2 = r2
    Nobody = Nobody
    Users = {u1}
    Owner <- MCOneUser
    Processes = {p1, p2}
    Runners = {r1, r2}
    Host <- MCTwoProcesses
    NumJobs = 2
    Concurrency = 1
    PendingLimit = 2
    MaxAttempts = 2
    Price = 1
    InitialCredits = 2
    Idempotent = FALSE
    Cancels = {1}
    MaxCrashes = 1
    Channels = {1, 2}
    Interfaces = {"edits", "responses"}
    Keyed = {1}
    Shots = {1, 2}
    CallLimit = 3
    FetchLimit = 1
    SpoolMax = 1
    FailLimit = 2
    MaxFails = 2
    AlbumPages = 2
    AlbumRequests = {1, 2, 3}
    AlbumCredits = 3
    MaxPictures = 3
    MaxErrors = 1
SYMMETRY Symmetry
INVARIANTS
    JobsAddUp
    OneRunnerPerJob
    ConcurrencyRespected
    FailoverSound
    AlbumSound
PROPERTIES
    NoBlindReplay
CHECK_DEADLOCK FALSE
