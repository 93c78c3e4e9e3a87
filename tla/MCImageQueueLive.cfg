\* Two users, one of whom may cancel, and a process that may be back at any time after a crash.
SPECIFICATION LiveSpec
CONSTANTS
    u1 = u1
    u2 = u2
    p1 = p1
    p2 = p2
    r1 = r1
    r2 = r2
    Nobody = Nobody
    Users = {u1, u2}
    Owner <- MCTwoUsers
    Processes = {p1}
    Runners = {r1}
    Host <- MCOneProcess
    NumJobs = 2
    Concurrency = 1
    PendingLimit = 2
    MaxAttempts = 1
    Price = 1
    InitialCredits = 1
    Idempotent = FALSE
    Cancels = {1}
    MaxCrashes = 2
INVARIANT HoldsAddUp
PROPERTIES
    JobEndsOnce
    EveryJobEnds
CHECK_DEADLOCK FALSE
