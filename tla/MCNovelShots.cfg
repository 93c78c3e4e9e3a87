SPECIFICATION RenderSpec
CHECK_DEADLOCK FALSE
CONSTANTS
    NumShots = 2
    Renders = {r1, r2}
    Compositions = {m1}
    Writers = {w1}
    ShotCost = 1
    StartCredits = 2
    MaxRevisions = 1
    MaxMishaps = 0
INVARIANT SucceededShotHasWork
