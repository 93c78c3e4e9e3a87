SPECIFICATION MCSpec
CHECK_DEADLOCK FALSE
CONSTANTS
    Phones = {phone}
    OpenIds = {openid}
    Calls = {call1, call2}
    MaxUsers = 3
    MaxCodes = 1
    MaxCalls = 3
    MaxAdmin = 1
    MaxTries = 1
    Quota = 1
    Nobody = Nobody
    Skus = {1, 2}
    Products = {1}
    ProductOf <- MCProductOf
    Pictures = {1}
    SkuOf <- MCSkuOf
    Requests <- MCRequests
    SubmitKeys = {"k1", "k2"}
    MaxEditors = 2
    MaxSpecs = 1
    MaxQuotes = 1
    MaxAnalysis = 2
    MaxChanges = 2
    NumAssets = 2
    actor = actor
    Intents = {scene, actor}
    ActorIntent = actor
    ImageJobs = {i1, i2}
    Portraits = {p1}
    Hands = {e1, e2}
    MaxEdits = 3
    MaxDeaths = 1
    None = None
    NumShots = 3
    Renders = {r1, r2}
    Compositions = {m1}
    Writers = {w1}
    ShotCost = 1
    StartCredits = 2
    MaxRevisions = 1
    MaxMishaps = 1
    c1 = c1
    c2 = c2
    c3 = c3
    b1 = b1
    b2 = b2
    Batches = {b1, b2}
    Candidates = {c1, c2, c3}
    BatchOf <- MCBatchOf
    ShotOf <- MCShotOf
    Slots = 1
    Brushes = {d1, d2}
    ImageCost = 1
    StartBudget = 2
    MaxPatches = 3
INVARIANTS
    PlatformTypesOK
    RegistrationsAddUp
    StudioSound
    AttemptsTellWhatWasPaid
    OneSelectedPerShot
PROPERTIES
    CancelledJobNeverPaints
