SPECIFICATION MCSpec
CHECK_DEADLOCK FALSE
CONSTANTS
    u1 = u1
    j1 = j1
    j2 = j2
    Users = {u1}
    Jobs = {j1, j2}
    Tracks = {t1}
    Ark = {j1}
    Cost = 2
    TrackCost = 1
    InitialCredits = 3
    MaxRequests = 1
    MaxCrashes = 1
    OwnerOf <- MCOwnerOf
    Keys = {k1, k2}
    Contents = {c, d}
    Calls = {h1, h2, h3}
    PerMinute = 2
    NoContent = NoContent
    Failures = TRUE
    Orders = {o1}
    image1 = image1
    image2 = image2
    video1 = video1
    seed1 = seed1
    seed2 = seed2
    Runtimes = {image1, image2, video1}
    TypeOf <- MCTypeOf
    key1 = key1
    key2 = key2
    key3 = key3
    ProviderKeys = {key1, key2, key3}
    Retold <- MCRetold
    Names = {seed1}
    Seeds = {seed1, seed2}
    SeedRuntime <- MCSeedRuntime
    SeedKey = key1
    MaxConfigs = 3
    MaxModels = 6
    MaxProviders = 4
    MaxChannels = 5
    MaxSaves = 2
    Desks = {desk1, desk2}
INVARIANTS
    VideoTypesOK
    VideosAddUp
    AskedOnce
    ProvidersSound
    CenterAgrees
PROPERTY EverythingEnds
