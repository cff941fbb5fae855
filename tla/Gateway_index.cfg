SPECIFICATION MCSpec
CONSTANTS
    w1 = w1  w2 = w2  l1 = l1  l2 = l2  l3 = l3  old = old  new = new  shared = shared  added = added
    Kinds = {"registry"}
    Workers = {w1, w2}
    Nonces = {1, 2}
    MaxTokens = 3
    MaxLapses = 1
    Slots = {1}
    Fingerprints = {1, 2}
    MaxRuns = 3
    MaxExpiries = 2
    Lookups = {l1, l2, l3}
    Ttl = 3
    MaxLoad = 2
    Digests = {old, new}
    Origins = {"catalog", "other"}
    Urls = {shared, added}
    UrlsOf <- BothUrls
    NoRevision = NoRevision
    Executions = {1}
    MaxAttempts = 2
    MaxClaims = 3
    Credentials = {1, 2}
    Rules <- SomeRules
    Requests = {"get", "post"}
    MaxRules = 2
    MaxSequence = 2
    Followers = {1}
    PageSize = 2
    MaxEvents = 4
    NoteIds = {1}
    MaxEdits = 4
    Instances = {1, 2}
    MaxInFlight = 2
    Burst = 2
    MaxTime = 3
INVARIANT HotPathCurrent
CHECK_DEADLOCK FALSE
