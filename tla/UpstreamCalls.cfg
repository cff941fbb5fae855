SPECIFICATION FairSpec
CONSTANTS
    get = get  post = post  stream = stream
    Calls = {get, post, stream}
    Idempotent = {get, stream}
    Streams = {stream}
    MaxAttempts = 2
    MinCalls = 2
    FailurePercent = 50
    Window = 1
    Cooldown = 2
    Blocking = TRUE
    MaxCount = 2
INVARIANTS TypeOK SendsBounded
PROPERTIES OpenIsQuiet CooldownNotExtended EveryCallEnds
CHECK_DEADLOCK FALSE
