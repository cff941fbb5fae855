SPECIFICATION Spec
CONSTANTS
    get = get  post = post  stream = stream
    Calls = {post}
    Idempotent = {}
    Streams = {}
    MaxAttempts = 1
    MinCalls = 2
    FailurePercent = 50
    Window = 3
    Cooldown = 1
    Blocking = TRUE
    MaxCount = 5
INVARIANT RatioOverOneWindow
CHECK_DEADLOCK FALSE
