SPECIFICATION RCSpec
CONSTANTS
    r1 = r1
    i1 = i1  i2 = i2
    t1 = t1  t2 = t2  s1 = s1
    agent = agent  owner = owner  root = root
    None = None  ByRef = ByRef
    Requests = {r1}
    Items = {i1, i2}
    RequestOf <- MCRequestOf
    Toolkits = {t1}
    OwnerOf <- MCOwnerOf
    Scopes = {s1}
    Filer = agent
    FilerOwner = owner
    Reviewers = {owner, root}
    Admins = {root}
    InitServing = {t1}
    InitBindings = {}
    MaxChurn = 0
    Sessions = {agent}
PROPERTY ConflictingVerdictRaises
CHECK_DEADLOCK FALSE
