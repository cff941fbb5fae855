SPECIFICATION MCSpec
CONSTANTS
    r1 = r1
    i1 = i1  i2 = i2
    t1 = t1  t2 = t2  s1 = s1
    agent = agent  owner = owner  root = root
    None = None  ByRef = ByRef
    Requests = {r1}
    Items = {i1}
    RequestOf <- MCRequestOf1
    Toolkits = {t1, t2}
    OwnerOf <- MCOwnerOf
    Scopes = {s1}
    Filer = agent
    FilerOwner = owner
    Reviewers = {owner}
    Admins = {}
    InitServing = {t1}
    InitBindings = {}
    MaxChurn = 2
    Instances = {"catalogue"}
INVARIANT NoOrphanedEffect
CHECK_DEADLOCK FALSE
