SPECIFICATION MCSpec
CONSTANTS
    r1 = r1
    i1 = i1  i2 = i2
    t1 = t1  t2 = t2  s1 = s1
    agent = agent  owner = owner  root = root
    None = None  ByRef = ByRef
    Requests = {r1}
    Items = {i1, i2}
    RequestOf <- MCRequestOf
    Toolkits = {t1, t2}
    OwnerOf <- MCOwnerOf
    Scopes = {s1}
    Filer = agent
    FilerOwner = owner
    Reviewers = {owner, root}
    Admins = {root}
    InitServing = {t1}
    InitBindings = {t2}
    MaxChurn = 2
    Instances = {"reviewers", "catalogue"}
SYMMETRY MCItemSymmetry
INVARIANTS TypeOK RequestCoherent EffectsSound
PROPERTIES ImplementsItemDecisions
CHECK_DEADLOCK FALSE
