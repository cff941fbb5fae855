SPECIFICATION MCSpec
CONSTANTS
    w1 = w1  w2 = w2
    Kinds = {"lists", "schema", "catalogue", "sessions"}
    Workers = {w1, w2}
    Rows = {1, 2, 3}
    Owners = {1, 2}
    PageLimit = 2
    MaxInstant = 2
    MaxStarts = 3
    MaxSteps = 2
    MaxAge = 1
    MaxHours = 3
    MaxImports = 1
    Retries = 2
    CommitRetries = 1
    MaxLanded = 2
SYMMETRY Symmetry
INVARIANTS WalksComplete SchemaOfRevision CatalogueFresh SessionsSound
CHECK_DEADLOCK FALSE
