CONSTANTS
    a = a  b = b  c = c  d = d  w1 = w1  w2 = w2
    Slug = {a, b, c, d}
    Eligible = {a, b, c, d}
    BlockedBy <- Knot
    ById = {}
    Disturbed = {}
    Worker = {w1, w2}
    MaxFeatures = 2
    MaxRetries = 0
    MaxSpawns = 3
    HasFinishPrompt = TRUE
    SalvageReaches = TRUE
    MayFail = {"select", "probe", "settle", "merge"}
    NoSlug = NoSlug
SPECIFICATION FairSpec
PROPERTY Terminates
PROPERTY HandoffsAreSettled
CHECK_DEADLOCK FALSE
