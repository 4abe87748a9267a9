CONSTANTS
    a = a  b = b  c = c  d = d  w1 = w1  w2 = w2
    Slug = {a, b}
    Eligible = {a, b}
    BlockedBy = {}
    ById = {}
    Disturbed = {a}
    Worker = {w1, w2}
    MaxFeatures = 2
    MaxRetries = 1
    MaxSpawns = 4
    HasFinishPrompt = TRUE
    SalvageReaches = TRUE
    MayFail = {}
    NoSlug = NoSlug
SPECIFICATION Spec
SYMMETRY Symmetry
INVARIANT DrainsTheQueue
CHECK_DEADLOCK FALSE
