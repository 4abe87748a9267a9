CONSTANTS
    a = a  b = b  c = c  d = d  w1 = w1  w2 = w2
    Slug = {a, b, c}
    Eligible = {a, b, c}
    BlockedBy <- Waits
    ById = {}
    Disturbed = {a}
    Worker = {w1, w2}
    MaxFeatures = 2
    MaxRetries = 1
    MaxSpawns = 3
    HasFinishPrompt = TRUE
    SalvageReaches = TRUE
    MayFail = {"settle", "merge"}
    NoSlug = NoSlug
SPECIFICATION Spec
SYMMETRY Symmetry
PROPERTY BlockersLandFirst
INVARIANT OneOwnerPerSlug
INVARIANT ShipsAreReal
INVARIANT OnlyCleanBuildsAreMerged
INVARIANT SequentialDrainsTheQueue
PROPERTY FinishesOnlyUndelivered
PROPERTY FinishedWorkSurvives
PROPERTY RebuildsStartFresh
PROPERTY NothingOutlivesTheRun
PROPERTY ImplementsQueue
CHECK_DEADLOCK FALSE
