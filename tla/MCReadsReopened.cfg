\* A run reopened after the pipeline has moved to another base year.
SPECIFICATION ReadsSpec
CONSTANTS
    Endpoints = {"documents"}
    r1 = r1
    q1 = q1
    q2 = q2
    h1 = h1
    h2 = h2
    c1 = c1
    c2 = c2
    RunIds = {r1}
    Watched = r1
    Planned = 3
    Requests = {q1, q2}
    Holds = {h1, h2}
    LoadContents = {c1, c2}
    CacheEntries = 1
    MaxLoads = 3
    Nothing = Nothing
    Years = 3
    ExitMultiple <- MCExitMultiple
    RateLow <- MCRateLow
    RateHigh <- MCRateHigh
    Halvings = 7
    Undefined = Undefined
    None = None
    Loads <- MCLoads
    Asks <- MCAsks
    Weights <- MCWeights
    Million = 10
    Band = 80
    Quantum = 10
SYMMETRY ReadsSymmetry
INVARIANT YearsAreTheRuns
CHECK_DEADLOCK FALSE
