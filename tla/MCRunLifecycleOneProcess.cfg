\* A pool of one process, which may die, a shutdown, and results that cannot
\* be stored.
SPECIFICATION LifecycleSpec
CONSTANTS
    r1 = r1
    r2 = r2
    m1 = m1
    p1 = p1
    c1 = c1
    i1 = i1
    None = None
    RunIds = {r1, r2}
    Inputs = {m1}
    Pipelines = {p1}
    PipelineFacts = {f1}
    Calibrations = {c1}
    Identities = {i1}
    IdentityOf <- MCIdentityOf
    ClaimOf <- MCClaimOf
    PipelineOf <- MCPipelineOf
    CandidateLists = {e1}
    Generations <- TwoGenerations
    Points = {x}
    Batches <- MCBatches
    Results = {z}
    Reasons = {w}
    Mode = "process"
    MaxWorkers = 1
    MayDie = TRUE
    MayCrash = FALSE
    MayShutDown = TRUE
    ResultFaults = TRUE
PROPERTY EveryAcceptedRunEnds
CHECK_DEADLOCK FALSE
