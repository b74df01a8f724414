\* Two worker processes that may die, a server that may be killed or shut down.
SPECIFICATION LifecycleSpec
CONSTANTS
    r1 = r1
    r2 = r2
    m1 = m1
    p1 = p1
    c1 = c1
    i1 = i1
    None = None
    RunIds = {r1, r2}
    Inputs = {m1}
    Pipelines = {p1}
    PipelineFacts = {f1}
    Calibrations = {c1}
    Identities = {i1}
    IdentityOf <- MCIdentityOf
    ClaimOf <- MCClaimOf
    PipelineOf <- MCPipelineOf
    CandidateLists = {e1}
    Generations <- TwoGenerations
    Points = {x}
    Batches <- MCBatches
    Results = {z}
    Reasons = {w}
    Mode = "process"
    MaxWorkers = 2
    MayDie = TRUE
    MayCrash = TRUE
    MayShutDown = TRUE
    ResultFaults = TRUE
SYMMETRY RunSymmetry
PROPERTY ImplementsHistory
CHECK_DEADLOCK FALSE
