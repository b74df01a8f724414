\* Any callers of any operation: two runs, two generations with two possible
\* points each, snapshots that disagree, a calibration that is not the run's.
SPECIFICATION StoreSpec
CONSTANTS
    r1 = r1
    r2 = r2
    m1 = m1
    m2 = m2
    p1 = p1
    p2 = p2
    c1 = c1
    c2 = c2
    i1 = i1
    i2 = i2
    x = x
    y = y
    None = None
    RunIds = {r1, r2}
    Inputs <- OneInput
    Pipelines = {p1}
    PipelineFacts = {f1, f2}
    Calibrations = {c1, c2}
    Identities = {i1, i2}
    IdentityOf <- MCIdentityOf
    ClaimOf <- MCClaimOf
    PipelineOf <- MCPipelineOf
    CandidateLists = {e1}
    Generations <- TwoGenerations
    Points = {x, y}
    Batches <- MCBatches
    Results = {z}
    Reasons = {w}
SYMMETRY CurveSymmetry
INVARIANTS TypeOK ServedCurveIsTheLog ReferencesHaveNoGap ProvenanceIsBacked
PROPERTY HistoryIsAppendOnly
CHECK_DEADLOCK FALSE
