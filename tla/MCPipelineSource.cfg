\* Two runs posted while the directory is edited twice and reloaded; four
\* commands and edits by hand over sets of one and two projects of two seeds;
\* three edits of a workbook of six labels.
SPECIFICATION MCSpec
CONSTANTS
    Subjects = {"server", "commands", "workbook"}
    r1 = r1
    r2 = r2
    m1 = m1
    m2 = m2
    p1 = p1
    p2 = p2
    c1 = c1
    i1 = i1
    e1 = e1
    e2 = e2
    l1 = l1
    l2 = l2
    s1 = s1
    s2 = s2
    None = None
    RunIds = {r1, r2}
    Inputs = {m1, m2}
    Pipelines = {p1, p2}
    PipelineFacts = {clean, stale}
    Calibrations = {c1}
    Identities = {i1}
    IdentityOf <- MCIdentityOf
    ClaimOf <- MCClaimOf
    PipelineOf <- MCPipelineOf
    CandidateLists = {e1, e2}
    Generations <- OneGeneration
    Points = {x}
    Batches <- NoBatches
    Results = {z}
    Reasons = {w}
    Reloaders = {l1, l2}
    Workers = {w1}
    EligibleOf <- MCEligibleOf
    Calibration = c1
    MaxEdits = 2
    Seeds = {s1, s2}
    Counts = {1, 2}
    Attempts = 2
    InBand <- MCInBand
    MaxCommands = 4
    Garbled = Garbled
    Nothing = Nothing
    Exported <- MCExported
    Series = {"fcfe", "dscr"}
    IntegerFields = {"tenor"}
    Texts = {"name", "day"}
    Typed <- MCTyped
    MaxChanges = 3
SYMMETRY RequestSymmetry
INVARIANTS EligibilityIsOfTheCitedPipeline VerdictIsTheOneScreened SearchesWhatItCites FailedRunLeavesThePrevious IngestedAsTyped
PROPERTIES ReloadsNeverGoBack RegenerationReplaces
CHECK_DEADLOCK FALSE
