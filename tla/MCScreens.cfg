\* Two runs of this session and one of another; four percents, one of which
\* cannot run; six moves over three holdings.
SPECIFICATION ScreensSpec
CONSTANTS
    Subjects = {"session", "mandate", "holdings"}
    m1 = m1
    m2 = m2
    a = a
    Mandates = {m1, m2}
    Projects = {a, b}
    Shared <- MCShared
    MaxRuns = 3
    Nothing = Nothing
    Percents = {0, 11, 29, 100}
    Default = 29
    Grid = 4
    Blocked = {11}
    None = None
    MaxMoves = 6
    Holdings = {1, 2, 3}
    Selected = {1, 2}
    Columns = {"irr", "capacity"}
    FirstColumn = "irr"
    Figure <- MCFigure
    Selects = {"stage"}
    Labels = {"permitted", "construction"}
    LabelOf <- MCLabelOf
    Queries = {"", "x"}
    Hits <- MCHits
    NoQuery = ""
    RunLocked = {1}
    RunExcluded = {}
    MaxAsked = 1
    Null = Null
INVARIANTS PageShowsTheSession LabelTellsTheTruth ButtonTellsTheTruth RowsAnswerTheControls DrawerIsOfItsProject
PROPERTIES ComesBackAsTyped
CHECK_DEADLOCK FALSE
