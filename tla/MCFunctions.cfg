\* Requests over two projects of five kinds and fifteen mandates; four candidates, one of them
\* locked, and capital for two or three; directories of up to three files;
\* files of three years, an analyst's and the house model's.
SPECIFICATION FunctionsSpec
CONSTANTS
    k1 = k1
    k2 = k2
    k3 = k3
    k4 = k4
    Projects = {1, 2}
    Plants <- MCPlants
    Mandates <- MCMandates
    RiskCap <- MCRiskCap
    Tolerance = 20
    Floor = 90
    Absent = Absent
    Nothing = Nothing
    Candidates = {k1, k2, k3, k4}
    Equity <- MCEquity
    Budget = 4
    EquityTolerance = 1
    Locked = {k1}
    Landscapes <- MCLandscapes
    Size = 4
    Elites = 2
    Generations = 3
    Paths = {p1, p2, p3}
    NoFile = NoFile
    Contents <- MCContents
    Parsed <- MCParsed
    TiesOut <- MCTiesOut
    Drawn <- MCDrawn
    Analyst = Analyst
    Horizon = 3
    Rows <- MCRows
    Heads <- MCHeads
    ToleranceAbs = 1
    ToleranceRel = 1
    Null = Null
INVARIANTS RefusedIffHopeless PageAgreesWithServer EveryChromosomeIsFeasible WinnerIsTheOneShown StatementsArticulate AllPassMeansItTiesOut HouseModelTiesOut DebtIsSizedToItsTarget
PROPERTIES HashIsTheLoadedContents
CHECK_DEADLOCK FALSE
