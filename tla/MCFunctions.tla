---------------------------- MODULE MCFunctions -----------------------------
(* Small instances for TLC of the parts of the server that are functions of *)
(* what they are given: the loading of a directory, the tie-outs of a file  *)
(* stated by an analyst or computed by the house model, the feasibility of  *)
(* a mandate, the search.  They share no state; a behaviour is one of one   *)
(* of them, its subject.                                                    *)
EXTENDS Feasibility, GeneticSearch, PipelineLoad, MCTieOuts

CONSTANTS k1, k2, k3, k4

VARIABLE subject

FunctionsInit ==
    /\ subject \in {"mandate", "search", "directory", "file"}
    /\ subject # "file" => inputs = Analyst /\ head = CHOOSE h \in AnalystHeads : TRUE
    /\ HouseInit
    /\ inputs = Analyst => head \in AnalystHeads
    /\ subject # "directory" => directory = [p \in Paths |-> NoFile]
    /\ LoadInit
    /\ FeasibilityInit
    /\ subject # "search" =>
          /\ objective = CHOOSE l \in Landscapes : TRUE
          /\ population = [i \in Individuals |-> Locked]
    /\ SearchInit

FunctionsNext ==
    \/ /\ subject = "mandate" /\ FeasibilityNext
       /\ UNCHANGED <<search, directory, modelled>>
    \/ /\ subject = "search" /\ SearchNext
       /\ UNCHANGED <<asked, directory, modelled>>
    \/ /\ subject = "directory" /\ LoadNext
       /\ UNCHANGED <<asked, search, modelled>>
    \/ /\ subject = "file" /\ HouseNext
       /\ UNCHANGED <<asked, search, directory>>

FunctionsSpec ==
    FunctionsInit
      /\ [][FunctionsNext /\ UNCHANGED subject]_<<asked, search, directory, modelled, subject>>

-----------------------------------------------------------------------------
(* Feasibility: plants on both sides of every screen, among them a British  *)
(* one under its alias, one without debt and one with debt and no cover     *)
(* ratio, and mandates on both sides of what they offer.                    *)

SolarPlant ==
    [capacity |-> 1, equity |-> 1, capex |-> 4, debt |-> 3, technology |-> "solar",
     country |-> "UK", stage |-> "permitted", cod |-> 3, dscr |-> 2, risk |-> 1,
     grid |-> TRUE, om |-> TRUE, currency |-> "EUR"]

MCPlants ==
    {SolarPlant,
     [SolarPlant EXCEPT !.capacity = 2, !.equity = 3, !.debt = 0, !.dscr = Absent,
                        !.technology = "wind", !.country = "GB", !.cod = 4],
     [SolarPlant EXCEPT !.dscr = Absent, !.capacity = 2],
     [SolarPlant EXCEPT !.dscr = 1, !.grid = FALSE, !.currency = "SEK", !.country = "SE"],
     [SolarPlant EXCEPT !.capacity = 3, !.equity = 2, !.capex = 2, !.debt = 1,
                        !.technology = "wind", !.risk = 2, !.om = FALSE,
                        !.stage = "construction", !.cod = 2]}

Mandate == [countries |-> {"UK", "SE"}, stages |-> {"permitted", "construction"},
            codFrom |-> 2, codTo |-> 4, minDscr |-> 1, appetite |-> "high",
            gridOnly |-> FALSE, eurOnly |-> FALSE, omOnly |-> FALSE,
            capital |-> 3, capacity |-> 2, leverage |-> 0, solar |-> 0]

MCMandates ==
    LET screens == {Mandate,
                    [Mandate EXCEPT !.countries = {"GB"}, !.codTo = 3],
                    [Mandate EXCEPT !.minDscr = 2, !.omOnly = TRUE],
                    [Mandate EXCEPT !.appetite = "low", !.gridOnly = TRUE, !.codFrom = 3],
                    [Mandate EXCEPT !.stages = {"permitted"}, !.eurOnly = TRUE]}
    IN  screens \cup {[m EXCEPT !.capital = 1, !.capacity = 4] : m \in screens}
                \cup {[m EXCEPT !.leverage = 60, !.solar = 70] : m \in screens}

MCRiskCap == [low |-> 1, high |-> 2]

-----------------------------------------------------------------------------
(* The search: one objective that rewards utilisation, with equals, and one *)
(* that is against the holding of k2.                                       *)

MCEquity == [p \in Candidates |-> IF p \in {k1, k2} THEN 1 ELSE 2]

MCLandscapes ==
    {[s \in Chromosomes |-> Cost(s)],
     [s \in Chromosomes |-> IF k2 \in s THEN 0 ELSE Cost(s)]}

-----------------------------------------------------------------------------
(* The directory: ids of one and of two digits, two contents of one id, a   *)
(* project of another year, one that does not tie out, one that is none.    *)

Project(id, base_year) == [id |-> id, base_year |-> base_year]

MCParsed ==
    [nine |-> Project(<<0, 9>>, 2027), ten |-> Project(<<1, 0>>, 2027),
     ten_again |-> Project(<<1, 0>>, 2027), short |-> Project(<<9>>, 2027),
     later |-> Project(<<1, 2>>, 2028), untied |-> Project(<<1>>, 2028),
     broken |-> NoFile]

MCContents == DOMAIN MCParsed
MCTiesOut  == MCContents \ {"untied", "broken"}
=============================================================================
