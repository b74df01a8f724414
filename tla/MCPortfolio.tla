---------------------------- MODULE MCPortfolio -----------------------------
(* Small instances of RunDocuments for TLC: a solar plant with debt that    *)
(* earns its cost back and more, a wind farm without debt that never does,  *)
(* and a later solar plant; years of three, rates in hundredths.            *)
EXTENDS RunDocuments, TLC

SolarFarm ==
    [id |-> 1, base |-> 2027, country |-> 1, solar |-> TRUE, capacity |-> 95,
     capex |-> 60, debt |-> 40, risk |-> 2, ppa |-> 700, cod |-> 2, decline |-> 0,
     opex |-> 2, cover |-> 2, fcfe |-> <<-20, 10, 20>>, ebitda |-> <<0, 20, 40>>,
     closing |-> <<40, 20, 0>>, generation |-> <<0, 4, 8>>]

WindFarm ==
    [SolarFarm EXCEPT
        !.id = 2, !.solar = FALSE, !.country = 2, !.capacity = 60, !.capex = 40,
        !.debt = 0, !.cover = Undefined, !.risk = 4, !.ppa = 200,
        !.fcfe = <<-40, -10, 30>>, !.closing = <<0, 0, 0>>, !.generation = <<0, 6, 6>>]

LateFarm ==
    [SolarFarm EXCEPT
        !.id = 3, !.capacity = 44, !.capex = 30, !.debt = 10, !.cover = 1, !.cod = 3,
        !.fcfe = <<-10, -10, 20>>, !.ebitda = <<0, 0, 20>>,
        !.closing = <<0, 10, 0>>, !.generation = <<0, 0, 5>>]

\* The directory is extended, reduced, renumbered, or moved to another year.
MCLoads ==
    LET all == <<SolarFarm, WindFarm, LateFarm>>
    IN  {all, [i \in DOMAIN all |-> [all[i] EXCEPT !.base = 2028]],
         <<WindFarm, LateFarm>>,
         <<SolarFarm, [LateFarm EXCEPT !.id = 2], [WindFarm EXCEPT !.id = 3]>>}

MCAsks ==
    LET ask == [capital |-> 60, capacity |-> 150, solar |-> 450, targetIrr |-> 110,
                hold |-> 3, minLeverage |-> 400, minDscr |-> 2, maxMerchant |-> 500,
                maxCountry |-> 600, maxProject |-> 600, riskCap |-> 3000]
    IN  {ask,
         [ask EXCEPT !.hold = 2, !.capital = 40],
         [ask EXCEPT !.maxCountry = 350, !.minLeverage = 600, !.capacity = 100,
                     !.capital = 20]}

\* The shipped objective, in tenths, with its thresholds in thousandths.
MCWeights ==
    [capacity |-> 32, capacityFloor |-> -600, techSplit |-> 30, splitFloor |-> -500,
     splitTolerance |-> 350, return |-> 26, returnClamp |-> 1200, returnScale |-> 50,
     utilisation |-> 9, leverage |-> -70, merchant |-> -140, country |-> -80,
     project |-> -80, risk |-> -16, empty |-> -500000, rejectBase |-> -10000000,
     rejectSlope |-> -1000, capTolerance |-> 0]

MCExitMultiple == TRUE :> 2 @@ FALSE :> 1

MCRateLow  == -64
MCRateHigh == 192
=============================================================================
