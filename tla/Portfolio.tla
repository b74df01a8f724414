----------------------------- MODULE Portfolio ------------------------------
(***************************************************************************)
(* From a run to its record.  The worker scores selections (aggregate.py,  *)
(* objective.py) and turns the winner into totals (result.py) over its own *)
(* load; the server joins the masks it is sent to the candidates it kept   *)
(* from the submission (api/records.py, api/scalars.py), and the record is *)
(* refused unless it is consistent (domain/results.py).  Meanwhile the     *)
(* pipeline may be reloaded.                                               *)
(*                                                                         *)
(* A load is a sequence of projects in the order of their ids, and a mask  *)
(* a sequence of booleans over it: what is joined is joined by position.   *)
(* Shares are in thousandths, weights in tenths, fitness in ten-           *)
(* thousandths.  float32 in the search and the reduction order are left    *)
(* out: see GeneticSearch for what the search does with a score.           *)
(***************************************************************************)
EXTENDS Returns, FiniteSets

CONSTANTS
    Loads,        \* the loads a directory may give
    Asks,         \* the mandates
    Weights,      \* the [objective] of the assumption set
    Million,      \* EUR_PER_EUR_MILLION
    Quantum,      \* quantisation_dp, as a step
    None          \* no run, no outcome, no record

VARIABLES
    inForce,      \* the server's load
    pending,      \* PendingRun: what was fixed at submission, or None
    outcome,      \* WorkerOutcome, or None
    record        \* RunRecord, Failed, or None

portfolio == <<inForce, pending, outcome, record>>

\* The record of a run that did not finish.
Failed == [status |-> "failed"]

Thousandths == 0 .. 1000
RiskScores == 0 .. 5000

\* What the validators of a file let through (domain/project_file.py).
ASSUME LoadsAreOfPlants ==
    \A load \in Loads :
        /\ Len(load) \in Nat /\ DOMAIN load = 1 .. Len(load)
        /\ \A i \in DOMAIN load :
              /\ load[i].id \in Nat
              /\ \A j \in DOMAIN load : j < i => load[j].id < load[i].id
              /\ load[i].capacity \in Nat \ {0} /\ load[i].capex \in Nat \ {0}
              /\ load[i].debt \in 0 .. load[i].capex
              /\ load[i].risk \in 1 .. 5 /\ load[i].ppa \in Thousandths
              /\ load[i].solar \in BOOLEAN /\ load[i].country \in Nat
              /\ load[i].fcfe \in [1 .. Years -> Int]
              /\ load[i].ebitda \in [1 .. Years -> Int]
              /\ load[i].closing \in [1 .. Years -> Int]
              /\ load[i].generation \in [1 .. Years -> Nat]
              /\ load[i].opex \in Nat /\ load[i].cod \in Int
              /\ load[i].cover \in Int \cup {Undefined}

\* Amounts are whole millions: what a record loses by dividing is nothing.
ASSUME AmountsAreInMillions ==
    /\ Million \in Nat \ {0}
    /\ \A load \in Loads : \A i \in DOMAIN load :
          /\ load[i].capex % Million = 0 /\ load[i].debt % Million = 0
          /\ \A y \in 1 .. Years : load[i].fcfe[y] % Million = 0

\* The bounds of a mandate (domain/mandate_bounds.py).
ASSUME AsksAreBounded ==
    \A m \in Asks :
        /\ m.capital \in Nat \ {0} /\ m.capacity \in Nat \ {0}
        /\ m.solar \in Thousandths /\ m.targetIrr \in Int
        /\ m.hold \in Nat \ {0} /\ m.minDscr \in Int
        /\ m.minLeverage \in Thousandths /\ m.maxMerchant \in Thousandths
        /\ m.maxCountry \in Thousandths /\ m.maxProject \in Thousandths
        /\ m.riskCap \in RiskScores

\* The [objective] of an assumption set: rewards, and penalties stated signed.
ASSUME WeightsAreSigned ==
    /\ Weights.capacity \in Nat /\ Weights.techSplit \in Nat /\ Weights.return \in Nat
    /\ Weights.utilisation \in Nat /\ Weights.returnClamp \in Nat
    /\ Weights.capacityFloor \in Int /\ Weights.splitFloor \in Int
    /\ Weights.splitTolerance \in Nat \ {0} /\ Weights.returnScale \in Nat \ {0}
    /\ \A term \in {"leverage", "merchant", "country", "project", "risk"} :
          Weights[term] \in Int /\ Weights[term] < 0
    /\ Weights.empty \in Int /\ Weights.rejectBase \in Int
    /\ Weights.rejectSlope \in Int /\ Weights.rejectSlope <= 0
    /\ Weights.capTolerance \in Nat
    /\ Quantum \in Nat \ {0}

-----------------------------------------------------------------------------
(* Masks.                                                                  *)

Masks(load) == [1 .. Len(load) -> BOOLEAN]

Held(mask) == {i \in DOMAIN mask : mask[i]}

\* np.flatnonzero: what is held, lowest first.
FlatNonzero(mask) ==
    [n \in 1 .. Cardinality(Held(mask)) |->
        CHOOSE i \in Held(mask) : Cardinality({j \in Held(mask) : j < i}) = n - 1]

\* selection[flatnonzero(eligible)] = winner.
Scatter(eligible, winner) ==
    LET rows == FlatNonzero(eligible)
    IN  [i \in DOMAIN eligible |->
            \E k \in DOMAIN rows : rows[k] = i /\ winner[k]]

-----------------------------------------------------------------------------
(* aggregate: the totals of one selection, in euros.                        *)

Share(part, whole) == IF whole > 0 THEN (1000 * part) \div whole ELSE 0

Equity(p) == p.capex - p.debt

\* A column of the load over the projects that are held.
Column(load, held, field) == SumFunction([i \in held |-> load[i][field]])

EquityOf(load, held) == SumFunction([i \in held |-> Equity(load[i])])

\* equity_weighted_irr over equity_with_defined_irr.
Blend(load, held, hold) ==
    LET rate(i) == Irr(HoldSeries(load[i], hold))
        priced  == {i \in held : rate(i) # Undefined}
        weight  == EquityOf(load, priced)
    IN  IF weight > 0
        THEN SumFunction([i \in priced |-> Equity(load[i]) * 10 * rate(i)]) \div weight
        ELSE Undefined

Countries(load) == {load[i].country : i \in DOMAIN load}

CountryShares(load, held) ==
    LET in(c) == {i \in held : load[i].country = c}
    IN  [c \in Countries(load) |->
            Share(Column(load, in(c), "capex"), Column(load, held, "capex"))]

Aggregate(load, held, hold) ==
    LET capex     == Column(load, held, "capex")
        capacity  == Column(load, held, "capacity")
        debt      == Column(load, held, "debt")
        solar     == {i \in held : load[i].solar}
        exposed   == SumFunction([i \in held |-> load[i].capex * (1000 - load[i].ppa)])
        risked    == SumFunction([i \in held |-> load[i].capex * load[i].risk])
    IN  [count     |-> Cardinality(held),
         capacity  |-> capacity,
         capex     |-> capex,
         debt      |-> debt,
         equity    |-> EquityOf(load, held),
         solar     |-> Share(Column(load, solar, "capacity"), capacity),
         gearing   |-> Share(debt, capex),
         merchant  |-> IF capex > 0 THEN exposed \div capex ELSE 0,
         risk      |-> Share(risked, capex),
         blended   |-> Blend(load, held, hold),
         countries |-> CountryShares(load, held),
         projects  |-> [i \in held |-> Share(load[i].capex, capex)]]

-----------------------------------------------------------------------------
(* score: the nine terms, the two overrides, and the rounding.              *)

Excess(value, cap) == Larger(value - cap, 0)
Gap(a, b) == Larger(a - b, b - a)

\* By how much the shares are over the cap, together.
Concentration(shares, cap) == SumFunction([x \in DOMAIN shares |-> Excess(shares[x], cap)])

Terms(t, m) ==
    LET hurdled == IF t.blended = Undefined THEN m.targetIrr ELSE t.blended
        scaled  == (1000 * (hurdled - m.targetIrr)) \div Weights.returnScale
    IN  [capacity |-> Weights.capacity *
            Larger(1000 - (1000 * Gap(t.capacity, m.capacity)) \div m.capacity,
                   Weights.capacityFloor),
         techMix |-> Weights.techSplit *
            Larger(1000 - (1000 * Gap(t.solar, m.solar)) \div Weights.splitTolerance,
                   Weights.splitFloor),
         returns |-> Weights.return *
            Smaller(Larger(scaled, -Weights.returnClamp), Weights.returnClamp),
         utilisation |-> Weights.utilisation * ((1000 * t.equity) \div m.capital),
         leverage |-> Weights.leverage * Excess(m.minLeverage, t.gearing),
         merchant |-> Weights.merchant * Excess(t.merchant, m.maxMerchant),
         risk     |-> Weights.risk * Excess(t.risk, m.riskCap),
         country  |-> Weights.country *
            Concentration(t.countries, m.maxCountry),
         project  |-> Weights.project *
            Concentration(t.projects, m.maxProject)]

TermSum(terms) == SumFunction(terms)

Graded(t, m) ==
    Weights.rejectBase + Weights.rejectSlope * ((1000 * t.equity) \div m.capital - 1000)

\* Mutant: the budget is checked first, and an empty portfolio is within it.
ScoreByBudget(t, m) ==
    IF t.equity > m.capital + Weights.capTolerance THEN Graded(t, m)
    ELSE TermSum(Terms(t, m))

Score(t, m) ==
    IF t.count = 0 THEN Weights.empty
    ELSE IF t.equity > m.capital + Weights.capTolerance THEN Graded(t, m)
    ELSE TermSum(Terms(t, m))

Quantised(fitness) == Quantum * ((fitness + Quantum \div 2) \div Quantum)

\* "The worst feasible score": every reward at its floor, and every penalty
\* as large as the mandate lets it be.
WorstScore(m) ==
    Weights.capacity * Weights.capacityFloor + Weights.techSplit * Weights.splitFloor
        - Weights.return * Weights.returnClamp
        + Weights.leverage * m.minLeverage + Weights.merchant * (1000 - m.maxMerchant)
        + Weights.risk * (5000 - m.riskCap)
        + (Weights.country + Weights.project) * 1000

\* The grade of a rejection starts below the score of no portfolio, and that
\* below the worst feasible one (objective.py; default-2026.toml).
ASSUME ScoresAreApart ==
    \A m \in Asks :
        /\ Quantised(Weights.rejectBase) < Quantised(Weights.empty)
        /\ Quantised(Weights.empty) < Quantised(WorstScore(m))

-----------------------------------------------------------------------------
(* build_result.                                                           *)

\* _weighted_lcoe and _worst_min_dscr leave out what cannot be said.
WeightedLcoe(load, held) ==
    LET priced == {i \in held : Lcoe(load[i]) # Undefined}
        weight == SumFunction([i \in priced |-> AnnualGeneration(load[i])])
    IN  IF weight > 0
        THEN SumFunction([i \in priced |-> Lcoe(load[i]) * AnnualGeneration(load[i])]) \div weight
        ELSE 0

WorstCover(load, held) ==
    LET covers == {load[i].cover : i \in held} \ {Undefined}
    IN  IF covers = {} THEN Undefined ELSE Min(covers)

\* The series of a portfolio, year by year.
Pooled(series(_), held, length) ==
    [y \in 1 .. length |-> SumFunction([i \in held |-> series(i)[y]])]

\* _country_shares drops what is zero: a country has a share when a plant in
\* it is held, though it may not come to a thousandth.
HeldShares(load, held, t) == [c \in {load[i].country : i \in held} |-> t.countries[c]]

\* Mutant: the last of the countries by code.
LargestByCode(shares) ==
    IF DOMAIN shares = {} THEN Undefined ELSE Max(DOMAIN shares)

\* max(shares, key=(share, code)) over the countries that are held.
Largest(shares) ==
    IF DOMAIN shares = {} THEN Undefined
    ELSE CHOOSE c \in DOMAIN shares : \A d \in DOMAIN shares :
            shares[c] > shares[d] \/ (shares[c] = shares[d] /\ c >= d)

Verdict(kept) == IF kept THEN "compliant" ELSE "breach"

BuildResult(load, m, eligible, winner) ==
    LET selection == Scatter(eligible, winner)
        held      == Held(selection)
        t         == Aggregate(load, held, m.hold)
        fitness   == Quantised(Score(t, m))
        terms     == Terms(t, m)
        thirty    == Pooled(LAMBDA i : load[i].fcfe, held, Years)
        truncated == Pooled(LAMBDA i : HoldSeries(load[i], m.hold), held, ExitYear(m.hold))
        shares    == HeldShares(load, held, t)
        largest   == Largest(shares)
        share     == IF largest = Undefined THEN 0 ELSE shares[largest]
        irr       == Irr(truncated)
        rows      == FlatNonzero(selection)
    IN  [ids |-> [k \in DOMAIN rows |-> load[rows[k]].id],
         selection |-> selection,
         totals |-> t,
         fitness |-> fitness,
         terms |-> IF Quantised(TermSum(terms)) = fitness THEN terms ELSE Undefined,
         thirty |-> thirty,
         truncated |-> truncated,
         irr |-> irr,
         moic |-> Moic(truncated),
         lcoe |-> WeightedLcoe(load, held),
         cover |-> WorstCover(load, held),
         generation |-> SumFunction([i \in held |-> AnnualGeneration(load[i])]),
         shares |-> shares,
         largest |-> largest,
         largestShare |-> share,
         verdicts |->
            [return |-> IF irr = Undefined THEN "neutral" ELSE Verdict(10 * irr >= m.targetIrr),
             leverage |-> Verdict(t.gearing >= m.minLeverage),
             merchant |-> Verdict(t.merchant <= m.maxMerchant),
             country |-> Verdict(share <= m.maxCountry)]]

-----------------------------------------------------------------------------
(* The record, in millions.                                                *)

Millions(euros) == euros \div Million

\* _fields, with the two flags of a holding.
Holding(load, m, i, selected, locked) ==
    LET p == load[i]
        series == HoldSeries(p, m.hold)
    IN  [id |-> p.id, country |-> p.country, solar |-> p.solar, capacity |-> p.capacity,
         capex_m |-> Millions(p.capex), debt_m |-> Millions(p.debt),
         equity_m |-> Millions(Equity(p)), gearing |-> Share(p.debt, p.capex),
         lcoe |-> Lcoe(p), cover |-> p.cover, fcfe_m |-> Millions(Total(p.fcfe)),
         irr |-> Irr(series), moic |-> Moic(series), payback |-> Payback(series),
         selected |-> selected, locked |-> locked]

\* Mutant: the candidates are looked up when the run finishes.
HoldingsNow(o) ==
    LET rows == FlatNonzero(o.eligible)
    IN  [k \in {n \in DOMAIN rows : rows[n] <= Len(inForce)} |->
            Holding(inForce, pending.mandate, rows[k],
                    o.result.selection[rows[k]], o.locked[rows[k]])]

HoldingRecords(o) ==
    LET rows == FlatNonzero(o.eligible)
    IN  [k \in DOMAIN rows |->
            Holding(pending.candidates, pending.mandate, rows[k],
                    o.result.selection[rows[k]], o.locked[rows[k]])]

Succeeded(o) ==
    LET r == o.result
    IN  [mandate |-> pending.mandate, ids |-> r.ids, holdings |-> HoldingRecords(o),
         aggregates |->
            [count |-> r.totals.count, capacity |-> r.totals.capacity,
             solar |-> r.totals.solar, capex_m |-> Millions(r.totals.capex),
             debt_m |-> Millions(r.totals.debt), equity_m |-> Millions(r.totals.equity),
             gearing |-> r.totals.gearing, irr |-> r.irr, moic |-> r.moic,
             lcoe |-> r.lcoe, generation |-> r.generation,
             merchant |-> r.totals.merchant, risk |-> r.totals.risk,
             cover |-> r.cover, largest |-> r.largest, largestShare |-> r.largestShare,
             fcfe_m |-> Millions(Total(r.thirty)), fitness |-> r.fitness],
         countries |-> r.shares,
         thirty_m |-> [y \in DOMAIN r.thirty |-> Millions(r.thirty[y])],
         truncated_m |-> [y \in DOMAIN r.truncated |-> Millions(r.truncated[y])]]

\* The holdings that carry the flag, in their order.
Flagged(holdings) ==
    LET rows == FlatNonzero([k \in DOMAIN holdings |-> holdings[k].selected])
    IN  [n \in DOMAIN rows |-> holdings[rows[n]]]

\* The validators of RunRecord, Holding and PortfolioAggregates: the figures
\* that must be defined or bounded, the lengths of the two series, the order
\* of the holdings, and the flags.
Storable(r) ==
    LET flagged == Flagged(r.holdings)
    IN  /\ \A k \in DOMAIN r.holdings :
            /\ r.holdings[k].lcoe # Undefined
            /\ r.holdings[k].debt_m <= r.holdings[k].capex_m
            /\ k > 1 => r.holdings[k - 1].id < r.holdings[k].id
        /\ \A s \in {"solar", "gearing", "merchant", "largestShare"} :
            r.aggregates[s] \in 0 .. 1000
        /\ Len(r.thirty_m) = Years
        /\ Len(r.truncated_m) = Smaller(r.mandate.hold, Years)
        /\ [k \in DOMAIN flagged |-> flagged[k].id] = r.ids

-----------------------------------------------------------------------------
(* One run, and at most one reload under it or after it.                   *)

PortfolioInit ==
    /\ inForce \in Loads
    /\ pending = None
    /\ outcome = None
    /\ record = None

\* POST: the candidates of the load in force are kept with the run.
SubmitRun(m, eligible, locked) ==
    /\ pending = None
    /\ Held(locked) \subseteq Held(eligible) /\ Held(eligible) # {}
    /\ pending' = [candidates |-> inForce, mandate |-> m,
                   eligible |-> eligible, locked |-> locked]
    /\ UNCHANGED <<inForce, outcome, record>>

ReloadUnder(load) ==
    /\ pending # None
    /\ inForce = pending.candidates
    /\ inForce' = load
    /\ UNCHANGED <<pending, outcome, record>>

\* The worker, on the pipeline the run cites: a winner keeps what is locked.
SearchEnds(winner) ==
    /\ pending # None /\ outcome = None
    /\ Held(pending.locked) \subseteq Held(Scatter(pending.eligible, winner))
    /\ outcome' = [eligible |-> pending.eligible, locked |-> pending.locked,
                   result |-> BuildResult(pending.candidates, pending.mandate,
                                          pending.eligible, winner)]
    /\ UNCHANGED <<inForce, pending, record>>

\* A record that is refused makes the run a failed one (service.py, _finished).
Recorded ==
    /\ outcome # None /\ record = None
    /\ record' = IF Storable(Succeeded(outcome)) THEN Succeeded(outcome) ELSE Failed
    /\ UNCHANGED <<inForce, pending, outcome>>

PortfolioNext ==
    \/ \E m \in Asks, eligible, locked \in Masks(inForce) : SubmitRun(m, eligible, locked)
    \/ \E load \in Loads : ReloadUnder(load)
    \/ /\ pending # None
       /\ \E winner \in [1 .. Cardinality(Held(pending.eligible)) -> BOOLEAN] :
            SearchEnds(winner)
    \/ Recorded

PortfolioSpec == PortfolioInit /\ [][PortfolioNext]_portfolio

-----------------------------------------------------------------------------
(* Properties.                                                             *)

\* Of the selections of one load, every one over the budget scores below the
\* empty one, more the further over it is, and every one within it scores
\* above (objective.py, the check order and the grade).
RejectsRankLast ==
    (pending # None /\ outcome = None /\ inForce = pending.candidates) =>
        LET m    == pending.mandate
            t(s) == Aggregate(inForce, s, m.hold)
            over(s) == t(s).equity > m.capital + Weights.capTolerance
            fitness(s) == Quantised(Score(t(s), m))
        IN  \A s \in (SUBSET DOMAIN inForce) \ {{}} :
                IF over(s)
                THEN /\ fitness(s) < fitness({})
                     /\ \A r \in SUBSET DOMAIN inForce :
                            t(r).equity > t(s).equity => fitness(r) <= fitness(s)
                ELSE fitness(s) > fitness({})

\* A plant that generates in some year has a levelised cost.
Generates(p) == \E y \in 1 .. Years : p.generation[y] > 0

\* The totals are the worker's and the holdings the server's.  The search of
\* candidates that all generate ends in a record that the validators
\* accept, and its selected holdings add up to its totals, whatever was loaded
\* in between (records.py, PendingRun.candidates; result.py, totals;
\* results.py, RunRecord).
HoldingsAddUp ==
    (record # None
        /\ \A i \in Held(pending.eligible) : Generates(pending.candidates[i])) =>
        /\ record # Failed
        /\ LET held == {k \in DOMAIN record.holdings : record.holdings[k].selected}
               sum(field) == SumFunction([k \in held |-> record.holdings[k][field]])
               a == record.aggregates
           IN  /\ a.count = Cardinality(held)
               /\ a.capacity = sum("capacity")
               /\ a.capex_m = sum("capex_m")
               /\ a.equity_m = sum("equity_m")
               /\ a.fcfe_m = sum("fcfe_m")
               /\ a.fcfe_m = Total(record.thirty_m)
               /\ a.irr # Undefined => a.moic # Undefined

\* The verdict on a tile and the penalty that shaped the portfolio are about
\* the same figure: a tile is compliant exactly when its term costs nothing
\* (result.py, _country_shares and the verdicts; objective.py, the penalties).
TilesAgreeWithPenalties ==
    outcome # None =>
        LET r == outcome.result
            terms == Terms(r.totals, pending.mandate)
        IN  /\ \A name \in {"leverage", "merchant", "country"} :
                  r.verdicts[name] = "compliant" <=> terms[name] = 0
            /\ r.terms # Undefined => Quantised(TermSum(r.terms)) = r.fitness
=============================================================================
