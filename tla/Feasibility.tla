---------------------------- MODULE Feasibility -----------------------------
(***************************************************************************)
(* What POST /mandate/preview says of a mandate before it runs, and what   *)
(* POST /optimisations refuses: the nine screens (optimiser/screens.py)    *)
(* and the signals derived from them (optimiser/feasibility.py).  The      *)
(* mandate screen computes the same again, from what GET /pipeline sent it *)
(* (web/js/feasibility.js), and enables its button on its own answer.      *)
(* Both are pure functions of their input.  Shares are in percent.         *)
(***************************************************************************)
EXTENDS Integers, FiniteSets, SequencesExt

CONSTANTS
    Projects,     \* every project of the pipeline, as numbers in id order
    Plants,       \* what a project file may declare
    Mandates,     \* what may be asked: the screens' controls and the targets
    RiskCap,      \* assumptions.risk_caps.project, by appetite
    Tolerance,    \* solar_divergence_tolerance
    Floor,        \* capital_absorption_floor
    Absent,       \* the DSCR where no year states one: NaN, or null
    Nothing       \* no request yet

\* A cover may be absent though something is owed: min_dscr leaves out the ramp
\* year, which may be all of the debt's life.
ASSUME FeasibilityConstants ==
    /\ Projects \subseteq Nat /\ IsFiniteSet(Projects)
    /\ \A f \in Plants : /\ {f.capacity, f.equity, f.capex} \subseteq Nat \ {0}
                         /\ f.debt \in 0 .. f.capex
                         /\ f.cod \in Int
    /\ \A m \in Mandates : /\ m.capital \in Nat \ {0}
                           /\ {m.capacity, m.leverage, m.solar} \subseteq Nat
                           /\ {m.codFrom, m.codTo} \subseteq Int
    /\ {Tolerance, Floor} \subseteq 0 .. 100

VARIABLE asked    \* one request: the pipeline, the mandate, locks and exclusions

Inputs == [plants : [Projects -> Plants], mandate : Mandates,
           locked : SUBSET Projects, excluded : SUBSET Projects]

FeasibilityInit == asked = Nothing

\* One request, over any pipeline and in any state of the session.
FeasibilityNext == asked = Nothing /\ asked' \in Inputs

FeasibilitySpec == FeasibilityInit /\ [][FeasibilityNext]_asked

Sum(f, S) == SumFunctionOnSet([p \in Projects |-> asked.plants[p][f]], S)

\* normalise_country_code: UK is an accepted alias, in files and in mandates.
Normalised(code) == IF code = "UK" THEN "GB" ELSE code

-----------------------------------------------------------------------------
(* apply_screens.                                                          *)

\* The names that reach a user, with their places in alphabetical order.
Rank == [codWindow |-> 1, countries |-> 2, eurRevenue |-> 3, exclusions |-> 4,
         gridSecured |-> 5, minDscr |-> 6, omContracted |-> 7, riskScore |-> 8,
         stages |-> 9]
AllScreens == DOMAIN Rank

\* An exclusion wins over a lock.
Held == asked.locked \ asked.excluded

\* passes: each screen over the whole pipeline, by itself.
Passes(s, p) ==
    LET plant == asked.plants[p]
        m == asked.mandate
    IN  CASE s = "countries"  -> Normalised(plant.country) \in {Normalised(c) : c \in m.countries}
          [] s = "stages"     -> plant.stage \in m.stages
          [] s = "codWindow"  -> plant.cod \in m.codFrom .. m.codTo
          [] s = "minDscr"    -> plant.dscr = Absent \/ plant.dscr >= m.minDscr
          [] s = "gridSecured"  -> m.gridOnly => plant.grid
          [] s = "eurRevenue"   -> m.eurOnly => plant.currency = "EUR"
          [] s = "omContracted" -> m.omOnly => plant.om
          [] s = "riskScore"  -> plant.risk <= RiskCap[m.appetite]
          [] s = "exclusions" -> p \notin asked.excluded

\* A lock re-admits what the screens reject.
Eligible == {p \in Projects : \A s \in AllScreens : Passes(s, p)} \cup Held

Readmitted == {p \in Held : \E s \in AllScreens : ~Passes(s, p)}

\* Each screen is counted alone, over the whole pipeline.
Rejects(s) == {p \in Projects : ~Passes(s, p)}

Drops(s) == Cardinality(Rejects(s))

\* What a sort makes of a set that is totally ordered: the i-th has i - 1 ahead.
Sorted(entries, ahead) ==
    [i \in 1 .. Cardinality(entries) |->
        CHOOSE e \in entries :
            Cardinality({d \in entries : <<d, e>> \in ahead}) = i - 1]

\* binding_screens: worst first, ties by name.
Rejecting == {<<s, Drops(s)>> : s \in {t \in AllScreens : Drops(t) > 0}}

Worse(d, e) == d[2] > e[2] \/ (d[2] = e[2] /\ Rank[d[1]] < Rank[e[1]])

BindingScreens == Sorted(Rejecting, {r \in Rejecting \X Rejecting : Worse(r[1], r[2])})

-----------------------------------------------------------------------------
(* preview_feasibility.                                                    *)

HasCandidates == Eligible # {}

\* Mutant: locks are compared with half of what there is.
LocksExceedHalf == 2 * Sum("equity", Held) > asked.mandate.capital

LocksExceedCapital == Sum("equity", Held) > asked.mandate.capital

CapacityBelowTarget ==
    HasCandidates /\ Sum("capacity", Eligible) < asked.mandate.capacity

LeverageUnreachable ==
    /\ HasCandidates
    /\ asked.mandate.leverage * Sum("capex", Eligible) > 100 * Sum("debt", Eligible)

IsSolar(p) == asked.plants[p].technology = "solar"
Solar(S) == {p \in S : IsSolar(p)}

SolarMixUnreachable ==
    /\ HasCandidates
    /\ 100 * Sum("capacity", Solar(Eligible))
          < (asked.mandate.solar - Tolerance) * Sum("capacity", Eligible)

CapitalUnderused ==
    HasCandidates /\ 100 * Sum("equity", Eligible) < Floor * asked.mandate.capital

LocksPresent == asked.locked # {} \/ asked.excluded # {} \/ Readmitted # {}

\* The codes by their ordinals, which are the order of severity.
WarningCode == <<"NO_CANDIDATES", "LOCKS_EXCEED_CAPITAL", "CAPACITY_BELOW_TARGET",
                 "LEVERAGE_UNREACHABLE", "SOLAR_MIX_UNREACHABLE",
                 "CAPITAL_UNDERUSED", "LOCKS_PRESENT">>

Signalled(code) ==
    CASE code = "NO_CANDIDATES" -> ~HasCandidates
      [] code = "LOCKS_EXCEED_CAPITAL" -> LocksExceedCapital
      [] code = "CAPACITY_BELOW_TARGET" -> CapacityBelowTarget
      [] code = "LEVERAGE_UNREACHABLE" -> LeverageUnreachable
      [] code = "SOLAR_MIX_UNREACHABLE" -> SolarMixUnreachable
      [] code = "CAPITAL_UNDERUSED" -> CapitalUnderused
      [] code = "LOCKS_PRESENT" -> LocksPresent

Listed(order, codes) == SelectSeq(order, LAMBDA code : code \in codes)

SignalCodes == {code \in ToSet(WarningCode) : Signalled(code)}

Signals == Listed(WarningCode, SignalCodes)

DisablesRun == {"NO_CANDIDATES", "LOCKS_EXCEED_CAPITAL"}

\* runnable: no signal that blocks, which are the two 422 conditions.
Runnable == SignalCodes \cap DisablesRun = {}

-----------------------------------------------------------------------------
(* The page's own answer.                                                  *)

\* The wire adapter: the payload's countries are normalised, NaN is null.
CountryOnThePage(p) == Normalised(asked.plants[p].country)

\* Mutant: the mandate's chips are compared as they were emitted.
CountryRaw(country, m) == country \in m.countries

Country(country, m) == \E code \in m.countries : Normalised(code) = Normalised(country)

\* screens, under the page's own names, and the name of each on the wire.
WireName == [country |-> "countries", stage |-> "stages", codWindow |-> "codWindow",
             minDscr |-> "minDscr", riskCap |-> "riskScore",
             gridSecured |-> "gridSecured", omContracted |-> "omContracted",
             currency |-> "eurRevenue", notExcluded |-> "exclusions"]
PageScreens == DOMAIN WireName

PageScreen(name, p) ==
    LET plant == asked.plants[p]
        m == asked.mandate
    IN  CASE name = "country"      -> Country(CountryOnThePage(p), m)
          [] name = "stage"        -> plant.stage \in m.stages
          [] name = "codWindow"    -> plant.cod >= m.codFrom /\ plant.cod <= m.codTo
          [] name = "minDscr"      -> plant.dscr = Absent \/ plant.dscr >= m.minDscr
          [] name = "riskCap"      -> plant.risk <= RiskCap[m.appetite]
          [] name = "gridSecured"  -> ~m.gridOnly \/ plant.grid
          [] name = "omContracted" -> ~m.omOnly \/ plant.om
          [] name = "currency"     -> ~m.eurOnly \/ plant.currency = "EUR"
          [] name = "notExcluded"  -> p \notin asked.excluded

PageDrops(name) == Cardinality({p \in Projects : ~PageScreen(name, p)})

\* screensToWiden: filtered, named as on the wire, then sorted.
PageRejecting ==
    {<<WireName[n], PageDrops(n)>> : n \in {m \in PageScreens : PageDrops(m) > 0}}

PageWorse(a, b) == IF a[2] # b[2] THEN b[2] - a[2] < 0 ELSE Rank[a[1]] < Rank[b[1]]

ScreensToWiden ==
    Sorted(PageRejecting, {r \in PageRejecting \X PageRejecting : PageWorse(r[1], r[2])})

PagePool ==
    {p \in Projects : \/ \A name \in PageScreens : PageScreen(name, p)
                      \/ p \in asked.locked /\ p \notin asked.excluded}

\* warnings, in the order they are written, with the page's own 0.2 and 0.9.
PageOrder == <<"NO_CANDIDATES", "LOCKS_EXCEED_CAPITAL", "CAPACITY_BELOW_TARGET",
               "LEVERAGE_UNREACHABLE", "SOLAR_MIX_UNREACHABLE",
               "CAPITAL_UNDERUSED", "LOCKS_PRESENT">>

PageFinds(code) ==
    LET pool == PagePool
        mw == Sum("capacity", pool)
        m == asked.mandate
    IN  CASE code = "NO_CANDIDATES" -> pool = {}
          [] code = "LOCKS_EXCEED_CAPITAL" ->
               Sum("equity", asked.locked \ asked.excluded) > m.capital
          [] code = "CAPACITY_BELOW_TARGET" -> pool # {} /\ mw < m.capacity
          [] code = "LEVERAGE_UNREACHABLE" ->
               pool # {} /\ 100 * Sum("debt", pool) < m.leverage * Sum("capex", pool)
          [] code = "SOLAR_MIX_UNREACHABLE" ->
               pool # {} /\ 100 * Sum("capacity", Solar(pool)) < (m.solar - 20) * mw
          [] code = "CAPITAL_UNDERUSED" ->
               pool # {} /\ 100 * Sum("equity", pool) < 90 * m.capital
          [] code = "LOCKS_PRESENT" ->
               Cardinality(asked.locked) > 0 \/ Cardinality(asked.excluded) > 0

PageCodes == {code \in ToSet(PageOrder) : PageFinds(code)}

PageWarnings == Listed(PageOrder, PageCodes)

PageRunnable == PageCodes \cap DisablesRun = {}

-----------------------------------------------------------------------------
(* Properties.                                                             *)

Portfolios == SUBSET Eligible
Affordable == {S \in Portfolios : Held \subseteq S /\
                                  Sum("equity", S) <= asked.mandate.capital}

\* A request is refused exactly when no search could answer it: there is
\* nothing to choose from, or no portfolio that holds every lock is within
\* the capital (_refuse_unrunnable: two conditions, no others).
RefusedIffHopeless ==
    asked # Nothing => (Runnable <=> HasCandidates /\ Affordable # {})

\* The page and the server say the same of every mandate over every pipeline:
\* the same candidates, the same warnings in the same order, the same screens
\* to widen in the same order, and the button is enabled exactly when the POST
\* would be accepted (api.md 5, "if they diverge the client is wrong").  They
\* are two programs: the names, the order and the form of the tests differ.
PageAgreesWithServer ==
    asked # Nothing =>
        /\ PagePool = Eligible
        /\ PageWarnings = Signals
        /\ ScreensToWiden = BindingScreens
        /\ PageRunnable = Runnable

=============================================================================
