---------------------------- MODULE RunDocuments ----------------------------
(***************************************************************************)
(* A finished run as it is read: the portfolio screen (portfolio.js,       *)
(* charts.js), the committee pack (export/committee.py) and the two CSV    *)
(* files (export/csv.py).  Three programs turn one record into figures and *)
(* verdicts, and none of them sees what the others show.                   *)
(*                                                                         *)
(* A document is the record of what it says.  Capacities are in tenths of  *)
(* a megawatt, because a shortfall is decided on the rounded figure; text, *)
(* colours, fonts and projections are left out.                            *)
(***************************************************************************)
EXTENDS Portfolio

CONSTANT Band    \* the tolerance of the capacity and split tiles, in thousandths

-----------------------------------------------------------------------------
(* Shared wording.                                                         *)

\* quantity, and fmt.mw: a half is rounded away from zero.
WholeMw(tenths) == (tenths + 5) \div 10

CapacityGap(r) == Gap(r.aggregates.capacity, r.mandate.capacity)

WithinCapacity(r) == 1000 * CapacityGap(r) <= Band * r.mandate.capacity

Judged(holds) == IF holds THEN "holds" ELSE "breach"

Selected(r) == Flagged(r.holdings)

\* A run without a result has no document: RunNotFinishedError, and the
\* notice of the screen.
Readable(r) == r \notin {None, Failed}

-----------------------------------------------------------------------------
(* The portfolio screen.                                                   *)

\* capacitySub.
ScreenShortfall(r) ==
    LET deficit == r.mandate.capacity - r.aggregates.capacity
    IN  IF WithinCapacity(r) \/ deficit <= 0 \/ WholeMw(deficit) = 0 THEN None
        ELSE WholeMw(deficit)

\* tiles: the verdicts, and what stands under the figures.
ScreenTiles(r) ==
    LET a == r.aggregates
        m == r.mandate
    IN  [capacity  |-> Judged(WithinCapacity(r)),
         split     |-> Judged(Gap(a.solar, m.solar) <= Band),
         return    |-> IF a.irr = Undefined THEN "neutral" ELSE Judged(10 * a.irr >= m.targetIrr),
         leverage  |-> Judged(a.gearing >= m.minLeverage),
         merchant  |-> Judged(a.merchant <= m.maxMerchant),
         country   |-> Judged(a.largestShare <= m.maxCountry),
         shortfall |-> ScreenShortfall(r),
         multiple  |-> a.moic,
         coverage  |-> a.cover,
         thirty    |-> a.fcfe_m]

\* bars: the zero line and the heights are shares of the plot, in thousandths.
ScreenChart(r, base) ==
    LET v    == r.thirty_m
        top  == Max({0} \cup {v[y] : y \in DOMAIN v})
        foot == Min({0} \cup {v[y] : y \in DOMAIN v})
        span == top - foot
    IN  [zero  |-> IF span > 0 THEN (1000 * top) \div span ELSE 1000,
         total |-> Total(v),
         bars  |-> [y \in DOMAIN v |->
            [year     |-> base + y - 1,
             negative |-> v[y] < 0,
             height   |-> IF span > 0 THEN (1000 * Gap(v[y], 0)) \div span ELSE 0]]]

\* subtitle counts the countries the totals name.
ScreenCountries(r) == Cardinality(DOMAIN r.countries)

\* getBaseYear asks the server for the pipeline of now: by the statements of
\* the first holding, or by GET /pipeline, both of the load in force.
ScreenBaseYear == inForce[1].base

-----------------------------------------------------------------------------
(* The committee pack.                                                     *)

PackShortfall(r) ==
    LET deficit == r.mandate.capacity - r.aggregates.capacity
        shown   == WholeMw(deficit)
    IN  IF WithinCapacity(r) \/ deficit <= 0 THEN None
        ELSE IF shown = WholeMw(0) THEN None ELSE shown

\* _tiles, its verdicts recomputed from the totals and the mandate.
PackTiles(r) ==
    LET a == r.aggregates
        m == r.mandate
    IN  [capacity  |-> Judged(WithinCapacity(r)),
         split     |-> Judged(Gap(a.solar, m.solar) <= Band),
         return    |-> IF a.irr = Undefined THEN "neutral" ELSE Judged(10 * a.irr >= m.targetIrr),
         leverage  |-> Judged(a.gearing >= m.minLeverage),
         merchant  |-> Judged(a.merchant <= m.maxMerchant),
         country   |-> Judged(a.largestShare <= m.maxCountry),
         shortfall |-> PackShortfall(r),
         multiple  |-> IF a.irr = Undefined THEN Undefined ELSE a.moic,
         coverage  |-> a.cover,
         thirty    |-> a.fcfe_m]

\* _cashflow_svg, over a plot a thousand high; a span of nought counts as one.
PackChart(r, base) ==
    LET v       == r.thirty_m
        highest == Max({0} \cup {v[y] : y \in DOMAIN v})
        lowest  == Min({0} \cup {v[y] : y \in DOMAIN v})
        span    == IF highest = lowest THEN 1 ELSE highest - lowest
    IN  [zero  |-> (1000 * highest) \div span,
         total |-> Total(v),
         bars  |-> [y \in DOMAIN v |->
            [year     |-> base + y - 1,
             negative |-> v[y] < 0,
             height   |-> (1000 * Gap(v[y], 0)) \div span]]]

\* _holdings_table: the floor is marked where a defined coverage is below it.
PackRows(r) ==
    [k \in DOMAIN Selected(r) |->
        [holding |-> Selected(r)[k],
         alert   |-> Selected(r)[k].cover # Undefined
                        /\ Selected(r)[k].cover < r.mandate.minDscr]]

PackCaption(r) == [selected |-> Len(PackRows(r)), considered |-> Len(r.holdings)]

\* sorted by capacity, the larger first, and as they come where equal.
LargerFirst(holdings) ==
    LET before(j, i) == \/ holdings[j].capacity > holdings[i].capacity
                        \/ holdings[j].capacity = holdings[i].capacity /\ j < i
    IN  [n \in DOMAIN holdings |->
            holdings[CHOOSE i \in DOMAIN holdings :
                        Cardinality({j \in DOMAIN holdings : before(j, i)}) = n - 1]]

\* _map_svg: the countries that are lit, and the sites, larger first.
PackMap(r) ==
    [lit   |-> {h.country : h \in ToSet(Selected(r))},
     sites |-> LargerFirst(Selected(r))]

\* _subtitle counts the countries of the selected holdings.
PackCountries(r) == Cardinality({h.country : h \in ToSet(Selected(r))})

\* The base year of the snapshot the run cites.
StoredBaseYear == pending.candidates[1].base

-----------------------------------------------------------------------------
(* The two files.                                                          *)

HoldingsCsv(r) == Selected(r)

\* Mutant: the schedule is of the series with the exit proceeds in it.
CashflowCsvOfTheHold(r, base) ==
    [y \in DOMAIN r.truncated_m |-> [year |-> base + y - 1, amount |-> r.truncated_m[y]]]

CashflowCsv(r, base) ==
    [y \in DOMAIN r.thirty_m |-> [year |-> base + y - 1, amount |-> r.thirty_m[y]]]

-----------------------------------------------------------------------------
(* Properties.                                                             *)

\* Whatever run is stored, the screen, the pack and the files say the same of
\* it: the same verdicts and shortfall on the tiles; one 30-year total in the
\* tile, both captions and the schedule; the same rows in the pack and the
\* file, as many as the tile counts, on the map as in the table; and as many
\* countries (committee.py, _tiles, _document; portfolio.js, tiles; csv.py).
DocumentsAgree ==
    Readable(record) =>
        LET screen == ScreenTiles(record)
            pack   == PackTiles(record)
            csv    == CashflowCsv(record, StoredBaseYear)
            chart  == PackChart(record, StoredBaseYear)
            shown  == ScreenChart(record, StoredBaseYear)
        IN  /\ \A tile \in DOMAIN pack \ {"multiple"} : pack[tile] = screen[tile]
            /\ Total([y \in DOMAIN csv |-> csv[y].amount]) = pack.thirty
            /\ chart.total = pack.thirty /\ shown.total = pack.thirty
            /\ [y \in DOMAIN csv |-> csv[y].year] = [y \in DOMAIN chart.bars |-> chart.bars[y].year]
            /\ (\E y \in DOMAIN record.thirty_m : record.thirty_m[y] # 0) => chart = shown
            /\ [k \in DOMAIN PackRows(record) |-> PackRows(record)[k].holding] = HoldingsCsv(record)
            /\ PackCaption(record).selected = record.aggregates.count
            /\ ToSet(PackMap(record).sites) = ToSet(HoldingsCsv(record))
            /\ (\E k \in DOMAIN PackRows(record) : PackRows(record)[k].alert)
                    <=> pack.coverage # Undefined /\ pack.coverage < record.mandate.minDscr
            /\ PackCountries(record) = ScreenCountries(record)
            /\ Cardinality(PackMap(record).lit) = PackCountries(record)

\* The multiple is dropped from the tile when there is no rate to stand beside
\* (docs/ui-contract.md, 5.1).
NoMultipleWithoutARate ==
    Readable(record) =>
        (record.aggregates.irr = Undefined => ScreenTiles(record).multiple = Undefined)

\* A run reopens with the years it was computed for (docs/spec.md, 11).
YearsAreTheRuns ==
    Readable(record) =>
        ScreenChart(record, ScreenBaseYear) = ScreenChart(record, StoredBaseYear)
=============================================================================
