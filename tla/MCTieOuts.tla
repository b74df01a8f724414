----------------------------- MODULE MCTieOuts ------------------------------
(* Small instances of HouseModel, Workbook and TieOuts for TLC: files of    *)
(* three years.  An analyst's is of a plant that costs 40 of equity and 40  *)
(* of debt, or 40 without debt; the house model's are of plants whose       *)
(* figures divide, since money is integers here.                            *)
EXTENDS HouseModel

\* A year of a file, by what the analyst chooses in it.
Year(runs, interest, principal, debt, equity, owed, wear, plant, cover) ==
    LET revenue == IF runs THEN 60 ELSE 0
        opex    == IF runs THEN 20 ELSE 0
        ebitda  == revenue - opex
        pbt     == ebitda - wear - interest
    IN  [amount |->
            [generation |-> IF runs THEN 3 ELSE 0,
             achievedPrice |-> IF runs THEN 20 ELSE 0,
             revenue |-> revenue, opex |-> opex, ebitda |-> ebitda,
             depreciation |-> wear, ebit |-> ebitda - wear,
             interestExpense |-> interest, pbt |-> pbt, taxExpense |-> 0,
             netIncome |-> pbt, interestPaid |-> interest,
             debtRepayment |-> principal, taxPaid |-> 0,
             capex |-> debt + equity, debtDrawdown |-> debt,
             equityDrawdown |-> equity,
             fcfe |-> ebitda - interest - principal - equity,
             opening |-> owed.opening, drawdown |-> owed.drawdown,
             repayment |-> owed.repayment, closing |-> owed.closing,
             ppe |-> plant],
         dscr |-> cover]

Owed(opening, drawdown, repayment) ==
    [opening |-> opening, drawdown |-> drawdown, repayment |-> repayment,
     closing |-> opening + drawdown - repayment]

Building == Year(FALSE, 0, 0, 0, 40, Owed(0, 0, 0), 0, 40, Null)

\* The loan is drawn, or not, in the year of operation that wears off half
\* of the plant; then it is served, in the schedule and in the cash flow, by
\* interest or by principal, with the cover stated or not.
Commissioned ==
    {Year(TRUE, 0, 20, 40, 0, Owed(0, 40, 20), 40, 40, 2),
     Year(TRUE, 20, 0, 40, 0, Owed(0, 40, 40), 40, 40, 2),
     Year(TRUE, 20, 0, 40, 0, Owed(0, 40, 40), 40, 40, Null),
     Year(TRUE, 0, 0, 0, 0, Owed(0, 0, 0), 20, 20, Null)}

Operating ==
    {Year(TRUE, 0, 20, 0, 0, Owed(20, 0, 20), 40, 0, 2),
     Year(TRUE, 20, 0, 0, 0, Owed(20, 0, 20), 40, 0, 2),
     Year(TRUE, 20, 0, 0, 0, Owed(0, 0, 0), 40, 0, Null),
     Year(TRUE, 0, 0, 0, 0, Owed(0, 0, 0), 20, 0, Null)}

\* One line of a year may be off: by what is tolerated, or by more.
Slips == {<<"closing", 1>>, <<"closing", 2>>, <<"ppe", 1>>, <<"fcfe", 1>>,
          <<"netIncome", 1>>, <<"netIncome", 9>>}

Slipped(row, slip) ==
    [row EXCEPT !.amount = [@ EXCEPT ![slip[1]] = @ + slip[2]]]

MCRows ==
    LET exact == {Building} \cup Commissioned \cup Operating
    IN  exact \cup {Slipped(row, slip) : row \in exact, slip \in Slips}

Plant(debt, cod, tenor) ==
    [totalCapex |-> 40 + debt, seniorDebt |-> debt, cod |-> cod, tenor |-> tenor,
     opex |-> 20, escalation |-> 0]

AnalystHeads ==
    {Plant(0, 1, 0), Plant(40, 1, 2), Plant(40, 1, 1), Plant(40, 1, 0)}

-----------------------------------------------------------------------------
(* What may be drawn for a site: with and without debt, interest, a contract,*)
(* escalation and degradation; built before, at or after the base year; with *)
(* debt that is repaid within the file or not.                              *)

PlainSite ==
    [generation |-> 168, ppaShare |-> 0, ppaPrice |-> 0, ppaTenor |-> 0,
     capture |-> 8, priceEscalation |-> 0, merchantEscalation |-> 0, opex |-> 336,
     opexEscalation |-> 0, taxRate |-> 50, yearsPaid |-> 1, floor |-> 252,
     cap |-> 2016, gearing |-> 75, target |-> 2, life |-> 2, debtRate |-> 1,
     tenor |-> 2, cod |-> 1, degradation |-> 0, ramp |-> 50]

Geared ==
    {[PlainSite EXCEPT !.gearing = g, !.debtRate = r, !.tenor = n, !.cod = c, !.life = l] :
        g \in {0, 25, 75}, r \in {0, 1}, n \in 0 .. 3, c \in -1 .. 3, l \in {2, 3}}

Sites ==
    UNION {{d,
            [d EXCEPT !.ppaTenor = 1, !.ppaShare = 50, !.ppaPrice = 24,
                      !.degradation = 50, !.opex = 0],
            [d EXCEPT !.opexEscalation = 1, !.merchantEscalation = 1],
            [d EXCEPT !.opexEscalation = -1],
            [d EXCEPT !.opex = 1680]} : d \in Geared}

MCDrawn == {d \in Sites : Exact(d)}

MCHeads == AnalystHeads \cup {Declared(Priced(d)) : d \in MCDrawn}
=============================================================================
