--------------------------- MODULE FunctionProofs ---------------------------
(***************************************************************************)
(* Theorems about the parts of the server that are functions of what they  *)
(* are given, whose instances for TLC are in MCFunctions.                  *)
(*                                                                         *)
(* TieOuts and Workbook, for a file of any length, any rows and any        *)
(* tolerances: no check compares a balance with the flows since the first  *)
(* year, nor the cash flow with the income statement; the checks there are *)
(* add up to both, and what their tolerances allow adds up with them.      *)
(* HouseModel, for any plant whose figures divide: what it computes ties,  *)
(* and its annuity repays the debt at the cover it was sized to.           *)
(* Feasibility, for any pipeline, mandate, locks and exclusions: the page  *)
(* and the server are two programs that say the same.  GeneticSearch, for  *)
(* any candidates, costs, objective and size of population.  PipelineLoad, *)
(* for any names and contents of files: the hash and the arrays it cites.  *)
(***************************************************************************)
EXTENDS HouseModel, Feasibility, GeneticSearch, PipelineLoad, SumLemmas

-----------------------------------------------------------------------------
(* Reconciling is additive.                                                *)

\* What was allowed of a balance before and what is allowed of a year add up.
LEMMA PlantStep ==
    ASSUME NEW before \in Int, NEW in \in Int, NEW out \in Int, NEW s \in Int,
           NEW after \in Int, NEW less \in Int, NEW more \in Int, NEW worn \in Int,
           Reconciles(before, in - out, s),
           Reconciles(after, before - less + more, worn)
    PROVE  Reconciles(after, (in + more) - (out + less), s + worn)
  BY DEF Reconciles, Abs

\* A tolerance is a number, whatever it is of.
LEMMA AllowedIsInt ==
    ASSUME NEW a \in Int, NEW b \in Int
    PROVE  Allowed(a, b) \in Int
<1>1. Abs(a) \in Int /\ Abs(b) \in Int
    BY DEF Abs
<1>2. AtLeast(Abs(a), Abs(b)) \in Int
    BY <1>1 DEF AtLeast
<1>3. ToleranceRel * AtLeast(Abs(a), Abs(b)) \in Int /\ 1000 * ToleranceAbs \in Int
    BY <1>2, TieOutConstants
<1> QED
    BY <1>3 DEF Allowed, AtLeast

\* A check that is not broken reconciles its two figures.
LEMMA UnbrokenReconciles ==
    ASSUME NEW a \in Int, NEW b \in Int, ~Breach(a, b)
    PROVE  Reconciles(a, b, Allowed(a, b))
<1>1. Abs(a - b) \in Int
    BY DEF Abs
<1> QED
    BY <1>1, AllowedIsInt DEF Breach, Reconciles

-----------------------------------------------------------------------------
(* Types.                                                                  *)

LEMMA RowAmounts ==
    ASSUME NEW r \in Rows
    PROVE  r.amount \in [Amounts -> Int] /\ r.dscr \in Int \cup {Null}
  BY TieOutConstants DEF Row

\* The figures of a row, one by one.
LEMMA RowFigures ==
    ASSUME NEW r \in Rows
    PROVE  LET a == r.amount
           IN  /\ a.ebitda \in Int /\ a.depreciation \in Int /\ a.ebit \in Int
               /\ a.interestExpense \in Int /\ a.pbt \in Int /\ a.taxExpense \in Int
               /\ a.netIncome \in Int /\ a.interestPaid \in Int
               /\ a.debtRepayment \in Int /\ a.taxPaid \in Int /\ a.capex \in Int
               /\ a.debtDrawdown \in Int /\ a.equityDrawdown \in Int
               /\ a.fcfe \in Int /\ a.opening \in Int /\ a.drawdown \in Int
               /\ a.repayment \in Int /\ a.closing \in Int /\ a.ppe \in Int
  BY RowAmounts DEF Amounts

\* The running totals, one by one.
LEMMA TotalFigures ==
    ASSUME TieOutTypeOK
    PROVE  /\ total.drawdown \in Int /\ total.repayment \in Int
           /\ total.capex \in Int /\ total.depreciation \in Int
           /\ total.netIncome \in Int /\ total.interestExpense \in Int
           /\ total.interestPaid \in Int /\ total.taxExpense \in Int
           /\ total.taxPaid \in Int /\ total.debtRepayment \in Int
           /\ total.equityDrawdown \in Int /\ total.fcfe \in Int
  BY DEF TieOutTypeOK, Amounts

LEMMA TypesHoldInitially == TieOutInit => TieOutTypeOK
  BY TieOutConstants DEF TieOutInit, TieOutTypeOK, NoAmount

\* Both figures of the checks that link years and statements are numbers.
LEMMA LinkedFigures ==
    ASSUME TieOutTypeOK, NEW r \in Rows
    PROVE  LET a == r.amount
           IN  /\ a.opening \in Int /\ closing \in Int
               /\ a.closing \in Int /\ a.opening - a.repayment + a.drawdown \in Int
               /\ a.ppe \in Int /\ ppe - a.depreciation + a.capex \in Int
  BY RowFigures DEF TieOutTypeOK

LEMMA BridgedFigures ==
    ASSUME NEW r \in Rows
    PROVE  LET a == r.amount
           IN  /\ a.ebit \in Int /\ a.ebitda - a.depreciation \in Int
               /\ a.pbt \in Int /\ a.ebit - a.interestExpense \in Int
               /\ a.netIncome \in Int /\ a.pbt - a.taxExpense \in Int
               /\ a.fcfe \in Int
               /\ a.ebitda - a.interestPaid - a.debtRepayment - a.taxPaid
                    - a.capex + a.debtDrawdown \in Int
               /\ a.capex \in Int /\ a.debtDrawdown + a.equityDrawdown \in Int
  BY RowFigures

LEMMA SlackIsTyped ==
    ASSUME TieOutTypeOK, NEW r \in Rows
    PROVE  SlackAfter(r.amount) \in [debt : Int, plant : Int, cash : Int]
<1>1. /\ Allowed(r.amount.opening, closing) \in Int
      /\ Allowed(r.amount.closing,
                 r.amount.opening - r.amount.repayment + r.amount.drawdown) \in Int
      /\ Allowed(r.amount.ppe,
                 ppe - r.amount.depreciation + r.amount.capex) \in Int
    BY LinkedFigures, AllowedIsInt, Zenon
<1>2. /\ Allowed(r.amount.ebit, r.amount.ebitda - r.amount.depreciation) \in Int
      /\ Allowed(r.amount.pbt, r.amount.ebit - r.amount.interestExpense) \in Int
      /\ Allowed(r.amount.netIncome, r.amount.pbt - r.amount.taxExpense) \in Int
      /\ Allowed(r.amount.fcfe,
                 r.amount.ebitda - r.amount.interestPaid - r.amount.debtRepayment
                   - r.amount.taxPaid - r.amount.capex + r.amount.debtDrawdown) \in Int
      /\ Allowed(r.amount.capex,
                 r.amount.debtDrawdown + r.amount.equityDrawdown) \in Int
    BY BridgedFigures, AllowedIsInt, Zenon
<1> QED
    BY <1>1, <1>2
    DEF SlackAfter, Balances, IncomeStatement, CashFlow, TieOutTypeOK

LEMMA ReadingKeepsTypes ==
    ASSUME TieOutTypeOK, NEW r \in Rows, ReadYear(r)
    PROVE  TieOutTypeOK'
<1>2. closing' \in Int /\ ppe' \in Int
    BY RowFigures DEF ReadYear
<1>3. total' \in [Amounts -> Int]
    BY RowAmounts DEF ReadYear, TieOutTypeOK
<1>4. lowest' \in Int \cup {Null}
    BY RowAmounts DEF ReadYear, TieOutTypeOK, LowestCover
<1>5. slack' \in [debt : Int, plant : Int, cash : Int]
    BY SlackIsTyped DEF ReadYear
<1>6. year' \in 0 .. Horizon
    BY TieOutConstants DEF ReadYear, TieOutTypeOK
<1> QED
    BY <1>2, <1>3, <1>4, <1>5, <1>6 DEF ReadYear, TieOutTypeOK

LEMMA TypesAreKept == TieOutTypeOK /\ [TieOutNext]_file => TieOutTypeOK'
<1> SUFFICES ASSUME TieOutTypeOK, [TieOutNext]_file PROVE TieOutTypeOK'
    OBVIOUS
<1>1. ASSUME NEW r \in Rows, ReadYear(r) PROVE TieOutTypeOK'
    BY <1>1, ReadingKeepsTypes
<1>2. CASE Conclude
    BY <1>2 DEF Conclude, TieOutTypeOK
<1>3. CASE UNCHANGED file
    BY <1>3 DEF file, TieOutTypeOK
<1> QED
    BY <1>1, <1>2, <1>3 DEF TieOutNext

\* What is kept of a file is well-typed, however many years it has.
THEOREM TypesOfAFile == TieOutSpec => []TieOutTypeOK
  BY TypesHoldInitially, TypesAreKept, PTL DEF TieOutSpec

-----------------------------------------------------------------------------
(* Balances.                                                               *)

\* A year that fails nothing links its balances to those of the year before.
LEMMA UnbrokenBalances ==
    ASSUME TieOutTypeOK, NEW r \in Rows, YearFailures(r) = {}
    PROVE  LET a == r.amount
           IN  /\ Reconciles(a.opening, closing, Allowed(a.opening, closing))
               /\ Reconciles(a.closing, a.opening - a.repayment + a.drawdown,
                     Allowed(a.closing, a.opening - a.repayment + a.drawdown))
               /\ Reconciles(a.ppe, ppe - a.depreciation + a.capex,
                     Allowed(a.ppe, ppe - a.depreciation + a.capex))
<1> DEFINE a == r.amount
<1>2. Broken(Balances(a)) = {}
    BY DEF YearFailures
<1>3. /\ ~Breach(a.opening, closing)
      /\ ~Breach(a.closing, a.opening - a.repayment + a.drawdown)
      /\ ~Breach(a.ppe, ppe - a.depreciation + a.capex)
    BY <1>2 DEF Broken, Balances
<1> QED
    BY <1>3, LinkedFigures, UnbrokenReconciles, Zenon

LEMMA ReadingKeepsBalances ==
    ASSUME TieOutTypeOK, BalancesAreTheirFlows, NEW r \in Rows, ReadYear(r),
           failures' = {}
    PROVE  BalancesAreTheirFlows'
<1> DEFINE a == r.amount
           opened == Allowed(a.opening, closing)
           rolled == Allowed(a.closing, a.opening - a.repayment + a.drawdown)
           worn   == Allowed(a.ppe, ppe - a.depreciation + a.capex)
<1>1. failures = {} /\ YearFailures(r) = {}
    BY DEF ReadYear
<1>2. /\ Reconciles(closing, total.drawdown - total.repayment, slack.debt)
      /\ Reconciles(ppe, total.capex - total.depreciation, slack.plant)
    BY <1>1 DEF BalancesAreTheirFlows
<1>3. /\ Reconciles(a.opening, closing, opened)
      /\ Reconciles(a.closing, a.opening - a.repayment + a.drawdown, rolled)
      /\ Reconciles(a.ppe, ppe - a.depreciation + a.capex, worn)
    BY <1>1, UnbrokenBalances
<1>4. /\ a.opening \in Int /\ a.closing \in Int /\ a.repayment \in Int
      /\ a.drawdown \in Int /\ a.ppe \in Int /\ a.capex \in Int
      /\ a.depreciation \in Int
      /\ total.drawdown \in Int /\ total.repayment \in Int
      /\ total.capex \in Int /\ total.depreciation \in Int
      /\ closing \in Int /\ ppe \in Int /\ slack.debt \in Int /\ slack.plant \in Int
    BY RowFigures, TotalFigures DEF TieOutTypeOK
<1>5. opened \in Int /\ rolled \in Int /\ worn \in Int
    BY LinkedFigures, AllowedIsInt, Zenon
<1>6. /\ total'.drawdown = total.drawdown + a.drawdown
      /\ total'.repayment = total.repayment + a.repayment
      /\ total'.capex = total.capex + a.capex
      /\ total'.depreciation = total.depreciation + a.depreciation
    BY DEF ReadYear, Amounts
<1>7. /\ closing' = a.closing /\ ppe' = a.ppe
      /\ slack'.debt = slack.debt + opened + rolled
      /\ slack'.plant = slack.plant + worn
  <2>1. closing' = a.closing /\ ppe' = a.ppe /\ slack' = SlackAfter(a)
    BY DEF ReadYear
  <2>2. /\ Balances(a).opening = <<a.opening, closing>>
        /\ Balances(a).closing = <<a.closing, a.opening - a.repayment + a.drawdown>>
        /\ Balances(a).ppe = <<a.ppe, ppe - a.depreciation + a.capex>>
    BY DEF Balances
  <2>. HIDE DEF a
  <2>3. /\ SlackAfter(a).debt = slack.debt + opened + rolled
        /\ SlackAfter(a).plant = slack.plant + worn
    BY <2>2 DEF SlackAfter
  <2>. QED  BY <2>1, <2>3
<1>8. Reconciles(closing', total'.drawdown - total'.repayment, slack'.debt)
  <2>. HIDE DEF opened, rolled
  <2>1. Reconciles(a.closing,
                   (total.drawdown + a.drawdown) - (total.repayment + a.repayment),
                   slack.debt + opened + rolled)
    <3>. HIDE DEF a
    <3>1. Reconciles(closing, total.drawdown - total.repayment, slack.debt)
      BY <1>2
    <3>2. Reconciles(a.opening, closing, opened)
      BY <1>3 DEF opened
    <3>3. Reconciles(a.closing, a.opening - a.repayment + a.drawdown, rolled)
      BY <1>3 DEF rolled
    <3>. QED  BY <1>4, <1>5, <3>1, <3>2, <3>3, SMT DEF Reconciles, Abs
  <2> QED
      BY <2>1, <1>6, <1>7, Zenon
<1>9. Reconciles(ppe', total'.capex - total'.depreciation, slack'.plant)
  <2>1. Reconciles(a.ppe,
                   (total.capex + a.capex) - (total.depreciation + a.depreciation),
                   slack.plant + worn)
      BY <1>2, <1>3, <1>4, <1>5, PlantStep, Zenon
  <2> QED
      BY <2>1, <1>6, <1>7, Zenon
<1> QED
    BY <1>8, <1>9 DEF BalancesAreTheirFlows

\* A balance is its flows since the first year, within the sum of what the
\* tolerances have allowed, in every year of a file that ties out.
THEOREM Balanced == TieOutSpec => []BalancesAreTheirFlows
<1>1. TieOutInit => BalancesAreTheirFlows
    BY DEF TieOutInit, BalancesAreTheirFlows, NoAmount, Amounts, Reconciles, Abs
<1>2. TieOutTypeOK /\ BalancesAreTheirFlows /\ [TieOutNext]_file
        => BalancesAreTheirFlows'
  <2> SUFFICES ASSUME TieOutTypeOK, BalancesAreTheirFlows, [TieOutNext]_file,
                      failures' = {}
               PROVE  BalancesAreTheirFlows'
      BY DEF BalancesAreTheirFlows
  <2>1. ASSUME NEW r \in Rows, ReadYear(r) PROVE BalancesAreTheirFlows'
      BY <2>1, ReadingKeepsBalances
  <2>2. CASE Conclude
      BY <2>2 DEF Conclude, BalancesAreTheirFlows
  <2>3. CASE UNCHANGED file
      BY <2>3 DEF file, BalancesAreTheirFlows
  <2> QED
      BY <2>1, <2>2, <2>3 DEF TieOutNext
<1> QED
    BY <1>1, <1>2, TypesOfAFile, PTL DEF TieOutSpec

-----------------------------------------------------------------------------
(* The bridge from earnings to cash.                                       *)

\* A year that fails nothing bridges its own earnings to its own cash.
LEMMA UnbrokenBridge ==
    ASSUME TieOutTypeOK, NEW r \in Rows, YearFailures(r) = {}
    PROVE  LET a == r.amount
           IN  /\ Reconciles(a.ebit, a.ebitda - a.depreciation,
                             Allowed(a.ebit, a.ebitda - a.depreciation))
               /\ Reconciles(a.pbt, a.ebit - a.interestExpense,
                             Allowed(a.pbt, a.ebit - a.interestExpense))
               /\ Reconciles(a.netIncome, a.pbt - a.taxExpense,
                             Allowed(a.netIncome, a.pbt - a.taxExpense))
               /\ Reconciles(a.fcfe, a.ebitda - a.interestPaid - a.debtRepayment
                                       - a.taxPaid - a.capex + a.debtDrawdown,
                     Allowed(a.fcfe, a.ebitda - a.interestPaid - a.debtRepayment
                                       - a.taxPaid - a.capex + a.debtDrawdown))
               /\ Reconciles(a.capex, a.debtDrawdown + a.equityDrawdown,
                             Allowed(a.capex, a.debtDrawdown + a.equityDrawdown))
<1> DEFINE a == r.amount
<1>1. Broken(IncomeStatement(a)) = {} /\ Broken(CashFlow(a)) = {}
    BY DEF YearFailures
<1>2. /\ ~Breach(a.ebit, a.ebitda - a.depreciation)
      /\ ~Breach(a.pbt, a.ebit - a.interestExpense)
      /\ ~Breach(a.netIncome, a.pbt - a.taxExpense)
    BY <1>1 DEF Broken, IncomeStatement
<1>3. /\ ~Breach(a.fcfe, a.ebitda - a.interestPaid - a.debtRepayment - a.taxPaid
                           - a.capex + a.debtDrawdown)
      /\ ~Breach(a.capex, a.debtDrawdown + a.equityDrawdown)
    BY <1>1 DEF Broken, CashFlow
<1> QED
    BY <1>2, <1>3, BridgedFigures, UnbrokenReconciles, Zenon

LEMMA ReadingKeepsTheBridge ==
    ASSUME TieOutTypeOK, CashIsEarningsBridged, NEW r \in Rows, ReadYear(r),
           failures' = {}
    PROVE  CashIsEarningsBridged'
<1> DEFINE a == r.amount
           m1 == Allowed(a.ebit, a.ebitda - a.depreciation)
           m2 == Allowed(a.pbt, a.ebit - a.interestExpense)
           m3 == Allowed(a.netIncome, a.pbt - a.taxExpense)
           m4 == Allowed(a.fcfe, a.ebitda - a.interestPaid - a.debtRepayment
                                   - a.taxPaid - a.capex + a.debtDrawdown)
           m5 == Allowed(a.capex, a.debtDrawdown + a.equityDrawdown)
<1>1. failures = {} /\ YearFailures(r) = {}
    BY DEF ReadYear
<1>2. m1 \in Int /\ m2 \in Int /\ m3 \in Int /\ m4 \in Int /\ m5 \in Int
    BY BridgedFigures, AllowedIsInt, Zenon
<1>3. /\ m1 + m2 + m3 + m4 + m5 \in Int
      /\ slack.cash \in Int
      /\ slack'.cash = slack.cash + (m1 + m2 + m3 + m4 + m5)
  <2>1. slack'.cash = slack.cash + m1 + m2 + m3 + m4 + m5
      BY DEF ReadYear, SlackAfter, IncomeStatement, CashFlow
  <2>2. slack.cash \in Int
      BY DEF TieOutTypeOK
  <2> HIDE DEF m1, m2, m3, m4, m5
  <2> QED
      BY <2>1, <2>2, <1>2
<1>4. Reconciles(a.fcfe,
                 a.netIncome + a.depreciation + (a.interestExpense - a.interestPaid)
                   + (a.taxExpense - a.taxPaid) - a.debtRepayment - a.equityDrawdown,
                 m1 + m2 + m3 + m4 + m5)
    BY <1>1, <1>2, UnbrokenBridge, RowFigures DEF Reconciles, Abs
<1>5. Reconciles(total.fcfe,
                 total.netIncome + total.depreciation
                   + (total.interestExpense - total.interestPaid)
                   + (total.taxExpense - total.taxPaid)
                   - total.debtRepayment - total.equityDrawdown,
                 slack.cash)
    BY <1>1 DEF CashIsEarningsBridged
<1>6. Reconciles(total.fcfe + a.fcfe,
                 (total.netIncome + a.netIncome) + (total.depreciation + a.depreciation)
                   + ((total.interestExpense + a.interestExpense)
                        - (total.interestPaid + a.interestPaid))
                   + ((total.taxExpense + a.taxExpense) - (total.taxPaid + a.taxPaid))
                   - (total.debtRepayment + a.debtRepayment)
                   - (total.equityDrawdown + a.equityDrawdown),
                 slack.cash + (m1 + m2 + m3 + m4 + m5))
    BY <1>3, <1>4, <1>5, RowFigures, TotalFigures DEF Reconciles, Abs
<1>7. /\ total'.fcfe = total.fcfe + a.fcfe
      /\ total'.netIncome = total.netIncome + a.netIncome
      /\ total'.depreciation = total.depreciation + a.depreciation
      /\ total'.interestExpense = total.interestExpense + a.interestExpense
      /\ total'.interestPaid = total.interestPaid + a.interestPaid
      /\ total'.taxExpense = total.taxExpense + a.taxExpense
      /\ total'.taxPaid = total.taxPaid + a.taxPaid
      /\ total'.debtRepayment = total.debtRepayment + a.debtRepayment
      /\ total'.equityDrawdown = total.equityDrawdown + a.equityDrawdown
    BY DEF ReadYear, Amounts
<1> QED
    BY <1>3, <1>6, <1>7, Zenon DEF CashIsEarningsBridged

\* The cash a file gives its owners is its net income with depreciation added
\* back, the accruals undone, and principal and equity paid, within the sum
\* of what the tolerances have allowed, in every year of a file that ties out.
THEOREM Bridged == TieOutSpec => []CashIsEarningsBridged
<1>1. TieOutInit => CashIsEarningsBridged
    BY DEF TieOutInit, CashIsEarningsBridged, NoAmount, Amounts, Reconciles, Abs
<1>2. TieOutTypeOK /\ CashIsEarningsBridged /\ [TieOutNext]_file
        => CashIsEarningsBridged'
  <2> SUFFICES ASSUME TieOutTypeOK, CashIsEarningsBridged, [TieOutNext]_file,
                      failures' = {}
               PROVE  CashIsEarningsBridged'
      BY DEF CashIsEarningsBridged
  <2>1. ASSUME NEW r \in Rows, ReadYear(r) PROVE CashIsEarningsBridged'
      BY <2>1, ReadingKeepsTheBridge
  <2>2. CASE Conclude
      BY <2>2 DEF Conclude, CashIsEarningsBridged
  <2>3. CASE UNCHANGED file
      BY <2>3 DEF file, CashIsEarningsBridged
  <2> QED
      BY <2>1, <2>2, <2>3 DEF TieOutNext
<1> QED
    BY <1>1, <1>2, TypesOfAFile, PTL DEF TieOutSpec

\* The validator needs no further identity for its files to be one set of
\* statements: balances are their flows, and cash is earnings bridged.
THEOREM Articulated == TieOutSpec => []StatementsArticulate
<1>1. BalancesAreTheirFlows /\ CashIsEarningsBridged => StatementsArticulate
    BY DEF StatementsArticulate
<1> QED
    BY <1>1, Balanced, Bridged, PTL

(***************************************************************************)
(* The sheet of an exported workbook, for any calibration no tighter than  *)
(* the sheet's: a check that fails at the gate fails on the sheet, except  *)
(* for the three of NotOnTheSheet.                                         *)
(***************************************************************************)
-----------------------------------------------------------------------------
(* One comparison.                                                         *)

\* The gate allows at least what the sheet does, whichever of the two figures
\* the sheet measures against.
LEMMA GateIsLooser ==
    ASSUME NEW a \in Int, NEW b \in Int, Breach(a, b)
    PROVE  SheetBreach(a, b) /\ SheetBreach(b, a)
<1> DEFINE larger == AtLeast(Abs(a), Abs(b))
<1>1. /\ Abs(a) \in Int /\ Abs(b) \in Int /\ larger \in Int
      /\ larger >= Abs(a) /\ larger >= Abs(b) /\ larger >= 0
    BY DEF Abs, AtLeast
<1>2. ToleranceRel * larger >= larger
  <2> HIDE DEF larger
  <2>1. ToleranceRel \in Int /\ ToleranceRel - 1 >= 0
      BY TieOutConstants, SheetTolerances
  <2>2. (ToleranceRel - 1) * larger >= 0
      BY <1>1, <2>1
  <2> QED
      BY <1>1, <2>1, <2>2
<1>3. /\ 1000 * ToleranceAbs >= 1000 /\ 1000 * ToleranceAbs \in Int
      /\ ToleranceRel * larger \in Int
    BY <1>1, TieOutConstants, SheetTolerances
<1>4. Abs(a - b) \in Int /\ Abs(b - a) = Abs(a - b)
    BY DEF Abs
<1>5. 1000 * Abs(a - b) > AtLeast(1000 * ToleranceAbs, ToleranceRel * larger)
    BY DEF Breach, Allowed
<1> HIDE DEF larger
<1>6. /\ 1000 * Abs(a - b) > 1000
      /\ 1000 * Abs(a - b) > Abs(a) /\ 1000 * Abs(a - b) > Abs(b)
    BY <1>1, <1>2, <1>3, <1>4, <1>5 DEF AtLeast
<1> QED
    BY <1>1, <1>4, <1>6 DEF SheetBreach, AtLeast

-----------------------------------------------------------------------------
(* The checks of a year.                                                   *)

LEMMA MoreFigures ==
    ASSUME NEW r \in Rows
    PROVE  LET a == r.amount
           IN  /\ a.revenue \in Int /\ a.opex \in Int
               /\ a.revenue - a.opex \in Int
               /\ a.generation * a.achievedPrice \in Int
  BY RowAmounts DEF Amounts

LEMMA StatementsAreOnTheSheet ==
    ASSUME NEW r \in Rows
    PROVE  Broken(IncomeStatement(r.amount)) \subseteq SheetStatements(r.amount)
<1> SUFFICES ASSUME NEW c \in {"ebitda", "ebit", "pbt", "netIncome"},
                    Breach(IncomeStatement(r.amount)[c][1], IncomeStatement(r.amount)[c][2])
             PROVE  SheetBreach(IncomeStatement(r.amount)[c][1],
                                IncomeStatement(r.amount)[c][2])
    BY DEF Broken, SheetStatements, IncomeStatement
<1>1. /\ IncomeStatement(r.amount)[c][1] \in Int
      /\ IncomeStatement(r.amount)[c][2] \in Int
  <2> DEFINE a == r.amount
  <2>1. /\ {a.revenue, a.opex, a.ebitda, a.depreciation, a.ebit} \subseteq Int
        /\ {a.interestExpense, a.pbt, a.taxExpense, a.netIncome} \subseteq Int
    BY RowFigures, BridgedFigures, MoreFigures
  <2> HIDE DEF a
  <2>2. /\ IncomeStatement(a)[c][1] \in Int
        /\ IncomeStatement(a)[c][2] \in Int
    BY <2>1, SMT DEF IncomeStatement
  <2> QED
    BY <2>2 DEF a
<1> QED
    BY <1>1, GateIsLooser

LEMMA RevenueIsOnTheSheet ==
    ASSUME NEW r \in Rows
    PROVE  Broken(Physicals(r.amount)) \ {"opex"} \subseteq SheetRevenue(r.amount)
<1> DEFINE a == r.amount
<1>1. Breach(a.revenue, a.generation * a.achievedPrice) =>
          SheetBreach(a.revenue, a.generation * a.achievedPrice)
    BY MoreFigures, GateIsLooser
<1> QED
    BY <1>1 DEF Broken, Physicals, SheetRevenue

LEMMA CashIsOnTheSheet ==
    ASSUME NEW r \in Rows
    PROVE  Broken(CashFlow(r.amount)) \subseteq SheetCash(r.amount)
<1> SUFFICES ASSUME NEW c \in {"fcfe", "capex"},
                    Breach(CashFlow(r.amount)[c][1], CashFlow(r.amount)[c][2])
             PROVE  SheetBreach(CashFlow(r.amount)[c][1], CashFlow(r.amount)[c][2])
    BY DEF Broken, SheetCash, CashFlow
<1>1. CashFlow(r.amount)[c][1] \in Int /\ CashFlow(r.amount)[c][2] \in Int
    BY BridgedFigures DEF CashFlow
<1> QED
    BY <1>1, GateIsLooser

LEMMA BalancesAreOnTheSheet ==
    ASSUME TieOutTypeOK, year = 0 => closing = 0, NEW r \in Rows
    PROVE  Broken(Balances(r.amount)) \subseteq SheetBalances(r.amount)
<1> DEFINE a == r.amount
<1>1. Breach(a.closing, a.opening - a.repayment + a.drawdown) =>
          SheetBreach(a.closing, a.opening - a.repayment + a.drawdown)
    BY LinkedFigures, GateIsLooser
<1>2. Breach(a.ppe, ppe - a.depreciation + a.capex) =>
          SheetBreach(a.ppe, ppe - a.depreciation + a.capex)
    BY LinkedFigures, GateIsLooser
<1>3. Breach(a.opening, closing) =>
          SheetBreach(a.opening, closing) /\ SheetBreach(closing, a.opening)
    BY LinkedFigures, GateIsLooser
<1>4. ASSUME NEW c \in Broken(Balances(a))
      PROVE  c \in SheetBalances(a)
  <2>1. CASE c = "closing"
      BY <1>1, <1>4, <2>1 DEF Broken, Balances, SheetBalances
  <2>2. CASE c = "ppe"
      BY <1>2, <1>4, <2>2 DEF Broken, Balances, SheetBalances
  <2>3. CASE c = "opening"
      BY <1>3, <1>4, <2>3 DEF Broken, Balances, SheetBalances
  <2> QED
      BY <1>4, <2>1, <2>2, <2>3 DEF Broken, Balances
<1> QED
    BY <1>4

LEMMA YearIsOnTheSheet ==
    ASSUME TieOutTypeOK, year = 0 => closing = 0, NEW r \in Rows
    PROVE  YearFailures(r) \ NotOnTheSheet \subseteq SheetFailures(r)
<1>1. Broken(Cover(r)) \subseteq {"dscr"}
    BY DEF Broken, Cover
<1>2. (IF (r.dscr # Null) = InDebtLife(year) THEN {} ELSE {"coverage"})
          \subseteq SheetCover(r)
    BY DEF SheetCover
<1> QED
    BY <1>1, <1>2, StatementsAreOnTheSheet, RevenueIsOnTheSheet, CashIsOnTheSheet,
       BalancesAreOnTheSheet
    DEF YearFailures, SheetFailures, NotOnTheSheet

-----------------------------------------------------------------------------
(* The checks of the whole file.                                           *)

LEMMA HeaderFigures ==
    ASSUME TieOutTypeOK
    PROVE  head.seniorDebt \in Int /\ head.totalCapex \in Int
               /\ head.totalCapex - head.seniorDebt \in Int
  BY TieOutConstants DEF TieOutTypeOK, Header

LEMMA WholeFileIsOnTheSheet ==
    ASSUME TieOutTypeOK
    PROVE  Broken(WholeFile) \ NotOnTheSheet \subseteq SheetScalars
<1>1. total.debtDrawdown \in Int /\ total.equityDrawdown \in Int /\ total.capex \in Int
    BY DEF TieOutTypeOK, Amounts
<1>2. Breach(total.debtDrawdown, head.seniorDebt) =>
          SheetBreach(head.seniorDebt, total.debtDrawdown)
    BY <1>1, HeaderFigures, GateIsLooser
<1>3. Breach(total.equityDrawdown, head.totalCapex - head.seniorDebt) =>
          SheetBreach(head.totalCapex - head.seniorDebt, total.equityDrawdown)
    BY <1>1, HeaderFigures, GateIsLooser
<1>4. Breach(total.capex, head.totalCapex) => SheetBreach(head.totalCapex, total.capex)
    BY <1>1, HeaderFigures, GateIsLooser
<1>5. Breach(closing, 0) => SheetBreach(0, closing)
    BY GateIsLooser DEF TieOutTypeOK
<1>6. ASSUME NEW c \in Broken(WholeFile), c \notin NotOnTheSheet
      PROVE  c \in SheetScalars
  <2>1. CASE c = "seniorDebt"
      BY <1>2, <1>6, <2>1 DEF Broken, WholeFile, SheetScalars
  <2>2. CASE c = "equity"
      BY <1>3, <1>6, <2>2 DEF Broken, WholeFile, SheetScalars
  <2>3. CASE c = "totalCapex"
      BY <1>4, <1>6, <2>3 DEF Broken, WholeFile, SheetScalars
  <2>4. CASE c = "amortised"
      BY <1>5, <1>6, <2>4 DEF Broken, WholeFile, SheetScalars
  <2> QED
      BY <1>6, <2>1, <2>2, <2>3, <2>4 DEF Broken, WholeFile, NotOnTheSheet
<1> QED
    BY <1>6

-----------------------------------------------------------------------------
(* The theorem.                                                            *)

\* What the gate finds is on the sheet, year by year; before the first year
\* nothing is owed, which is what the sheet's first opening is held against.
SheetIInv ==
    /\ TieOutTypeOK
    /\ year = 0 => closing = 0
    /\ failures \ NotOnTheSheet \subseteq sheet

LEMMA SheetStarts == SheetInit => SheetIInv
  BY TypesHoldInitially DEF SheetInit, SheetIInv, TieOutInit

LEMMA SheetIsKept == SheetIInv /\ [SheetNext]_<<file, sheet>> => SheetIInv'
<1> SUFFICES ASSUME SheetIInv, [SheetNext]_<<file, sheet>>
             PROVE  SheetIInv'
    OBVIOUS
<1>0. TieOutTypeOK'
  <2>1. [TieOutNext]_file
      BY DEF SheetNext, SheetReads, SheetConcludes, TieOutNext, file
  <2> QED
      BY <2>1, TypesAreKept DEF SheetIInv
<1>1. ASSUME NEW r \in Rows, SheetReads(r)
      PROVE  SheetIInv'
  <2>1. year' # 0
      BY <1>1, TieOutConstants DEF SheetReads, ReadYear, SheetIInv, TieOutTypeOK
  <2>2. failures' \ NotOnTheSheet \subseteq sheet'
      BY <1>1, YearIsOnTheSheet DEF SheetReads, ReadYear, SheetIInv
  <2> QED
      BY <1>0, <2>1, <2>2 DEF SheetIInv
<1>2. CASE SheetConcludes
  <2>1. failures' \ NotOnTheSheet \subseteq sheet'
      BY <1>2, WholeFileIsOnTheSheet DEF SheetConcludes, Conclude, SheetIInv
  <2> QED
      BY <1>0, <1>2, <2>1 DEF SheetConcludes, Conclude, SheetIInv
<1>3. CASE UNCHANGED <<file, sheet>>
    BY <1>0, <1>3 DEF SheetIInv, file
<1> QED
    BY <1>1, <1>2, <1>3 DEF SheetNext

\* A workbook whose every check reads PASS fails at the gate only by what is
\* not on the sheet.
THEOREM PassingSheets == SheetSpec => []AllPassMeansItTiesOut
<1>1. SheetIInv => AllPassMeansItTiesOut
    BY DEF SheetIInv, AllPassMeansItTiesOut
<1> QED
    BY <1>1, SheetStarts, SheetIsKept, PTL DEF SheetSpec

-----------------------------------------------------------------------------
(* Powers (TieOuts).                                                       *)

\* What the recursion of a power defines, up to the exponent n.
Powering(base, n, g) == g = [k \in 0 .. n |-> IF k = 0 THEN 1 ELSE base * g[k - 1]]

\* There is such a function.
LEMMA PoweringExists ==
    ASSUME NEW base \in Int, NEW n \in Nat
    PROVE  \E g : Powering(base, n, g)
<1>. DEFINE next == [p \in (1 .. n) \X Int |-> base * p[2]]
<1>1. ASSUME NEW k \in 1 .. n, NEW v \in Int
      PROVE  next[<<k, v>>] = base * v /\ next[<<k, v>>] \in Int
  OBVIOUS
<1>. HIDE DEF next
<1>2. PICK g : Follows(g, n, Int, 1, next)
  <2>1. \A k \in 1 .. n : \A v \in Int : next[<<k, v>>] \in Int
    BY <1>1
  <2>2. 1 \in Int
    OBVIOUS
  <2>. QED  BY <2>1, <2>2, RecursionExists
<1>3. /\ g \in [0 .. n -> Int] /\ g[0] = 1
      /\ \A k \in 1 .. n : g[k] = next[<<k, g[k - 1]>>]
  BY <1>2 DEF Follows
<1>4. ASSUME NEW k \in 1 .. n PROVE g[k] = base * g[k - 1]
  <2>1. g[k - 1] \in Int
    BY <1>3
  <2>. QED  BY <1>1, <1>3, <2>1
<1>5. \A k \in 0 .. n : g[k] = IF k = 0 THEN 1 ELSE base * g[k - 1]
  BY <1>3, <1>4
<1>6. Powering(base, n, g)
  BY <1>3, <1>5 DEF Powering
<1>. QED  BY <1>6

\* However far it is carried, a power is the same.
LEMMA PoweringsAgree ==
    ASSUME NEW base \in Int, NEW n \in Nat, NEW m \in Nat, n <= m,
           NEW g, Powering(base, n, g), NEW h, Powering(base, m, h)
    PROVE  \A k \in 0 .. n : g[k] = h[k] /\ g[k] \in Int
<1>. DEFINE P == {k \in Nat : k <= n => g[k] = h[k] /\ g[k] \in Int}
<1>1. 0 \in P
  <2>1. g[0] = 1 /\ h[0] = 1
    BY DEF Powering
  <2>. QED  BY <2>1
<1>2. ASSUME NEW k \in P PROVE k + 1 \in P
  <2>. SUFFICES ASSUME k + 1 <= n PROVE g[k + 1] = h[k + 1] /\ g[k + 1] \in Int
    OBVIOUS
  <2>1. k \in Nat /\ k + 1 \in 0 .. n /\ k + 1 \in 0 .. m /\ k + 1 # 0 /\ k + 1 - 1 = k
    OBVIOUS
  <2>2. g[k + 1] = base * g[k]
    BY <2>1 DEF Powering
  <2>3. h[k + 1] = base * h[k]
    BY <2>1 DEF Powering
  <2>4. g[k] = h[k] /\ g[k] \in Int
    BY <2>1
  <2>. HIDE DEF P
  <2>. QED  BY <2>2, <2>3, <2>4
<1>3. P = Nat
  <2>. HIDE DEF P
  <2>1. P \in SUBSET Nat
    BY DEF P
  <2>. QED  BY <1>1, <1>2, <2>1, SetInduction
<1>. QED  BY <1>3

\* What a power is, one exponent at a time.
LEMMA Powers ==
    ASSUME NEW base \in Int
    PROVE  /\ Power(base, 0) = 1
           /\ \A n \in Nat : /\ Power(base, n) \in Int
                             /\ Power(base, n + 1) = base * Power(base, n)
<1>. DEFINE p(n) == CHOOSE g : Powering(base, n, g)
<1>1. ASSUME NEW n \in Nat PROVE Powering(base, n, p(n)) /\ Power(base, n) = p(n)[n]
  <2>1. Power(base, n) = p(n)[n]
    BY Zenon DEF Power, Powering
  <2>2. \E g : Powering(base, n, g)
    BY PoweringExists
  <2>3. Powering(base, n, p(n))
    BY <2>2
  <2>. QED  BY <2>1, <2>3
<1>. HIDE DEF p
<1>2. Power(base, 0) = 1
  <2>1. p(0)[0] = 1
    BY <1>1 DEF Powering
  <2>. QED  BY <1>1, <2>1
<1>3. ASSUME NEW n \in Nat
      PROVE Power(base, n) \in Int /\ Power(base, n + 1) = base * Power(base, n)
  <2>1. /\ n + 1 \in Nat /\ n \in 0 .. n /\ n <= n + 1
        /\ n + 1 \in 0 .. n + 1 /\ n + 1 # 0 /\ (n + 1) - 1 = n
    OBVIOUS
  <2>2. p(n)[n] = p(n + 1)[n] /\ p(n)[n] \in Int
    BY <1>1, <2>1, PoweringsAgree
  <2>3. p(n + 1)[n + 1] = base * p(n + 1)[n]
    BY <1>1, <2>1 DEF Powering
  <2>. QED  BY <1>1, <2>1, <2>2, <2>3
<1>. QED  BY <1>2, <1>3

\* A power is a whole number.
LEMMA PowerIsInt == ASSUME NEW base \in Int, NEW n \in Nat PROVE Power(base, n) \in Int
  BY Powers

\* The powers of a number that is not nought are not less than it was before.
LEMMA PowersGrow ==
    ASSUME NEW base \in Nat \ {0}, NEW n \in Nat
    PROVE  /\ Power(base, n) \in Nat \ {0}
           /\ \A k \in 0 .. n : Power(base, k) <= Power(base, n)
<1>. DEFINE P == {m \in Nat : /\ Power(base, m) \in Nat \ {0}
                              /\ \A k \in 0 .. m : Power(base, k) <= Power(base, m)}
<1>0. base \in Int
  OBVIOUS
<1>1. 0 \in P
  <2>1. Power(base, 0) = 1
    BY <1>0, Powers
  <2>2. \A k \in 0 .. 0 : k = 0
    OBVIOUS
  <2>. QED  BY <2>1, <2>2
<1>2. ASSUME NEW m \in P PROVE m + 1 \in P
  <2>1. m \in Nat /\ Power(base, m) \in Nat \ {0}
    OBVIOUS
  <2>2. Power(base, m + 1) = base * Power(base, m)
    BY <1>0, <2>1, Powers
  <2>. DEFINE a == Power(base, m)
  <2>3. Power(base, m + 1) \in Nat \ {0} /\ a <= Power(base, m + 1)
    <3>1. a \in Nat \ {0}
      BY <2>1
    <3>. HIDE DEF a
    <3>2. base * a \in Nat /\ a <= base * a
      BY <3>1
    <3>. QED  BY <2>2, <3>1, <3>2 DEF a
  <2>4. ASSUME NEW k \in 0 .. m + 1 PROVE Power(base, k) <= Power(base, m + 1)
    <3>1. CASE k = m + 1
      BY <2>3, <3>1
    <3>2. CASE k # m + 1
      <4>1. k \in 0 .. m /\ k \in Nat
        BY <2>1, <3>2
      <4>2. Power(base, k) <= a /\ Power(base, k) \in Int
        BY <1>0, <4>1, PowerIsInt
      <4>. HIDE DEF P
      <4>. QED  BY <2>1, <2>3, <4>2
    <3>. QED  BY <3>1, <3>2
  <2>. QED  BY <2>1, <2>3, <2>4
<1>3. P = Nat
  <2>. HIDE DEF P
  <2>1. P \in SUBSET Nat
    BY DEF P
  <2>. QED  BY <1>1, <1>2, <2>1, SetInduction
<1>. QED  BY <1>3

\* What the larger of two is.
LEMMA LargerIs ==
    ASSUME NEW a \in Int, NEW b \in Int
    PROVE  /\ AtLeast(a, b) \in Int /\ AtLeast(a, b) >= a /\ AtLeast(a, b) >= b
           /\ a >= b => AtLeast(a, b) = a
           /\ a <= b => AtLeast(a, b) = b
  BY DEF AtLeast

-----------------------------------------------------------------------------
(* The annuity (HouseModel).                                               *)

\* What the recursion of a schedule defines.
Owing(debt, payment, rate, periods, g) ==
    g = [k \in 0 .. periods |->
            IF k = 0 THEN debt
            ELSE AtLeast(0, g[k - 1] - Repaid(payment, g[k - 1], rate))]

\* What is repaid is a whole number.
LEMMA RepaidIsInt ==
    ASSUME NEW payment \in Int, NEW owed \in Int, NEW rate \in Int
    PROVE  Repaid(payment, owed, rate) \in Int
<1>1. payment - owed * rate \in Int
  OBVIOUS
<1>. QED  BY <1>1, LargerIs DEF Repaid

\* There is such a schedule,
LEMMA OwingExists ==
    ASSUME NEW debt \in Int, NEW payment \in Int, NEW rate \in Int, NEW n \in Nat
    PROVE  \E g : Owing(debt, payment, rate, n, g)
<1>. DEFINE next == [p \in (1 .. n) \X Int |-> AtLeast(0, p[2] - Repaid(payment, p[2], rate))]
<1>1. ASSUME NEW k \in 1 .. n, NEW v \in Int
      PROVE  /\ next[<<k, v>>] = AtLeast(0, v - Repaid(payment, v, rate))
             /\ next[<<k, v>>] \in Int
  <2>1. next[<<k, v>>] = AtLeast(0, v - Repaid(payment, v, rate))
    OBVIOUS
  <2>2. v - Repaid(payment, v, rate) \in Int
    BY RepaidIsInt
  <2>. HIDE DEF next
  <2>. QED  BY <2>1, <2>2, LargerIs
<1>. HIDE DEF next
<1>2. PICK g : Follows(g, n, Int, debt, next)
  <2>1. \A k \in 1 .. n : \A v \in Int : next[<<k, v>>] \in Int
    BY <1>1
  <2>. QED  BY <2>1, RecursionExists
<1>3. /\ g \in [0 .. n -> Int] /\ g[0] = debt
      /\ \A k \in 1 .. n : g[k] = next[<<k, g[k - 1]>>]
  BY <1>2 DEF Follows
<1>4. ASSUME NEW k \in 1 .. n
      PROVE g[k] = AtLeast(0, g[k - 1] - Repaid(payment, g[k - 1], rate))
  <2>1. g[k - 1] \in Int
    BY <1>3
  <2>. QED  BY <1>1, <1>3, <2>1
<1>5. \A k \in 0 .. n : g[k] = IF k = 0 THEN debt
                               ELSE AtLeast(0, g[k - 1] - Repaid(payment, g[k - 1], rate))
  BY <1>3, <1>4
<1>6. Owing(debt, payment, rate, n, g)
  BY <1>3, <1>5 DEF Owing
<1>. QED  BY <1>6

\* and the model's is one.
LEMMA OutstandingIs ==
    ASSUME NEW debt \in Int, NEW rate \in Int, NEW n \in Nat,
           Payment(debt, rate, n) \in Int
    PROVE  Owing(debt, Payment(debt, rate, n), rate, n, Outstanding(debt, rate, n))
<1>. DEFINE payment == Payment(debt, rate, n)
            g == CHOOSE v : Owing(debt, payment, rate, n, v)
<1>1. Outstanding(debt, rate, n) = g
  BY Zenon DEF Outstanding, Owing
<1>2. \E v : Owing(debt, payment, rate, n, v)
  <2>. HIDE DEF payment
  <2>1. payment \in Int
    BY DEF payment
  <2>. QED  BY <2>1, OwingExists
<1>3. Owing(debt, payment, rate, n, g)
  BY <1>2
<1>. QED  BY <1>1, <1>3

\* The payment of an annuity that leaves no remainder.
Level(debt, rate, n) ==
    LET factor == PaymentFactor(rate, n)
    IN  /\ factor.of \in Nat \ {0} /\ factor.to \in Nat \ {0}
        /\ Payment(debt, rate, n) \in Nat \ {0}
        /\ Payment(debt, rate, n) * factor.to = debt * factor.of

\* The factor of an annuity is a fraction of two numbers that are not nought.
LEMMA FactorIsPositive ==
    ASSUME NEW rate \in Nat, NEW n \in Nat \ {0}
    PROVE  LET factor == PaymentFactor(rate, n)
           IN  factor.of \in Nat \ {0} /\ factor.to \in Nat \ {0}
<1>. DEFINE q == Power(1 + rate, n)
<1>1. CASE rate = 0
  BY <1>1 DEF PaymentFactor
<1>2. CASE rate # 0
  <2>1. 1 + rate \in Nat \ {0} /\ 1 \in 0 .. n /\ 0 \in Nat /\ 0 + 1 = 1 /\ 1 + rate \in Int
    OBVIOUS
  <2>2. Power(1 + rate, 1) = 1 + rate
    <3>1. Power(1 + rate, 0 + 1) = (1 + rate) * Power(1 + rate, 0) /\ Power(1 + rate, 0) = 1
      BY <2>1, Powers
    <3>. QED  BY <3>1
  <2>3. q \in Nat \ {0} /\ 1 + rate <= q
    BY <2>1, <2>2, PowersGrow
  <2>4. PaymentFactor(rate, n) = [of |-> rate * q, to |-> q - 1]
    BY <1>2 DEF PaymentFactor
  <2>. HIDE DEF q
  <2>5. rate * q \in Nat \ {0} /\ q - 1 \in Nat \ {0}
    BY <1>2, <2>3
  <2>. QED  BY <2>4, <2>5
<1>. QED  BY <1>1, <1>2

\* A payment that leaves no remainder is such a one.
LEMMA PaymentIsLevel ==
    ASSUME NEW debt \in Nat \ {0}, NEW rate \in Nat, NEW n \in Nat \ {0},
           Divides(PaymentFactor(rate, n).to, debt * PaymentFactor(rate, n).of)
    PROVE  Level(debt, rate, n)
<1>. DEFINE of == PaymentFactor(rate, n).of
            to == PaymentFactor(rate, n).to
            p == Payment(debt, rate, n)
<1>1. of \in Nat \ {0} /\ to \in Nat \ {0}
  BY FactorIsPositive
<1>2. p = (debt * of) \div to
  BY DEF Payment
<1>3. (debt * of) % to = 0
  BY DEF Divides
<1>. HIDE DEF of, to, p
<1>4. debt * of \in Nat \ {0}
  BY <1>1
<1>5. debt * of = to * p /\ p \in Int
  BY <1>1, <1>2, <1>3, <1>4, DivExact
<1>6. p > 0
  <2>1. CASE p <= 0
    <3>1. to * p <= 0
      BY <1>1, <1>5, <2>1
    <3>. QED  BY <1>4, <1>5, <3>1
  <2>. QED  BY <1>5, <2>1
<1>7. p * to = debt * of
  BY <1>1, <1>5
<1>. QED  BY <1>1, <1>5, <1>6, <1>7 DEF Level, of, to, p

\* A payment repays what it does not need for interest, and does not repay
\* more than is owed, as long as it covers the one and is within the two.
LEMMA OneRepayment ==
    ASSUME NEW p \in Nat, NEW owed \in Nat, NEW interest \in Nat, NEW rate \in Nat,
           interest = owed * rate, interest <= p, p - interest <= owed
    PROVE  /\ Repaid(p, owed, rate) = p - interest
           /\ AtLeast(0, owed - Repaid(p, owed, rate)) = owed - (p - interest)
<1>1. Repaid(p, owed, rate) = AtLeast(0, p - interest)
  BY DEF Repaid
<1>2. AtLeast(0, p - interest) = p - interest
  BY LargerIs
<1>3. AtLeast(0, owed - (p - interest)) = owed - (p - interest)
  BY LargerIs
<1>. QED  BY <1>1, <1>2, <1>3

\* Without interest a payment repays the same share of the debt each time.
LEMMA RepaidInShares ==
    ASSUME NEW n \in Nat \ {0}, NEW p \in Nat \ {0}, NEW debt \in Nat, debt = p * n,
           NEW g, Owing(debt, p, 0, n, g)
    PROVE  \A k \in 0 .. n : g[k] = debt - k * p /\ g[k] \in Nat
<1>. DEFINE P == {k \in Nat : k <= n => g[k] = debt - k * p}
<1>0. ASSUME NEW k \in Nat, k <= n PROVE debt - k * p \in Nat
  <2>1. (n - k) * p \in Nat
    BY <1>0
  <2>2. (n - k) * p = n * p - k * p /\ n * p = p * n
    BY <1>0
  <2>. QED  BY <2>1, <2>2
<1>1. 0 \in P
  <2>1. g[0] = debt
    BY DEF Owing
  <2>. QED  BY <2>1
<1>2. ASSUME NEW k \in P PROVE k + 1 \in P
  <2>. SUFFICES ASSUME k + 1 <= n PROVE g[k + 1] = debt - (k + 1) * p
    OBVIOUS
  <2>1. k \in Nat /\ k + 1 \in 0 .. n /\ k + 1 # 0 /\ k + 1 - 1 = k
    OBVIOUS
  <2>2. g[k + 1] = AtLeast(0, g[k] - Repaid(p, g[k], 0))
    BY <2>1 DEF Owing
  <2>3. g[k] = debt - k * p
    BY <2>1
  <2>4. debt - (k + 1) * p \in Nat /\ g[k] \in Nat
    BY <1>0, <2>1, <2>3
  <2>5. debt - (k + 1) * p = g[k] - p
    <3>1. (k + 1) * p = k * p + p
      BY <2>1
    <3>2. k * p \in Int
      BY <2>1
    <3>. QED  BY <2>3, <3>1, <3>2
  <2>6. p - 0 <= g[k] /\ 0 = g[k] * 0
    BY <2>4, <2>5
  <2>7. AtLeast(0, g[k] - Repaid(p, g[k], 0)) = g[k] - (p - 0)
    <3>. DEFINE owed == g[k]
    <3>1. owed \in Nat /\ p - 0 <= owed /\ 0 = owed * 0
      BY <2>4, <2>6
    <3>. HIDE DEF owed, P
    <3>2. Repaid(p, owed, 0) = p
      <4>1. p - owed * 0 = p /\ 0 <= p
        BY <3>1
      <4>. QED  BY <4>1, LargerIs DEF Repaid
    <3>3. AtLeast(0, owed - p) = owed - p
      BY <3>1, LargerIs
    <3>. QED  BY <3>1, <3>2, <3>3 DEF owed
  <2>. QED  BY <2>2, <2>4, <2>5, <2>7
<1>3. P = Nat
  <2>. HIDE DEF P
  <2>1. P \in SUBSET Nat
    BY DEF P
  <2>. QED  BY <1>1, <1>2, <2>1, SetInduction
<1>4. ASSUME NEW k \in 0 .. n PROVE g[k] = debt - k * p /\ g[k] \in Nat
  <2>1. k \in Nat /\ k <= n
    OBVIOUS
  <2>2. g[k] = debt - k * p
    BY <1>3, <2>1
  <2>. QED  BY <1>0, <2>1, <2>2
<1>. QED  BY <1>4

\* With interest, what is owed is worth the payments that are left of it: the
\* powers of 1 + rate between then and the last, in units of c.
LEMMA RepaidInPowers ==
    ASSUME NEW n \in Nat \ {0}, NEW rate \in Nat \ {0}, NEW p \in Nat \ {0},
           NEW debt \in Nat, NEW c \in Nat,
           p = c * Power(1 + rate, n), rate * debt = p - c,
           NEW g, Owing(debt, p, rate, n, g)
    PROVE  /\ \A k \in 0 .. n : /\ g[k] \in Nat
                                /\ rate * g[k] = p - c * Power(1 + rate, k)
           /\ \A k \in 0 .. n - 1 : /\ g[k + 1] = g[k] - c * Power(1 + rate, k)
                                    /\ c * Power(1 + rate, k) \in Nat
<1>. DEFINE q(k) == Power(1 + rate, k)
            P == {k \in Nat : k <= n => g[k] \in Nat /\ rate * g[k] = p - c * q(k)}
<1>0. 1 + rate \in Nat \ {0} /\ 1 + rate \in Int
  OBVIOUS
<1>1. /\ q(0) = 1
      /\ \A k \in Nat : q(k) \in Nat \ {0} /\ q(k + 1) = (1 + rate) * q(k)
  BY <1>0, Powers, PowersGrow
<1>2. \A k \in 0 .. n : q(k) <= q(n)
  BY <1>0, PowersGrow
<1>3. p = c * q(n)
  OBVIOUS
<1>. HIDE DEF q
<1>4. ASSUME NEW k \in Nat, k + 1 <= n, g[k] \in Nat, rate * g[k] = p - c * q(k)
      PROVE  /\ g[k + 1] = g[k] - c * q(k) /\ c * q(k) \in Nat
             /\ g[k + 1] \in Nat /\ rate * g[k + 1] = p - c * q(k + 1)
  <2>. DEFINE owed == g[k]
              paid == c * q(k)
              rest == c * q(k + 1)
  <2>1. k + 1 \in 0 .. n /\ k + 1 # 0 /\ k + 1 - 1 = k /\ k \in 0 .. n /\ n \in Nat
    BY <1>4
  <2>2. g[k + 1] = AtLeast(0, owed - Repaid(p, owed, rate))
    BY <2>1 DEF Owing
  <2>3. q(k) \in Nat /\ q(k + 1) \in Nat /\ q(n) \in Nat /\ q(k + 1) <= q(n)
        /\ q(k + 1) = (1 + rate) * q(k)
    BY <1>1, <1>2, <2>1
  <2>4. paid \in Nat /\ rest \in Nat
    BY <2>3
  <2>5. rest <= p
    <3>1. ASSUME NEW a \in Nat, NEW b \in Nat, a <= b PROVE c * a <= c * b
      BY <3>1
    <3>. QED  BY <1>3, <2>3, <3>1
  <2>6. rest = paid + rate * paid
    <3>1. ASSUME NEW a \in Nat PROVE c * ((1 + rate) * a) = c * a + rate * (c * a)
      BY <3>1
    <3>. QED  BY <2>3, <3>1
  <2>7. owed \in Nat /\ rate * owed = p - paid
    BY <1>4
  <2>. HIDE DEF owed, paid, rest
  <2>8. rate * paid <= rate * owed /\ rate * paid \in Nat /\ rate * owed \in Nat
    BY <2>4, <2>5, <2>6, <2>7
  <2>9. paid <= owed
    <3>1. CASE owed < paid
      <4>1. rate * (paid - owed) > 0
        BY <2>4, <2>7, <3>1
      <4>2. rate * (paid - owed) = rate * paid - rate * owed
        BY <2>4, <2>7
      <4>. QED  BY <2>8, <4>1, <4>2
    <3>. QED  BY <2>4, <2>7, <3>1
  <2>10. AtLeast(0, owed - Repaid(p, owed, rate)) = owed - paid
    <3>. DEFINE interest == rate * owed
    <3>1. interest \in Nat /\ interest <= p /\ p - interest = paid /\ interest = owed * rate
      BY <2>4, <2>7, <2>8
    <3>. HIDE DEF interest
    <3>. QED  BY <2>7, <2>9, <3>1, OneRepayment
  <2>11. g[k + 1] = owed - paid /\ owed - paid \in Nat
    BY <2>2, <2>4, <2>7, <2>9, <2>10
  <2>12. rate * (owed - paid) = p - rest
    <3>1. rate * (owed - paid) = rate * owed - rate * paid
      BY <2>4, <2>7
    <3>. QED  BY <2>4, <2>6, <2>7, <2>8, <3>1
  <2>13. rate * g[k + 1] = p - rest
    BY <2>11, <2>12
  <2>. QED  BY <2>4, <2>11, <2>13 DEF owed, paid, rest
<1>5. 0 \in P
  <2>1. g[0] = debt
    BY DEF Owing
  <2>2. c * q(0) = c
    BY <1>1
  <2>. QED  BY <2>1, <2>2
<1>6. ASSUME NEW k \in P PROVE k + 1 \in P
  <2>. SUFFICES ASSUME k + 1 <= n
                PROVE  g[k + 1] \in Nat /\ rate * g[k + 1] = p - c * q(k + 1)
    OBVIOUS
  <2>1. k \in Nat /\ g[k] \in Nat /\ rate * g[k] = p - c * q(k)
    OBVIOUS
  <2>. HIDE DEF P
  <2>. QED  BY <1>4, <2>1
<1>7. P = Nat
  <2>. HIDE DEF P
  <2>1. P \in SUBSET Nat
    BY DEF P
  <2>. QED  BY <1>5, <1>6, <2>1, SetInduction
<1>8. ASSUME NEW k \in 0 .. n PROVE g[k] \in Nat /\ rate * g[k] = p - c * q(k)
  <2>1. k \in P /\ k <= n
    BY <1>7
  <2>. QED  BY <2>1
<1>9. ASSUME NEW k \in 0 .. n - 1 PROVE g[k + 1] = g[k] - c * q(k) /\ c * q(k) \in Nat
  <2>1. k \in Nat /\ k + 1 <= n /\ k \in 0 .. n
    OBVIOUS
  <2>. HIDE DEF P
  <2>. QED  BY <1>4, <1>8, <2>1
<1>. QED  BY <1>8, <1>9 DEF q

\* What a schedule comes to.
Amortising(debt, rate, n) ==
    LET p      == Payment(debt, rate, n)
        owed   == Outstanding(debt, rate, n)
        repaid == Principal(debt, rate, n)
    IN  /\ owed[0] = debt /\ owed[n] = 0
        /\ \A k \in 0 .. n : owed[k] \in Nat
        /\ \A k \in 0 .. n - 1 : /\ repaid[k] \in Nat
                                 /\ owed[k + 1] = owed[k] - repaid[k]
                                 /\ owed[k] * rate + repaid[k] = p

\* Both cases come to that.
LEMMA AmortisesWithoutInterest ==
    ASSUME NEW debt \in Nat \ {0}, NEW n \in Nat \ {0}, Level(debt, 0, n)
    PROVE  Amortising(debt, 0, n)
<1>. DEFINE p == Payment(debt, 0, n)
            g == Outstanding(debt, 0, n)
            repaid == Principal(debt, 0, n)
<1>1. p \in Nat \ {0} /\ debt = p * n
  <2>1. PaymentFactor(0, n) = [of |-> 1, to |-> n]
    BY DEF PaymentFactor
  <2>2. p \in Nat \ {0} /\ p * n = debt * 1
    BY <2>1 DEF Level
  <2>. HIDE DEF p
  <2>. QED  BY <2>2
<1>2. Owing(debt, p, 0, n, g)
  <2>1. debt \in Int /\ 0 \in Int /\ n \in Nat /\ p \in Int
    BY <1>1
  <2>. QED  BY <2>1, OutstandingIs
<1>3. \A k \in 0 .. n - 1 : repaid[k] = Repaid(p, g[k], 0)
  BY DEF Principal
<1>. HIDE DEF p, g, repaid
<1>4. \A k \in 0 .. n : g[k] = debt - k * p /\ g[k] \in Nat
  <2>1. debt \in Nat
    OBVIOUS
  <2>. QED  BY <1>1, <1>2, <2>1, RepaidInShares
<1>5. g[0] = debt /\ g[n] = 0
  <2>1. 0 \in 0 .. n /\ n \in 0 .. n
    OBVIOUS
  <2>2. debt - 0 * p = debt /\ debt - n * p = 0
    BY <1>1
  <2>. QED  BY <1>4, <2>1, <2>2
<1>6. ASSUME NEW k \in 0 .. n - 1
      PROVE repaid[k] \in Nat /\ g[k + 1] = g[k] - repaid[k] /\ g[k] * 0 + repaid[k] = p
  <2>1. k \in 0 .. n /\ k + 1 \in 0 .. n /\ k \in Nat
    OBVIOUS
  <2>2. g[k] \in Nat
    BY <1>4, <2>1
  <2>3. repaid[k] = p
    <3>. DEFINE owed == g[k]
    <3>1. owed \in Nat
      BY <2>2
    <3>. HIDE DEF owed
    <3>2. p - owed * 0 = p /\ 0 <= p
      BY <1>1, <3>1
    <3>3. Repaid(p, owed, 0) = p
      BY <1>1, <3>2, LargerIs DEF Repaid
    <3>. QED  BY <1>3, <3>3 DEF owed
  <2>4. g[k + 1] = g[k] - p
    <3>1. (k + 1) * p = k * p + p /\ k * p \in Int
      BY <1>1, <2>1
    <3>. QED  BY <1>1, <1>4, <2>1, <3>1
  <2>. QED  BY <1>1, <2>2, <2>3, <2>4
<1>. QED  BY <1>4, <1>5, <1>6 DEF Amortising, p, g, repaid

LEMMA AmortisesWithInterest ==
    ASSUME NEW debt \in Nat \ {0}, NEW rate \in Nat \ {0}, NEW n \in Nat \ {0},
           Level(debt, rate, n)
    PROVE  Amortising(debt, rate, n)
<1>. DEFINE p == Payment(debt, rate, n)
            g == Outstanding(debt, rate, n)
            repaid == Principal(debt, rate, n)
            q(k) == Power(1 + rate, k)
            c == p - rate * debt
<1>1. p \in Nat \ {0} /\ p * (q(n) - 1) = debt * (rate * q(n))
  BY DEF Level, PaymentFactor
<1>2. Owing(debt, p, rate, n, g)
  <2>1. debt \in Int /\ rate \in Int /\ n \in Nat /\ p \in Int
    BY <1>1
  <2>. QED  BY <2>1, OutstandingIs
<1>3. \A k \in 0 .. n - 1 : repaid[k] = Repaid(p, g[k], rate)
  BY DEF Principal
<1>4. q(n) \in Nat \ {0}
  <2>1. 1 + rate \in Nat \ {0} /\ n \in Nat
    OBVIOUS
  <2>. QED  BY <2>1, PowersGrow
<1>. HIDE DEF p, g, repaid, q
<1>5. p = c * q(n) /\ c \in Nat
  <2>1. c \in Int
    BY <1>1
  <2>2. c * q(n) = p
    <3>1. ASSUME NEW a \in Int, NEW b \in Int, a * (b - 1) = debt * (rate * b)
          PROVE  (a - rate * debt) * b = a
      <4>1. a * (b - 1) = a * b - a
        OBVIOUS
      <4>2. debt * (rate * b) = (rate * debt) * b
        OBVIOUS
      <4>3. (a - rate * debt) * b = a * b - (rate * debt) * b
        OBVIOUS
      <4>. QED  BY <3>1, <4>1, <4>2, <4>3
    <3>. QED  BY <1>1, <1>4, <3>1
  <2>3. c >= 0
    <3>. HIDE DEF c
    <3>1. CASE c < 0
      <4>1. c * q(n) <= 0
        BY <1>4, <2>1, <3>1
      <4>. QED  BY <1>1, <2>2, <4>1
    <3>. QED  BY <2>1, <3>1
  <2>. QED  BY <2>1, <2>2, <2>3
<1>6. rate * debt = p - c
  BY <1>1
<1>. HIDE DEF c
<1>7. /\ \A k \in 0 .. n : g[k] \in Nat /\ rate * g[k] = p - c * q(k)
      /\ \A k \in 0 .. n - 1 : g[k + 1] = g[k] - c * q(k) /\ c * q(k) \in Nat
  <2>1. p = c * Power(1 + rate, n) /\ debt \in Nat
    BY <1>5 DEF q
  <2>. QED  BY <1>1, <1>2, <1>5, <1>6, <2>1, RepaidInPowers DEF q
<1>8. g[0] = debt /\ g[n] = 0
  <2>1. g[0] = debt
    BY <1>2 DEF Owing
  <2>2. n \in 0 .. n
    OBVIOUS
  <2>3. g[n] \in Nat /\ rate * g[n] = 0
    BY <1>1, <1>5, <1>7, <2>2
  <2>4. g[n] = 0
    BY <2>3
  <2>. QED  BY <2>1, <2>4
<1>9. ASSUME NEW k \in 0 .. n - 1
      PROVE repaid[k] \in Nat /\ g[k + 1] = g[k] - repaid[k] /\ g[k] * rate + repaid[k] = p
  <2>. DEFINE paid == c * q(k)
              owed == g[k]
  <2>1. k \in 0 .. n
    OBVIOUS
  <2>2. owed \in Nat /\ paid \in Nat /\ rate * owed = p - paid /\ g[k + 1] = owed - paid
    BY <1>7, <2>1
  <2>. HIDE DEF paid, owed
  <2>3. owed * rate = p - paid /\ p - owed * rate = paid
    BY <1>1, <2>2
  <2>4. Repaid(p, owed, rate) = paid
    BY <2>2, <2>3, LargerIs DEF Repaid
  <2>5. repaid[k] = paid
    BY <1>3, <2>4 DEF owed
  <2>6. owed * rate + paid = p
    BY <1>1, <2>2, <2>3
  <2>. QED  BY <2>2, <2>5, <2>6 DEF owed
<1>. QED  BY <1>7, <1>8, <1>9 DEF Amortising, p, g, repaid

\* A schedule of level payments repays the debt in as many periods, and no
\* more: the two floors at zero are never met ("on a well-formed annuity neither
\* floor ever binds", annuity.py, schedule).
THEOREM Amortises ==
    ASSUME NEW debt \in Nat \ {0}, NEW rate \in Nat, NEW n \in Nat \ {0},
           Level(debt, rate, n)
    PROVE  Amortising(debt, rate, n)
<1>1. CASE rate = 0
  BY <1>1, AmortisesWithoutInterest
<1>2. CASE rate # 0
  <2>1. rate \in Nat \ {0}
    BY <1>2
  <2>. QED  BY <2>1, AmortisesWithInterest
<1>. QED  BY <1>1, <1>2

-----------------------------------------------------------------------------
(* What a plant is priced at (HouseModel).                                 *)

\* What is drawn for a site.
Figures == {"generation", "ppaShare", "ppaPrice", "ppaTenor", "capture",
            "priceEscalation", "merchantEscalation", "opex", "opexEscalation",
            "taxRate", "yearsPaid", "floor", "cap", "gearing", "target", "life",
            "debtRate", "tenor", "cod", "degradation", "ramp"}

\* Pricing adds two figures, and keeps the others.
LEMMA PricedFigures ==
    ASSUME NEW d \in Drawn
    PROVE  /\ \A f \in Figures : Priced(d)[f] = d[f]
           /\ Priced(d).totalCapex = Capex(d) /\ Priced(d).seniorDebt = SeniorDebt(d)
<1>. DEFINE price == [totalCapex |-> Capex(d), seniorDebt |-> SeniorDebt(d)]
<1>1. DOMAIN d = Figures
  <2>1. d \in Draws
    BY DrawnAreExact
  <2>. QED  BY <2>1 DEF Draws, Figures
<1>2. DOMAIN price = {"totalCapex", "seniorDebt"}
  OBVIOUS
<1>3. price.totalCapex = Capex(d) /\ price.seniorDebt = SeniorDebt(d)
  OBVIOUS
<1>4. Priced(d) = [f \in DOMAIN d \cup DOMAIN price |->
                      IF f \in DOMAIN d THEN d[f] ELSE price[f]]
  BY DEF Priced
<1>. HIDE DEF price
<1>5. Priced(d) = [f \in Figures \cup {"totalCapex", "seniorDebt"} |->
                      IF f \in Figures THEN d[f] ELSE price[f]]
  BY <1>1, <1>2, <1>4
<1>6. "totalCapex" \notin Figures /\ "seniorDebt" \notin Figures
  BY DEF Figures
<1>7. \A f \in Figures : Priced(d)[f] = d[f]
  BY <1>5
<1>8. /\ Priced(d)["totalCapex"] = price["totalCapex"]
      /\ Priced(d)["seniorDebt"] = price["seniorDebt"]
  BY <1>5, <1>6
<1>. QED  BY <1>3, <1>7, <1>8

\* What is priced is what was drawn, in the figures that pricing reads.
LEMMA PricedIsDrawn ==
    ASSUME NEW d \in Drawn, NEW i, i = Priced(d)
    PROVE  /\ i.generation = d.generation /\ i.ppaShare = d.ppaShare
           /\ i.ppaPrice = d.ppaPrice /\ i.ppaTenor = d.ppaTenor
           /\ i.capture = d.capture /\ i.priceEscalation = d.priceEscalation
           /\ i.merchantEscalation = d.merchantEscalation /\ i.opex = d.opex
           /\ i.opexEscalation = d.opexEscalation /\ i.taxRate = d.taxRate
           /\ i.yearsPaid = d.yearsPaid /\ i.floor = d.floor /\ i.cap = d.cap
           /\ i.gearing = d.gearing /\ i.target = d.target /\ i.life = d.life
           /\ i.debtRate = d.debtRate /\ i.tenor = d.tenor /\ i.cod = d.cod
           /\ i.degradation = d.degradation /\ i.ramp = d.ramp
  BY PricedFigures DEF Figures

\* Priced again, it has the same price.
LEMMA SamePrice ==
    ASSUME NEW d \in Drawn, NEW i, i = Priced(d)
    PROVE  /\ Stabilised(i) = Stabilised(d) /\ Capex(i) = Capex(d)
           /\ Ceiling(i) = Ceiling(d) /\ Serviceable(i) = Serviceable(d)
           /\ Sculpted(i) = Sculpted(d) /\ SeniorDebt(i) = SeniorDebt(d)
<1>1. Stabilised(i) = Stabilised(d)
  <2>1. Generation(i, 1) = Generation(d, 1)
    BY PricedIsDrawn DEF Generation
  <2>2. AchievedPrice(i, 1) = AchievedPrice(d, 1)
    BY PricedIsDrawn DEF AchievedPrice
  <2>. QED  BY <2>1, <2>2, PricedIsDrawn, Zenon DEF Stabilised
<1>2. Capex(i) = Capex(d)
  BY <1>1, PricedIsDrawn, Zenon DEF Capex
<1>3. Ceiling(i) = Ceiling(d)
  BY <1>2, PricedIsDrawn, Zenon DEF Ceiling
<1>4. Serviceable(i) = Serviceable(d)
  BY <1>1, PricedIsDrawn, Zenon DEF Serviceable
<1>5. Sculpted(i) = Sculpted(d)
  BY <1>3, <1>4, PricedIsDrawn, Zenon DEF Sculpted
<1>6. SeniorDebt(i) = SeniorDebt(d)
  BY <1>3, <1>4, <1>5, PricedIsDrawn, Zenon DEF SeniorDebt
<1>. QED  BY <1>1, <1>2, <1>3, <1>4, <1>5, <1>6

\* A plant that is modelled: what was drawn for a site, at its price.
IsPlant(i) ==
    \E d \in Drawn : i = Priced(d) /\ Declared(i) \in Header

\* What of it is a number.
LEMMA PlantFigures ==
    ASSUME NEW i, IsPlant(i)
    PROVE  /\ i.totalCapex \in Nat /\ i.seniorDebt \in Nat /\ i.seniorDebt <= i.totalCapex
           /\ i.cod \in Int /\ i.tenor \in Nat /\ i.opex \in Nat /\ i.opexEscalation \in Int
           /\ i.generation \in Nat /\ i.ppaShare \in Nat /\ i.ppaPrice \in Nat
           /\ i.capture \in Nat /\ i.priceEscalation \in Int
           /\ i.merchantEscalation \in Int /\ i.taxRate \in Nat /\ i.target \in Nat \ {0}
           /\ i.life \in Nat \ {0} /\ i.debtRate \in Int /\ i.degradation \in 0 .. 100
           /\ i.ramp \in Nat /\ i.gearing \in Nat /\ i.yearsPaid \in Nat
           /\ i.floor \in Nat /\ i.cap \in Nat
<1>1. PICK d \in Drawn : i = Priced(d) /\ Declared(i) \in Header
  BY DEF IsPlant
<1>2. d \in Draws
  BY DrawnAreExact
<1>3. /\ i.totalCapex \in Nat /\ i.seniorDebt \in Nat /\ i.seniorDebt <= i.totalCapex
      /\ i.opexEscalation \in Int
  BY <1>1, Zenon DEF Declared, Header
<1>4. /\ d.generation \in Nat /\ d.ppaShare \in Nat /\ d.ppaPrice \in Nat
      /\ d.capture \in Nat /\ d.priceEscalation \in Int /\ d.tenor \in Nat
      /\ d.opex \in Nat /\ d.cod \in Int
      /\ d.merchantEscalation \in Int /\ d.taxRate \in Nat /\ d.target \in Nat \ {0}
      /\ d.life \in Nat \ {0} /\ d.debtRate \in Int /\ d.degradation \in 0 .. 100
      /\ d.ramp \in Nat /\ d.gearing \in Nat /\ d.yearsPaid \in Nat
      /\ d.floor \in Nat /\ d.cap \in Nat
  BY <1>2 DEF Draws
<1>. QED  BY <1>1, <1>3, <1>4, PricedIsDrawn

\* Generation and price are whole numbers, at any age.
LEMMA OperationFigures ==
    ASSUME NEW i, IsPlant(i), NEW age \in Nat
    PROVE  Generation(i, age) \in Int /\ AchievedPrice(i, age) \in Int
<1>1. Generation(i, age) \in Int
  <2>. DEFINE a == Power(100 - i.degradation, age)
              b == Power(100, age)
              aged == (i.generation * a) \div b
  <2>1. a \in Int /\ b \in Nat \ {0}
    <3>1. 100 - i.degradation \in Int /\ 100 \in Nat \ {0}
      BY PlantFigures
    <3>. QED  BY <3>1, PowerIsInt, PowersGrow
  <2>2. Generation(i, age) = IF age = 0 THEN (aged * i.ramp) \div 100 ELSE aged
    BY DEF Generation
  <2>3. i.generation \in Int /\ i.ramp \in Int
    BY PlantFigures
  <2>. HIDE DEF a, b
  <2>4. i.generation * a \in Int
    BY <2>1, <2>3
  <2>5. aged \in Int
    BY <2>1, <2>4, DivBounds
  <2>. HIDE DEF aged
  <2>6. aged * i.ramp \in Int
    BY <2>3, <2>5
  <2>. QED  BY <2>2, <2>5, <2>6
<1>2. AchievedPrice(i, age) \in Int
  <2>. DEFINE merchant == i.capture * Power(1 + i.merchantEscalation, age)
              contract == i.ppaShare * i.ppaPrice * Power(1 + i.priceEscalation, age)
              other == (100 - i.ppaShare) * merchant
  <2>0. /\ i.capture \in Int /\ i.ppaShare \in Int /\ i.ppaPrice \in Int
        /\ 1 + i.merchantEscalation \in Int /\ 1 + i.priceEscalation \in Int
    BY PlantFigures
  <2>1. Power(1 + i.merchantEscalation, age) \in Int /\ Power(1 + i.priceEscalation, age) \in Int
    BY <2>0, PowerIsInt
  <2>2. merchant \in Int
    BY <2>0, <2>1
  <2>3. i.ppaShare * i.ppaPrice \in Int
    BY <2>0
  <2>4. contract \in Int
    BY <2>1, <2>3
  <2>5. AchievedPrice(i, age) = IF i.ppaTenor > 0 /\ age < i.ppaTenor
                                THEN (contract + other) \div 100 ELSE merchant
    BY DEF AchievedPrice
  <2>6. 100 - i.ppaShare \in Int
    BY <2>0
  <2>. HIDE DEF merchant, contract
  <2>7. other \in Int
    BY <2>2, <2>6
  <2>. HIDE DEF other
  <2>. QED  BY <2>2, <2>4, <2>5, <2>7
<1>. QED  BY <1>1, <1>2

\* What a debt that does not exceed what is serviceable is covered by.
LEMMA ServiceableIsCovered ==
    ASSUME NEW s \in Int, NEW t \in Nat \ {0}, NEW f \in Nat \ {0}, NEW o \in Nat \ {0},
           NEW p \in Nat \ {0}, NEW debt \in Nat \ {0}, p * o = debt * f
    PROVE  /\ (t * f) * debt <= s * o => t * p <= s
           /\ (t * f) * debt = s * o => t * p = s
<1>1. (t * p) * o = (t * f) * debt
  <2>1. (t * p) * o = t * (p * o)
    OBVIOUS
  <2>2. t * (debt * f) = (t * f) * debt
    OBVIOUS
  <2>. QED  BY <2>1, <2>2
<1>2. t * p \in Int
  OBVIOUS
<1>. DEFINE a == t * p
<1>. HIDE DEF a
<1>3. a \in Int /\ a * o = (t * f) * debt
  BY <1>1, <1>2 DEF a
<1>4. (a * o <= s * o => a <= s) /\ (a * o = s * o => a = s)
  BY <1>3, Cancels
<1>. QED  BY <1>3, <1>4 DEF a

\* So are the figures a plant is priced on.
LEMMA PriceFigures ==
    ASSUME NEW i, IsPlant(i)
    PROVE  Stabilised(i) \in Int /\ Capex(i) \in Int /\ Ceiling(i) \in Int
<1>1. Stabilised(i) \in Int
  <2>. DEFINE g == Generation(i, 1)
              a == AchievedPrice(i, 1)
  <2>1. g \in Int /\ a \in Int
    BY OperationFigures
  <2>2. i.opex \in Int /\ i.opexEscalation \in Int
    BY PlantFigures
  <2>3. Stabilised(i) = g * a - i.opex * (1 + i.opexEscalation)
    BY DEF Stabilised
  <2>. HIDE DEF g, a
  <2>4. g * a \in Int /\ i.opex * (1 + i.opexEscalation) \in Int
    BY <2>1, <2>2
  <2>. QED  BY <2>3, <2>4
<1>2. Capex(i) \in Int
  <2>1. i.yearsPaid \in Int /\ i.floor \in Int /\ i.cap \in Int
    BY PlantFigures
  <2>2. Stabilised(i) * i.yearsPaid \in Int
    BY <1>1, <2>1
  <2>. QED  BY <2>1, <2>2 DEF Capex
<1>3. Ceiling(i) \in Int
  <2>1. i.gearing * Capex(i) \in Int
    BY <1>2, PlantFigures
  <2>. QED  BY <2>1 DEF Ceiling
<1>. QED  BY <1>1, <1>2, <1>3

\* A plant with debt was given a tenor and a rate.
LEMMA DebtHasALife ==
    ASSUME NEW i, IsPlant(i), i.seniorDebt > 0
    PROVE  i.tenor \in Nat \ {0} /\ i.debtRate \in Nat /\ i.seniorDebt = SeniorDebt(i)
<1>1. i.seniorDebt = SeniorDebt(i)
  <2>1. PICK d \in Drawn : i = Priced(d)
    BY DEF IsPlant
  <2>2. Priced(d).seniorDebt = SeniorDebt(d) /\ SeniorDebt(i) = SeniorDebt(d)
    BY <2>1, PricedFigures, SamePrice
  <2>. QED  BY <2>1, <2>2
<1>2. ~(i.tenor <= 0 \/ i.debtRate < 0)
  BY <1>1 DEF SeniorDebt
<1>. QED  BY <1>1, <1>2, PlantFigures

\* What is assumed of a site that was drawn, of the plant it is priced as.
LEMMA PlantsAreExact ==
    ASSUME NEW i, IsPlant(i), i.seniorDebt > 0
    PROVE  LET factor  == PaymentFactor(i.debtRate, i.tenor)
               payment == Payment(i.seniorDebt, i.debtRate, i.tenor)
           IN  /\ i.cod > 0 => Divides(i.cod, i.totalCapex - i.seniorDebt)
               /\ Sculpted(i) => Divides(i.target * factor.of, Stabilised(i) * factor.to)
               /\ Divides(factor.to, i.seniorDebt * factor.of)
               /\ \A age \in 0 .. i.tenor - 1 :
                     LET flow == Operation(i, age, 0)
                     IN  Divides(payment, flow.revenue - flow.opex)
<1>1. PICK d \in Drawn : i = Priced(d)
  BY DEF IsPlant
<1>2. Exact(d)
  BY DrawnAreExact
<1>3. i.target = d.target /\ Stabilised(i) = Stabilised(d) /\ Sculpted(i) = Sculpted(d)
  BY <1>1, PricedIsDrawn, SamePrice
<1>. QED  BY <1>1, <1>2, <1>3, Zenon DEF Exact

\* The debt of a plant is repaid by level payments, and a year that earns what
\* the stabilised one does covers them at the target.
LEMMA Sized ==
    ASSUME NEW i, IsPlant(i), i.seniorDebt > 0,
           NEW p, p = Payment(i.seniorDebt, i.debtRate, i.tenor)
    PROVE  /\ Level(i.seniorDebt, i.debtRate, i.tenor) /\ p \in Nat \ {0}
           /\ i.target * p <= Stabilised(i)
           /\ Sculpted(i) => i.target * p = Stabilised(i)
<1>. DEFINE f == PaymentFactor(i.debtRate, i.tenor).of
            o == PaymentFactor(i.debtRate, i.tenor).to
            s == Stabilised(i)
            t == i.target
            debt == i.seniorDebt
            V == Serviceable(i)
<1>1. debt \in Nat \ {0} /\ t \in Nat \ {0} /\ s \in Int /\ Ceiling(i) \in Int
  BY PlantFigures, PriceFigures
<1>2. i.tenor \in Nat \ {0} /\ i.debtRate \in Nat /\ debt = SeniorDebt(i)
  BY DebtHasALife
<1>3. Level(debt, i.debtRate, i.tenor)
  <2>1. Divides(o, debt * f)
    BY PlantsAreExact, Zenon
  <2>. QED  BY <1>1, <1>2, <2>1, PaymentIsLevel
<1>4. f \in Nat \ {0} /\ o \in Nat \ {0} /\ p \in Nat \ {0} /\ p * o = debt * f
  BY <1>3, Zenon DEF Level
<1>5. V = (s * o) \div (t * f)
  BY DEF Serviceable
<1>6. debt = AtLeast(0, IF Sculpted(i) THEN V ELSE Ceiling(i))
  <2>1. ~(i.tenor <= 0 \/ i.debtRate < 0)
    BY <1>2
  <2>. QED  BY <1>2, <2>1, Zenon DEF SeniorDebt
<1>7. ~Sculpted(i) => ~(V < Ceiling(i))
  BY <1>2 DEF Sculpted
<1>8. Sculpted(i) => (s * o) % (t * f) = 0
  BY PlantsAreExact, Zenon DEF Divides
<1>. HIDE DEF f, o, s, t, debt, V
<1>9. s * o \in Int /\ t * f \in Nat \ {0}
  BY <1>1, <1>4
<1>. DEFINE whole == s * o
            part == t * f
<1>10. V \in Int /\ part * V <= whole /\ (Sculpted(i) => part * V = whole)
  <2>1. V = whole \div part /\ whole \in Int /\ part \in Nat \ {0}
        /\ (Sculpted(i) => whole % part = 0)
    BY <1>5, <1>8, <1>9
  <2>. HIDE DEF whole, part
  <2>2. V \in Int /\ part * V <= whole
    BY <2>1, DivBounds
  <2>3. Sculpted(i) => part * V = whole
    BY <2>1, DivExact
  <2>. QED  BY <2>2, <2>3
<1>11. CASE Sculpted(i)
  <2>1. debt = V
    BY <1>1, <1>6, <1>10, <1>11 DEF AtLeast
  <2>2. part * debt = whole
    BY <1>10, <1>11, <2>1
  <2>3. t * p = s
    BY <1>1, <1>4, <2>2, ServiceableIsCovered
  <2>. QED  BY <1>1, <1>3, <1>4, <2>3 DEF s, t, debt
<1>12. CASE ~Sculpted(i)
  <2>1. debt = Ceiling(i) /\ debt <= V
    BY <1>1, <1>6, <1>7, <1>10, <1>12 DEF AtLeast
  <2>2. part * debt <= whole
    <3>1. part \in Nat /\ whole \in Int
      BY <1>9
    <3>. HIDE DEF part, whole
    <3>2. part * debt <= part * V /\ part * V \in Int /\ part * debt \in Int
      BY <1>1, <1>10, <2>1, <3>1, TimesGrows
    <3>. QED  BY <1>10, <3>1, <3>2
  <2>3. t * p <= s
    BY <1>1, <1>4, <2>2, ServiceableIsCovered
  <2>. QED  BY <1>3, <1>4, <1>12, <2>3 DEF s, t, debt
<1>. QED  BY <1>11, <1>12

-----------------------------------------------------------------------------
(* A year whose figures tie exactly passes the gate and the sheet.          *)

\* A figure ties to itself.
LEMMA EqualsPass ==
    ASSUME NEW a \in Int
    PROVE  ~Breach(a, a) /\ ~SheetBreach(a, a)
<1>1. a - a = 0 /\ Abs(0) = 0 /\ 1000 * 0 = 0
  BY DEF Abs
<1>2. Abs(a) \in Nat
  BY DEF Abs
<1>3. Allowed(a, a) >= 0
  <2>1. 1000 * ToleranceAbs \in Nat
    BY TieOutConstants
  <2>2. AtLeast(Abs(a), Abs(a)) = Abs(a)
    BY <1>2, LargerIs
  <2>3. ToleranceRel * Abs(a) \in Int
    BY <1>2, TieOutConstants
  <2>4. AtLeast(1000 * ToleranceAbs, ToleranceRel * Abs(a)) >= 1000 * ToleranceAbs
        /\ AtLeast(1000 * ToleranceAbs, ToleranceRel * Abs(a)) \in Int
    BY <2>1, <2>3, LargerIs
  <2>. QED  BY <2>1, <2>2, <2>4 DEF Allowed
<1>4. AtLeast(1000, Abs(a)) >= 0
  BY <1>2, LargerIs
<1>5. Allowed(a, a) \in Int /\ AtLeast(1000, Abs(a)) \in Int
  <2>1. ToleranceAbs \in Nat /\ ToleranceRel \in Nat
    BY TieOutConstants
  <2>2. AtLeast(Abs(a), Abs(a)) = Abs(a)
    BY <1>2, LargerIs
  <2>3. 1000 * ToleranceAbs \in Int /\ ToleranceRel * Abs(a) \in Int
    BY <1>2, <2>1
  <2>. QED  BY <1>2, <2>2, <2>3, LargerIs DEF Allowed
<1>. QED  BY <1>1, <1>3, <1>4, <1>5 DEF Breach, SheetBreach

\* Checks of figures that are equal break none.
Ties(checks) == \A c \in DOMAIN checks : checks[c][1] \in Int /\ checks[c][1] = checks[c][2]

LEMMA PassingIsUnbroken ==
    ASSUME NEW checks, Ties(checks)
    PROVE  Broken(checks) = {}
<1>1. ASSUME NEW c \in DOMAIN checks PROVE ~Breach(checks[c][1], checks[c][2])
  BY EqualsPass DEF Ties
<1>. QED  BY <1>1, Zenon DEF Broken

\* The figures of a year tie, and those of the year before are met.
Tied(a) ==
    /\ \A f \in Amounts : a[f] \in Int
    /\ a.revenue = a.generation * a.achievedPrice /\ a.opex = OpexDue(year)
    /\ a.ebitda = a.revenue - a.opex /\ a.ebit = a.ebitda - a.depreciation
    /\ a.pbt = a.ebit - a.interestExpense /\ a.netIncome = a.pbt - a.taxExpense
    /\ a.fcfe = a.ebitda - a.interestPaid - a.debtRepayment - a.taxPaid - a.capex
                  + a.debtDrawdown
    /\ a.capex = a.debtDrawdown + a.equityDrawdown
    /\ a.closing = a.opening - a.repayment + a.drawdown
    /\ a.opening = closing /\ a.ppe = ppe - a.depreciation + a.capex

\* Its cover is the ratio, without a remainder, where the debt is served.
Covered(r) ==
    /\ (r.dscr # Null) = InDebtLife(year)
    /\ r.dscr # Null => /\ r.dscr \in Int /\ Service(r.amount) \in Nat
                        /\ r.dscr * Service(r.amount) = r.amount.ebitda

\* The checks of such a year are of equal figures,
LEMMA TiedPasses ==
    ASSUME NEW a, Tied(a)
    PROVE  Ties(IncomeStatement(a)) /\ Ties(Physicals(a)) /\ Ties(CashFlow(a))
           /\ Ties(Balances(a))
<1>1. /\ a.ebitda \in Int /\ a.ebit \in Int /\ a.pbt \in Int /\ a.netIncome \in Int
      /\ a.revenue \in Int /\ a.opex \in Int /\ a.fcfe \in Int /\ a.capex \in Int
      /\ a.closing \in Int /\ a.opening \in Int /\ a.ppe \in Int
  BY DEF Tied, Amounts
<1>2. Ties(IncomeStatement(a))
  BY <1>1 DEF Ties, IncomeStatement, Tied
<1>3. Ties(Physicals(a))
  BY <1>1 DEF Ties, Physicals, Tied
<1>4. Ties(CashFlow(a))
  BY <1>1 DEF Ties, CashFlow, Tied
<1>5. Ties(Balances(a))
  BY <1>1 DEF Ties, Balances, Tied
<1>. QED  BY <1>2, <1>3, <1>4, <1>5

\* at the gate
LEMMA TiedYearPassesTheGate ==
    ASSUME NEW r, Tied(r.amount), Covered(r)
    PROVE  YearFailures(r) = {}
<1>1. Ties(Cover(r))
  <2>1. CASE r.dscr = Null
    BY <2>1 DEF Ties, Cover
  <2>2. CASE r.dscr # Null
    <3>1. r.amount.ebitda \in Int /\ r.dscr * Service(r.amount) = r.amount.ebitda
      BY <2>2 DEF Covered, Tied, Amounts
    <3>. QED  BY <2>2, <3>1 DEF Ties, Cover
  <2>. QED  BY <2>1, <2>2
<1>2. /\ Broken(IncomeStatement(r.amount)) = {} /\ Broken(Physicals(r.amount)) = {}
      /\ Broken(CashFlow(r.amount)) = {} /\ Broken(Balances(r.amount)) = {}
      /\ Broken(Cover(r)) = {}
  BY <1>1, TiedPasses, PassingIsUnbroken
<1>. QED  BY <1>2, Zenon DEF YearFailures, Covered

\* and on the sheet, whose first opening is held against 0.
LEMMA TiedYearPassesTheSheet ==
    ASSUME NEW r, Tied(r.amount), Covered(r), year = 0 => closing = 0
    PROVE  SheetFailures(r) = {}
<1>. DEFINE a == r.amount
<1>1. ASSUME NEW checks, Ties(checks), NEW S \in SUBSET DOMAIN checks
      PROVE  {c \in S : SheetBreach(checks[c][1], checks[c][2])} = {}
  BY <1>1, EqualsPass DEF Ties
<1>2. SheetStatements(a) = {}
  <2>1. {"ebitda", "ebit", "pbt", "netIncome"} \in SUBSET DOMAIN IncomeStatement(a)
    BY DEF IncomeStatement
  <2>. QED  BY <1>1, <2>1, TiedPasses DEF SheetStatements
<1>3. SheetRevenue(a) = {}
  <2>1. a.revenue \in Int /\ a.revenue = a.generation * a.achievedPrice
    BY DEF Tied, Amounts
  <2>. QED  BY <2>1, EqualsPass DEF SheetRevenue
<1>4. SheetCash(a) = {}
  <2>1. {"fcfe", "capex"} \in SUBSET DOMAIN CashFlow(a)
    BY DEF CashFlow
  <2>. QED  BY <1>1, <2>1, TiedPasses DEF SheetCash
<1>5. SheetBalances(a) = {}
  <2>1. {"closing", "ppe"} \in SUBSET DOMAIN Balances(a)
    BY DEF Balances
  <2>2. {c \in {"closing", "ppe"} : SheetBreach(Balances(a)[c][1], Balances(a)[c][2])} = {}
    BY <1>1, <2>1, TiedPasses
  <2>3. a.opening \in Int /\ a.opening = closing
    BY DEF Tied, Amounts
  <2>4. ~SheetBreach(a.opening, closing) /\ (year = 0 => ~SheetBreach(0, a.opening))
    BY <2>3, EqualsPass
  <2>. QED  BY <2>2, <2>4 DEF SheetBalances
<1>6. SheetCover(r) = {}
  <2>. DEFINE service == Service(r.amount)
              ebitda == a.ebitda
              ratio == r.dscr
  <2>1. ASSUME ratio # Null
        PROVE  ~(1000 * Abs(ratio * service - ebitda) > AtLeast(1, Abs(ratio)) * service)
    <3>1. ratio \in Int /\ service \in Nat /\ ratio * service = ebitda /\ ebitda \in Int
      BY <2>1 DEF Covered, Tied, Amounts
    <3>. HIDE DEF ratio, service, ebitda
    <3>2. ratio * service - ebitda = 0 /\ Abs(0) = 0
      BY <3>1 DEF Abs
    <3>. DEFINE width == AtLeast(1, Abs(ratio))
    <3>3. width \in Nat
      <4>1. Abs(ratio) \in Int
        BY <3>1 DEF Abs
      <4>. QED  BY <4>1, LargerIs
    <3>. HIDE DEF width
    <3>4. width * service >= 0 /\ width * service \in Int
      BY <3>1, <3>3
    <3>5. ~(1000 * Abs(ratio * service - ebitda) > width * service)
      BY <3>2, <3>4
    <3>. QED  BY <3>5 DEF width
  <2>2. InDebtLife(year) = (ratio # Null)
    BY DEF Covered
  <2>. QED  BY <2>1, <2>2 DEF SheetCover
<1>. QED  BY <1>2, <1>3, <1>4, <1>5, <1>6 DEF SheetFailures

-----------------------------------------------------------------------------
(* The years that the house model computes (HouseModel).                   *)

\* What is owed, and what equity has been paid, when y years have been read.
OwedAfter(i, y) ==
    IF y <= i.cod THEN 0
    ELSE Outstanding(i.seniorDebt, i.debtRate, i.tenor)
             [IF y - i.cod <= i.tenor THEN y - i.cod ELSE i.tenor]

EquityAfter(i, y) ==
    LET equity == i.totalCapex - i.seniorDebt
    IN  IF i.cod = 0 THEN (IF y = 0 THEN 0 ELSE equity)
        ELSE (equity \div i.cod) * (IF y < i.cod THEN y ELSE i.cod)

\* What is paid in is equity in equal parts, and the debt at COD.
LEMMA FundingFigures ==
    ASSUME NEW i, IsPlant(i), i.cod >= 0, NEW y \in Nat, NEW f, f = Funding(i, y)
    PROVE  /\ f.debt = (IF y = i.cod THEN i.seniorDebt ELSE 0) /\ f.debt \in Int
           /\ f.equity \in Int /\ f.capex = f.equity + f.debt
           /\ EquityAfter(i, y) \in Int
           /\ EquityAfter(i, y + 1) = EquityAfter(i, y) + f.equity
<1>. DEFINE equity == i.totalCapex - i.seniorDebt
            share == equity \div i.cod
            own == IF i.cod <= 0 THEN (IF y = 0 THEN equity ELSE 0)
                   ELSE IF y < i.cod THEN share ELSE 0
<1>1. /\ i.totalCapex \in Nat /\ i.seniorDebt \in Nat /\ i.cod \in Nat /\ equity \in Int
  BY PlantFigures
<1>2. f.debt = (IF y = AtLeast(0, i.cod) THEN i.seniorDebt ELSE 0) /\ f.equity = own
      /\ f.capex = own + f.debt
  BY DEF Funding
<1>3. AtLeast(0, i.cod) = i.cod
  BY <1>1 DEF AtLeast
<1>4. /\ EquityAfter(i, y) = IF i.cod = 0 THEN (IF y = 0 THEN 0 ELSE equity)
                             ELSE share * (IF y < i.cod THEN y ELSE i.cod)
      /\ EquityAfter(i, y + 1) = IF i.cod = 0 THEN (IF y + 1 = 0 THEN 0 ELSE equity)
                                 ELSE share * (IF y + 1 < i.cod THEN y + 1 ELSE i.cod)
  BY DEF EquityAfter
<1>5. i.cod > 0 => share \in Int
  <2>. HIDE DEF equity
  <2>. QED  BY <1>1, DivBounds
<1>. HIDE DEF equity, share
<1>6. CASE i.cod = 0
  <2>1. own = IF y = 0 THEN equity ELSE 0
    BY <1>1, <1>6
  <2>. QED  BY <1>1, <1>2, <1>3, <1>4, <1>6, <2>1
<1>7. CASE i.cod > 0
  <2>1. own = (IF y < i.cod THEN share ELSE 0) /\ share \in Int
    BY <1>1, <1>5, <1>7
  <2>2. share * (y + 1) = share * y + share /\ share * y \in Int /\ share * i.cod \in Int
    BY <1>1, <2>1
  <2>3. CASE y < i.cod
    <3>1. EquityAfter(i, y) = share * y /\ own = share
      <4>1. i.cod # 0 /\ (IF y < i.cod THEN y ELSE i.cod) = y
        BY <1>7, <2>3
      <4>2. EquityAfter(i, y) = share * (IF y < i.cod THEN y ELSE i.cod)
        BY <1>4, <4>1
      <4>. QED  BY <2>1, <2>3, <4>1, <4>2
    <3>2. (IF y + 1 < i.cod THEN y + 1 ELSE i.cod) = y + 1
      BY <1>1, <2>3
    <3>3. EquityAfter(i, y + 1) = share * (y + 1)
      BY <1>4, <1>7, <3>2
    <3>. QED  BY <1>1, <1>2, <1>3, <2>1, <2>2, <3>1, <3>3
  <2>4. CASE ~(y < i.cod)
    <3>1. EquityAfter(i, y) = share * i.cod /\ own = 0
      BY <1>4, <1>7, <2>1, <2>4
    <3>2. ~(y + 1 < i.cod)
      BY <1>1, <2>4
    <3>3. EquityAfter(i, y + 1) = share * i.cod
      BY <1>4, <1>7, <3>2
    <3>. QED  BY <1>1, <1>2, <1>3, <2>1, <2>2, <3>1, <3>3
  <2>. QED  BY <2>3, <2>4
<1>. QED  BY <1>1, <1>6, <1>7

\* The equity is paid in full when the plant is commissioned.
LEMMA EquityIsPaid ==
    ASSUME NEW i, IsPlant(i), i.seniorDebt > 0, i.cod >= 0, NEW y \in Nat, y > i.cod
    PROVE  EquityAfter(i, y) = i.totalCapex - i.seniorDebt
<1>. DEFINE equity == i.totalCapex - i.seniorDebt
<1>1. i.cod \in Nat /\ equity \in Int
  BY PlantFigures
<1>2. i.cod > 0 => equity % i.cod = 0
  BY PlantsAreExact, Zenon DEF Divides
<1>3. EquityAfter(i, y) = IF i.cod = 0 THEN (IF y = 0 THEN 0 ELSE equity)
                          ELSE (equity \div i.cod) * (IF y < i.cod THEN y ELSE i.cod)
  BY DEF EquityAfter
<1>. HIDE DEF equity
<1>4. CASE i.cod = 0
  BY <1>1, <1>3, <1>4 DEF equity
<1>5. CASE i.cod > 0
  <2>1. EquityAfter(i, y) = (equity \div i.cod) * i.cod
    BY <1>1, <1>3, <1>5
  <2>2. equity = i.cod * (equity \div i.cod) /\ equity \div i.cod \in Int
    <3>. DEFINE n == i.cod
    <3>1. n \in Nat \ {0} /\ equity % n = 0
      BY <1>1, <1>2, <1>5
    <3>. HIDE DEF n
    <3>2. equity = n * (equity \div n) /\ equity \div n \in Int
      BY <1>1, <3>1, DivExact
    <3>. QED  BY <3>2 DEF n
  <2>. QED  BY <1>1, <2>1, <2>2 DEF equity
<1>. QED  BY <1>1, <1>4, <1>5 DEF equity

\* The schedule of a plant, by its age.
LEMMA ScheduleOfAPlant ==
    ASSUME NEW i, IsPlant(i), i.seniorDebt > 0
    PROVE  /\ Amortising(i.seniorDebt, i.debtRate, i.tenor)
           /\ Repayments(i) = Principal(i.seniorDebt, i.debtRate, i.tenor)
<1>1. i.tenor \in Nat \ {0} /\ i.debtRate \in Nat /\ i.seniorDebt \in Nat \ {0}
  BY DebtHasALife, PlantFigures
<1>2. Level(i.seniorDebt, i.debtRate, i.tenor)
  BY Sized
<1>3. Amortising(i.seniorDebt, i.debtRate, i.tenor)
  BY <1>1, <1>2, Amortises
<1>4. ~(i.seniorDebt <= 0 \/ i.tenor <= 0)
  BY <1>1
<1>. QED  BY <1>3, <1>4 DEF Repayments

\* What is owed after the drawdown of a year.
LEMMA OwedInAYear ==
    ASSUME NEW i, IsPlant(i), i.seniorDebt > 0, i.cod >= 0, NEW y \in Nat,
           NEW owed, owed = Outstanding(i.seniorDebt, i.debtRate, i.tenor),
           NEW drawn, drawn = OwedAfter(i, y) + Funding(i, y).debt
    PROVE  /\ OwedAfter(i, y) \in Int
           /\ y < i.cod => drawn = 0 /\ OwedAfter(i, y + 1) = 0
           /\ 0 <= y - i.cod /\ y - i.cod < i.tenor =>
                 drawn = owed[y - i.cod] /\ OwedAfter(i, y + 1) = owed[y - i.cod + 1]
           /\ y - i.cod >= i.tenor => drawn = 0 /\ OwedAfter(i, y + 1) = 0
<1>. DEFINE debt == i.seniorDebt
            age == y - i.cod
<1>1. i.tenor \in Nat \ {0} /\ i.cod \in Nat /\ debt \in Nat
  BY DebtHasALife, PlantFigures
<1>2. owed[0] = debt /\ owed[i.tenor] = 0 /\ \A k \in 0 .. i.tenor : owed[k] \in Nat
  BY ScheduleOfAPlant, Zenon DEF Amortising
<1>3. Funding(i, y).debt = IF y = i.cod THEN debt ELSE 0
  BY FundingFigures
<1>4. /\ OwedAfter(i, y) = IF y <= i.cod THEN 0
                           ELSE owed[IF age <= i.tenor THEN age ELSE i.tenor]
      /\ OwedAfter(i, y + 1) = IF y + 1 <= i.cod THEN 0
                               ELSE owed[IF (y + 1) - i.cod <= i.tenor THEN (y + 1) - i.cod
                                         ELSE i.tenor]
  BY DEF OwedAfter
<1>5. (y + 1) - i.cod = age + 1 /\ age \in Int
  BY <1>1
<1>. HIDE DEF debt
<1>6. OwedAfter(i, y) \in Int
  <2>1. y > i.cod => (IF age <= i.tenor THEN age ELSE i.tenor) \in 0 .. i.tenor
    BY <1>1
  <2>2. CASE y <= i.cod
    BY <1>4, <2>2
  <2>3. CASE ~(y <= i.cod)
    <3>1. (IF age <= i.tenor THEN age ELSE i.tenor) \in 0 .. i.tenor
      BY <1>1, <2>1, <2>3
    <3>. QED  BY <1>2, <1>4, <2>3, <3>1
  <2>. QED  BY <2>2, <2>3
<1>7. ASSUME y < i.cod PROVE drawn = 0 /\ OwedAfter(i, y + 1) = 0
  <2>1. y <= i.cod /\ y + 1 <= i.cod /\ y # i.cod
    BY <1>1, <1>7
  <2>. QED  BY <1>3, <1>4, <2>1
<1>8. ASSUME 0 <= age, age < i.tenor
      PROVE  drawn = owed[age] /\ OwedAfter(i, y + 1) = owed[age + 1]
  <2>1. ~(y + 1 <= i.cod) /\ (y + 1) - i.cod <= i.tenor
    BY <1>1, <1>8
  <2>2. OwedAfter(i, y + 1) = owed[age + 1]
    BY <1>4, <1>5, <2>1
  <2>3. CASE y = i.cod
    <3>1. age = 0 /\ OwedAfter(i, y) = 0
      BY <1>1, <1>4, <2>3
    <3>2. drawn = 0 + debt
      BY <1>3, <2>3, <3>1
    <3>. QED  BY <1>1, <1>2, <2>2, <3>1, <3>2
  <2>4. CASE y # i.cod
    <3>1. ~(y <= i.cod) /\ age <= i.tenor /\ age \in 0 .. i.tenor
      BY <1>1, <1>8, <2>4
    <3>2. OwedAfter(i, y) = owed[age] /\ owed[age] \in Nat
      BY <1>2, <1>4, <3>1
    <3>3. drawn = owed[age] + 0
      BY <1>3, <2>4, <3>2
    <3>. QED  BY <2>2, <3>2, <3>3
  <2>. QED  BY <2>3, <2>4
<1>9. ASSUME age >= i.tenor PROVE drawn = 0 /\ OwedAfter(i, y + 1) = 0
  <2>1. ~(y <= i.cod) /\ y # i.cod /\ ~(y + 1 <= i.cod) /\ ~((y + 1) - i.cod <= i.tenor)
    BY <1>1, <1>9
  <2>2. (IF age <= i.tenor THEN age ELSE i.tenor) = i.tenor
    BY <1>1, <1>9
  <2>3. OwedAfter(i, y) = 0
    BY <1>2, <1>4, <2>1, <2>2
  <2>4. OwedAfter(i, y + 1) = 0
    BY <1>2, <1>4, <2>1
  <2>. QED  BY <1>3, <2>1, <2>3, <2>4
<1>. QED  BY <1>6, <1>7, <1>8, <1>9

\* The flow of the year y, when drawn is owed after the drawdown.
FlowOf(i, y, drawn) == IF y - i.cod < 0 THEN Idle ELSE Operation(i, y - i.cod, drawn)

\* The flow of a year serves the debt by level payments, and by nothing when
\* there is none.
LEMMA FlowFigures ==
    ASSUME NEW i, IsPlant(i), i.seniorDebt > 0, i.cod >= 0, NEW y \in Nat,
           NEW drawn, drawn = OwedAfter(i, y) + Funding(i, y).debt,
           NEW p, p = Payment(i.seniorDebt, i.debtRate, i.tenor),
           NEW flow, flow = FlowOf(i, y, drawn)
    PROVE  /\ flow.generation \in Int /\ flow.price \in Int /\ flow.opex \in Int
           /\ flow.revenue = flow.generation * flow.price
           /\ flow.opex = (IF y - i.cod < 0 THEN 0
                           ELSE i.opex * Power(1 + i.opexEscalation, y - i.cod))
           /\ flow.depreciation \in Int /\ flow.interest \in Int /\ flow.repayment \in Int
           /\ drawn \in Int /\ drawn - flow.repayment = OwedAfter(i, y + 1)
           /\ 0 <= y - i.cod /\ y - i.cod < i.tenor =>
                 flow.interest + flow.repayment = p /\ (flow.revenue - flow.opex) % p = 0
<1>. DEFINE age == y - i.cod
            owed == Outstanding(i.seniorDebt, i.debtRate, i.tenor)
            repaid == Repayments(i)
<1>1. i.tenor \in Nat \ {0} /\ i.cod \in Nat /\ i.debtRate \in Nat /\ age \in Int
  BY DebtHasALife, PlantFigures
<1>2. /\ \A k \in 0 .. i.tenor : owed[k] \in Nat
      /\ \A k \in 0 .. i.tenor - 1 : /\ repaid[k] \in Nat
                                     /\ owed[k + 1] = owed[k] - repaid[k]
                                     /\ owed[k] * i.debtRate + repaid[k] = p
  BY ScheduleOfAPlant, Zenon DEF Amortising
<1>3. /\ age < 0 => drawn = 0 /\ OwedAfter(i, y + 1) = 0
      /\ 0 <= age /\ age < i.tenor => drawn = owed[age] /\ OwedAfter(i, y + 1) = owed[age + 1]
      /\ age >= i.tenor => drawn = 0 /\ OwedAfter(i, y + 1) = 0
  <2>1. y < i.cod <=> age < 0
    BY <1>1
  <2>. QED  BY <2>1, OwedInAYear
<1>. HIDE DEF owed, repaid
<1>4. CASE age < 0
  <2>1. flow = Idle
    BY <1>4 DEF FlowOf
  <2>2. /\ flow.generation = 0 /\ flow.price = 0 /\ flow.revenue = 0 /\ flow.opex = 0
        /\ flow.depreciation = 0 /\ flow.interest = 0 /\ flow.repayment = 0
    BY <2>1 DEF Idle
  <2>3. drawn - flow.repayment = OwedAfter(i, y + 1) /\ drawn \in Int
    BY <1>3, <1>4, <2>2
  <2>4. flow.revenue = flow.generation * flow.price
    BY <2>2
  <2>. HIDE DEF age
  <2>. QED  BY <1>1, <1>4, <2>2, <2>3, <2>4 DEF age
<1>5. CASE age >= 0
  <2>1. flow = Operation(i, age, drawn) /\ age \in Nat
    BY <1>1, <1>5 DEF FlowOf
  <2>. DEFINE served == 0 <= age /\ age < i.tenor
              opex == i.opex * Power(1 + i.opexEscalation, age)
  <2>2. /\ flow.generation = Generation(i, age) /\ flow.price = AchievedPrice(i, age)
        /\ flow.revenue = flow.generation * flow.price
        /\ flow.opex = opex
        /\ flow.depreciation = (IF age < i.life THEN i.totalCapex \div i.life ELSE 0)
        /\ flow.interest = (IF served THEN drawn * i.debtRate ELSE 0)
        /\ flow.repayment = (IF served THEN repaid[age] ELSE 0)
    BY <2>1 DEF Operation, repaid
  <2>3. flow.generation \in Int /\ flow.price \in Int
    BY <2>1, <2>2, OperationFigures
  <2>4. flow.opex \in Int
    <3>1. 1 + i.opexEscalation \in Int /\ i.opex \in Int
      BY PlantFigures
    <3>2. Power(1 + i.opexEscalation, age) \in Int
      BY <2>1, <3>1, PowerIsInt
    <3>. QED  BY <2>2, <3>1, <3>2
  <2>5. flow.depreciation \in Int
    <3>1. i.totalCapex \in Int /\ i.life \in Nat \ {0}
      BY PlantFigures
    <3>2. i.totalCapex \div i.life \in Int
      BY <3>1, DivBounds
    <3>. QED  BY <2>2, <3>2
  <2>. HIDE DEF opex
  <2>6. CASE served
    <3>1. age \in 0 .. i.tenor /\ age \in 0 .. i.tenor - 1
      BY <1>1, <2>6
    <3>2. /\ drawn \in Nat /\ repaid[age] \in Nat
          /\ OwedAfter(i, y + 1) = drawn - repaid[age] /\ drawn * i.debtRate + repaid[age] = p
      BY <1>2, <1>3, <2>6, <3>1
    <3>3. drawn * i.debtRate \in Int
      BY <1>1, <3>2
    <3>4. (flow.revenue - flow.opex) % p = 0
      <4>1. /\ Operation(i, age, 0).revenue = flow.revenue
            /\ Operation(i, age, 0).opex = flow.opex
        BY <2>1 DEF Operation
      <4>2. Divides(p, Operation(i, age, 0).revenue - Operation(i, age, 0).opex)
        BY <3>1, PlantsAreExact, Zenon
      <4>. QED  BY <4>1, <4>2 DEF Divides
    <3>. QED  BY <2>1, <2>2, <2>3, <2>4, <2>5, <2>6, <3>2, <3>3, <3>4 DEF opex
  <2>7. CASE ~served
    <3>1. drawn = 0 /\ OwedAfter(i, y + 1) = 0 /\ flow.interest = 0 /\ flow.repayment = 0
      BY <1>1, <1>3, <1>5, <2>2, <2>7
    <3>. QED  BY <2>1, <2>2, <2>3, <2>4, <2>5, <2>7, <3>1 DEF opex
  <2>. QED  BY <2>6, <2>7
<1>. QED  BY <1>1, <1>4, <1>5

\* A plant whose debt begins and ends within the file, and how its file
\* stands when years of it have been read.
IsGeared(i) == IsPlant(i) /\ WithinTheFile(i) /\ i.seniorDebt > 0

Standing(i) ==
    /\ head = Declared(i) /\ year \in 0 .. Horizon
    /\ closing = balance /\ ppe = carrying
    /\ balance = OwedAfter(i, year) /\ carrying \in Int

\* Each line of a statement, by the flow and the funding it is computed from.
LEMMA StatementFigures ==
    ASSUME NEW i, NEW y, NEW a, a = Statement(i, y).amount,
           NEW flow, flow = FlowOf(i, y, balance + Funding(i, y).debt),
           NEW funded, funded = Funding(i, y),
           NEW tax, tax = AtLeast(0, ((flow.revenue - flow.opex - flow.depreciation
                                         - flow.interest) * i.taxRate) \div 100)
    PROVE  /\ a.generation = flow.generation /\ a.achievedPrice = flow.price
           /\ a.revenue = flow.revenue /\ a.opex = flow.opex
           /\ a.ebitda = flow.revenue - flow.opex /\ a.depreciation = flow.depreciation
           /\ a.ebit = a.ebitda - flow.depreciation /\ a.interestExpense = flow.interest
           /\ a.pbt = a.ebitda - flow.depreciation - flow.interest
           /\ a.taxExpense = tax /\ a.netIncome = a.pbt - tax
           /\ a.interestPaid = flow.interest /\ a.debtRepayment = flow.repayment
           /\ a.taxPaid = tax /\ a.capex = funded.capex /\ a.debtDrawdown = funded.debt
           /\ a.equityDrawdown = funded.equity
           /\ a.fcfe = a.ebitda - flow.interest - flow.repayment - tax - funded.equity
           /\ a.opening = balance /\ a.drawdown = funded.debt
           /\ a.repayment = flow.repayment
           /\ a.closing = (balance + funded.debt) - flow.repayment
           /\ a.ppe = carrying - flow.depreciation + funded.capex
<1>. DEFINE ebitda == flow.revenue - flow.opex
            pbt == ebitda - flow.depreciation - flow.interest
            line == [generation |-> flow.generation, achievedPrice |-> flow.price,
                  revenue |-> flow.revenue, opex |-> flow.opex, ebitda |-> ebitda,
                  depreciation |-> flow.depreciation, ebit |-> ebitda - flow.depreciation,
                  interestExpense |-> flow.interest, pbt |-> pbt, taxExpense |-> tax,
                  netIncome |-> pbt - tax, interestPaid |-> flow.interest,
                  debtRepayment |-> flow.repayment, taxPaid |-> tax,
                  capex |-> funded.capex, debtDrawdown |-> funded.debt,
                  equityDrawdown |-> funded.equity,
                  fcfe |-> ebitda - flow.interest - flow.repayment - tax - funded.equity,
                  opening |-> balance, drawdown |-> funded.debt,
                  repayment |-> flow.repayment,
                  closing |-> (balance + funded.debt) - flow.repayment,
                  ppe |-> (carrying - flow.depreciation) + funded.capex]
<1>1. a = line
  <2>. DEFINE age == y - i.cod
              service == flow.interest + flow.repayment
  <2>1. Statement(i, y) =
            [amount |-> line,
             dscr |-> IF 0 <= age /\ age < i.tenor /\ service # 0 THEN ebitda \div service
                      ELSE Null]
    BY SMTT(30) DEF Statement, FlowOf
  <2>. HIDE DEF line, age, service, ebitda
  <2>. QED  BY <2>1
<1>. HIDE DEF ebitda, pbt
<1>2. /\ a.generation = flow.generation /\ a.achievedPrice = flow.price
      /\ a.revenue = flow.revenue /\ a.opex = flow.opex
      /\ a.ebitda = ebitda /\ a.depreciation = flow.depreciation
      /\ a.ebit = ebitda - flow.depreciation /\ a.interestExpense = flow.interest
      /\ a.pbt = pbt /\ a.taxExpense = tax /\ a.netIncome = pbt - tax
      /\ a.interestPaid = flow.interest /\ a.debtRepayment = flow.repayment
      /\ a.taxPaid = tax /\ a.capex = funded.capex /\ a.debtDrawdown = funded.debt
      /\ a.equityDrawdown = funded.equity
      /\ a.fcfe = ebitda - flow.interest - flow.repayment - tax - funded.equity
      /\ a.opening = balance /\ a.drawdown = funded.debt
      /\ a.repayment = flow.repayment
      /\ a.closing = (balance + funded.debt) - flow.repayment
      /\ a.ppe = (carrying - flow.depreciation) + funded.capex
  BY <1>1 DEF line
<1>. QED  BY <1>2, Zenon DEF ebitda, pbt

\* Every line is a whole number.
LEMMA YearFiguresAreWhole ==
    ASSUME NEW i, IsGeared(i), Standing(i), NEW a, a = Statement(i, year).amount
    PROVE  \A f \in Amounts : a[f] \in Int
<1>. DEFINE funded == Funding(i, year)
            drawn == balance + funded.debt
            flow == FlowOf(i, year, drawn)
            pbt == flow.revenue - flow.opex - flow.depreciation - flow.interest
            taxed == (pbt * i.taxRate) \div 100
            tax == AtLeast(0, taxed)
<1>1. /\ IsPlant(i) /\ i.seniorDebt > 0 /\ i.cod >= 0 /\ year \in Nat
      /\ drawn = OwedAfter(i, year) + funded.debt
  BY TieOutConstants DEF IsGeared, Standing, WithinTheFile
<1>2. /\ flow.generation \in Int /\ flow.price \in Int /\ flow.opex \in Int
      /\ flow.revenue = flow.generation * flow.price
      /\ flow.depreciation \in Int /\ flow.interest \in Int /\ flow.repayment \in Int
  BY <1>1, FlowFigures
<1>3. flow.revenue \in Int
  BY <1>2
<1>4. funded.debt \in Int /\ funded.equity \in Int /\ funded.capex \in Int
  BY <1>1, FundingFigures
<1>5. balance \in Int /\ carrying \in Int
  BY <1>1, OwedInAYear DEF Standing
<1>6. tax \in Int
  <2>1. i.taxRate \in Int
    BY <1>1, PlantFigures
  <2>. HIDE DEF flow
  <2>2. pbt \in Int
    BY <1>2, <1>3
  <2>. HIDE DEF pbt
  <2>3. pbt * i.taxRate \in Int
    BY <2>1, <2>2
  <2>4. taxed \in Int
    BY <2>3
  <2>. HIDE DEF taxed
  <2>. QED  BY <2>4, LargerIs
<1>7. /\ a.generation = flow.generation /\ a.achievedPrice = flow.price
      /\ a.revenue = flow.revenue /\ a.opex = flow.opex
      /\ a.ebitda = flow.revenue - flow.opex /\ a.depreciation = flow.depreciation
      /\ a.ebit = a.ebitda - flow.depreciation /\ a.interestExpense = flow.interest
      /\ a.pbt = a.ebitda - flow.depreciation - flow.interest
      /\ a.taxExpense = tax /\ a.netIncome = a.pbt - tax
      /\ a.interestPaid = flow.interest /\ a.debtRepayment = flow.repayment
      /\ a.taxPaid = tax /\ a.capex = funded.capex /\ a.debtDrawdown = funded.debt
      /\ a.equityDrawdown = funded.equity
      /\ a.fcfe = a.ebitda - flow.interest - flow.repayment - tax - funded.equity
      /\ a.opening = balance /\ a.drawdown = funded.debt
      /\ a.repayment = flow.repayment
      /\ a.closing = (balance + funded.debt) - flow.repayment
      /\ a.ppe = carrying - flow.depreciation + funded.capex
  BY StatementFigures
<1>. HIDE DEF funded, flow, tax
<1>. QED  BY <1>2, <1>3, <1>4, <1>5, <1>6, <1>7 DEF Amounts

\* Every identity of a year is met by what the house model computes.
LEMMA YearTies ==
    ASSUME NEW i, IsGeared(i), Standing(i), NEW a, a = Statement(i, year).amount
    PROVE  /\ Tied(a)
           /\ a.closing = OwedAfter(i, year + 1)
           /\ a.debtDrawdown = (IF year = i.cod THEN i.seniorDebt ELSE 0)
           /\ EquityAfter(i, year + 1) = EquityAfter(i, year) + a.equityDrawdown
<1>. DEFINE funded == Funding(i, year)
            drawn == balance + funded.debt
            flow == FlowOf(i, year, drawn)
            pbt == flow.revenue - flow.opex - flow.depreciation - flow.interest
            tax == AtLeast(0, (pbt * i.taxRate) \div 100)
<1>0. \A f \in Amounts : a[f] \in Int
  BY YearFiguresAreWhole
<1>1. /\ IsPlant(i) /\ i.seniorDebt > 0 /\ i.cod >= 0 /\ year \in Nat
      /\ drawn = OwedAfter(i, year) + funded.debt
  BY TieOutConstants DEF IsGeared, Standing, WithinTheFile
<1>2. /\ flow.revenue = flow.generation * flow.price
      /\ flow.opex = (IF year - i.cod < 0 THEN 0
                      ELSE i.opex * Power(1 + i.opexEscalation, year - i.cod))
      /\ drawn - flow.repayment = OwedAfter(i, year + 1)
  BY <1>1, FlowFigures
<1>3. /\ funded.debt = (IF year = i.cod THEN i.seniorDebt ELSE 0)
      /\ funded.capex = funded.equity + funded.debt
      /\ EquityAfter(i, year + 1) = EquityAfter(i, year) + funded.equity
  BY <1>1, FundingFigures
<1>4. OpexDue(year) = flow.opex
  <2>1. head.cod = i.cod /\ head.opex = i.opex /\ head.escalation = i.opexEscalation
    BY DEF Standing, Declared
  <2>. HIDE DEF flow
  <2>. QED  BY <1>2, <2>1 DEF OpexDue, Age
<1>5. /\ a.generation = flow.generation /\ a.achievedPrice = flow.price
      /\ a.revenue = flow.revenue /\ a.opex = flow.opex
      /\ a.ebitda = flow.revenue - flow.opex /\ a.depreciation = flow.depreciation
      /\ a.ebit = a.ebitda - flow.depreciation /\ a.interestExpense = flow.interest
      /\ a.pbt = a.ebitda - flow.depreciation - flow.interest
      /\ a.taxExpense = tax /\ a.netIncome = a.pbt - tax
      /\ a.interestPaid = flow.interest /\ a.debtRepayment = flow.repayment
      /\ a.taxPaid = tax /\ a.capex = funded.capex /\ a.debtDrawdown = funded.debt
      /\ a.equityDrawdown = funded.equity
      /\ a.fcfe = a.ebitda - flow.interest - flow.repayment - tax - funded.equity
      /\ a.opening = balance /\ a.drawdown = funded.debt
      /\ a.repayment = flow.repayment
      /\ a.closing = (balance + funded.debt) - flow.repayment
      /\ a.ppe = carrying - flow.depreciation + funded.capex
  BY StatementFigures
<1>6. closing = balance /\ ppe = carrying
  BY DEF Standing
<1>7. /\ a.ebitda \in Int /\ a.ebit \in Int /\ a.pbt \in Int /\ a.netIncome \in Int
      /\ a.interestExpense \in Int /\ a.taxExpense \in Int /\ a.depreciation \in Int
      /\ a.capex \in Int /\ a.closing \in Int /\ a.opening \in Int /\ a.ppe \in Int
      /\ a.debtDrawdown \in Int /\ a.equityDrawdown \in Int /\ a.drawdown \in Int
      /\ a.repayment \in Int /\ a.interestPaid \in Int /\ a.debtRepayment \in Int
      /\ a.taxPaid \in Int /\ a.fcfe \in Int
  BY <1>0 DEF Amounts
<1>. HIDE DEF funded, flow, tax
<1>8. a.revenue = a.generation * a.achievedPrice /\ a.opex = OpexDue(year)
  BY <1>2, <1>4, <1>5
<1>9. /\ a.ebitda = a.revenue - a.opex /\ a.ebit = a.ebitda - a.depreciation
      /\ a.pbt = a.ebit - a.interestExpense /\ a.netIncome = a.pbt - a.taxExpense
  BY <1>5, <1>7
<1>10. a.capex = a.debtDrawdown + a.equityDrawdown
  BY <1>3, <1>5, <1>7
<1>11. a.fcfe = a.ebitda - a.interestPaid - a.debtRepayment - a.taxPaid - a.capex
                  + a.debtDrawdown
  BY <1>5, <1>7, <1>10
<1>12. /\ a.closing = a.opening - a.repayment + a.drawdown /\ a.opening = closing
       /\ a.ppe = ppe - a.depreciation + a.capex
  BY <1>5, <1>6, <1>7
<1>13. Tied(a)
  BY <1>0, <1>8, <1>9, <1>10, <1>11, <1>12 DEF Tied
<1>14. a.closing = OwedAfter(i, year + 1)
  BY <1>2, <1>5
<1>. QED  BY <1>3, <1>5, <1>13, <1>14

\* The first year after the ramp earns what the plant was priced on.
LEMMA FirstFullYear ==
    ASSUME NEW i, IsPlant(i), NEW drawn
    PROVE  Operation(i, 1, drawn).revenue - Operation(i, 1, drawn).opex = Stabilised(i)
<1>1. Power(1 + i.opexEscalation, 1) = 1 + i.opexEscalation
  <2>1. 1 + i.opexEscalation \in Int
    BY PlantFigures
  <2>. DEFINE base == 1 + i.opexEscalation
  <2>. HIDE DEF base
  <2>2. Power(base, 0) = 1 /\ Power(base, 0 + 1) = base * Power(base, 0) /\ base \in Int
    BY <2>1, Powers DEF base
  <2>3. Power(base, 1) = base
    BY <2>2
  <2>. QED  BY <2>3 DEF base
<1>2. /\ Operation(i, 1, drawn).revenue = Generation(i, 1) * AchievedPrice(i, 1)
      /\ Operation(i, 1, drawn).opex = i.opex * Power(1 + i.opexEscalation, 1)
  BY DEF Operation
<1>. QED  BY <1>1, <1>2, Zenon DEF Stabilised

\* The cover of a statement, by the same.
LEMMA CoverOfAStatement ==
    ASSUME NEW i, NEW y, NEW r, r = Statement(i, y),
           NEW flow, flow = FlowOf(i, y, balance + Funding(i, y).debt),
           NEW ebitda, ebitda = flow.revenue - flow.opex,
           NEW service, service = flow.interest + flow.repayment
    PROVE  r.dscr = IF 0 <= y - i.cod /\ y - i.cod < i.tenor /\ service # 0
                    THEN ebitda \div service ELSE Null
<1>. DEFINE line == Statement(i, y).amount
            age == y - i.cod
            cover == IF 0 <= age /\ age < i.tenor /\ service # 0
                     THEN ebitda \div service ELSE Null
<1>1. Statement(i, y) = [amount |-> line, dscr |-> cover]
  BY DEF Statement, FlowOf
<1>. HIDE DEF line, cover
<1>2. r.dscr = cover
  BY <1>1
<1>. QED  BY <1>2 DEF cover

\* A year of the debt's life is covered by a ratio that divides; other years
\* have none; and the first full year of a debt that the ceiling did not cap
\* is covered at the target.
LEMMA YearIsCovered ==
    ASSUME NEW i, IsGeared(i), Standing(i), NEW r, r = Statement(i, year)
    PROVE  /\ Covered(r)
           /\ r.dscr \in Int \cup {Null}
           /\ Sculpted(i) /\ i.tenor > 1 /\ year = i.cod + 1 =>
                 r.dscr \in Int /\ r.dscr = i.target
<1>. DEFINE funded == Funding(i, year)
            drawn == balance + funded.debt
            flow == FlowOf(i, year, drawn)
            age == year - i.cod
            service == flow.interest + flow.repayment
            ebitda == flow.revenue - flow.opex
            p == Payment(i.seniorDebt, i.debtRate, i.tenor)
            inLife == 0 <= age /\ age < i.tenor
<1>1. IsPlant(i) /\ i.seniorDebt > 0 /\ i.cod >= 0 /\ year \in Nat
      /\ drawn = OwedAfter(i, year) + funded.debt
  BY TieOutConstants DEF IsGeared, Standing, WithinTheFile
<1>2. i.cod \in Int /\ i.tenor \in Nat /\ i.target \in Nat \ {0}
  BY <1>1, PlantFigures
<1>3. p \in Nat \ {0} /\ (Sculpted(i) => i.target * p = Stabilised(i))
  BY <1>1, Sized
<1>4. /\ flow.generation \in Int /\ flow.price \in Int /\ flow.opex \in Int
      /\ flow.revenue = flow.generation * flow.price
      /\ flow.interest \in Int /\ flow.repayment \in Int
      /\ inLife => service = p /\ ebitda % p = 0
  BY <1>1, FlowFigures
<1>5. ebitda \in Int /\ service \in Int
  BY <1>4
<1>6. r.dscr = IF inLife /\ service # 0 THEN ebitda \div service ELSE Null
  BY CoverOfAStatement
<1>7. /\ r.amount.ebitda = ebitda
      /\ Service(r.amount) = service
  <2>. DEFINE a == r.amount
  <2>1. a = Statement(i, year).amount
    OBVIOUS
  <2>. HIDE DEF a
  <2>2. /\ a.ebitda = ebitda /\ a.interestPaid = flow.interest
        /\ a.debtRepayment = flow.repayment
    BY <2>1, StatementFigures
  <2>. QED  BY <2>2, Zenon DEF Service, a
<1>8. inLife <=> InDebtLife(year)
  <2>1. head.cod = i.cod /\ head.tenor = i.tenor
    BY DEF Standing, Declared
  <2>. QED  BY <2>1 DEF InDebtLife, Age
<1>9. Null \notin Int
  BY TieOutConstants
<1>10. ASSUME Sculpted(i), i.tenor > 1, year = i.cod + 1 PROVE inLife /\ ebitda = i.target * p
  <2>1. age = 1 /\ inLife
    BY <1>1, <1>2, <1>10
  <2>2. flow = Operation(i, 1, drawn)
    BY <2>1 DEF FlowOf
  <2>3. ebitda = Stabilised(i)
    BY <1>1, <2>2, FirstFullYear
  <2>. QED  BY <1>3, <1>10, <2>1, <2>3
<1>. HIDE DEF service, ebitda, p, inLife, flow
<1>11. CASE inLife
  <2>1. r.dscr = ebitda \div p /\ service = p
    BY <1>3, <1>4, <1>6, <1>11
  <2>2. ebitda \div p \in Int /\ ebitda = p * (ebitda \div p)
    BY <1>3, <1>4, <1>5, <1>11, DivExact
  <2>3. (ebitda \div p) * p = ebitda
    BY <1>3, <2>2
  <2>4. r.dscr \in Int /\ r.dscr # Null /\ Service(r.amount) \in Nat
        /\ r.dscr * Service(r.amount) = r.amount.ebitda
    BY <1>3, <1>7, <1>9, <2>1, <2>2, <2>3
  <2>5. Covered(r)
    BY <1>8, <1>11, <2>4 DEF Covered, InDebtLife
  <2>6. ASSUME Sculpted(i), i.tenor > 1, year = i.cod + 1 PROVE r.dscr = i.target
    <3>. DEFINE t == i.target
    <3>1. t \in Int /\ ebitda = p * t
      BY <1>2, <1>3, <1>10, <2>6
    <3>. HIDE DEF t
    <3>2. (p * t) \div p = t
      BY <1>3, <3>1, DivExact
    <3>. QED  BY <2>1, <3>1, <3>2 DEF t
  <2>. QED  BY <2>4, <2>5, <2>6
<1>12. CASE ~inLife
  <2>1. r.dscr = Null
    BY <1>6, <1>12
  <2>2. Covered(r)
    BY <1>8, <1>12, <2>1 DEF Covered, InDebtLife
  <2>. QED  BY <1>10, <1>12, <2>1, <2>2
<1>. QED  BY <1>11, <1>12

-----------------------------------------------------------------------------
(* The house model ties out.                                               *)

\* What the years read so far come to.
PlantSoFar(i) ==
    /\ Standing(i)
    /\ failures = {} /\ sheet = {}
    /\ total.debtDrawdown = (IF year <= i.cod THEN 0 ELSE i.seniorDebt)
    /\ total.equityDrawdown = EquityAfter(i, year)
    /\ total.capex = total.debtDrawdown + total.equityDrawdown
    /\ total.depreciation \in Int
    /\ carrying = total.capex - total.depreciation
    /\ lowest \in Int \cup {Null}
    /\ Sculpted(i) /\ i.tenor > 1 /\ year > i.cod + 1 => lowest \in Int /\ lowest <= i.target
    /\ verdict = "loaded" => year = Horizon

\* The inductive invariant: of a plant whose debt begins and ends within the
\* file, what the years read so far come to.
HouseIInv ==
    /\ head \in Heads
    /\ inputs # Analyst =>
         /\ IsPlant(inputs) /\ head = Declared(inputs)
         /\ WithinTheFile(inputs) /\ inputs.seniorDebt > 0 => PlantSoFar(inputs)

\* Where such a plant's debt begins and ends.
LEMMA WithinFigures ==
    ASSUME NEW i, IsGeared(i)
    PROVE  /\ i.cod \in Nat /\ i.tenor \in Nat \ {0} /\ i.cod < Horizon
           /\ i.cod + i.tenor <= Horizon /\ Horizon \in Nat
           /\ i.seniorDebt \in Nat \ {0} /\ i.totalCapex \in Nat
<1>1. IsPlant(i) /\ i.seniorDebt > 0 /\ 0 <= i.cod /\ i.cod + AtLeast(1, i.tenor) <= Horizon
  BY DEF IsGeared, WithinTheFile
<1>2. /\ i.cod \in Nat /\ i.tenor \in Nat \ {0}
      /\ i.seniorDebt \in Nat \ {0} /\ i.totalCapex \in Nat
  BY <1>1, DebtHasALife, PlantFigures
<1>3. Horizon \in Nat
  BY TieOutConstants
<1>4. AtLeast(1, i.tenor) = i.tenor
  BY <1>2 DEF AtLeast
<1>. QED  BY <1>1, <1>2, <1>3, <1>4

\* At the end everything is paid in, repaid and on the books.
LEMMA WholeFilePasses ==
    ASSUME NEW i, IsGeared(i), PlantSoFar(i), year = Horizon
    PROVE  Broken(WholeFile) = {} /\ SheetScalars = {}
<1>. DEFINE debt == i.seniorDebt
            cost == i.totalCapex
<1>1. /\ i.cod \in Nat /\ i.tenor \in Nat \ {0} /\ i.cod < Horizon
      /\ i.cod + i.tenor <= Horizon /\ Horizon \in Nat /\ debt \in Nat /\ cost \in Nat
      /\ IsPlant(i) /\ i.seniorDebt > 0
  BY WithinFigures DEF IsGeared
<1>2. head.seniorDebt = debt /\ head.totalCapex = cost
  BY DEF PlantSoFar, Standing, Declared
<1>3. total.debtDrawdown = debt
  BY <1>1 DEF PlantSoFar
<1>4. total.equityDrawdown = cost - debt
  BY <1>1, EquityIsPaid DEF PlantSoFar
<1>5. total.capex = cost
  BY <1>1, <1>3, <1>4 DEF PlantSoFar
<1>6. ppe \in Int /\ total.depreciation \in Int /\ total.depreciation = cost - ppe
  BY <1>1, <1>5 DEF PlantSoFar, Standing
<1>7. closing = 0
  <2>. DEFINE owed == Outstanding(debt, i.debtRate, i.tenor)
  <2>1. owed[i.tenor] = 0
    BY <1>1, ScheduleOfAPlant, Zenon DEF Amortising
  <2>2. OwedAfter(i, Horizon) = IF Horizon <= i.cod THEN 0
                                ELSE owed[IF Horizon - i.cod <= i.tenor THEN Horizon - i.cod
                                          ELSE i.tenor]
    BY DEF OwedAfter
  <2>3. (IF Horizon - i.cod <= i.tenor THEN Horizon - i.cod ELSE i.tenor) = i.tenor
        /\ ~(Horizon <= i.cod)
    BY <1>1
  <2>4. OwedAfter(i, Horizon) = 0
    BY <2>1, <2>2, <2>3
  <2>. QED  BY <2>4 DEF PlantSoFar, Standing
<1>. HIDE DEF debt, cost
<1>8. cost - debt \in Int /\ cost - ppe \in Int
  BY <1>1, <1>6
<1>9. Ties(WholeFile)
  BY <1>1, <1>2, <1>3, <1>4, <1>5, <1>6, <1>7, <1>8 DEF Ties, WholeFile
<1>10. SheetScalars = {}
  <2>1. ~SheetBreach(0, closing) /\ ~SheetBreach(head.seniorDebt, total.debtDrawdown)
    BY <1>1, <1>2, <1>3, <1>7, EqualsPass
  <2>2. ~SheetBreach(head.totalCapex - head.seniorDebt, total.equityDrawdown)
    BY <1>2, <1>4, <1>8, EqualsPass
  <2>3. ~SheetBreach(head.totalCapex, total.capex)
    BY <1>1, <1>2, <1>5, EqualsPass
  <2>4. ~(1000 * Abs(total.depreciation - (head.totalCapex - ppe))
            > AtLeast(1000, Abs(head.totalCapex)))
    <3>1. total.depreciation - (head.totalCapex - ppe) = 0
      BY <1>2, <1>6
    <3>2. Abs(0) = 0 /\ Abs(head.totalCapex) \in Int
      BY <1>1, <1>2 DEF Abs
    <3>3. AtLeast(1000, Abs(head.totalCapex)) >= 1000
          /\ AtLeast(1000, Abs(head.totalCapex)) \in Int
      BY <3>2, LargerIs
    <3>. QED  BY <3>1, <3>2, <3>3
  <2>. QED  BY <2>1, <2>2, <2>3, <2>4 DEF SheetScalars
<1>. QED  BY <1>9, <1>10, PassingIsUnbroken

\* It holds before a year is read,
LEMMA HouseStarts == HouseInit => HouseIInv
<1>. SUFFICES ASSUME HouseInit PROVE HouseIInv
  OBVIOUS
<1>1. /\ head \in Heads /\ year = 0 /\ closing = 0 /\ ppe = 0 /\ total = NoAmount
      /\ failures = {} /\ sheet = {} /\ lowest = Null /\ verdict = "reading"
      /\ balance = 0 /\ carrying = 0
  BY DEF HouseInit, SheetInit, TieOutInit
<1>2. ASSUME inputs # Analyst PROVE IsPlant(inputs) /\ head = Declared(inputs)
  <2>1. head = Declared(inputs) /\ \E d \in Drawn : inputs = Priced(d)
    BY <1>2 DEF HouseInit
  <2>2. Declared(inputs) \in Header
    BY <1>1, <2>1, TieOutConstants
  <2>. QED  BY <2>1, <2>2 DEF IsPlant
<1>3. ASSUME inputs # Analyst, WithinTheFile(inputs), inputs.seniorDebt > 0
      PROVE  PlantSoFar(inputs)
  <2>. DEFINE i == inputs
  <2>1. IsGeared(i)
    BY <1>2, <1>3 DEF IsGeared
  <2>2. i.cod \in Nat /\ i.totalCapex \in Int /\ i.seniorDebt \in Int /\ Horizon \in Nat
    BY <2>1, WithinFigures
  <2>3. OwedAfter(i, 0) = 0
    BY <2>2 DEF OwedAfter
  <2>4. EquityAfter(i, 0) = 0
    <3>. DEFINE share == (i.totalCapex - i.seniorDebt) \div i.cod
    <3>1. EquityAfter(i, 0) = IF i.cod = 0 THEN 0
                              ELSE share * (IF 0 < i.cod THEN 0 ELSE i.cod)
      BY DEF EquityAfter
    <3>2. i.cod # 0 => share \in Int
      <4>. DEFINE equity == i.totalCapex - i.seniorDebt
      <4>1. equity \in Int
        BY <2>2
      <4>. HIDE DEF equity
      <4>. QED  BY <2>2, <4>1, DivBounds
    <3>. HIDE DEF share
    <3>3. i.cod # 0 => share * 0 = 0
      BY <3>2
    <3>. QED  BY <2>2, <3>1, <3>3
  <2>5. total.debtDrawdown = 0 /\ total.equityDrawdown = 0 /\ total.capex = 0
        /\ total.depreciation = 0
    BY <1>1 DEF NoAmount, Amounts
  <2>6. Standing(i)
    BY <1>1, <1>2, <1>3, <2>2, <2>3 DEF Standing
  <2>. QED  BY <1>1, <2>2, <2>4, <2>5, <2>6 DEF PlantSoFar
<1>. QED  BY <1>1, <1>2, <1>3 DEF HouseIInv

\* a year that is modelled keeps it,
LEMMA ModelKeepsStanding ==
    ASSUME NEW i, IsGeared(i), PlantSoFar(i), inputs = i, ModelYear
    PROVE  PlantSoFar(i)'
<1>. DEFINE r == Statement(i, year)
            a == r.amount
<1>1. /\ i.cod \in Nat /\ i.tenor \in Nat \ {0} /\ i.seniorDebt \in Nat /\ Horizon \in Nat
      /\ i.target \in Nat /\ IsPlant(i)
  BY WithinFigures, PlantFigures DEF IsGeared
<1>2. /\ verdict = "reading" /\ year < Horizon /\ year \in Nat
      /\ failures' = failures \cup YearFailures(r) /\ sheet' = sheet \cup SheetFailures(r)
      /\ total' = [f \in Amounts |-> total[f] + a[f]]
      /\ closing' = a.closing /\ ppe' = a.ppe /\ lowest' = LowestCover(r)
      /\ year' = year + 1 /\ head' = head /\ verdict' = verdict
      /\ balance' = a.closing /\ carrying' = a.ppe
  BY <1>1 DEF ModelYear, SheetReads, ReadYear, PlantSoFar, Standing
<1>3. Standing(i)
  BY DEF PlantSoFar
<1>4. /\ Tied(a) /\ a.closing = OwedAfter(i, year + 1)
      /\ a.debtDrawdown = (IF year = i.cod THEN i.seniorDebt ELSE 0)
      /\ EquityAfter(i, year + 1) = EquityAfter(i, year) + a.equityDrawdown
  BY <1>3, YearTies
<1>5. /\ Covered(r) /\ r.dscr \in Int \cup {Null}
      /\ Sculpted(i) /\ i.tenor > 1 /\ year = i.cod + 1 => r.dscr \in Int /\ r.dscr = i.target
  BY <1>3, YearIsCovered
<1>6. failures' = {} /\ sheet' = {}
  <2>1. year = 0 => closing = 0
    <3>1. OwedAfter(i, 0) = 0
      BY <1>1 DEF OwedAfter
    <3>. QED  BY <1>3, <3>1 DEF Standing
  <2>2. YearFailures(r) = {} /\ SheetFailures(r) = {}
    BY <1>4, <1>5, <2>1, TiedYearPassesTheGate, TiedYearPassesTheSheet
  <2>. QED  BY <1>2, <2>2 DEF PlantSoFar
<1>. HIDE DEF r, a
<1>7. /\ a.closing \in Int /\ a.ppe \in Int /\ a.depreciation \in Int /\ a.capex \in Int
      /\ a.debtDrawdown \in Int /\ a.equityDrawdown \in Int
      /\ a.capex = a.debtDrawdown + a.equityDrawdown
      /\ a.ppe = ppe - a.depreciation + a.capex
  BY <1>4 DEF Tied, Amounts
<1>8. Standing(i)'
  <2>1. head' = Declared(i) /\ year' \in 0 .. Horizon /\ closing' = balance'
        /\ ppe' = carrying' /\ balance' = OwedAfter(i, year') /\ carrying' \in Int
    BY <1>1, <1>2, <1>3, <1>4, <1>7 DEF Standing
  <2>. QED  BY <2>1 DEF Standing, OwedAfter, Declared
<1>9. /\ total'.debtDrawdown = total.debtDrawdown + a.debtDrawdown
      /\ total'.equityDrawdown = total.equityDrawdown + a.equityDrawdown
      /\ total'.capex = total.capex + a.capex
      /\ total'.depreciation = total.depreciation + a.depreciation
  BY <1>2 DEF Amounts
<1>10. total'.debtDrawdown = (IF year' <= i.cod THEN 0 ELSE i.seniorDebt)
  BY <1>1, <1>2, <1>4, <1>9 DEF PlantSoFar
<1>11. total'.equityDrawdown = EquityAfter(i, year')
  BY <1>2, <1>4, <1>9 DEF PlantSoFar
<1>12. /\ total.debtDrawdown \in Int /\ total.equityDrawdown \in Int /\ total.capex \in Int
       /\ total.depreciation \in Int
  <2>1. i.cod >= 0 /\ EquityAfter(i, year) \in Int
    BY <1>1, <1>2, FundingFigures
  <2>. QED  BY <1>1, <2>1 DEF PlantSoFar
<1>13. total'.capex = total'.debtDrawdown + total'.equityDrawdown
  BY <1>7, <1>9, <1>12 DEF PlantSoFar
<1>14. total'.depreciation \in Int /\ carrying' = total'.capex - total'.depreciation
  <2>1. ppe = total.capex - total.depreciation
    BY DEF PlantSoFar, Standing
  <2>. QED  BY <1>2, <1>7, <1>9, <1>12, <2>1
<1>15. /\ lowest' \in Int \cup {Null}
       /\ Sculpted(i) /\ i.tenor > 1 /\ year' > i.cod + 1 =>
             lowest' \in Int /\ lowest' <= i.target
  <2>1. Null \notin Int
    BY TieOutConstants
  <2>2. lowest' = IF r.dscr = Null \/ IsRamp(year) THEN lowest
                  ELSE IF lowest = Null \/ r.dscr < lowest THEN r.dscr ELSE lowest
    BY <1>2 DEF LowestCover
  <2>3. lowest \in Int \cup {Null}
    BY DEF PlantSoFar
  <2>4. IsRamp(year) <=> year = i.cod
    <3>1. head.cod = i.cod
      BY <1>3 DEF Standing, Declared
    <3>. QED  BY <1>1, <1>2, <3>1 DEF IsRamp, Age
  <2>5. lowest' \in Int \cup {Null} /\ (lowest \in Int => lowest' \in Int /\ lowest' <= lowest)
    BY <1>5, <2>1, <2>2, <2>3
  <2>6. ASSUME Sculpted(i), i.tenor > 1, year' > i.cod + 1
        PROVE  lowest' \in Int /\ lowest' <= i.target
    <3>1. CASE year > i.cod + 1
      <4>1. lowest \in Int /\ lowest <= i.target
        BY <2>6, <3>1 DEF PlantSoFar
      <4>. QED  BY <1>1, <2>5, <4>1
    <3>2. CASE year = i.cod + 1
      <4>1. r.dscr \in Int /\ r.dscr = i.target /\ ~IsRamp(year)
        BY <1>1, <1>5, <2>4, <2>6, <3>2
      <4>. QED  BY <1>1, <2>1, <2>2, <2>3, <4>1
    <3>. QED  BY <1>1, <1>2, <2>6, <3>1, <3>2
  <2>. QED  BY <2>5, <2>6
<1>16. Sculpted(i)' <=> Sculpted(i)
  BY DEF Sculpted, Serviceable, Ceiling, Capex, Stabilised, Generation, AchievedPrice,
         PaymentFactor, Power
<1>. QED  BY <1>2, <1>6, <1>8, <1>10, <1>11, <1>13, <1>14, <1>15, <1>16
        DEF PlantSoFar, EquityAfter

\* (the plant modelled in a state is the one it was before)
LEMMA StandingIsOfTheState ==
    ASSUME NEW i, inputs' = i, PlantSoFar(i)'
    PROVE  PlantSoFar(inputs)'
  BY DEF PlantSoFar, Standing

\* and so does the end of the file.
LEMMA ConcludingKeepsStanding ==
    ASSUME NEW i, IsGeared(i), PlantSoFar(i), SheetConcludes,
           UNCHANGED <<balance, carrying>>
    PROVE  PlantSoFar(i)'
<1>1. /\ verdict = "reading" /\ year = Horizon
      /\ failures' = failures \cup Broken(WholeFile) /\ sheet' = sheet \cup SheetScalars
      /\ UNCHANGED <<head, year, closing, ppe, total, lowest, balance, carrying>>
  BY DEF SheetConcludes, Conclude
<1>2. failures' = {} /\ sheet' = {}
  BY <1>1, WholeFilePasses DEF PlantSoFar
<1>. QED  BY <1>1, <1>2 DEF PlantSoFar, Standing

\* No step breaks it.
LEMMA HouseIsKept == HouseIInv /\ [HouseNext]_modelled => HouseIInv'
<1>. SUFFICES ASSUME HouseIInv, [HouseNext]_modelled PROVE HouseIInv'
  OBVIOUS
<1>1. CASE inputs = Analyst
  <2>1. inputs' = inputs /\ head' = head
    BY <1>1 DEF HouseNext, ModelYear, StateYear, SheetReads, SheetConcludes, ReadYear,
                Conclude, modelled, file
  <2>. QED  BY <1>1, <2>1 DEF HouseIInv
<1>2. CASE inputs # Analyst
  <2>. DEFINE geared == WithinTheFile(inputs) /\ inputs.seniorDebt > 0
  <2>1. inputs' = inputs /\ head' = head
    BY <1>2 DEF HouseNext, ModelYear, StateYear, SheetReads, SheetConcludes, ReadYear,
                Conclude, modelled, file
  <2>2. IsPlant(inputs) /\ head = Declared(inputs) /\ head \in Heads
    BY <1>2 DEF HouseIInv
  <2>3. PICK i : i = inputs
    OBVIOUS
  <2>4. ASSUME geared PROVE PlantSoFar(i)'
    <3>1. IsGeared(i) /\ PlantSoFar(i)
      BY <1>2, <2>2, <2>3, <2>4 DEF IsGeared, HouseIInv
    <3>2. CASE ModelYear
      BY <2>3, <3>1, <3>2, ModelKeepsStanding
    <3>3. CASE SheetConcludes /\ UNCHANGED <<inputs, balance, carrying>>
      BY <3>1, <3>3, ConcludingKeepsStanding
    <3>4. CASE UNCHANGED modelled
      BY <3>1, <3>4 DEF modelled, file, PlantSoFar, Standing
    <3>. QED  BY <1>2, <3>2, <3>3, <3>4 DEF HouseNext, StateYear
  <2>5. ASSUME geared PROVE PlantSoFar(inputs)'
    BY <2>1, <2>3, <2>4, <2>5, StandingIsOfTheState
  <2>. QED  BY <1>2, <2>1, <2>2, <2>5 DEF HouseIInv
<1>. QED  BY <1>1, <1>2

LEMMA HouseInvariant == HouseSpec => []HouseIInv
  BY HouseStarts, HouseIsKept, PTL DEF HouseSpec

\* "Every tie-out in 7 holds by construction" (project_statements): the file of
\* any plant whose debt begins and ends within it passes the gate and the
\* sheet, in every year and as a whole.
THEOREM HouseTiesOut == HouseSpec => []HouseModelTiesOut
<1>1. HouseIInv => HouseModelTiesOut
  BY DEF HouseIInv, HouseModelTiesOut, PlantSoFar
<1>. QED  BY <1>1, HouseInvariant, PTL

\* The debt that pricing sizes on a synthetic year is covered, in the years
\* that are modelled, as size_senior_debt means it to be.
THEOREM DebtIsCovered == HouseSpec => []DebtIsSizedToItsTarget
<1>1. ASSUME HouseIInv PROVE DebtIsSizedToItsTarget
  <2>. SUFFICES ASSUME inputs # Analyst, WithinTheFile(inputs), inputs.seniorDebt > 0
                PROVE  DebtIsSizedToItsTarget
    BY DEF DebtIsSizedToItsTarget
  <2>. DEFINE i == inputs
              p == Payment(i.seniorDebt, i.debtRate, i.tenor)
  <2>1. IsPlant(i) /\ IsGeared(i) /\ PlantSoFar(i)
    BY <1>1 DEF HouseIInv, IsGeared
  <2>2. i.target * p <= Stabilised(i) /\ i.target * p \in Int /\ Stabilised(i) \in Int
    <3>1. p \in Nat \ {0} /\ i.target \in Nat /\ i.target * p <= Stabilised(i)
          /\ Stabilised(i) \in Int
      BY <2>1, Sized, PlantFigures, PriceFigures
    <3>. HIDE DEF p
    <3>. QED  BY <3>1
  <2>3. ASSUME NEW age \in 1 .. i.tenor - 1
        PROVE  LET flow == Operation(i, age, 0)
               IN  flow.revenue - flow.opex >= Stabilised(i) =>
                     flow.revenue - flow.opex >= i.target * p
    <3>. DEFINE ebitda == Operation(i, age, 0).revenue - Operation(i, age, 0).opex
    <3>1. ebitda \in Int
      <4>1. age \in Nat /\ i.opex \in Int /\ 1 + i.opexEscalation \in Int
        BY <2>1, PlantFigures
      <4>2. Generation(i, age) \in Int /\ AchievedPrice(i, age) \in Int
            /\ Power(1 + i.opexEscalation, age) \in Int
        BY <2>1, <4>1, OperationFigures, PowerIsInt
      <4>3. /\ Operation(i, age, 0).revenue = Generation(i, age) * AchievedPrice(i, age)
            /\ Operation(i, age, 0).opex = i.opex * Power(1 + i.opexEscalation, age)
        BY DEF Operation
      <4>. QED  BY <4>1, <4>2, <4>3
    <3>. HIDE DEF ebitda
    <3>2. ebitda >= Stabilised(i) => ebitda >= i.target * p
      BY <2>2, <3>1
    <3>. QED  BY <3>2 DEF ebitda
  <2>4. ASSUME Sculpted(i), i.tenor > 1, verdict = "loaded"
        PROVE  lowest # Null /\ lowest <= i.target
    <3>1. year > i.cod + 1
      <4>1. year = Horizon
        BY <2>1, <2>4 DEF PlantSoFar
      <4>2. i.cod \in Nat /\ i.tenor \in Nat /\ i.cod + i.tenor <= Horizon /\ Horizon \in Nat
        BY <2>1, WithinFigures
      <4>. QED  BY <2>4, <4>1, <4>2
    <3>2. lowest \in Int /\ lowest <= i.target
      BY <2>1, <2>4, <3>1 DEF PlantSoFar
    <3>. QED  BY <3>2, TieOutConstants
  <2>. QED  BY <2>3, <2>4 DEF DebtIsSizedToItsTarget
<1>. QED  BY <1>1, HouseInvariant, PTL

-----------------------------------------------------------------------------
(* What a mandate is told and refused (Feasibility).                       *)

\* The equity and the capacity of a part of the pipeline are no more than those
\* of the whole.
LEMMA SumsGrow ==
    ASSUME asked \in Inputs, NEW f \in {"equity", "capacity"},
           NEW A \in SUBSET Projects, NEW B \in SUBSET A
    PROVE  Sum(f, A) \in Nat /\ Sum(f, B) \in Nat /\ Sum(f, B) <= Sum(f, A)
<1>. DEFINE figure == [p \in Projects |-> asked.plants[p][f]]
<1>1. IsFiniteSet(Projects)
  BY FeasibilityConstants
<1>2. ASSUME NEW p \in Projects PROVE figure[p] \in Nat
  <2>1. asked.plants[p] \in Plants
    BY DEF Inputs
  <2>2. asked.plants[p].equity \in Nat /\ asked.plants[p].capacity \in Nat
    BY <2>1, FeasibilityConstants
  <2>. QED  BY <2>2
<1>3. \A S \in SUBSET Projects : Sum(f, S) = SumOf(figure, S)
  BY DEF Sum, SumOf
<1>4. Natural(figure, Projects)
  BY <1>2 DEF Natural
<1>. HIDE DEF figure
<1>. QED  BY <1>1, <1>3, <1>4, SumOfGrows

\* The codes of the signals.
LEMMA CodesAre ==
    ToSet(WarningCode) = {"NO_CANDIDATES", "LOCKS_EXCEED_CAPITAL", "CAPACITY_BELOW_TARGET",
                 "LEVERAGE_UNREACHABLE", "SOLAR_MIX_UNREACHABLE",
                 "CAPITAL_UNDERUSED", "LOCKS_PRESENT"}
<1>1. DOMAIN WarningCode = 1 .. 7
  BY DEF WarningCode
<1>2. 1 .. 7 = {1, 2, 3, 4, 5, 6, 7}
  OBVIOUS
<1>3. ToSet(WarningCode) = {WarningCode[i] : i \in {1, 2, 3, 4, 5, 6, 7}}
  BY <1>1, <1>2 DEF ToSet
<1>4. /\ WarningCode[1] = "NO_CANDIDATES" /\ WarningCode[2] = "LOCKS_EXCEED_CAPITAL"
      /\ WarningCode[3] = "CAPACITY_BELOW_TARGET" /\ WarningCode[4] = "LEVERAGE_UNREACHABLE"
      /\ WarningCode[5] = "SOLAR_MIX_UNREACHABLE" /\ WarningCode[6] = "CAPITAL_UNDERUSED"
      /\ WarningCode[7] = "LOCKS_PRESENT"
  BY DEF WarningCode
<1>. QED  BY <1>3, <1>4

\* What is held is locked and eligible, and re-admitted projects are held.
LEMMA SetsOfTheRequest ==
    ASSUME asked \in Inputs
    PROVE  /\ Held \in SUBSET Eligible /\ Eligible \in SUBSET Projects
           /\ Held \in SUBSET asked.locked /\ Readmitted \in SUBSET Held
  BY DEF Inputs, Held, Eligible, Readmitted

\* The two signals that disable the button are the two refusals of the POST.
LEMMA WhatBlocks ==
    Runnable <=> HasCandidates /\ ~LocksExceedCapital
<1>1. Signalled("NO_CANDIDATES") <=> ~HasCandidates
  BY DEF Signalled
<1>2. Signalled("LOCKS_EXCEED_CAPITAL") <=> LocksExceedCapital
  BY DEF Signalled
<1>. QED  BY <1>1, <1>2, CodesAre DEF Runnable, SignalCodes, DisablesRun

\* Where the locks are within the capital, they alone are a portfolio that
\* answers; where they are not, every portfolio that holds them is over it.
LEMMA RefusalsAreRight ==
    ASSUME asked \in Inputs
    PROVE  Runnable <=> HasCandidates /\ Affordable # {}
<1>1. Held \in SUBSET Eligible /\ Eligible \in SUBSET Projects
  BY SetsOfTheRequest
<1>2. asked.mandate.capital \in Nat
  BY FeasibilityConstants DEF Inputs
<1>3. ASSUME ~LocksExceedCapital PROVE Held \in Affordable
  <2>1. Sum("equity", Held) <= asked.mandate.capital
    <3>1. Sum("equity", Held) \in Nat
      BY <1>1, SumsGrow
    <3>. QED  BY <1>2, <1>3, <3>1 DEF LocksExceedCapital
  <2>. QED  BY <1>1, <2>1 DEF Affordable, Portfolios
<1>4. ASSUME NEW S \in Affordable PROVE ~LocksExceedCapital
  <2>1. S \in SUBSET Projects /\ Held \in SUBSET S /\ Sum("equity", S) <= asked.mandate.capital
    BY <1>1 DEF Affordable, Portfolios
  <2>2. Sum("equity", Held) <= Sum("equity", S) /\ Sum("equity", Held) \in Nat
        /\ Sum("equity", S) \in Nat
    BY <2>1, SumsGrow
  <2>. QED  BY <1>2, <2>1, <2>2 DEF LocksExceedCapital
<1>. QED  BY <1>3, <1>4, WhatBlocks

\* What is asked stays what it was.
LEMMA RequestsAreInputs == FeasibilitySpec => [](asked # Nothing => asked \in Inputs)
<1>. DEFINE Inv == asked # Nothing => asked \in Inputs
<1>1. FeasibilityInit => Inv
  BY DEF FeasibilityInit
<1>2. Inv /\ [FeasibilityNext]_asked => Inv'
  BY DEF FeasibilityNext
<1>. QED  BY <1>1, <1>2, PTL DEF FeasibilitySpec

\* A POST is refused exactly when no portfolio could answer it, whatever the
\* plants, the mandate, the locks and the exclusions (_refuse_unrunnable).
THEOREM RefusalsAreOfTheHopeless ==
    FeasibilitySpec => []RefusedIffHopeless
<1>1. (asked # Nothing => asked \in Inputs) => RefusedIffHopeless
  BY RefusalsAreRight DEF RefusedIffHopeless
<1>. QED  BY <1>1, RequestsAreInputs, PTL

-----------------------------------------------------------------------------
(* The page and the server.                                                *)

\* The page's nine screens are the server's, by other names.
LEMMA ScreenNamesCorrespond ==
    /\ \A n \in PageScreens : WireName[n] \in AllScreens
    /\ \A s \in AllScreens : \E n \in PageScreens : WireName[n] = s
<1>1. PageScreens = {"country", "stage", "codWindow", "minDscr", "riskCap",
                     "gridSecured", "omContracted", "currency", "notExcluded"}
  BY DEF PageScreens, WireName
<1>2. AllScreens = {"codWindow", "countries", "eurRevenue", "exclusions", "gridSecured",
                    "minDscr", "omContracted", "riskScore", "stages"}
  BY DEF AllScreens, Rank
<1>3. /\ WireName["country"] = "countries" /\ WireName["stage"] = "stages"
      /\ WireName["codWindow"] = "codWindow" /\ WireName["minDscr"] = "minDscr"
      /\ WireName["riskCap"] = "riskScore" /\ WireName["gridSecured"] = "gridSecured"
      /\ WireName["omContracted"] = "omContracted" /\ WireName["currency"] = "eurRevenue"
      /\ WireName["notExcluded"] = "exclusions"
  BY DEF WireName
<1>. QED  BY <1>1, <1>2, <1>3

\* A country that was normalised on the wire is normalised.
LEMMA NormalisedTwice ==
    ASSUME NEW country, NEW m
    PROVE  Country(Normalised(country), m)
             <=> Normalised(country) \in {Normalised(c) : c \in m.countries}
<1>1. Normalised(Normalised(country)) = Normalised(country)
  BY DEF Normalised
<1>. QED  BY <1>1 DEF Country

\* Each screen of the page passes what the server's of that name does.
LEMMA ScreensAgree ==
    ASSUME asked \in Inputs, NEW p \in Projects, NEW n \in PageScreens
    PROVE  PageScreen(n, p) <=> Passes(WireName[n], p)
<1>. DEFINE plant == asked.plants[p]
            m == asked.mandate
<1>1. plant.cod \in Int /\ m.codFrom \in Int /\ m.codTo \in Int
  BY FeasibilityConstants DEF Inputs
<1>2. CASE n = "country"
  <2>1. PageScreen(n, p) <=> Country(CountryOnThePage(p), m)
    BY <1>2 DEF PageScreen
  <2>2. WireName[n] = "countries"
    BY <1>2 DEF WireName
  <2>3. Passes("countries", p)
          <=> Normalised(plant.country) \in {Normalised(c) : c \in m.countries}
    BY DEF Passes
  <2>. QED  BY <2>1, <2>2, <2>3, NormalisedTwice DEF CountryOnThePage
<1>3. CASE n = "stage"
  BY <1>3 DEF PageScreen, Passes, WireName
<1>4. CASE n = "codWindow"
  BY <1>1, <1>4 DEF PageScreen, Passes, WireName
<1>5. CASE n = "minDscr"
  BY <1>5 DEF PageScreen, Passes, WireName
<1>6. CASE n = "riskCap"
  BY <1>6 DEF PageScreen, Passes, WireName
<1>7. CASE n = "gridSecured"
  BY <1>7 DEF PageScreen, Passes, WireName
<1>8. CASE n = "omContracted"
  BY <1>8 DEF PageScreen, Passes, WireName
<1>9. CASE n = "currency"
  BY <1>9 DEF PageScreen, Passes, WireName
<1>10. CASE n = "notExcluded"
  BY <1>10 DEF PageScreen, Passes, WireName
<1>. QED
  BY <1>2, <1>3, <1>4, <1>5, <1>6, <1>7, <1>8, <1>9, <1>10 DEF PageScreens, WireName

\* The page's candidates are the server's: an exclusion wins over a lock in both.
LEMMA PoolsAgree ==
    ASSUME asked \in Inputs
    PROVE  PagePool = Eligible
<1>1. ASSUME NEW p \in Projects
      PROVE  (\A n \in PageScreens : PageScreen(n, p)) <=> (\A s \in AllScreens : Passes(s, p))
  BY ScreensAgree, ScreenNamesCorrespond
<1>2. Held \subseteq Projects
  BY DEF Inputs, Held
<1>. QED  BY <1>1, <1>2 DEF PagePool, Eligible, Held

\* Each screen drops as many.
LEMMA DropsAgree ==
    ASSUME asked \in Inputs, NEW n \in PageScreens
    PROVE  PageDrops(n) = Drops(WireName[n])
<1>1. {p \in Projects : ~PageScreen(n, p)} = Rejects(WireName[n])
  BY ScreensAgree DEF Rejects
<1>. QED  BY <1>1 DEF PageDrops, Drops

\* How many a screen drops is a number.
LEMMA DropsAreNatural ==
    ASSUME NEW s
    PROVE  Drops(s) \in Nat
<1>1. Rejects(s) \in SUBSET Projects /\ IsFiniteSet(Projects)
  BY FeasibilityConstants DEF Rejects
<1>. QED  BY <1>1, FS_Subset, FS_CardinalityType DEF Drops

\* The screens to widen are the same, in the same order: the two comparisons
\* are of the same order.
LEMMA WideningsAgree ==
    ASSUME asked \in Inputs
    PROVE  ScreensToWiden = BindingScreens
<1>1. PageRejecting = Rejecting
  BY ScreenNamesCorrespond, DropsAgree DEF PageRejecting, Rejecting
<1>2. \A d, e \in Rejecting : Worse(d, e) <=> PageWorse(d, e)
  <2>1. \A d \in Rejecting : d[2] \in Nat
    BY DropsAreNatural DEF Rejecting
  <2>. QED  BY <2>1 DEF Worse, PageWorse
<1>3. {r \in PageRejecting \X PageRejecting : PageWorse(r[1], r[2])}
        = {r \in Rejecting \X Rejecting : Worse(r[1], r[2])}
  BY <1>1, <1>2
<1>. QED  BY <1>1, <1>3 DEF ScreensToWiden, BindingScreens

\* Each warning is given by both or by none, though two of the tests are
\* written the other way round.
LEMMA FindingsAgree ==
    ASSUME asked \in Inputs, Tolerance = 20, Floor = 90, NEW code \in ToSet(WarningCode)
    PROVE  PageFinds(code) <=> Signalled(code)
<1>. DEFINE m == asked.mandate
<1>1. PagePool = Eligible
  BY PoolsAgree
<1>2. CASE code = "NO_CANDIDATES"
  BY <1>1, <1>2 DEF PageFinds, Signalled, HasCandidates
<1>3. CASE code = "LOCKS_EXCEED_CAPITAL"
  BY <1>3 DEF PageFinds, Signalled, LocksExceedCapital, Held
<1>4. CASE code = "CAPACITY_BELOW_TARGET"
  BY <1>1, <1>4 DEF PageFinds, Signalled, CapacityBelowTarget, HasCandidates
<1>5. CASE code = "LEVERAGE_UNREACHABLE"
  <2>1. PageFinds(code) <=> Eligible # {}
           /\ 100 * Sum("debt", Eligible) < m.leverage * Sum("capex", Eligible)
    BY <1>1, <1>5 DEF PageFinds
  <2>2. Signalled(code) <=> Eligible # {}
           /\ m.leverage * Sum("capex", Eligible) > 100 * Sum("debt", Eligible)
    BY <1>5 DEF Signalled, LeverageUnreachable, HasCandidates
  <2>. QED  BY <2>1, <2>2
<1>6. CASE code = "SOLAR_MIX_UNREACHABLE"
  BY <1>1, <1>6 DEF PageFinds, Signalled, SolarMixUnreachable, HasCandidates
<1>7. CASE code = "CAPITAL_UNDERUSED"
  BY <1>1, <1>7 DEF PageFinds, Signalled, CapitalUnderused, HasCandidates
<1>8. CASE code = "LOCKS_PRESENT"
  <2>1. asked.locked \in SUBSET Projects /\ asked.excluded \in SUBSET Projects
    BY DEF Inputs
  <2>2. ASSUME NEW S \in SUBSET Projects PROVE Cardinality(S) > 0 <=> S # {}
    <3>1. IsFiniteSet(S)
      BY FeasibilityConstants, FS_Subset
    <3>2. Cardinality(S) \in Nat /\ (Cardinality(S) = 0 <=> S = {})
      BY <3>1, FS_CardinalityType, FS_EmptySet
    <3>. QED  BY <3>2
  <2>3. PageFinds(code) <=> asked.locked # {} \/ asked.excluded # {}
    BY <1>8, <2>1, <2>2 DEF PageFinds
  <2>4. Readmitted # {} => asked.locked # {}
    BY SetsOfTheRequest
  <2>. QED  BY <1>8, <2>3, <2>4 DEF Signalled, LocksPresent
<1>. QED  BY <1>2, <1>3, <1>4, <1>5, <1>6, <1>7, <1>8, CodesAre

\* With the tolerance and the floor of the shipped assumptions, which the page
\* has as numbers of its own (feasibility.js), page and server agree on every
\* mandate over every pipeline: candidates, warnings and their order, screens
\* to widen and their order, and whether the button is enabled.
THEOREM PageAndServerAgree ==
    Tolerance = 20 /\ Floor = 90 => (FeasibilitySpec => []PageAgreesWithServer)
<1>. SUFFICES ASSUME Tolerance = 20, Floor = 90
              PROVE  FeasibilitySpec => []PageAgreesWithServer
  OBVIOUS
<1>1. ASSUME asked # Nothing => asked \in Inputs PROVE PageAgreesWithServer
  <2>. SUFFICES ASSUME asked \in Inputs PROVE PageAgreesWithServer
    BY <1>1 DEF PageAgreesWithServer
  <2>1. PageOrder = WarningCode
    BY DEF PageOrder, WarningCode
  <2>2. PageCodes = SignalCodes
    BY <2>1, FindingsAgree DEF PageCodes, SignalCodes
  <2>3. PageWarnings = Signals /\ (PageRunnable <=> Runnable)
    BY <2>1, <2>2 DEF PageWarnings, Signals, PageRunnable, Runnable
  <2>4. PageRunnable = Runnable
    BY <2>3 DEF PageRunnable, Runnable
  <2>. QED  BY <2>3, <2>4, PoolsAgree, WideningsAgree DEF PageAgreesWithServer
<1>. QED  BY <1>1, RequestsAreInputs, PTL

-----------------------------------------------------------------------------
(* The search (GeneticSearch).                                             *)

\* The cost of a chromosome is the sum of its equity.
LEMMA CostIsTheTotal ==
    ASSUME NEW c
    PROVE  Cost(c) = SumOf(Equity, c)
  BY DEF Cost, SumOf

\* No part of a chromosome costs more than it.
LEMMA CostGrows ==
    ASSUME NEW c \in Chromosomes, NEW d \in SUBSET c
    PROVE  Cost(d) \in Nat /\ Cost(c) \in Nat /\ Cost(d) <= Cost(c) /\ Cost({}) = 0
<1>1. c \in SUBSET Candidates /\ d \in SUBSET Candidates
  BY DEF Chromosomes
<1>2. IsFiniteSet(Candidates) /\ Natural(Equity, Candidates) /\ Integral(Equity, Candidates)
  BY SearchConstants DEF Natural, Integral
<1>3. SumOf(Equity, d) \in Nat /\ SumOf(Equity, c) \in Nat /\ SumOf(Equity, {}) = 0
  BY <1>1, <1>2, SumOfAdds, SumOfGrows
<1>4. SumOf(Equity, d) <= SumOf(Equity, c)
  BY <1>1, <1>2, SumOfGrows
<1>. QED  BY <1>3, <1>4, CostIsTheTotal

\* What a chromosome must be.
IsFeasible(c) == c \in Chromosomes /\ Locked \subseteq c /\ Cost(c) <= Budget

\* The holding of the last key that is kept was kept within the budget, and so
\* was all that was kept before it.
LEMMA TrimmedFits ==
    ASSUME NEW c \in Chromosomes, Locked \subseteq c, NEW priority \in Priorities
    PROVE  IsFeasible(Trimmed(c, priority))
<1>. DEFINE kept == Trimmed(c, priority)
            keys == {Key(priority, p) : p \in kept}
            n == Cardinality(Candidates)
<1>1. kept \in SUBSET c /\ kept \in Chromosomes
  BY DEF Trimmed, Chromosomes
<1>2. n \in Nat
  BY SearchConstants, FS_CardinalityType
<1>3. ASSUME NEW p \in Candidates PROVE Key(priority, p) \in Nat /\ Key(priority, p) <= n
  <2>1. priority[p] \in 1 .. n
    BY DEF Priorities, Injection
  <2>. QED  BY <1>2, <2>1 DEF Key
<1>4. Locked \subseteq kept
  <2>. SUFFICES ASSUME NEW p \in Locked PROVE Cumulative(c, priority, p) <= Budget
    BY DEF Trimmed
  <2>1. ASSUME NEW q \in c, Key(priority, q) <= 0 PROVE q \in Locked
    <3>1. q \in Candidates /\ priority[q] \in 1 .. n
      BY DEF Chromosomes, Priorities, Injection
    <3>. QED  BY <1>2, <2>1, <3>1 DEF Key
  <2>2. Key(priority, p) = 0
    BY DEF Key
  <2>. DEFINE spent == {q \in c : Key(priority, q) <= 0}
  <2>3. spent \in SUBSET Locked
    BY <2>1
  <2>4. Locked \in Chromosomes
    BY SearchConstants DEF Chromosomes
  <2>5. Cost(spent) <= Cost(Locked) /\ Cost(spent) \in Nat /\ Cost(Locked) \in Nat
    BY <2>3, <2>4, CostGrows
  <2>6. Cumulative(c, priority, p) = Cost(spent)
    BY <2>2 DEF Cumulative
  <2>. HIDE DEF spent
  <2>. QED  BY <2>5, <2>6, LocksFit, SearchConstants
<1>. HIDE DEF kept
<1>5. CASE kept = {}
  BY <1>4, <1>5, CostGrows, SearchConstants DEF IsFeasible, Chromosomes, kept
<1>6. CASE kept # {}
  <2>1. keys \in SUBSET Nat /\ keys # {} /\ \A k \in keys : k <= n
    BY <1>1, <1>3, <1>6 DEF Chromosomes
  <2>2. IsFiniteSet(keys)
    <3>. HIDE DEF keys, n
    <3>. QED  BY <1>2, <2>1, FS_BoundedSetOfNaturals DEF n
  <2>3. \E m \in keys : \A k \in keys : m >= k
    <3>. HIDE DEF keys
    <3>. QED  BY <2>1, <2>2, FiniteHasALast
  <2>4. PICK p \in kept : \A q \in kept : Key(priority, q) <= Key(priority, p)
    BY <1>1, <1>3, <2>3 DEF Chromosomes
  <2>. DEFINE spent == {q \in c : Key(priority, q) <= Key(priority, p)}
  <2>5. kept \in SUBSET spent /\ spent \in Chromosomes
    BY <1>1, <2>4 DEF Chromosomes
  <2>6. Cost(spent) <= Budget
    BY <2>4 DEF kept, Trimmed, Cumulative
  <2>7. Cost(kept) <= Cost(spent) /\ Cost(kept) \in Nat /\ Cost(spent) \in Nat
    <3>. HIDE DEF spent
    <3>. QED  BY <2>5, CostGrows
  <2>. HIDE DEF spent
  <2>. QED  BY <1>1, <1>4, <2>6, <2>7, SearchConstants DEF IsFeasible, kept
<1>. QED  BY <1>5, <1>6

\* What the repair makes of any chromosome with the locks is feasible: one
\* that is left alone is within the budget by the tolerance.
LEMMA RepairFits ==
    ASSUME NEW c \in Chromosomes, Locked \subseteq c, NEW priority \in Priorities
    PROVE  IsFeasible(Repair(c, priority))
<1>1. CASE Cost(c) > Budget - EquityTolerance
  BY <1>1, TrimmedFits DEF Repair
<1>2. CASE ~(Cost(c) > Budget - EquityTolerance)
  <2>1. Cost(c) \in Nat /\ Budget \in Nat /\ EquityTolerance \in Nat
    BY CostGrows, SearchConstants
  <2>2. Cost(c) <= Budget
    BY <1>2, <2>1
  <2>. QED  BY <1>2, <2>2 DEF Repair, IsFeasible
<1>. QED  BY <1>1, <1>2

\* So is what locking and repairing make of any draw ...
LEMMA DrawsFit ==
    ASSUME NEW c \in Chromosomes, NEW d \in Feasible[c]
    PROVE  IsFeasible(d)
<1>1. PICK priority \in Priorities : d = Repair(ForceLocks(c), priority)
  BY DEF Feasible
<1>2. ForceLocks(c) \in Chromosomes /\ Locked \subseteq ForceLocks(c)
  BY SearchConstants DEF ForceLocks, Chromosomes
<1>. QED  BY <1>1, <1>2, RepairFits

\* ... and so every child, whatever crossover and mutation did.
LEMMA OffspringFit ==
    ASSUME population \in [Individuals -> Chromosomes]
    PROVE  \A c \in Offspring : IsFeasible(c)
<1>1. Parents \subseteq Chromosomes
  BY DEF Parents, Winner
<1>2. Crossed \subseteq Chromosomes
  BY <1>1 DEF Crossed, Crossover, Chromosomes
<1>3. Mutated \subseteq Chromosomes
  BY <1>2 DEF Mutated, Mutate, Chromosomes
<1>. QED  BY <1>3, DrawsFit DEF Offspring

-----------------------------------------------------------------------------
(* The order of a population is a permutation of it, best first, equals in *)
(* the order they stood in.                                                *)

LEMMA Ordered ==
    ASSUME SearchTypeOK
    PROVE  /\ EliteOrder \in [Individuals -> Individuals]
           /\ \A k \in Individuals : Place(EliteOrder[k]) = k
<1>. DEFINE ahead(i) == {j \in Individuals : Before(j, i)}
            place == [i \in Individuals |-> Place(i)]
<1>1. \A i \in Individuals : Fitness(i) \in Int
  BY SearchConstants DEF SearchTypeOK, Fitness
<1>2. Size \in Nat /\ IsFiniteSet(Individuals) /\ Cardinality(Individuals) = Size
  BY SearchConstants, FS_Interval DEF Individuals
<1>3. ASSUME NEW i \in Individuals
      PROVE  IsFiniteSet(ahead(i)) /\ Cardinality(ahead(i)) \in Nat
             /\ Cardinality(ahead(i)) < Size
  <2>1. i \notin ahead(i)
    BY <1>1 DEF Before, Individuals
  <2>2. IsFiniteSet(Individuals \ {i}) /\ Cardinality(Individuals \ {i}) = Size - 1
    BY <1>2, FS_RemoveElement
  <2>3. ahead(i) \in SUBSET (Individuals \ {i})
    BY <2>1
  <2>. HIDE DEF ahead
  <2>4. IsFiniteSet(ahead(i)) /\ Cardinality(ahead(i)) <= Size - 1
    BY <2>2, <2>3, FS_Subset
  <2>5. Cardinality(ahead(i)) \in Nat
    BY <2>4, FS_CardinalityType
  <2>. QED  BY <1>2, <2>4, <2>5
<1>4. ASSUME NEW i \in Individuals PROVE place[i] = 1 + Cardinality(ahead(i))
  BY DEF Place
<1>5. place \in [Individuals -> Individuals]
  <2>1. ASSUME NEW i \in Individuals PROVE place[i] \in Individuals
    <3>. DEFINE n == Cardinality(ahead(i))
    <3>1. place[i] = 1 + n
      BY <1>4
    <3>2. n \in Nat /\ n < Size
      BY <1>3
    <3>. HIDE DEF n, place
    <3>. QED  BY <1>2, <3>1, <3>2 DEF Individuals
  <2>. QED  BY <2>1
<1>6. ASSUME NEW i \in Individuals, NEW j \in Individuals, Before(i, j)
      PROVE  place[i] # place[j]
  <2>1. ahead(i) \in SUBSET ahead(j) /\ i \in ahead(j) /\ i \notin ahead(i)
    BY <1>1, <1>6 DEF Before, Individuals
  <2>. HIDE DEF ahead, place
  <2>2. Cardinality(ahead(i)) # Cardinality(ahead(j))
    BY <1>3, <2>1, FS_Subset
  <2>. QED  BY <1>3, <1>4, <2>2
<1>7. ASSUME NEW i \in Individuals, NEW j \in Individuals, i # j
      PROVE  Before(i, j) \/ Before(j, i)
  BY <1>1, <1>7 DEF Before, Individuals
<1>8. place \in Injection(Individuals, Individuals)
  <2>. HIDE DEF place
  <2>1. \A i, j \in Individuals : place[i] = place[j] => i = j
    BY <1>6, <1>7
  <2>. QED  BY <1>5, <2>1 DEF Injection, IsInjective
<1>9. place \in Surjection(Individuals, Individuals)
  <2>. HIDE DEF place
  <2>. QED  BY <1>2, <1>8, FS_Injection
<1>10. ASSUME NEW k \in Individuals PROVE \E i \in Individuals : Place(i) = k
  <2>1. \E i \in Individuals : place[i] = k
    <3>. HIDE DEF place
    <3>. QED  BY <1>9 DEF Surjection
  <2>. QED  BY <2>1
<1>. HIDE DEF place
<1>11. \A k \in Individuals : EliteOrder[k] \in Individuals /\ Place(EliteOrder[k]) = k
  BY <1>10 DEF EliteOrder
<1>. QED  BY <1>11 DEF EliteOrder

\* Nothing comes before the leader.
LEMMA LeaderLeads ==
    ASSUME SearchTypeOK
    PROVE  /\ 1 \in Individuals /\ EliteOrder[1] \in Individuals
           /\ \A i \in Individuals : ~Before(i, EliteOrder[1])
           /\ \A i \in Individuals : Fitness(i) <= Fitness(EliteOrder[1])
           /\ Fitness(1) = Fitness(EliteOrder[1]) => EliteOrder[1] = 1
<1>. DEFINE first == EliteOrder[1]
            ahead == {j \in Individuals : Before(j, first)}
<1>1. 1 \in Individuals
  BY SearchConstants DEF Individuals
<1>2. first \in Individuals /\ Place(first) = 1
  BY <1>1, Ordered
<1>3. IsFiniteSet(Individuals)
  BY SearchConstants, FS_Interval DEF Individuals
<1>. HIDE DEF first
<1>4. IsFiniteSet(ahead) /\ Cardinality(ahead) \in Nat /\ 1 + Cardinality(ahead) = 1
  BY <1>2, <1>3, FS_Subset, FS_CardinalityType DEF Place
<1>5. ahead = {}
  <2>. HIDE DEF ahead
  <2>. QED  BY <1>4, FS_EmptySet
<1>6. \A i \in Individuals : ~Before(i, first)
  BY <1>5
<1>7. \A i \in Individuals : Fitness(i) \in Int
  BY SearchConstants DEF SearchTypeOK, Fitness
<1>8. \A i \in Individuals : Fitness(i) <= Fitness(first)
  BY <1>2, <1>6, <1>7 DEF Before
<1>9. Fitness(1) = Fitness(first) => first = 1
  BY <1>1, <1>2, <1>6 DEF Before, Individuals
<1>. QED  BY <1>1, <1>2, <1>6, <1>8, <1>9 DEF first

-----------------------------------------------------------------------------

\* What is carried from a generation to the next: every chromosome is feasible,
\* the best is the leader that was shown, and it leads the next population.
SearchInv ==
    /\ SearchTypeOK
    /\ \A i \in Individuals : IsFeasible(population[i])
    /\ phase = "scored" => /\ generation > 0
                           /\ best = event /\ event = population[EliteOrder[1]]
    /\ phase = "bred" => generation < Generations
    /\ phase = "bred" /\ generation > 0 => population[1] = best

\* The invariant holds of any initial population.
LEMMA SearchStarts == SearchInit => SearchInv
<1>. SUFFICES ASSUME SearchInit PROVE SearchInv
  OBVIOUS
<1>1. \A c \in InitialPopulation : IsFeasible(c)
  BY DrawsFit DEF InitialPopulation, Chromosomes
<1>2. \A i \in Individuals : IsFeasible(population[i])
  BY <1>1 DEF SearchInit
<1>3. population \in [Individuals -> Chromosomes]
  BY <1>1 DEF SearchInit, IsFeasible
<1>4. 1 \in Individuals
  BY SearchConstants DEF Individuals
<1>. QED
  BY <1>2, <1>3, <1>4, SearchConstants DEF SearchInit, SearchInv, SearchTypeOK

\* Scoring: the leader is the best so far, because the best of before is the
\* first of the population, and an equal of it that is not first does not lead.
LEMMA ScoreKeeps ==
    ASSUME SearchInv, Score
    PROVE  SearchInv'
<1>. DEFINE leader == population[EliteOrder[1]]
<1>1. SearchTypeOK /\ 1 \in Individuals /\ EliteOrder[1] \in Individuals
  BY LeaderLeads DEF SearchInv
<1>2. EliteOrder' = EliteOrder
  BY DEF Score, EliteOrder, Place, Before, Fitness, Individuals
<1>3. leader \in Chromosomes
  BY <1>1 DEF SearchTypeOK
<1>4. event' = leader /\ population' = population /\ objective' = objective
      /\ generation' = generation + 1 /\ phase' = "scored"
  BY DEF Score
<1>5. best' = leader
  <2>1. CASE generation = 0 \/ objective[leader] > objective[best]
    BY <2>1 DEF Score
  <2>2. CASE ~(generation = 0 \/ objective[leader] > objective[best])
    <3>1. population[1] = best
      BY <2>2 DEF SearchInv, Score, SearchTypeOK
    <3>2. Fitness(1) <= Fitness(EliteOrder[1])
      BY <1>1, LeaderLeads
    <3>3. Fitness(1) \in Int /\ Fitness(EliteOrder[1]) \in Int
      BY <1>1, SearchConstants DEF SearchTypeOK, Fitness
    <3>4. Fitness(1) = Fitness(EliteOrder[1])
      BY <2>2, <3>1, <3>2, <3>3 DEF Fitness
    <3>5. EliteOrder[1] = 1
      BY <1>1, <3>4, LeaderLeads
    <3>. QED  BY <2>2, <3>1, <3>5 DEF Score
  <2>. QED  BY <2>1, <2>2
<1>6. generation < Generations
  BY DEF Score, SearchInv
<1>7. SearchTypeOK'
  BY <1>1, <1>3, <1>4, <1>5, <1>6, SearchConstants DEF SearchTypeOK
<1>. QED  BY <1>2, <1>4, <1>5, <1>7 DEF SearchInv, SearchTypeOK

\* Breeding: the leader is the first elite.
LEMMA BreedKeeps ==
    ASSUME SearchInv, Breed
    PROVE  SearchInv'
<1>1. SearchTypeOK /\ 1 \in Individuals /\ EliteOrder \in [Individuals -> Individuals]
  BY LeaderLeads, Ordered DEF SearchInv
<1>2. PICK children \in [1 .. Size - Elites -> Offspring] :
         population' = [i \in Individuals |-> IF i <= Elites THEN population[EliteOrder[i]]
                                              ELSE children[i - Elites]]
  BY DEF Breed
<1>3. ASSUME NEW i \in Individuals PROVE IsFeasible(population'[i])
  <2>1. CASE i <= Elites
    BY <1>1, <1>2, <2>1 DEF SearchInv
  <2>2. CASE ~(i <= Elites)
    <3>1. i - Elites \in 1 .. Size - Elites
      BY <2>2, SearchConstants DEF Individuals
    <3>2. children[i - Elites] \in Offspring
      BY <1>2, <3>1
    <3>. QED  BY <1>1, <1>2, <2>2, <3>2, OffspringFit DEF SearchTypeOK
  <2>. QED  BY <2>1, <2>2
<1>4. population' \in [Individuals -> Chromosomes]
  BY <1>2, <1>3 DEF IsFeasible
<1>5. population'[1] = population[EliteOrder[1]]
  BY <1>1, <1>2, SearchConstants
<1>6. best = population[EliteOrder[1]]
  BY DEF Breed, SearchInv
<1>7. SearchTypeOK'
  BY <1>1, <1>4 DEF Breed, SearchTypeOK
<1>. QED  BY <1>3, <1>5, <1>6, <1>7 DEF Breed, SearchInv

\* A step of something else.
LEMMA SearchIdles ==
    ASSUME SearchInv, UNCHANGED search
    PROVE  SearchInv'
<1>1. EliteOrder' = EliteOrder
  BY DEF search, EliteOrder, Place, Before, Fitness, Individuals
<1>. QED  BY <1>1 DEF search, SearchInv, SearchTypeOK

\* Whatever the objective, the costs, the locks, the draws and the size of the
\* population: of every generation each chromosome is feasible, and the leader
\* of one is the best so far and the first of the next (evolve).
THEOREM SearchInvariant ==
    SearchSpec => []SearchInv
<1>1. SearchInv /\ [SearchNext]_search => SearchInv'
  BY ScoreKeeps, BreedKeeps, SearchIdles DEF SearchNext
<1>. QED  BY <1>1, SearchStarts, PTL DEF SearchSpec

\* No chromosome that is scored costs more than the capital or is without one
\* of the locks, for any candidates (repair_to_budget, force_locks).
THEOREM SearchIsFeasible ==
    SearchSpec => []EveryChromosomeIsFeasible
<1>1. SearchInv => EveryChromosomeIsFeasible
  BY DEF SearchInv, EveryChromosomeIsFeasible, IsFeasible
<1>. QED  BY <1>1, SearchInvariant, PTL

\* What the run ends with is what its last event described, and nothing of the
\* population is better; with equals too, for the order is stable (elite_order)
\* and only a strictly better leader replaces the best (evolve).
THEOREM WinnerIsShown ==
    SearchSpec => []WinnerIsTheOneShown
<1>1. ASSUME SearchInv PROVE WinnerIsTheOneShown
  <2>. SUFFICES ASSUME phase = "scored" PROVE WinnerIsTheOneShown
    BY DEF WinnerIsTheOneShown
  <2>1. best = event /\ best = population[EliteOrder[1]]
    BY <1>1 DEF SearchInv
  <2>2. \A i \in Individuals : Fitness(i) <= Fitness(EliteOrder[1])
    BY <1>1, LeaderLeads DEF SearchInv
  <2>. QED  BY <2>1, <2>2 DEF WinnerIsTheOneShown, Fitness
<1>. QED  BY <1>1, SearchInvariant, PTL

-----------------------------------------------------------------------------
(* Loading: the hash of what was loaded.  A sort is a ranking, and in a     *)
(* total order of a finite set every rank has one member.                   *)

\* The order of strings among those of one length.
StringsBefore(S) == {e \in S \X S : StringBefore(e[1], e[2])}

\* Ids of one length: the first digit in which they differ decides.
LEMMA FirstDifference ==
    ASSUME NEW i \in Seq(0 .. 9), NEW j \in Seq(0 .. 9), Len(i) = Len(j)
    PROVE  StringBefore(i, j) <=>
             \E k \in 1 .. Len(i) : i[k] < j[k] /\ \A m \in 1 .. k - 1 : i[m] = j[m]
<1>1. DOMAIN i \cap DOMAIN j = 1 .. Len(i) /\ Len(i) \in Nat
  OBVIOUS
<1>2. SubSeq(i, 1, Len(i)) = i /\ SubSeq(j, 1, Len(i)) = j
  OBVIOUS
<1>3. IsPrefix(i, j) => i = j
  BY <1>2 DEF IsPrefix
<1>4. ASSUME NEW k \in 1 .. Len(i)
      PROVE  SubSeq(i, 1, k - 1) = SubSeq(j, 1, k - 1) <=> \A m \in 1 .. k - 1 : i[m] = j[m]
  <2>1. /\ SubSeq(i, 1, k - 1) = [m \in 1 .. k - 1 |-> i[m]]
        /\ SubSeq(j, 1, k - 1) = [m \in 1 .. k - 1 |-> j[m]]
    BY <1>1
  <2>. QED  BY <2>1
<1>. QED  BY <1>1, <1>3, <1>4 DEF StringBefore

\* Digits of one number of places are totally ordered by it.
LEMMA StringsAreOrdered ==
    ASSUME NEW S \in SUBSET Seq(0 .. 9), \A i, j \in S : Len(i) = Len(j)
    PROVE  Orders(StringsBefore(S), S)
<1>. DEFINE Differ(i, j, k) == i[k] < j[k] /\ \A m \in 1 .. k - 1 : i[m] = j[m]
<1>1. ASSUME NEW i \in S, NEW j \in S
      PROVE  <<i, j>> \in StringsBefore(S) <=> \E k \in 1 .. Len(i) : Differ(i, j, k)
  BY FirstDifference DEF StringsBefore
<1>2. ASSUME NEW i \in S PROVE /\ Len(i) \in Nat
                               /\ \A k \in 1 .. Len(i) : i[k] \in Int
  OBVIOUS
<1>3. ASSUME NEW i \in S PROVE <<i, i>> \notin StringsBefore(S)
  <2>1. \A k \in 1 .. Len(i) : ~ Differ(i, i, k)
    BY <1>2
  <2>. QED  BY <1>1, <2>1
<1>4. ASSUME NEW i \in S, NEW j \in S, NEW l \in S,
             <<i, j>> \in StringsBefore(S), <<j, l>> \in StringsBefore(S)
      PROVE  <<i, l>> \in StringsBefore(S)
  <2>1. PICK k \in 1 .. Len(i) : Differ(i, j, k)
    BY <1>1, <1>4
  <2>2. PICK n \in 1 .. Len(i) : Differ(j, l, n)
    BY <1>1, <1>4
  <2>3. Len(i) = Len(j) /\ Len(j) = Len(l)
    OBVIOUS
  <2>4. CASE k <= n
    <3>1. Differ(i, l, k)
      <4>1. i[k] < l[k]
        <5>1. CASE k < n
          <6>1. j[k] = l[k]
            BY <2>2, <5>1
          <6>. QED  BY <2>1, <6>1
        <5>2. CASE k = n
          BY <1>2, <2>1, <2>2, <2>3, <5>2
        <5>. QED  BY <2>4, <5>1, <5>2
      <4>2. ASSUME NEW m \in 1 .. k - 1 PROVE i[m] = l[m]
        <5>1. m \in 1 .. n - 1
          BY <2>4
        <5>. QED  BY <2>1, <2>2, <5>1
      <4>. QED  BY <4>1, <4>2
    <3>. QED  BY <1>1, <3>1
  <2>5. CASE n < k
    <3>1. Differ(i, l, n)
      <4>1. i[n] = j[n]
        BY <2>1, <2>5
      <4>2. ASSUME NEW m \in 1 .. n - 1 PROVE i[m] = l[m]
        <5>1. m \in 1 .. k - 1
          BY <2>5
        <5>. QED  BY <2>1, <2>2, <5>1
      <4>. QED  BY <2>2, <4>1, <4>2
    <3>. QED  BY <1>1, <3>1
  <2>. QED  BY <2>4, <2>5
<1>5. ASSUME NEW i \in S, NEW j \in S, i # j
      PROVE  <<i, j>> \in StringsBefore(S) \/ <<j, i>> \in StringsBefore(S)
  <2>. DEFINE Apart == {k \in 1 .. Len(i) : i[k] # j[k]}
  <2>1. Len(i) = Len(j) /\ i \in Seq(0 .. 9) /\ j \in Seq(0 .. 9)
    OBVIOUS
  <2>2. Apart # {}
    <3>. SUFFICES ASSUME \A k \in 1 .. Len(i) : i[k] = j[k] PROVE FALSE
      OBVIOUS
    <3>1. i = [k \in 1 .. Len(i) |-> i[k]] /\ j = [k \in 1 .. Len(j) |-> j[k]]
      BY <2>1
    <3>. QED  BY <1>5, <2>1, <3>1
  <2>3. Apart \in SUBSET Nat
    BY <1>2
  <2>4. PICK k \in Apart : \A m \in Apart : k <= m
    BY <2>2, <2>3, NatHasAFirst
  <2>5. \A m \in 1 .. k - 1 : i[m] = j[m]
    BY <1>2, <2>4
  <2>6. k \in 1 .. Len(i) /\ k \in 1 .. Len(j) /\ i[k] \in Int /\ j[k] \in Int /\ i[k] # j[k]
    BY <1>2, <2>1, <2>4
  <2>7. i[k] < j[k] \/ j[k] < i[k]
    BY <2>6
  <2>8. CASE i[k] < j[k]
    BY <1>1, <2>5, <2>6, <2>8
  <2>9. CASE j[k] < i[k]
    BY <1>1, <2>5, <2>6, <2>9
  <2>. QED  BY <2>7, <2>8, <2>9
<1>. QED  BY <1>3, <1>4, <1>5 DEF Orders

-----------------------------------------------------------------------------
\* The type of a directory.
LoadTypeOK == directory \in [Paths -> Contents \cup {NoFile}]

\* Of a directory that loads: the files are numbered in the order of ids,
\* each id once, and each is the id of the content that is loaded for it.
ListsTheFiles(ids, order, read) ==
    /\ \A n \in 1 .. Cardinality(ids) : order[n] \in ids
    /\ \A i \in ids : \E n \in 1 .. Cardinality(ids) : order[n] = i
    /\ \A i \in ids : Parsed[read[i]].id = i

\* What is loaded for an id.
LoadedFor == [i \in Ids |-> directory[PathOf(i)]]

\* Two that differ are two.
LEMMA PairHasTwo ==
    ASSUME NEW a, NEW b, a # b PROVE Cardinality({a, b}) = 2
<1>1. IsFiniteSet({a}) /\ Cardinality({a}) = 1
  BY FS_Singleton
<1>2. Cardinality({a} \cup {b}) = Cardinality({a}) + 1
  BY <1>1, FS_AddElement
<1>3. {a, b} = {a} \cup {b}
  OBVIOUS
<1>. QED  BY <1>1, <1>2, <1>3

\* A directory that loads has ids of one width.
LEMMA LoadedIdsAreOrdered ==
    LoadTypeOK /\ Loads =>
        /\ IsFiniteSet(Ids)
        /\ Orders(StringsBefore(Ids), Ids)
<1>. SUFFICES ASSUME LoadTypeOK, Loads
              PROVE  IsFiniteSet(Ids) /\ Orders(StringsBefore(Ids), Ids)
  OBVIOUS
<1>1. Accepted \in SUBSET Paths /\ IsFiniteSet(Accepted)
  BY LoadConstants, FS_Subset DEF Accepted, Present
<1>. DEFINE idOf == [p \in Accepted |-> Id(p)]
<1>2. idOf \in Surjection(Accepted, Ids)
  BY DEF Ids, Surjection
<1>3. IsFiniteSet(Ids)
  BY <1>1, <1>2, FS_Surjection
<1>4. Ids \in SUBSET Seq(0 .. 9)
  <2>. SUFFICES ASSUME NEW p \in Accepted PROVE Id(p) \in Seq(0 .. 9)
    BY DEF Ids
  <2>1. directory[p] \in Contents /\ Parsed[directory[p]] # NoFile
    BY DEF Accepted, Present, IsAccepted, LoadTypeOK
  <2>. QED  BY <2>1, LoadConstants DEF Id
<1>5. ASSUME NEW i \in Ids, NEW j \in Ids PROVE Len(i) = Len(j)
  <2>. DEFINE len == [k \in Ids |-> Len(k)]
  <2>1. len \in Surjection(Ids, Widths)
    BY DEF Widths, Surjection
  <2>2. IsFiniteSet(Widths)
    BY <1>3, <2>1, FS_Surjection
  <2>3. ~(Cardinality(Widths) > 1)
    BY DEF Loads, LoadError
  <2>4. {Len(i), Len(j)} \in SUBSET Widths
    BY DEF Widths
  <2>5. Cardinality({Len(i), Len(j)}) <= Cardinality(Widths)
    BY <2>2, <2>4, FS_Subset
  <2>6. Cardinality(Widths) \in Nat
    BY <2>2, FS_CardinalityType
  <2>7. ASSUME Len(i) # Len(j) PROVE Cardinality({Len(i), Len(j)}) = 2
    BY <2>7, PairHasTwo
  <2>. QED  BY <2>3, <2>5, <2>6, <2>7
<1>6. Orders(StringsBefore(Ids), Ids)
  BY <1>4, <1>5, StringsAreOrdered
<1>. QED  BY <1>3, <1>6

\* The arrays hold every loaded id once, at its place.
LEMMA LoadedFilesAreListed ==
    LoadTypeOK /\ Loads => ListsTheFiles(Ids, CanonicalOrder, LoadedFor)
<1>. SUFFICES ASSUME LoadTypeOK, Loads
              PROVE  ListsTheFiles(Ids, CanonicalOrder, LoadedFor)
  OBVIOUS
<1>1. IsFiniteSet(Ids) /\ Orders(StringsBefore(Ids), Ids)
  BY LoadedIdsAreOrdered
<1>2. \A i \in Ids : IdsBefore(i) = Beneath(StringsBefore(Ids), Ids, i)
  BY DEF IdsBefore, Beneath, StringsBefore
<1>3. ASSUME NEW n \in 1 .. Cardinality(Ids)
      PROVE  CanonicalOrder[n] = InPlace(StringsBefore(Ids), Ids, n)
  BY <1>2, Zenon DEF CanonicalOrder, InPlace
<1>4. ASSUME NEW i \in Ids PROVE Parsed[LoadedFor[i]].id = i
  BY DEF Ids, LoadedFor, PathOf, Id
<1>. QED  BY <1>1, <1>3, <1>4, EveryPlaceIsTaken DEF ListsTheFiles

\* A file's content is loaded, so the pairs and the files say the same.
LEMMA PairsAreTheFiles ==
    ASSUME NEW ids, NEW order, NEW read, ListsTheFiles(ids, order, read),
           NEW ids2, NEW order2, NEW read2, ListsTheFiles(ids2, order2, read2),
           ids = ids2 => order = order2
    PROVE  {<<i, read[i]>> : i \in ids} = {<<i, read2[i]>> : i \in ids2}
             <=> [n \in 1 .. Cardinality(ids) |-> read[order[n]]]
                   = [n \in 1 .. Cardinality(ids2) |-> read2[order2[n]]]
<1>. DEFINE pairs == {<<i, read[i]>> : i \in ids}
            pairs2 == {<<i, read2[i]>> : i \in ids2}
            files == [n \in 1 .. Cardinality(ids) |-> read[order[n]]]
            files2 == [n \in 1 .. Cardinality(ids2) |-> read2[order2[n]]]
<1>1. ASSUME pairs = pairs2 PROVE files = files2
  <2>1. ids = ids2
    <3>1. \A i \in ids : <<i, read[i]>> \in pairs2
      BY <1>1
    <3>2. \A i \in ids2 : <<i, read2[i]>> \in pairs
      BY <1>1
    <3>. QED  BY <3>1, <3>2
  <2>2. ASSUME NEW i \in ids PROVE read[i] = read2[i]
    <3>1. <<i, read[i]>> \in pairs2
      BY <1>1
    <3>. QED  BY <3>1
  <2>. QED  BY <2>1, <2>2 DEF ListsTheFiles
<1>2. ASSUME files = files2 PROVE pairs = pairs2
  <2>1. DOMAIN files = DOMAIN files2
    BY <1>2
  <2>2. 1 .. Cardinality(ids) = 1 .. Cardinality(ids2)
    BY <2>1
  <2>3. \A n \in 1 .. Cardinality(ids) : read[order[n]] = read2[order2[n]]
    <3>1. \A n \in 1 .. Cardinality(ids) : files[n] = files2[n]
      BY <1>2
    <3>. QED  BY <2>2, <3>1
  <2>4. \A n \in 1 .. Cardinality(ids) : order[n] = order2[n]
    BY <2>2, <2>3 DEF ListsTheFiles
  <2>5. ids = ids2
    <3>1. ASSUME NEW i \in ids PROVE i \in ids2
      <4>1. PICK n \in 1 .. Cardinality(ids) : order[n] = i
        BY DEF ListsTheFiles
      <4>2. n \in 1 .. Cardinality(ids2) /\ order2[n] = i
        BY <2>2, <2>4, <4>1
      <4>. QED  BY <4>2 DEF ListsTheFiles
    <3>2. ASSUME NEW i \in ids2 PROVE i \in ids
      <4>1. PICK n \in 1 .. Cardinality(ids2) : order2[n] = i
        BY DEF ListsTheFiles
      <4>2. n \in 1 .. Cardinality(ids) /\ order[n] = i
        BY <2>2, <2>4, <4>1
      <4>. QED  BY <4>2 DEF ListsTheFiles
    <3>. QED  BY <3>1, <3>2
  <2>6. \A i \in ids : read[i] = read2[i]
    BY <2>3, <2>4 DEF ListsTheFiles
  <2>. QED  BY <2>5, <2>6
<1>. QED  BY <1>1, <1>2

\* The order depends on the ids and on nothing else.
LEMMA OrderIsOfTheIds ==
    ASSUME Ids' = Ids PROVE CanonicalOrder' = CanonicalOrder
  BY DEF CanonicalOrder, IdsBefore

\* Hash and arrays are built from the same ids and contents.
LEMMA FilesAreRead ==
    LoadTypeOK /\ Loads =>
        /\ PipelineHash = {<<i, LoadedFor[i]>> : i \in Ids}
        /\ Files = [n \in 1 .. Cardinality(Ids) |-> LoadedFor[CanonicalOrder[n]]]
<1>. SUFFICES ASSUME LoadTypeOK, Loads
              PROVE  /\ PipelineHash = {<<i, LoadedFor[i]>> : i \in Ids}
                     /\ Files = [n \in 1 .. Cardinality(Ids) |-> LoadedFor[CanonicalOrder[n]]]
  OBVIOUS
<1>1. PipelineHash = {<<i, LoadedFor[i]>> : i \in Ids}
  BY DEF PipelineHash, LoadedFor
<1>2. DOMAIN CanonicalOrder = 1 .. Cardinality(Ids)
  BY DEF CanonicalOrder
<1>3. \A n \in 1 .. Cardinality(Ids) : CanonicalOrder[n] \in Ids
  BY LoadedFilesAreListed DEF ListsTheFiles
<1>4. \A n \in 1 .. Cardinality(Ids) : directory[PathOf(CanonicalOrder[n])] = LoadedFor[CanonicalOrder[n]]
  BY <1>3 DEF LoadedFor
<1>. QED  BY <1>1, <1>2, <1>4 DEF Files

\* A name in the directory has a content or none.
LEMMA LoadTypeInvariant == LoadSpec => []LoadTypeOK
<1>1. LoadInit => LoadTypeOK
  BY DEF LoadInit, LoadTypeOK
<1>2. LoadTypeOK /\ [LoadNext]_directory => LoadTypeOK'
  <2>. SUFFICES ASSUME LoadTypeOK, [LoadNext]_directory PROVE LoadTypeOK'
    OBVIOUS
  <2>1. CASE UNCHANGED directory
    BY <2>1 DEF LoadTypeOK
  <2>2. ASSUME NEW p \in Paths, WriteFile(p) PROVE LoadTypeOK'
    BY <2>2 DEF WriteFile, LoadTypeOK
  <2>3. ASSUME NEW p \in Paths, RemoveFile(p) PROVE LoadTypeOK'
    BY <2>3 DEF RemoveFile, LoadTypeOK
  <2>4. ASSUME NEW p \in Paths, NEW q \in Paths, RenameFile(p, q) PROVE LoadTypeOK'
    BY <2>4 DEF RenameFile, LoadTypeOK
  <2>. QED  BY <2>1, <2>2, <2>3, <2>4 DEF LoadNext
<1>. QED  BY <1>1, <1>2, PTL DEF LoadSpec

\* Whatever is written, removed or renamed between two loads that succeed, the
\* hash that runs cite stays if and only if the loaded files do, in their order
\* (snapshot_hash, load_pipeline).
THEOREM HashFollowsTheFiles == LoadSpec => HashIsTheLoadedContents
<1>1. LoadTypeOK /\ LoadTypeOK' /\ [LoadNext]_directory =>
         [Loads /\ Loads' => (PipelineHash' = PipelineHash <=> Files' = Files)]_directory
  <2>. SUFFICES ASSUME LoadTypeOK, LoadTypeOK', Loads, Loads'
                PROVE  PipelineHash' = PipelineHash <=> Files' = Files
    OBVIOUS
  <2>1. /\ ListsTheFiles(Ids, CanonicalOrder, LoadedFor)
        /\ PipelineHash = {<<i, LoadedFor[i]>> : i \in Ids}
        /\ Files = [n \in 1 .. Cardinality(Ids) |-> LoadedFor[CanonicalOrder[n]]]
    BY LoadedFilesAreListed, FilesAreRead
  <2>2. /\ ListsTheFiles(Ids, CanonicalOrder, LoadedFor)'
        /\ (PipelineHash = {<<i, LoadedFor[i]>> : i \in Ids})'
        /\ (Files = [n \in 1 .. Cardinality(Ids) |-> LoadedFor[CanonicalOrder[n]]])'
    BY LoadedFilesAreListed, FilesAreRead, PTL
  <2>3. ListsTheFiles(Ids', CanonicalOrder', LoadedFor')
    BY <2>2 DEF ListsTheFiles
  <2>4. Ids' = Ids => CanonicalOrder' = CanonicalOrder
    BY OrderIsOfTheIds
  <2>. QED  BY <2>1, <2>2, <2>3, <2>4, PairsAreTheFiles
<1>. QED  BY <1>1, LoadTypeInvariant, PTL DEF LoadSpec, HashIsTheLoadedContents
=============================================================================
