------------------------------ MODULE TieOuts -------------------------------
(***************************************************************************)
(* The tie-outs of one analyst's file (pipeline/validator.py): arithmetic  *)
(* identities inside and between its statements, each within a tolerance.  *)
(* A file that fails none is loaded, and the economics read its series as  *)
(* they stand (pipeline/derive.py, economics/).                            *)
(*                                                                         *)
(* The file is read a year at a time, by the identities that hold in a     *)
(* year and with running totals for those of the whole file.  Amounts are  *)
(* integers, in the unit of the absolute tolerance; what the tolerances    *)
(* allow is counted in thousandths of it.                                  *)
(***************************************************************************)
EXTENDS Integers

CONSTANTS
    Horizon,         \* YEARS, the length of every series
    Rows,            \* what a file may state for one year
    Heads,           \* what it may declare of the project as a whole
    ToleranceAbs,    \* tolerance_abs_m
    ToleranceRel,    \* tolerance_rel, in thousandths
    Null             \* no dscr in this year

Amounts == {"generation", "achievedPrice", "revenue", "opex", "ebitda",
            "depreciation", "ebit", "interestExpense", "pbt", "taxExpense",
            "netIncome", "interestPaid", "debtRepayment", "taxPaid", "capex",
            "debtDrawdown", "equityDrawdown", "fcfe", "opening", "drawdown",
            "repayment", "closing", "ppe"}

\* The other lines are magnitudes (domain/project_file.py).
Signed == {"revenue", "ebitda", "ebit", "pbt", "netIncome", "fcfe"}

Row  == [amount : {a \in [Amounts -> Int] : \A f \in Amounts \ Signed : a[f] >= 0},
         dscr : Int \cup {Null}]
Header == {h \in [totalCapex : Nat, seniorDebt : Nat, cod : Int, tenor : Nat,
                opex : Nat, escalation : Int] : h.seniorDebt <= h.totalCapex}

ASSUME TieOutConstants ==
    /\ Horizon \in Nat \ {0}
    /\ Rows \subseteq Row /\ Heads \subseteq Header
    /\ ToleranceAbs \in Nat /\ ToleranceRel \in Nat
    /\ Null \notin Int

VARIABLES
    head,        \* the declared scalars; cod counts from the base year
    year,        \* the years read so far
    closing,     \* debtSchedule.closing of the last of them
    ppe,         \* balanceSheet.ppe of the last of them
    total,       \* the sum of every series so far
    failures,    \* the checks that have failed
    lowest,      \* the lowest dscr outside the ramp year, or Null
    slack,       \* what the tolerances have allowed so far, for the properties
    verdict      \* "reading", then "loaded" or "rejected"

file == <<head, year, closing, ppe, total, failures, lowest, slack, verdict>>

AtLeast(a, b) == IF a >= b THEN a ELSE b
Abs(a) == IF a >= 0 THEN a ELSE -a

\* base ** n, for a whole n that is not negative.
Power(base, n) ==
    LET power[k \in 0 .. n] == IF k = 0 THEN 1 ELSE base * power[k - 1]
    IN  power[n]

\* The looser of the two tolerances, in thousandths.
Allowed(actual, expected) ==
    AtLeast(1000 * ToleranceAbs,
            ToleranceRel * AtLeast(Abs(actual), Abs(expected)))

\* _breach.
Breach(actual, expected) ==
    1000 * Abs(actual - expected) > Allowed(actual, expected)

-----------------------------------------------------------------------------
(* The checks of one year.                                                 *)

\* The age of the plant in a year, and what its opex must then be.
Age(y) == y - head.cod
OpexDue(y) ==
    IF Age(y) < 0 THEN 0 ELSE head.opex * Power(1 + head.escalation, Age(y))

Service(a) == a.interestPaid + a.debtRepayment

\* Mutant: net income is taken as it stands.
NetIncomeUnchecked(a) ==
    [ebitda    |-> <<a.ebitda, a.revenue - a.opex>>,
     ebit      |-> <<a.ebit, a.ebitda - a.depreciation>>,
     pbt       |-> <<a.pbt, a.ebit - a.interestExpense>>,
     netIncome |-> <<a.netIncome, a.netIncome>>]

\* Each check with the figure stated and the figure it must tie to.  The
\* cash flow and the debt schedule each have a drawdown and a repayment.
IncomeStatement(a) ==
    [ebitda    |-> <<a.ebitda, a.revenue - a.opex>>,
     ebit      |-> <<a.ebit, a.ebitda - a.depreciation>>,
     pbt       |-> <<a.pbt, a.ebit - a.interestExpense>>,
     netIncome |-> <<a.netIncome, a.pbt - a.taxExpense>>]

Physicals(a) ==
    [revenue |-> <<a.revenue, a.generation * a.achievedPrice>>,
     opex    |-> <<a.opex, OpexDue(year)>>]

CashFlow(a) ==
    [fcfe  |-> <<a.fcfe, a.ebitda - a.interestPaid - a.debtRepayment - a.taxPaid
                           - a.capex + a.debtDrawdown>>,
     capex |-> <<a.capex, a.debtDrawdown + a.equityDrawdown>>]

\* Mutant: continuity with the year before is not checked.
BalancesUnlinked(a) ==
    [closing |-> <<a.closing, a.opening - a.repayment + a.drawdown>>,
     opening |-> <<a.opening, a.opening>>,
     ppe     |-> <<a.ppe, ppe - a.depreciation + a.capex>>]

Balances(a) ==
    [closing |-> <<a.closing, a.opening - a.repayment + a.drawdown>>,
     opening |-> <<a.opening, closing>>,
     ppe     |-> <<a.ppe, ppe - a.depreciation + a.capex>>]

\* dscr in the multiplied form, and where it must be stated.
Cover(r) ==
    [dscr |-> IF r.dscr = Null THEN <<0, 0>>
              ELSE <<r.dscr * Service(r.amount), r.amount.ebitda>>]

InDebtLife(y) == 0 <= Age(y) /\ Age(y) < head.tenor

Broken(checks) == {c \in DOMAIN checks : Breach(checks[c][1], checks[c][2])}

YearFailures(r) ==
    Broken(IncomeStatement(r.amount)) \cup Broken(Physicals(r.amount))
        \cup Broken(CashFlow(r.amount)) \cup Broken(Balances(r.amount))
        \cup Broken(Cover(r))
        \cup (IF (r.dscr # Null) = InDebtLife(year) THEN {} ELSE {"coverage"})

-----------------------------------------------------------------------------
(* The checks of the whole file, when every year has been read.            *)

WholeFile ==
    [seniorDebt   |-> <<total.debtDrawdown, head.seniorDebt>>,
     equity       |-> <<total.equityDrawdown, head.totalCapex - head.seniorDebt>>,
     totalCapex   |-> <<total.capex, head.totalCapex>>,
     depreciation |-> <<total.depreciation, head.totalCapex - ppe>>,
     amortised    |-> <<closing, 0>>]

-----------------------------------------------------------------------------
(* A file is read.                                                         *)

NoAmount == [f \in Amounts |-> 0]

TieOutInit ==
    /\ head \in Heads
    /\ year = 0
    /\ closing = 0
    /\ ppe = 0
    /\ total = NoAmount
    /\ failures = {}
    /\ lowest = Null
    /\ slack = [debt |-> 0, plant |-> 0, cash |-> 0]
    /\ verdict = "reading"

\* ramp_offsets: a plant that was running at the base year has no ramp year.
IsRamp(y) == Age(y) = 0

\* min_dscr.
LowestCover(r) ==
    IF r.dscr = Null \/ IsRamp(year) THEN lowest
    ELSE IF lowest = Null \/ r.dscr < lowest THEN r.dscr ELSE lowest

\* What the checks that link years and statements allow in one year.
SlackAfter(a) ==
    LET margin(check) == Allowed(check[1], check[2])
        income == IncomeStatement(a)
        cash   == CashFlow(a)
        linked == Balances(a)
    IN  [debt  |-> slack.debt + margin(linked.opening) + margin(linked.closing),
         plant |-> slack.plant + margin(linked.ppe),
         cash  |-> slack.cash + margin(income.ebit) + margin(income.pbt)
                     + margin(income.netIncome) + margin(cash.fcfe)
                     + margin(cash.capex)]

ReadYear(r) ==
    /\ verdict = "reading" /\ year < Horizon
    /\ failures' = failures \cup YearFailures(r)
    /\ total' = [f \in Amounts |-> total[f] + r.amount[f]]
    /\ closing' = r.amount.closing
    /\ ppe' = r.amount.ppe
    /\ lowest' = LowestCover(r)
    /\ slack' = SlackAfter(r.amount)
    /\ year' = year + 1
    /\ UNCHANGED <<head, verdict>>

Conclude ==
    /\ verdict = "reading" /\ year = Horizon
    /\ failures' = failures \cup Broken(WholeFile)
    /\ verdict' = IF failures' = {} THEN "loaded" ELSE "rejected"
    /\ UNCHANGED <<head, year, closing, ppe, total, lowest, slack>>

TieOutNext == (\E r \in Rows : ReadYear(r)) \/ Conclude

TieOutSpec == TieOutInit /\ [][TieOutNext]_file

-----------------------------------------------------------------------------
(* Properties.                                                             *)

TieOutTypeOK ==
    /\ head \in Heads
    /\ year \in 0 .. Horizon
    /\ closing \in Int /\ ppe \in Int
    /\ total \in [Amounts -> Int]
    /\ lowest \in Int \cup {Null}
    /\ slack \in [debt : Int, plant : Int, cash : Int]
    /\ verdict \in {"reading", "loaded", "rejected"}

Reconciles(actual, expected, allowed) ==
    1000 * Abs(actual - expected) <= allowed

\* A balance is what went in less what came out since the first year, in
\* every year of a file that ties out: tolerances add up and nothing else
\* does (validator.py, roll-forward and continuity; terminal.py reads
\* closing at the exit year as the debt outstanding).
BalancesAreTheirFlows ==
    failures = {} =>
        /\ Reconciles(closing, total.drawdown - total.repayment, slack.debt)
        /\ Reconciles(ppe, total.capex - total.depreciation, slack.plant)

\* The three statements articulate: cash to equity is net income with
\* depreciation added back, the accruals undone, and principal and equity
\* paid, though no check compares the two (7.1, 7.3, 7.5).
CashIsEarningsBridged ==
    failures = {} =>
        Reconciles(total.fcfe,
                   total.netIncome + total.depreciation
                     + (total.interestExpense - total.interestPaid)
                     + (total.taxExpense - total.taxPaid)
                     - total.debtRepayment - total.equityDrawdown,
                   slack.cash)

\* A file that ties out is one set of statements: the two parts above.
StatementsArticulate == BalancesAreTheirFlows /\ CashIsEarningsBridged

\* "NaN where the project carries no debt" (derive.py, min_dscr; screens and
\* plausibility checks read it so): a loaded file without a cover ratio
\* declares no debt.  The code does not keep this promise: a debt life of no
\* year, or of the ramp year alone, has no cover ratio either.
NoCoverMeansNoDebt ==
    verdict = "loaded" /\ lowest = Null => head.seniorDebt = 0
=============================================================================
