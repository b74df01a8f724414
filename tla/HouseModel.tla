----------------------------- MODULE HouseModel -----------------------------
(***************************************************************************)
(* The house model (model/project.py, model/annuity.py) and the pricing   *)
(* that comes before it (generate/project.py): what a site costs, the debt *)
(* it carries, and the statements of its file, computed a year at a time   *)
(* and put through the gate and the sheet as an analyst's are.  Amounts    *)
(* are the integers of TieOuts; shares, rates of tax, ramp, gearing and    *)
(* degradation are in hundredths, rates of interest and escalation whole.  *)
(***************************************************************************)
EXTENDS Workbook

CONSTANTS
    Drawn,           \* what draw_project may draw for a site, before its price
    Analyst          \* no site: the rows are an analyst's

Draws == [generation : Nat, ppaShare : 0 .. 100, ppaPrice : Nat, ppaTenor : Nat,
          capture : Nat, priceEscalation : Int, merchantEscalation : Int,
          opex : Nat, opexEscalation : Int, taxRate : 0 .. 100, yearsPaid : Nat,
          floor : Nat, cap : Nat, gearing : 0 .. 100, target : Nat \ {0},
          life : Nat \ {0}, debtRate : Int, tenor : Nat, cod : Int,
          degradation : 0 .. 100, ramp : 0 .. 100]

VARIABLES
    inputs,          \* ProjectInputs: what is modelled, or Analyst
    balance,         \* the debt outstanding
    carrying         \* the book value of the plant

modelled == <<file, sheet, inputs, balance, carrying>>

-----------------------------------------------------------------------------
(* annuity.py.                                                             *)

\* annuity_payment_factor, as the two parts of a fraction.
PaymentFactor(rate, periods) ==
    IF rate = 0 THEN [of |-> 1, to |-> periods]
    ELSE [of |-> rate * Power(1 + rate, periods), to |-> Power(1 + rate, periods) - 1]

Payment(debt, rate, periods) ==
    LET factor == PaymentFactor(rate, periods)
    IN  (debt * factor.of) \div factor.to

\* schedule: what a payment repays, after interest on the opening balance.
Repaid(payment, outstanding, rate) == AtLeast(0, payment - outstanding * rate)

Outstanding(debt, rate, periods) ==
    LET payment == Payment(debt, rate, periods)
        owed[k \in 0 .. periods] ==
            IF k = 0 THEN debt
            ELSE AtLeast(0, owed[k - 1] - Repaid(payment, owed[k - 1], rate))
    IN  owed

Principal(debt, rate, periods) ==
    LET payment == Payment(debt, rate, periods)
        owed    == Outstanding(debt, rate, periods)
    IN  [k \in 0 .. periods - 1 |-> Repaid(payment, owed[k], rate)]

\* _debt_schedule: nothing to repay, in as many periods as the tenor has.
Repayments(i) ==
    IF i.seniorDebt <= 0 \/ i.tenor <= 0
    THEN [k \in 0 .. i.tenor - 1 |-> 0]
    ELSE Principal(i.seniorDebt, i.debtRate, i.tenor)

-----------------------------------------------------------------------------
(* project.py: the parts of one year.                                      *)

\* Mutant: equity is paid in the year of commissioning too.
FundingOneYearMore(i, y) ==
    LET equity == i.totalCapex - i.seniorDebt
        debt   == IF y = AtLeast(0, i.cod) THEN i.seniorDebt ELSE 0
        own    == IF i.cod <= 0 THEN (IF y = 0 THEN equity ELSE 0)
                  ELSE IF y <= i.cod THEN equity \div i.cod ELSE 0
    IN  [debt |-> debt, equity |-> own, capex |-> own + debt]

\* Equity while it is built, all of the debt at COD; all of both in the first
\* year of a plant that runs already.
Funding(i, y) ==
    LET equity == i.totalCapex - i.seniorDebt
        debt   == IF y = AtLeast(0, i.cod) THEN i.seniorDebt ELSE 0
        own    == IF i.cod <= 0 THEN (IF y = 0 THEN equity ELSE 0)
                  ELSE IF y < i.cod THEN equity \div i.cod ELSE 0
    IN  [debt |-> debt, equity |-> own, capex |-> own + debt]

AchievedPrice(i, age) ==
    LET merchant == i.capture * Power(1 + i.merchantEscalation, age)
    IN  IF i.ppaTenor > 0 /\ age < i.ppaTenor
        THEN (i.ppaShare * i.ppaPrice * Power(1 + i.priceEscalation, age)
                + (100 - i.ppaShare) * merchant) \div 100
        ELSE merchant

Generation(i, age) ==
    LET aged == (i.generation * Power(100 - i.degradation, age)) \div Power(100, age)
    IN  IF age = 0 THEN (aged * i.ramp) \div 100 ELSE aged

-----------------------------------------------------------------------------
(* Pricing and sizing, off one stabilised year: _price.                     *)

\* stabilised_ebitda: a year of degradation and of escalation, and no ramp.
\* Its guard, a tenor above 1, is what AchievedPrice has at age 1.
Stabilised(d) ==
    Generation(d, 1) * AchievedPrice(d, 1) - d.opex * (1 + d.opexEscalation)

\* entry_capex_per_kw, for the whole plant: the price a buyer pays for its
\* yield, inside the band of its technology.
Capex(d) ==
    LET unclamped == Stabilised(d) * d.yearsPaid
    IN  IF unclamped < d.floor THEN d.floor
        ELSE IF unclamped > d.cap THEN d.cap ELSE unclamped

Ceiling(d) == (d.gearing * Capex(d)) \div 100

\* Mutant: the factor is the other way up.
ServiceableByPresentValue(d) ==
    LET factor == PaymentFactor(d.debtRate, d.tenor)
    IN  (Stabilised(d) * factor.of) \div (d.target * factor.to)

Serviceable(d) ==
    LET factor == PaymentFactor(d.debtRate, d.tenor)
    IN  (Stabilised(d) * factor.to) \div (d.target * factor.of)

\* size_senior_debt.
Sculpted(d) == d.tenor > 0 /\ d.debtRate >= 0 /\ Serviceable(d) < Ceiling(d)

SeniorDebt(d) ==
    IF d.tenor <= 0 \/ d.debtRate < 0 THEN 0
    ELSE AtLeast(0, IF Sculpted(d) THEN Serviceable(d) ELSE Ceiling(d))

\* _inputs: what was drawn, at its price.
Priced(d) ==
    LET price == [totalCapex |-> Capex(d), seniorDebt |-> SeniorDebt(d)]
    IN  [f \in DOMAIN d \cup DOMAIN price |-> IF f \in DOMAIN d THEN d[f] ELSE price[f]]

-----------------------------------------------------------------------------
(* project_statements.                                                     *)

\* The flows of a year of operation; debt is what is owed after the drawdown.
Operation(i, age, debt) ==
    LET generation == Generation(i, age)
        price      == AchievedPrice(i, age)
        served     == 0 <= age /\ age < i.tenor
    IN  [generation |-> generation, price |-> price, revenue |-> generation * price,
         opex |-> i.opex * Power(1 + i.opexEscalation, age),
         depreciation |-> IF age < i.life THEN i.totalCapex \div i.life ELSE 0,
         interest |-> IF served THEN debt * i.debtRate ELSE 0,
         repayment |-> IF served THEN Repayments(i)[age] ELSE 0]

Idle == [generation |-> 0, price |-> 0, revenue |-> 0, opex |-> 0,
         depreciation |-> 0, interest |-> 0, repayment |-> 0]

\* project_statements, for the year y, and as_file: interest and tax are paid
\* as they are expensed, and the two drawdowns and repayments are one series.
Statement(i, y) ==
    LET age     == y - i.cod
        funded  == Funding(i, y)
        drawn   == balance + funded.debt
        flow    == IF age < 0 THEN Idle ELSE Operation(i, age, drawn)
        ebitda  == flow.revenue - flow.opex
        pbt     == ebitda - flow.depreciation - flow.interest
        tax     == AtLeast(0, (pbt * i.taxRate) \div 100)
        service == flow.interest + flow.repayment
    IN  [amount |->
           [generation |-> flow.generation, achievedPrice |-> flow.price,
            revenue |-> flow.revenue, opex |-> flow.opex, ebitda |-> ebitda,
            depreciation |-> flow.depreciation, ebit |-> ebitda - flow.depreciation,
            interestExpense |-> flow.interest, pbt |-> pbt, taxExpense |-> tax,
            netIncome |-> pbt - tax, interestPaid |-> flow.interest,
            debtRepayment |-> flow.repayment, taxPaid |-> tax,
            capex |-> funded.capex, debtDrawdown |-> funded.debt,
            equityDrawdown |-> funded.equity,
            fcfe |-> ebitda - flow.interest - flow.repayment - tax - funded.equity,
            opening |-> balance, drawdown |-> funded.debt,
            repayment |-> flow.repayment, closing |-> drawn - flow.repayment,
            ppe |-> carrying - flow.depreciation + funded.capex],
         dscr |-> IF 0 <= age /\ age < i.tenor /\ service # 0
                  THEN ebitda \div service ELSE Null]

\* The code takes quotients, the model whole numbers: of what is drawn, equity
\* over the years of building, the debt that is serviceable, its annuity and the
\* cover of each year leave nothing over.
Divides(n, m) == m % n = 0

Exact(d) ==
    LET i == Priced(d)
        factor  == PaymentFactor(i.debtRate, i.tenor)
        payment == Payment(i.seniorDebt, i.debtRate, i.tenor)
    IN  /\ i.cod > 0 => Divides(i.cod, i.totalCapex - i.seniorDebt)
        /\ i.seniorDebt > 0 =>
              /\ Sculpted(d) => Divides(d.target * factor.of, Stabilised(d) * factor.to)
              /\ Divides(factor.to, i.seniorDebt * factor.of)
              /\ \A age \in 0 .. i.tenor - 1 :
                    LET flow == Operation(i, age, 0)
                    IN  Divides(payment, flow.revenue - flow.opex)

ASSUME DrawnAreExact == Drawn \subseteq Draws /\ \A d \in Drawn : Exact(d)

\* as_file: what the file declares.
Declared(i) ==
    [totalCapex |-> i.totalCapex, seniorDebt |-> i.seniorDebt, cod |-> i.cod,
     tenor |-> i.tenor, opex |-> i.opex, escalation |-> i.opexEscalation]

-----------------------------------------------------------------------------
HouseInit ==
    /\ inputs \in {Priced(d) : d \in Drawn} \cup {Analyst}
    /\ balance = 0 /\ carrying = 0
    /\ SheetInit
    /\ inputs # Analyst => head = Declared(inputs)

ModelYear ==
    /\ inputs # Analyst
    /\ SheetReads(Statement(inputs, year))
    /\ balance' = Statement(inputs, year).amount.closing
    /\ carrying' = Statement(inputs, year).amount.ppe
    /\ UNCHANGED inputs

StateYear(r) ==
    /\ inputs = Analyst
    /\ SheetReads(r)
    /\ UNCHANGED <<inputs, balance, carrying>>

HouseNext ==
    \/ ModelYear
    \/ \E r \in Rows : StateYear(r)
    \/ SheetConcludes /\ UNCHANGED <<inputs, balance, carrying>>

HouseSpec == HouseInit /\ [][HouseNext]_modelled

-----------------------------------------------------------------------------
(* Properties.                                                             *)

\* A plant that is commissioned within the years of the file and has repaid
\* its debt by the last of them.
WithinTheFile(i) ==
    /\ 0 <= i.cod /\ i.cod + AtLeast(1, i.tenor) <= Horizon
    /\ i.seniorDebt > 0 => i.tenor > 0

\* "Every tie-out in 7 holds by construction" (project_statements): what the
\* house model computes for a plant with debt passes the gate and the sheet,
\* if the debt's life is within the file.  Without debt, or with a life that
\* begins or ends outside it, it does not: the coverage check wants a ratio in
\* every year of the declared tenor, and closing[last] is not 0.
HouseModelTiesOut ==
    inputs # Analyst /\ WithinTheFile(inputs) /\ inputs.seniorDebt > 0 =>
        failures = {} /\ sheet = {}

\* The debt is sized on a synthetic year and paid out of the modelled ones: no
\* year of the debt's life, the ramp apart, that earns at least the stabilised
\* EBITDA is covered less than the target, and debt that the gearing ceiling
\* did not cap is covered at the target in the first full year, or the lowest
\* cover is lower still (size_senior_debt).
DebtIsSizedToItsTarget ==
    inputs # Analyst /\ WithinTheFile(inputs) /\ inputs.seniorDebt > 0 =>
        /\ \A age \in 1 .. inputs.tenor - 1 :
              LET flow == Operation(inputs, age, 0)
              IN  flow.revenue - flow.opex >= Stabilised(inputs) =>
                    flow.revenue - flow.opex >=
                        inputs.target * Payment(inputs.seniorDebt, inputs.debtRate, inputs.tenor)
        /\ Sculpted(inputs) /\ inputs.tenor > 1 /\ verdict = "loaded" =>
              lowest # Null /\ lowest <= inputs.target
=============================================================================
