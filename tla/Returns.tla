------------------------------ MODULE Returns -------------------------------
(***************************************************************************)
(* What a plant earns and costs, from the series of its file (economics/,  *)
(* pipeline/derive.py): the cash flow truncated at the hold period with    *)
(* the exit proceeds in it, its rate of return and multiple, and the       *)
(* levelised cost.  A figure that cannot be said is Undefined (NaN).       *)
(*                                                                         *)
(* Amounts are integers, rates whole percents: the bisection is the        *)
(* code's, over a bracket of 256 percent halved down to the percent.       *)
(***************************************************************************)
EXTENDS Integers, Sequences, SequencesExt, FiniteSetsExt

CONSTANTS
    Years,           \* YEARS, the length of every series
    ExitMultiple,    \* exit_multiples, by "solar" or not
    RateLow, RateHigh,  \* IRR_BRACKET_LOW, IRR_BRACKET_HIGH
    Halvings,        \* IRR_BISECTION_ITERATIONS
    Undefined        \* NaN, and the null it becomes

\* The bracket lies above a total loss, and can be halved to the percent.
ASSUME ReturnsConstants ==
    /\ Years \in Nat \ {0}
    /\ ExitMultiple \in [BOOLEAN -> Nat]
    /\ RateLow \in Int /\ RateHigh \in Int /\ Halvings \in Nat
    /\ -100 < RateLow /\ RateLow < RateHigh
    /\ RateHigh - RateLow = 2 ^ (Halvings + 1)
    /\ Undefined \notin Int

Total(series) == SumFunction(series)
Larger(a, b) == IF a >= b THEN a ELSE b
Smaller(a, b) == IF a <= b THEN a ELSE b
Sign(a) == IF a > 0 THEN 1 ELSE IF a < 0 THEN -1 ELSE 0

\* exit_index: a hold of h years ends with year h, at most the last.
ExitYear(hold) == Smaller(hold, Years)

\* The equity owes nothing when the plant fetches less than its debt.
TerminalValue(p, hold) ==
    LET exit == ExitYear(hold)
    IN  Larger(ExitMultiple[p.solar] * p.ebitda[exit] - p.closing[exit], 0)

\* hold_truncated_fcfe, with exit_year_fcfe_included as it is shipped.
HoldSeries(p, hold) ==
    LET exit == ExitYear(hold)
    IN  [y \in 1 .. exit |->
            p.fcfe[y] + (IF y = exit THEN TerminalValue(p, hold) ELSE 0)]

Moic(series) ==
    LET paidIn  == Total([y \in DOMAIN series |-> Larger(-series[y], 0)])
        paidOut == Total([y \in DOMAIN series |-> Larger(series[y], 0)])
    IN  IF paidIn > 0 THEN (100 * paidOut) \div paidIn ELSE Undefined

\* The first year in which the sum so far is not negative.
Payback(series) ==
    LET repaid == {y \in DOMAIN series : Total(SubSeq(series, 1, y)) >= 0}
    IN  IF repaid = {} THEN Undefined ELSE Min(repaid)

\* npv, from the last year back: the value so far, and the divisor of the
\* year before.  The divisors are positive, and only the sign is read.
Npv(rate, series) ==
    LET n == Len(series)
        value[k \in 0 .. n] ==
            IF k = 0 THEN <<0, 1>>
            ELSE <<100 * value[k - 1][1] + series[n + 1 - k] * value[k - 1][2],
                   (100 + rate) * value[k - 1][2]>>
    IN  value[n][1]

Opposed(series, a, b) == Sign(Npv(a, series)) * Sign(Npv(b, series)) <= 0

\* One turn of the bisection: the half that holds the change of sign.
Halved(series, bracket) ==
    LET middle == (bracket[1] + bracket[2]) \div 2
    IN  IF Opposed(series, bracket[1], middle)
        THEN <<bracket[1], middle>> ELSE <<middle, bracket[2]>>

\* irr: the bracket is halved a fixed number of times, towards the sign change.
Irr(series) ==
    LET bracket[i \in 0 .. Halvings] ==
            IF i = 0 THEN <<RateLow, RateHigh>> ELSE Halved(series, bracket[i - 1])
        hasCash == \E y \in DOMAIN series : series[y] # 0
    IN  IF hasCash /\ Opposed(series, RateLow, RateHigh)
        THEN bracket[Halvings][1] + 1 ELSE Undefined

-----------------------------------------------------------------------------
(* The columns that do not move with the mandate (DerivedColumns).          *)

PlantAge(p, y) == y - p.cod

\* An amount, and those of the years after it: at a rate of a hundred percent
\* a year counts twice what the next one does.
Discounted(start, amounts) ==
    LET value[y \in 0 .. Years] ==
            IF y = 0 THEN start ELSE 2 * value[y - 1] + amounts[y]
    IN  value[Years]

\* real_from_base, as it is shipped: unescalated opex and generation, both
\* discounted from the first year; in thousandths.
Lcoe(p) ==
    LET opex == [y \in 1 .. Years |-> IF PlantAge(p, y) >= 0 THEN p.opex ELSE 0]
        produced == Discounted(0, p.generation)
    IN  IF produced > 0
        THEN (1000 * Discounted(p.capex, opex)) \div produced ELSE Undefined

\* annual_generation_gwh: the best operating year, with the decline since
\* the first (a share of a hundred) undone.
AnnualGeneration(p) ==
    Max({0} \cup {(p.generation[y] * 100 ^ PlantAge(p, y)) \div (100 - p.decline) ^ PlantAge(p, y) :
                    y \in {z \in 1 .. Years : PlantAge(p, z) >= 0}})
=============================================================================
