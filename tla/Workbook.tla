------------------------------ MODULE Workbook ------------------------------
(***************************************************************************)
(* The TieOuts sheet of an exported workbook (generate/spreadsheet.py):    *)
(* live formulas by which an analyst proves the workbook before it is      *)
(* ingested.  They are the identities of the gate (TieOuts) written a      *)
(* second time, with the tolerances written out: one unit, or a thousandth *)
(* of the figure the formula puts first.                                   *)
(*                                                                         *)
(* The sheet and the gate read the same years.  What the sheet shows is    *)
(* never read back: read_workbook takes the figures, and the gate decides. *)
(***************************************************************************)
EXTENDS TieOuts

\* The calibration is no tighter than what the formulas have written out; the
\* shipped one is the same.
ASSUME SheetTolerances == ToleranceAbs >= 1 /\ ToleranceRel >= 1

VARIABLE sheet       \* the checks that read FAIL

\* _breach: the sheet measures against the figure it names first.
SheetBreach(actual, expected) ==
    1000 * Abs(actual - expected) > AtLeast(1000, Abs(actual))

-----------------------------------------------------------------------------
(* The columns of one year: _per_year_checks.                              *)

SheetStatements(a) ==
    {c \in {"ebitda", "ebit", "pbt", "netIncome"} :
        SheetBreach(IncomeStatement(a)[c][1], IncomeStatement(a)[c][2])}

SheetRevenue(a) ==
    IF SheetBreach(a.revenue, a.generation * a.achievedPrice) THEN {"revenue"} ELSE {}

SheetCash(a) ==
    {c \in {"fcfe", "capex"} : SheetBreach(CashFlow(a)[c][1], CashFlow(a)[c][2])}

\* Mutant: the row of opening is compared with itself, as after an insertion.
SheetBalancesMispointed(a) ==
    {c \in {"closing", "ppe"} : SheetBreach(Balances(a)[c][1], Balances(a)[c][2])}

\* The first year has no year before it: its opening is held against 0.
SheetBalances(a) ==
    {c \in {"closing", "ppe"} : SheetBreach(Balances(a)[c][1], Balances(a)[c][2])}
        \cup (IF year = 0 THEN {c \in {"opening"} : SheetBreach(0, a.opening)}
              ELSE {c \in {"opening"} : SheetBreach(a.opening, closing)})

\* The ratio itself, in thousandths of one; a year without service is right.
SheetCover(r) ==
    LET service == Service(r.amount)
    IN  {c \in {"dscr"} :
            /\ r.dscr # Null /\ service # 0
            /\ 1000 * Abs(r.dscr * service - r.amount.ebitda)
                 > AtLeast(1, Abs(r.dscr)) * service}
        \cup {c \in {"coverage"} : InDebtLife(year) # (r.dscr # Null)}

SheetFailures(r) ==
    SheetStatements(r.amount) \cup SheetRevenue(r.amount) \cup SheetCash(r.amount)
        \cup SheetBalances(r.amount) \cup SheetCover(r)

-----------------------------------------------------------------------------
(* The cells of the whole file: _scalar_checks.  The line marked [warn] is *)
(* advice and is left out.                                                 *)

SheetScalars ==
    {c \in {"amortised"} : SheetBreach(0, closing)}
        \cup {c \in {"seniorDebt"} : SheetBreach(head.seniorDebt, total.debtDrawdown)}
        \cup {c \in {"equity"} :
                SheetBreach(head.totalCapex - head.seniorDebt, total.equityDrawdown)}
        \cup {c \in {"totalCapex"} : SheetBreach(head.totalCapex, total.capex)}
        \cup {c \in {"depreciation"} :
                1000 * Abs(total.depreciation - (head.totalCapex - ppe))
                  > AtLeast(1000, Abs(head.totalCapex))}

-----------------------------------------------------------------------------
SheetInit == TieOutInit /\ sheet = {}

SheetReads(r) == ReadYear(r) /\ sheet' = sheet \cup SheetFailures(r)

SheetConcludes == Conclude /\ sheet' = sheet \cup SheetScalars

SheetNext == (\E r \in Rows : SheetReads(r)) \/ SheetConcludes

SheetSpec == SheetInit /\ [][SheetNext]_<<file, sheet>>

-----------------------------------------------------------------------------
(* Properties.                                                             *)

\* What the sheet does not check, or not as strictly: the opex of a year has
\* no formula; the cover is compared as a ratio and not as money; and what is
\* left of the plant is compared at a thousandth of all it cost.
NotOnTheSheet == {"opex", "dscr", "depreciation"}

\* A workbook whose every check reads PASS ties out when it is ingested, those
\* three apart: wherever sheet and gate compare the same two figures, the sheet
\* is the stricter, because the gate measures against the larger of the two
\* (spreadsheet.py, _breach; validator.py, _breach).
AllPassMeansItTiesOut == sheet = {} => failures \subseteq NotOnTheSheet

\* "A workbook that shows PASS is a file the loader will accept"
\* (docs/pipeline-schema.md, 13).  The code does not keep this promise: see
\* NotOnTheSheet.
PassIsAccepted == verdict # "reading" /\ sheet = {} => verdict = "loaded"
=============================================================================
