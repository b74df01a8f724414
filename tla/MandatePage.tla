---------------------------- MODULE MandatePage -----------------------------
(***************************************************************************)
(* Screen 01 and what it keeps: a control that works in whole percent over *)
(* a mandate in fractions, the debounced write to localStorage, the        *)
(* footer, the run button and the pipeline's health (web/js/mandate.js,    *)
(* controls.js, edge-states.js).  One control stands for the eighteen, and *)
(* a page that is opened is loaded afresh, never restored from the         *)
(* browser's back/forward cache.                                           *)
(*                                                                         *)
(* Numbers are binary: a division or a multiplication may be off by one    *)
(* unit, and Grid units make up the precision tidy rounds to.              *)
(***************************************************************************)
EXTENDS Integers

CONSTANTS
    Percents,      \* what the control offers, in whole percent
    Default,       \* what it offers first
    Grid,          \* units in one step of WIRE_PRECISION
    Blocked,       \* the percents with which the mandate cannot run
    None           \* null

ASSUME MandateConstants ==
    /\ Percents \subseteq 0 .. 100
    /\ Default \in Percents /\ Blocked \subseteq Percents
    /\ Grid \in Nat /\ Grid > 2
    /\ None \notin Int

VARIABLES
    open,          \* the page is in the browser
    shown,         \* the control's value, as the user reads it
    stated,        \* page.mandate: the wire value
    pending,       \* what persistMandate holds back, or None
    stored,         \* localStorage, or None
    pipeline,      \* page.payload: "asked", "loaded" or "failed"
    health,        \* GET /pipeline/status: the banner and notice, or None
    footer,        \* the mandate the figures and warnings are of, or None
    refusal,       \* page.submitWarning
    button,        \* the run button is enabled
    submitting,    \* page.submitting
    left           \* history: what the control showed when the page was left

page == <<open, shown, stated, pending, stored, pipeline, health, footer,
          refusal, button, submitting, left>>

\* A fraction v% is kept as v * Grid units, and v itself as v * 100 * Grid.
Percent(v) == v * 100 * Grid
Fraction(v) == v * Grid

\* The binary errors of one operation.
Errors == {-1, 0, 1}

\* tidy: to the nearest multiple of the precision.
Tidy(x) == ((x + Grid \div 2) \div Grid) * Grid

Unscaled(x, e) == Tidy(x \div 100 + e)            \* wire

Rescaled(x, e) == Tidy(x * 100 + e)               \* restore

Runnable(value) == value \notin {Fraction(v) : v \in Blocked}

\* render: nothing but the refusal is shown before there is a pipeline.
Render(value, loaded, sending) ==
    IF loaded # "loaded" THEN UNCHANGED <<footer, button>>
    ELSE /\ footer' = value
         /\ button' = (Runnable(value) /\ ~sending)

\* startPage: what was stored is restored and read back, and the pipeline and
\* its health are asked for.  The markup has the button enabled.
MandateInit ==
    /\ open = TRUE
    /\ shown = Percent(Default)
    /\ \E e \in Errors : stated = Unscaled(shown, e)
    /\ pending = None /\ stored = None
    /\ pipeline = "asked" /\ health = None
    /\ footer = None /\ refusal = FALSE
    /\ button = TRUE /\ submitting = FALSE
    /\ left = shown

\* A control moves and says so: page.mandate, the write held back, the footer.
Move(v) ==
    /\ open /\ Percent(v) # shown
    /\ shown' = Percent(v)
    /\ \E e \in Errors :
          /\ stated' = Unscaled(Percent(v), e)
          /\ pending' = stated'
          /\ Render(stated', pipeline, submitting)
    /\ refusal' = FALSE
    /\ UNCHANGED <<open, stored, pipeline, health, submitting, left>>

Flushed == IF pending = None THEN stored ELSE pending

\* The debounce ends.
Persist ==
    /\ open /\ pending # None
    /\ stored' = Flushed
    /\ pending' = None
    /\ UNCHANGED <<open, shown, stated, pipeline, health, footer, refusal,
                   button, submitting, left>>

PipelineAnswers ==
    /\ open /\ pipeline = "asked"
    /\ pipeline' = "loaded"
    /\ Render(stated, "loaded", submitting)
    /\ UNCHANGED <<open, shown, stated, pending, stored, health, refusal,
                   submitting, left>>

PipelineFails ==
    /\ open /\ pipeline = "asked"
    /\ pipeline' = "failed"
    /\ refusal' = TRUE
    /\ UNCHANGED <<open, shown, stated, pending, stored, health, footer, button,
                   submitting, left>>

\* renderHealth: the banner is there for rejected files, its list closed, the
\* notice for a directory without files (fromStatus counts files, not loads).
HealthAnswers ==
    /\ open /\ health = None
    /\ \E empty, rejected \in BOOLEAN :
          /\ ~(empty /\ rejected)
          /\ health' = [banner |-> rejected, notice |-> empty, list |-> FALSE]
    /\ UNCHANGED <<open, shown, stated, pending, stored, pipeline, footer,
                   refusal, button, submitting, left>>

\* toggleRejected
Disclose ==
    /\ open /\ health # None /\ health.banner
    /\ health' = [health EXCEPT !.list = ~@]
    /\ UNCHANGED <<open, shown, stated, pending, stored, pipeline, footer,
                   refusal, button, submitting, left>>

\* submit: the mandate is stored before it is posted.
Submit ==
    /\ open /\ button
    /\ pipeline = "loaded" /\ ~submitting
    /\ submitting' = TRUE /\ button' = FALSE /\ refusal' = FALSE
    /\ stored' = Flushed /\ pending' = None
    /\ UNCHANGED <<open, shown, stated, pipeline, health, footer, left>>

\* Mutant: the button comes back as the mandate was when it was posted.
PostRefusedAsItWas ==
    /\ open /\ submitting
    /\ submitting' = FALSE /\ refusal' = TRUE
    /\ footer' = stated /\ button' = TRUE
    /\ UNCHANGED <<open, shown, stated, pending, stored, pipeline, health, left>>

\* Any error, the 409 of a moved pipeline included: the payload stays.
PostRefused ==
    /\ open /\ submitting
    /\ submitting' = FALSE /\ refusal' = TRUE
    /\ Render(stated, pipeline, FALSE)
    /\ UNCHANGED <<open, shown, stated, pending, stored, pipeline, health, left>>

\* Mutant: leaving does not wait for the write.
LeaveUnflushed ==
    /\ open
    /\ open' = FALSE
    /\ left' = shown
    /\ pending' = None
    /\ UNCHANGED <<shown, stated, stored, pipeline, health, footer, refusal,
                   button, submitting>>

\* pagehide: of the user's own, or of the 202's redirect.
Leave ==
    /\ open
    /\ open' = FALSE
    /\ left' = shown
    /\ stored' = Flushed /\ pending' = None
    /\ UNCHANGED <<shown, stated, pipeline, health, footer, refusal, button,
                   submitting>>

\* The page is opened again, in this session or a later one.
Open ==
    /\ ~open
    /\ open' = TRUE
    /\ UNCHANGED <<pending, stored, left>>
    /\ \E d, e \in Errors :
          /\ shown' = IF stored = None THEN Percent(Default)
                      ELSE Rescaled(stored, d)
          /\ stated' = Unscaled(shown', e)
    /\ pipeline' = "asked" /\ health' = None
    /\ footer' = None /\ refusal' = FALSE
    /\ button' = TRUE /\ submitting' = FALSE

MandateNext ==
    \/ \E v \in Percents : Move(v)
    \/ Persist \/ PipelineAnswers \/ PipelineFails \/ HealthAnswers \/ Disclose
    \/ Submit \/ PostRefused \/ Leave \/ Open

MandateSpec == MandateInit /\ [][MandateNext]_page

-----------------------------------------------------------------------------
(* Properties.                                                             *)

\* While there is a pipeline, the button is enabled exactly when the mandate
\* the controls show may run and no POST is outstanding, and the figures and
\* warnings are of that mandate; whatever the order of edits, answers and
\* refusals (mandate.js: render is called from five places).
ButtonTellsTheTruth ==
    open /\ pipeline = "loaded" =>
        /\ footer = stated
        /\ button <=> /\ ~submitting
                      /\ shown \notin {Percent(v) : v \in Blocked}

\* A mandate stated and left, at once or not, is shown again exactly as it was
\* typed, though it is kept as a fraction and the division does not round-trip
\* in binary (mandate.js: "a mandate stated and immediately navigated away
\* from is still there on return"; controls.js, tidy).
ComesBackAsTyped ==
    [][~open /\ open' => shown' = left]_page
=============================================================================
