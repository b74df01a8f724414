------------------------------ MODULE Steering ------------------------------
(***************************************************************************)
(* What one browser session remembers between its three screens: the       *)
(* mandate, the locks and exclusions, and the run they were last submitted *)
(* as (web/js/mandate.js, web/js/portfolio.js).  The screens are separate  *)
(* pages over one storage, and a POST is answered while the user goes on   *)
(* using the page.  Every return to a page loads it afresh: one that the   *)
(* browser restores from its back/forward cache is not modelled.  The      *)
(* stored length of the search is left out.                                *)
(***************************************************************************)
EXTENDS Integers, Sequences

CONSTANTS
    Mandates,        \* the mandates a user may state
    Projects,        \* the projects that may be locked or excluded
    Shared,          \* a run of another session, opened by its link
    MaxRuns,         \* bound: runs there may be, the shared one included
    Nothing          \* null

\* What was posted.  "edited" is a history flag and no field of the request:
\* the user has changed the page while the answer was outstanding.
Submissions == [mandate : Mandates, locked : SUBSET Projects,
                excluded : SUBSET Projects, edited : BOOLEAN]

Signatures == [mandate : Mandates, locked : SUBSET Projects,
               excluded : SUBSET Projects]

ASSUME SteeringConstants ==
    /\ MaxRuns \in Nat \ {0}
    /\ Shared \in Submissions
    /\ Nothing \notin Mandates \cup Submissions \cup Signatures

VARIABLES
    storage,    \* sessionStorage: tf.steering
    saved,      \* localStorage: the mandate, or Nothing
    screen,     \* the page the session is on
    form,       \* page.mandate of the mandate screen
    view,       \* page.run of the portfolio screen: a run, or 0
    locks,      \* page.locks of the portfolio screen
    posting,    \* the request outstanding, or Nothing
    runs        \* the runs accepted so far, as submitted

session == <<storage, saved, screen, form, view, locks, posting, runs>>

Submission(mandate, l) ==
    [mandate |-> mandate, locked |-> l.locked, excluded |-> l.excluded,
     edited |-> FALSE]

Signature(mandate, l) ==
    [mandate |-> mandate, locked |-> l.locked, excluded |-> l.excluded]

Steerings == [locked : SUBSET Projects, excluded : SUBSET Projects,
              runId : 0 .. MaxRuns,
              signature : Signatures \cup {Nothing}]

EmptySteering == [locked |-> {}, excluded |-> {}, runId |-> 0,
                  signature |-> Nothing]

SteeringInit ==
    /\ storage = EmptySteering
    /\ saved = Nothing
    /\ screen = "mandate"
    /\ form \in Mandates
    /\ view = 0
    /\ locks = EmptySteering
    /\ posting = Nothing
    /\ runs = <<Shared>>

-----------------------------------------------------------------------------
(* The mandate screen.                                                     *)

Edited == IF posting = Nothing THEN Nothing ELSE [posting EXCEPT !.edited = TRUE]

\* A control moves.  The debounce of persistMandate is flushed before the
\* page is left, and nothing reads the saved mandate before.
EditMandate ==
    /\ screen = "mandate"
    /\ form' \in Mandates
    /\ saved' = form'
    /\ posting' = Edited
    /\ UNCHANGED <<storage, screen, view, locks, runs>>

SubmitMandate ==
    /\ screen = "mandate" /\ posting = Nothing
    /\ posting' = Submission(form, storage)
    /\ UNCHANGED <<storage, saved, screen, form, view, locks, runs>>

-----------------------------------------------------------------------------
(* The portfolio screen.                                                   *)

\* steer: the second instruction about a project is the one meant.
Lock(p) == [storage EXCEPT !.locked = @ \cup {p}, !.excluded = @ \ {p}]

Exclude(p) == [storage EXCEPT !.excluded = @ \cup {p}, !.locked = @ \ {p}]

\* The drawer's two buttons, which toggle what the page shows.
Steer(p) ==
    /\ screen = "portfolio" /\ view # 0
    /\ \/ p \notin locks.locked /\ storage' = Lock(p)
       \/ p \in locks.locked /\ storage' = [storage EXCEPT !.locked = @ \ {p}]
       \/ p \notin locks.excluded /\ storage' = Exclude(p)
       \/ p \in locks.excluded /\ storage' = [storage EXCEPT !.excluded = @ \ {p}]
    /\ locks' = storage'
    /\ posting' = Edited
    /\ UNCHANGED <<saved, screen, form, view, runs>>

\* The session's own mandate where there is one.
MandateFor(r) == IF saved = Nothing THEN runs[r].mandate ELSE saved

Rerun ==
    /\ screen = "portfolio" /\ view # 0 /\ posting = Nothing
    /\ posting' = Submission(MandateFor(view), locks)
    /\ UNCHANGED <<storage, saved, screen, form, view, locks, runs>>

\* Mutant: the baseline is what the session holds now.
BaselineNow(r, l) == Signature(MandateFor(r), l)

\* adoptSteering: the baseline is what the run was submitted with.
Baseline(r, l) == Signature(runs[r].mandate, runs[r])

\* A session with no steering of its own goes on from the run's.
Adopted(r, l) ==
    IF l.locked \cup l.excluded = {}
    THEN [l EXCEPT !.locked = runs[r].locked, !.excluded = runs[r].excluded]
    ELSE l

Rebased(r, l) ==
    IF l.signature = Nothing \/ l.runId # r
    THEN [l EXCEPT !.runId = r, !.signature = Baseline(r, l)]
    ELSE l

\* Mutant: what the page adopts is not saved.
OpenUnsaved(r) ==
    /\ screen' = "portfolio"
    /\ view' = r
    /\ locks' = Rebased(r, Adopted(r, storage))
    /\ posting' = Nothing
    /\ UNCHANGED <<storage, saved, form, runs>>

\* show, of the run the page's address names: the page's copy is read again
\* and what it adopts is saved.
OpenPortfolio(r) ==
    /\ screen' = "portfolio"
    /\ view' = r
    /\ storage' = Rebased(r, Adopted(r, storage))
    /\ locks' = storage'
    /\ posting' = Nothing
    /\ UNCHANGED <<saved, form, runs>>

-----------------------------------------------------------------------------
(* The answer to a POST.                                                   *)

\* Each screen signs, on the answer, the mandate it knows and the steering it
\* reads then: the mandate screen its form, the portfolio what it posted.
SignedMandate == IF screen = "mandate" THEN form ELSE posting.mandate

Accepted ==
    /\ posting # Nothing /\ Len(runs) < MaxRuns
    /\ runs' = Append(runs, posting)
    /\ storage' = [storage EXCEPT
                     !.runId = Len(runs) + 1,
                     !.signature = Signature(SignedMandate, storage)]
    /\ screen' = "search"
    /\ view' = 0
    /\ locks' = EmptySteering
    /\ posting' = Nothing
    /\ UNCHANGED <<saved, form>>

Refused ==
    /\ posting # Nothing
    /\ posting' = Nothing
    /\ UNCHANGED <<storage, saved, screen, form, view, locks, runs>>

\* The user leaves before the answer: the run may exist, the page does not.
RunWithoutPage ==
    /\ posting # Nothing /\ Len(runs) < MaxRuns
    /\ runs' = Append(runs, posting)
    /\ posting' = Nothing
    /\ screen' = "search"
    /\ view' = 0
    /\ locks' = EmptySteering
    /\ UNCHANGED <<storage, saved, form>>

OpenMandate ==
    /\ posting = Nothing
    /\ screen' = "mandate"
    /\ form' = IF saved = Nothing THEN form ELSE saved
    /\ view' = 0
    /\ locks' = EmptySteering
    /\ UNCHANGED <<storage, saved, posting, runs>>

SteeringNext ==
    \/ EditMandate \/ SubmitMandate
    \/ \E p \in Projects : Steer(p)
    \/ Rerun
    \/ posting = Nothing /\ \E r \in DOMAIN runs : OpenPortfolio(r)
    \/ Accepted \/ Refused \/ RunWithoutPage
    \/ OpenMandate

SteeringSpec == SteeringInit /\ [][SteeringNext]_session

-----------------------------------------------------------------------------
(* Properties.                                                             *)

SteeringTypeOK ==
    /\ storage \in Steerings /\ locks \in Steerings
    /\ saved \in Mandates \cup {Nothing}
    /\ screen \in {"mandate", "search", "portfolio"}
    /\ form \in Mandates
    /\ view \in 0 .. Len(runs)
    /\ posting \in Submissions \cup {Nothing}
    /\ runs \in Seq(Submissions) /\ Len(runs) <= MaxRuns

\* What Rerun would submit, and what the screen shows, is what the session
\* has stored: the page's own copy is never stale.
PageShowsTheSession ==
    screen = "portfolio" => locks = storage

Changed == Signature(MandateFor(view), locks) # locks.signature

\* The primary action says "Re-run with changes" exactly when the mandate or
\* the steering differ from what the run on screen was submitted with
\* (portfolio.js, changed: "whether the mandate or the steering has moved
\* since this run was submitted").  Except for a run edited in flight, whose
\* signature is of what the session was when the answer came.
LabelTellsTheTruth ==
    screen = "portfolio" /\ view # 0 /\ ~runs[view].edited =>
        (Changed <=> Signature(MandateFor(view), locks)
                        # Signature(runs[view].mandate, runs[view]))
=============================================================================
