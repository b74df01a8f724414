---------------------------- MODULE ScreenProofs ----------------------------
(***************************************************************************)
(* Theorems about what the browser keeps: the mandate page, the session    *)
(* over its three screens, and the table and drawer of the holdings.       *)
(***************************************************************************)
EXTENDS Steering, HoldingsScreen, MandatePage, SumLemmas

(***************************************************************************)
(* The mandate page: tidy undoes what a binary division or multiplication  *)
(* loses, for any precision of more than two units.                        *)
(***************************************************************************)

LEMMA NearMultiple ==
    ASSUME NEW w \in Int, NEW d \in Nat \ {0}, NEW k \in 0 .. d - 1
    PROVE  (w * d + k) \div d = w
OBVIOUS

LEMMA TidyUndoes ==
    ASSUME NEW w \in Int, NEW e \in Errors
    PROVE  Tidy(w * Grid + e) = w * Grid
<1>1. Grid \in Nat \ {0} /\ Grid > 2
  BY MandateConstants
<1>2. Grid \div 2 \in 1 .. Grid - 2
  BY <1>1
<1>. DEFINE k == e + Grid \div 2
<1>3. k \in 0 .. Grid - 1
  BY <1>1, <1>2 DEF Errors
<1>4. w * Grid \in Int /\ e \in Int
  BY <1>1 DEF Errors
<1>5. (w * Grid + e) + Grid \div 2 = w * Grid + k
  BY <1>2, <1>4
<1>6. (w * Grid + k) \div Grid = w
  BY <1>1, <1>3, NearMultiple
<1>. QED  BY <1>5, <1>6 DEF Tidy

\* What a control shows is stated as its fraction, and a fraction is shown
\* again as the percent it came from.
LEMMA StatedAsFraction ==
    ASSUME NEW v \in Percents, NEW e \in Errors
    PROVE  Unscaled(Percent(v), e) = Fraction(v)
<1>1. v \in Int /\ Grid \in Int
  BY MandateConstants
<1>2. Percent(v) \div 100 = v * Grid
  BY <1>1 DEF Percent
<1>. QED  BY <1>1, <1>2, TidyUndoes DEF Unscaled, Fraction

LEMMA ShownAsTyped ==
    ASSUME NEW v \in Percents, NEW e \in Errors
    PROVE  Rescaled(Fraction(v), e) = Percent(v)
<1>1. v \in Int /\ Grid \in Int /\ v * 100 \in Int
  BY MandateConstants
<1>2. Fraction(v) * 100 = (v * 100) * Grid
  BY <1>1 DEF Fraction
<1>. QED  BY <1>1, <1>2, TidyUndoes DEF Rescaled, Percent

LEMMA FractionsDiffer ==
    ASSUME NEW v \in Percents, NEW w \in Percents
    PROVE  /\ Fraction(v) = Fraction(w) <=> v = w
           /\ Percent(v) = Percent(w) <=> v = w
           /\ Fraction(v) \in Int /\ Fraction(v) # None
<1>1. v \in Int /\ w \in Int /\ Grid \in Nat \ {0}
  BY MandateConstants
<1>2. v < w => Fraction(v) < Fraction(w)
  BY <1>1 DEF Fraction
<1>3. w < v => Fraction(w) < Fraction(v)
  BY <1>1 DEF Fraction
<1>4. Fraction(v) \in Int /\ Fraction(w) \in Int
  BY <1>1 DEF Fraction
<1>5. Percent(v) = 100 * Fraction(v) /\ Percent(w) = 100 * Fraction(w)
  BY <1>1 DEF Fraction, Percent
<1>6. Fraction(v) = Fraction(w) <=> v = w
  BY <1>1, <1>2, <1>3, <1>4
<1>. QED  BY <1>4, <1>5, <1>6, MandateConstants

\* The control and the mandate say the same; what is stored, or is about to
\* be, is that mandate, and nothing is stored of a control never moved; and a
\* page that is left has nothing held back.
OneValue == \E v \in Percents : shown = Percent(v) /\ stated = Fraction(v)

WillBeStored == IF Flushed = None THEN shown = Percent(Default)
                                  ELSE Flushed = stated

LeftAsShown == ~open => left = shown /\ pending = None

\* What the run button and the footer are drawn from.
Drawn == open /\ pipeline = "loaded" =>
             footer = stated /\ (button <=> Runnable(stated) /\ ~submitting)

MandateInv == OneValue /\ WillBeStored /\ LeftAsShown /\ Drawn

LEMMA MandateInitInv == MandateInit => MandateInv
<1>. SUFFICES ASSUME MandateInit PROVE MandateInv
  OBVIOUS
<1>1. Default \in Percents
  BY MandateConstants
<1>2. stated = Fraction(Default)
  BY <1>1, StatedAsFraction DEF MandateInit
<1>. QED
  BY <1>1, <1>2
  DEF MandateInit, MandateInv, OneValue, WillBeStored, LeftAsShown, Drawn, Flushed

LEMMA MandateStep == MandateInv /\ [MandateNext]_page => MandateInv'
<1>. SUFFICES ASSUME MandateInv, [MandateNext]_page PROVE MandateInv'
  OBVIOUS
<1>. USE DEF MandateInv
<1>1. ASSUME NEW v \in Percents, Move(v) PROVE MandateInv'
  <2>1. shown' = Percent(v) /\ stated' = Fraction(v) /\ pending' = stated'
    BY <1>1, StatedAsFraction DEF Move
  <2>2. open /\ open' /\ UNCHANGED <<pipeline, submitting>>
        /\ Render(stated', pipeline, submitting)
    BY <1>1 DEF Move
  <2>3. pending' # None
    BY <2>1, FractionsDiffer
  <2>4. OneValue' /\ LeftAsShown'
    BY <2>1, <2>2 DEF OneValue, LeftAsShown
  <2>5. WillBeStored'
    BY <2>1, <2>3 DEF WillBeStored, Flushed
  <2>6. Drawn'
    BY <2>2 DEF Drawn, Render, Runnable
  <2>. QED  BY <2>4, <2>5, <2>6
<1>2. CASE Persist \/ Submit \/ Leave
  <2>1. /\ UNCHANGED <<shown, stated>> /\ stored' = Flushed /\ pending' = None
    BY <1>2 DEF Persist, Submit, Leave
  <2>2. Flushed' = Flushed
    BY <2>1 DEF Flushed
  <2>3. OneValue' /\ WillBeStored'
    BY <2>1, <2>2 DEF OneValue, WillBeStored
  <2>4. LeftAsShown'
    BY <1>2, <2>1 DEF LeftAsShown, Persist, Submit, Leave
  <2>5. Drawn'
    BY <1>2, <2>1 DEF Drawn, Runnable, Persist, Submit, Leave
  <2>. QED  BY <2>3, <2>4, <2>5
<1>3. CASE PipelineAnswers \/ PipelineFails \/ HealthAnswers \/ Disclose \/ PostRefused
  <2>1. UNCHANGED <<open, shown, stated, stored, pending, left>>
    BY <1>3 DEF PipelineAnswers, PipelineFails, HealthAnswers, Disclose, PostRefused
  <2>2. OneValue' /\ WillBeStored' /\ LeftAsShown'
    BY <2>1 DEF OneValue, WillBeStored, LeftAsShown, Flushed
  <2>3. Drawn'
    BY <1>3
    DEF Drawn, Runnable, Render, PipelineAnswers, PipelineFails, HealthAnswers,
        Disclose, PostRefused
  <2>. QED  BY <2>2, <2>3
<1>4. CASE Open
  <2>1. PICK d \in Errors, e \in Errors :
          /\ shown' = IF stored = None THEN Percent(Default) ELSE Rescaled(stored, d)
          /\ stated' = Unscaled(shown', e)
    BY <1>4 DEF Open
  <2>2. /\ open' /\ pipeline' = "asked" /\ ~open /\ UNCHANGED <<pending, stored>>
    BY <1>4 DEF Open
  <2>3. Flushed = stored /\ Flushed' = stored
    BY <2>2 DEF LeftAsShown, Flushed
  <2>4. Default \in Percents
    BY MandateConstants
  <2>5. PICK v \in Percents : stated = Fraction(v)
    BY DEF OneValue
  <2>6. CASE stored = None
    <3>1. shown' = Percent(Default) /\ stated' = Fraction(Default)
      BY <2>1, <2>4, <2>6, StatedAsFraction
    <3>. QED
      BY <2>2, <2>3, <2>4, <2>6, <3>1 DEF OneValue, WillBeStored, LeftAsShown, Drawn
  <2>7. CASE stored # None
    <3>1. stored = Fraction(v)
      BY <2>3, <2>5, <2>7 DEF WillBeStored
    <3>2. shown' = Percent(v) /\ stated' = Fraction(v)
      BY <2>1, <2>7, <3>1, ShownAsTyped, StatedAsFraction
    <3>. QED
      BY <2>2, <2>3, <2>7, <3>1, <3>2 DEF OneValue, WillBeStored, LeftAsShown, Drawn
  <2>. QED  BY <2>6, <2>7
<1>5. CASE UNCHANGED page
  BY <1>5 DEF page, OneValue, WillBeStored, LeftAsShown, Drawn, Flushed, Runnable
<1>. QED  BY <1>1, <1>2, <1>3, <1>4, <1>5 DEF MandateNext

THEOREM MandateInvariant == MandateSpec => []MandateInv
BY MandateInitInv, MandateStep, PTL DEF MandateSpec

\* Whatever the order of edits, answers and refusals, the button and the
\* footer are of the mandate the controls show.
THEOREM ButtonIsTrue == MandateSpec => []ButtonTellsTheTruth
<1>1. MandateInv => ButtonTellsTheTruth
  <2>. SUFFICES ASSUME MandateInv, open, pipeline = "loaded"
                PROVE  /\ footer = stated
                       /\ button <=> /\ ~submitting
                                     /\ shown \notin {Percent(w) : w \in Blocked}
    BY DEF ButtonTellsTheTruth
  <2>1. PICK v \in Percents : shown = Percent(v) /\ stated = Fraction(v)
    BY DEF MandateInv, OneValue
  <2>2. Blocked \subseteq Percents
    BY MandateConstants
  <2>3. Runnable(stated) <=> v \notin Blocked
    BY <2>1, <2>2, FractionsDiffer DEF Runnable
  <2>4. shown \notin {Percent(w) : w \in Blocked} <=> v \notin Blocked
    BY <2>1, <2>2, FractionsDiffer
  <2>5. footer = stated /\ (button <=> Runnable(stated) /\ ~submitting)
    BY DEF MandateInv, Drawn
  <2>. QED  BY <2>3, <2>4, <2>5
<1>. QED  BY <1>1, MandateInvariant, PTL

\* A mandate left in any way is shown again as it was typed.
THEOREM MandateComesBack == MandateSpec => ComesBackAsTyped
<1>1. ASSUME MandateInv, [MandateNext]_page, ~open, open'
      PROVE  shown' = left
  <2>1. Open
    BY <1>1
    DEF MandateNext, page, Move, Persist, PipelineAnswers, PipelineFails,
        HealthAnswers, Disclose, Submit, PostRefused, Leave
  <2>2. PICK d \in Errors :
          shown' = IF stored = None THEN Percent(Default) ELSE Rescaled(stored, d)
    BY <2>1 DEF Open
  <2>3. left = shown /\ Flushed = stored
    BY <1>1 DEF MandateInv, LeftAsShown, Flushed
  <2>4. PICK v \in Percents : shown = Percent(v) /\ stated = Fraction(v)
    BY <1>1 DEF MandateInv, OneValue
  <2>. QED
    BY <1>1, <2>2, <2>3, <2>4, ShownAsTyped DEF MandateInv, WillBeStored
<1>2. MandateInv /\ [MandateNext]_page => [~open /\ open' => shown' = left]_page
  BY <1>1
<1>. QED  BY <1>2, MandateInvariant, PTL DEF MandateSpec, ComesBackAsTyped

-----------------------------------------------------------------------------
(***************************************************************************)
(* One session over its three screens.  The label of the primary action    *)
(* compares the page with the signature in the storage; it is true because *)
(* that signature is of the run it names.                                  *)
(***************************************************************************)

LEMMA SignatureType ==
    ASSUME NEW m \in Mandates,
           NEW l, l.locked \in SUBSET Projects, l.excluded \in SUBSET Projects
    PROVE  /\ Signature(m, l) \in Signatures /\ Signature(m, l) # Nothing
           /\ Submission(m, l) \in Submissions /\ ~Submission(m, l).edited
           /\ Submission(m, l) # Nothing
<1>1. Signature(m, l) \in Signatures
  BY DEF Signature, Signatures
<1>2. Submission(m, l) \in Submissions /\ ~Submission(m, l).edited
  BY DEF Submission, Submissions
<1>. QED  BY <1>1, <1>2, SteeringConstants

\* The signature in the storage is of the run the storage names.
SignatureOfTheRun(s, accepted) ==
    s.signature # Nothing =>
        /\ s.runId \in DOMAIN accepted
        /\ ~accepted[s.runId].edited =>
              s.signature = Signature(accepted[s.runId].mandate, accepted[s.runId])

\* The portfolio shows the run the storage names, and its copy is fresh.
OnPortfolio ==
    screen = "portfolio" =>
        /\ locks = storage /\ view \in DOMAIN runs
        /\ storage.runId = view /\ storage.signature # Nothing

\* What is signed when the answer comes is what was posted, unless the page
\* has been edited meanwhile.
PostedAsSigned ==
    posting # Nothing /\ ~posting.edited =>
        Signature(SignedMandate, storage) = Signature(posting.mandate, posting)

SessionInv ==
    /\ SteeringTypeOK
    /\ SignatureOfTheRun(storage, runs) /\ OnPortfolio /\ PostedAsSigned

LEMMA SessionInitInv == SteeringInit => SessionInv
<1>. SUFFICES ASSUME SteeringInit PROVE SessionInv
  OBVIOUS
<1>1. EmptySteering \in Steerings /\ EmptySteering.signature = Nothing
  BY SteeringConstants DEF EmptySteering, Steerings
<1>2. runs \in Seq(Submissions) /\ Len(runs) = 1
  BY SteeringConstants DEF SteeringInit
<1>3. SteeringTypeOK
  BY <1>1, <1>2, SteeringConstants DEF SteeringInit, SteeringTypeOK
<1>. QED
  BY <1>1, <1>3
  DEF SteeringInit, SessionInv, SignatureOfTheRun, OnPortfolio, PostedAsSigned

\* What a session takes over from the run it shows.
LEMMA RebasedOnTheRun ==
    ASSUME SteeringTypeOK, SignatureOfTheRun(storage, runs), NEW r \in DOMAIN runs
    PROVE  LET s == Rebased(r, Adopted(r, storage))
           IN  /\ s \in Steerings /\ s.runId = r /\ s.signature # Nothing
               /\ SignatureOfTheRun(s, runs)
<1>. DEFINE a == Adopted(r, storage)
            s == Rebased(r, a)
<1>1. /\ storage \in Steerings /\ runs \in Seq(Submissions)
      /\ runs[r] \in Submissions /\ r \in 0 .. MaxRuns
  BY SteeringConstants DEF SteeringTypeOK
<1>2. runs[r].mandate \in Mandates /\ runs[r].locked \in SUBSET Projects
      /\ runs[r].excluded \in SUBSET Projects
  BY <1>1 DEF Submissions
<1>3. a \in Steerings /\ a.runId = storage.runId /\ a.signature = storage.signature
  BY <1>1, <1>2 DEF Adopted, Steerings
<1>4. Baseline(r, a) \in Signatures /\ Baseline(r, a) # Nothing
      /\ Baseline(r, a) = Signature(runs[r].mandate, runs[r])
  BY <1>2, SignatureType DEF Baseline
<1>5. CASE a.signature = Nothing \/ a.runId # r
  <2>1. s = [a EXCEPT !.runId = r, !.signature = Baseline(r, a)]
    BY <1>5 DEF Rebased
  <2>2. s \in Steerings /\ s.runId = r /\ s.signature = Baseline(r, a)
    BY <1>1, <1>3, <1>4, <2>1 DEF Steerings
  <2>. QED  BY <1>4, <2>2 DEF SignatureOfTheRun
<1>6. CASE ~(a.signature = Nothing \/ a.runId # r)
  <2>1. s = a
    BY <1>6 DEF Rebased
  <2>. QED  BY <1>3, <1>6, <2>1 DEF SignatureOfTheRun
<1>. QED  BY <1>5, <1>6

LEMMA SteeredSession ==
    ASSUME SteeringTypeOK, NEW p \in Projects, Steer(p)
    PROVE  /\ storage' \in Steerings
           /\ storage'.runId = storage.runId /\ storage'.signature = storage.signature
<1>1. storage \in Steerings
  BY DEF SteeringTypeOK
<1>2. /\ storage.locked \in SUBSET Projects /\ storage.excluded \in SUBSET Projects
      /\ storage.locked \cup {p} \in SUBSET Projects
      /\ storage.excluded \cup {p} \in SUBSET Projects
      /\ storage.locked \ {p} \in SUBSET Projects
      /\ storage.excluded \ {p} \in SUBSET Projects
  BY <1>1 DEF Steerings
<1>3. CASE storage' = Lock(p)
  <2>. DEFINE x == storage.locked \cup {p}
              y == storage.excluded \ {p}
  <2>1. storage' = [storage EXCEPT !.locked = x, !.excluded = y] /\ x \in SUBSET Projects /\ y \in SUBSET Projects
    BY <1>2, <1>3 DEF Lock
  <2>. HIDE DEF x, y
  <2>. QED  BY <1>1, <2>1 DEF Steerings
<1>4. CASE storage' = Exclude(p)
  <2>. DEFINE x == storage.locked \ {p}
              y == storage.excluded \cup {p}
  <2>1. storage' = [storage EXCEPT !.excluded = y, !.locked = x] /\ x \in SUBSET Projects /\ y \in SUBSET Projects
    BY <1>2, <1>4 DEF Exclude
  <2>. HIDE DEF x, y
  <2>. QED  BY <1>1, <2>1 DEF Steerings
<1>5. CASE storage' = [storage EXCEPT !.locked = @ \ {p}]
  <2>. DEFINE x == storage.locked \ {p}
  <2>1. storage' = [storage EXCEPT !.locked = x] /\ x \in SUBSET Projects
    BY <1>2, <1>5
  <2>. HIDE DEF x
  <2>. QED  BY <1>1, <2>1 DEF Steerings
<1>6. CASE storage' = [storage EXCEPT !.excluded = @ \ {p}]
  <2>. DEFINE y == storage.excluded \ {p}
  <2>1. storage' = [storage EXCEPT !.excluded = y] /\ y \in SUBSET Projects
    BY <1>2, <1>6
  <2>. HIDE DEF y
  <2>. QED  BY <1>1, <2>1 DEF Steerings
<1>. QED  BY <1>3, <1>4, <1>5, <1>6 DEF Steer

LEMMA EditedType ==
    ASSUME SteeringTypeOK
    PROVE  /\ Edited \in Submissions \cup {Nothing}
           /\ Edited # Nothing => Edited.edited
<1>1. CASE posting = Nothing
  BY <1>1 DEF Edited
<1>2. CASE posting # Nothing
  <2>1. posting \in Submissions
    BY <1>2 DEF SteeringTypeOK
  <2>. QED  BY <1>2, <2>1 DEF Edited, Submissions
<1>. QED  BY <1>1, <1>2

LEMMA RunsAreKept ==
    ASSUME SteeringTypeOK, posting # Nothing, Len(runs) < MaxRuns,
           runs' = Append(runs, posting)
    PROVE  /\ runs' \in Seq(Submissions) /\ Len(runs') = Len(runs) + 1
           /\ Len(runs') <= MaxRuns
           /\ \A r \in DOMAIN runs : r \in DOMAIN runs' /\ runs'[r] = runs[r]
           /\ Len(runs') \in DOMAIN runs' /\ runs'[Len(runs')] = posting
<1>1. posting \in Submissions /\ runs \in Seq(Submissions) /\ MaxRuns \in Nat
  BY SteeringConstants DEF SteeringTypeOK
<1>. QED  BY <1>1

LEMMA AcceptedStep == SessionInv /\ Accepted => SessionInv'
<1>. SUFFICES ASSUME SessionInv, Accepted PROVE SessionInv'
  OBVIOUS
<1>0. SteeringTypeOK
  BY DEF SessionInv
<1>1. /\ posting # Nothing /\ Len(runs) < MaxRuns /\ runs' = Append(runs, posting)
      /\ screen' = "search" /\ view' = 0 /\ locks' = EmptySteering
      /\ posting' = Nothing /\ saved' = saved /\ form' = form
      /\ storage' = [storage EXCEPT !.runId = Len(runs) + 1,
                                    !.signature = Signature(SignedMandate, storage)]
  BY DEF Accepted
<1>2. /\ runs' \in Seq(Submissions) /\ Len(runs') = Len(runs) + 1
      /\ Len(runs') <= MaxRuns /\ Len(runs') \in DOMAIN runs'
      /\ runs'[Len(runs')] = posting
  BY <1>0, <1>1, RunsAreKept
<1>3. storage \in Steerings /\ posting \in Submissions /\ form \in Mandates
  BY <1>0, <1>1 DEF SteeringTypeOK
<1>4. SignedMandate \in Mandates
  BY <1>3 DEF SignedMandate, Submissions
<1>5. Signature(SignedMandate, storage) \in Signatures
  BY <1>3, <1>4, SignatureType DEF Steerings
<1>6. Len(runs') \in 0 .. MaxRuns
  BY <1>2, SteeringConstants
<1>7. /\ storage' \in Steerings /\ storage'.runId = Len(runs')
      /\ storage'.signature = Signature(SignedMandate, storage)
  BY <1>1, <1>2, <1>3, <1>5, <1>6 DEF Steerings
<1>8. EmptySteering \in Steerings
  BY SteeringConstants DEF EmptySteering, Steerings
<1>9. SteeringTypeOK'
  BY <1>0, <1>1, <1>2, <1>7, <1>8 DEF SteeringTypeOK
<1>10. SignatureOfTheRun(storage', runs')
  <2>1. ~posting.edited =>
          Signature(SignedMandate, storage) = Signature(posting.mandate, posting)
    BY <1>1 DEF SessionInv, PostedAsSigned
  <2>. QED  BY <1>2, <1>7, <2>1 DEF SignatureOfTheRun
<1>. QED
  BY <1>1, <1>9, <1>10 DEF SessionInv, SignatureOfTheRun, OnPortfolio, PostedAsSigned

LEMMA SteerStep ==
    ASSUME SessionInv, NEW p \in Projects, Steer(p)
    PROVE  SessionInv'
<1>0. SteeringTypeOK
  BY DEF SessionInv
<1>1. /\ screen = "portfolio" /\ locks' = storage' /\ posting' = Edited
      /\ UNCHANGED <<saved, screen, form, view, runs>>
  BY DEF Steer
<1>2. /\ storage' \in Steerings /\ storage'.runId = storage.runId
      /\ storage'.signature = storage.signature
  BY <1>0, SteeredSession
<1>3. SteeringTypeOK'
  BY <1>0, <1>1, <1>2, EditedType DEF SteeringTypeOK
<1>4. SignatureOfTheRun(storage', runs') /\ OnPortfolio'
  BY <1>1, <1>2 DEF SessionInv, SignatureOfTheRun, OnPortfolio
<1>5. PostedAsSigned'
  BY <1>0, <1>1, EditedType DEF PostedAsSigned
<1>. QED  BY <1>3, <1>4, <1>5 DEF SessionInv, SignatureOfTheRun

LEMMA OpenPortfolioStep ==
    ASSUME SessionInv, NEW r \in DOMAIN runs, OpenPortfolio(r)
    PROVE  SessionInv'
<1>0. SteeringTypeOK /\ runs \in Seq(Submissions)
  BY DEF SessionInv, SteeringTypeOK
<1>1. /\ screen' = "portfolio" /\ view' = r /\ posting' = Nothing
      /\ storage' = Rebased(r, Adopted(r, storage)) /\ locks' = storage'
      /\ UNCHANGED <<saved, form, runs>>
  BY DEF OpenPortfolio
<1>2. /\ storage' \in Steerings /\ storage'.runId = r /\ storage'.signature # Nothing
      /\ SignatureOfTheRun(storage', runs)
  BY <1>0, <1>1, RebasedOnTheRun DEF SessionInv
<1>3. r \in 0 .. Len(runs)
  BY <1>0
<1>4. SteeringTypeOK'
  BY <1>0, <1>1, <1>2, <1>3 DEF SteeringTypeOK
<1>. QED
  BY <1>1, <1>2, <1>4 DEF SessionInv, SignatureOfTheRun, OnPortfolio, PostedAsSigned

\* The portfolio posts what it shows, which is what the session has stored.
LEMMA RerunStep == SessionInv /\ Rerun => SessionInv'
<1>. SUFFICES ASSUME SessionInv, Rerun PROVE SessionInv'
  OBVIOUS
<1>0. SteeringTypeOK
  BY DEF SessionInv
<1>1. /\ screen = "portfolio" /\ posting' = Submission(MandateFor(view), locks)
      /\ UNCHANGED <<storage, saved, screen, form, view, locks, runs>>
  BY DEF Rerun
<1>2. locks = storage /\ view \in DOMAIN runs
  BY <1>1 DEF SessionInv, OnPortfolio
<1>3. MandateFor(view) \in Mandates
  <2>1. runs[view] \in Submissions /\ saved \in Mandates \cup {Nothing}
    BY <1>0, <1>2 DEF SteeringTypeOK
  <2>. QED  BY <2>1 DEF MandateFor, Submissions
<1>4. locks \in Steerings
  BY <1>0 DEF SteeringTypeOK
<1>5. /\ locks.locked \in SUBSET Projects /\ locks.excluded \in SUBSET Projects
  BY <1>4 DEF Steerings
<1>6. posting' \in Submissions
  BY <1>1, <1>3, <1>5, SignatureType
<1>7. SteeringTypeOK'
  BY <1>0, <1>1, <1>6 DEF SteeringTypeOK
<1>8. PostedAsSigned'
  BY <1>1, <1>2 DEF PostedAsSigned, SignedMandate, Submission, Signature
<1>. QED
  BY <1>1, <1>7, <1>8 DEF SessionInv, SignatureOfTheRun, OnPortfolio

LEMMA SubmitStep == SessionInv /\ SubmitMandate => SessionInv'
<1>. SUFFICES ASSUME SessionInv, SubmitMandate PROVE SessionInv'
  OBVIOUS
<1>0. SteeringTypeOK
  BY DEF SessionInv
<1>1. /\ screen = "mandate" /\ posting' = Submission(form, storage)
      /\ UNCHANGED <<storage, saved, screen, form, view, locks, runs>>
  BY DEF SubmitMandate
<1>2. storage \in Steerings /\ form \in Mandates
  BY <1>0 DEF SteeringTypeOK
<1>3. storage.locked \in SUBSET Projects /\ storage.excluded \in SUBSET Projects
  BY <1>2 DEF Steerings
<1>4. posting' \in Submissions
  BY <1>1, <1>2, <1>3, SignatureType
<1>5. SteeringTypeOK'
  BY <1>0, <1>1, <1>4 DEF SteeringTypeOK
<1>6. PostedAsSigned'
  BY <1>1 DEF PostedAsSigned, SignedMandate, Submission, Signature
<1>. QED
  BY <1>1, <1>5, <1>6 DEF SessionInv, SignatureOfTheRun, OnPortfolio

LEMMA SessionStep == SessionInv /\ [SteeringNext]_session => SessionInv'
<1>. SUFFICES ASSUME SessionInv, [SteeringNext]_session PROVE SessionInv'
  OBVIOUS
<1>0. SteeringTypeOK
  BY DEF SessionInv
<1>1. EmptySteering \in Steerings
  BY SteeringConstants DEF EmptySteering, Steerings
<1>2. CASE EditMandate
  <2>1. /\ screen = "mandate" /\ form' \in Mandates /\ saved' = form'
        /\ posting' = Edited
        /\ UNCHANGED <<storage, screen, view, locks, runs>>
    BY <1>2 DEF EditMandate
  <2>2. SteeringTypeOK'
    BY <1>0, <2>1, EditedType DEF SteeringTypeOK
  <2>3. PostedAsSigned'
    BY <1>0, <2>1, EditedType DEF PostedAsSigned
  <2>. QED
    BY <2>1, <2>2, <2>3 DEF SessionInv, SignatureOfTheRun, OnPortfolio
<1>3. CASE Refused
  <2>1. posting' = Nothing /\ UNCHANGED <<storage, saved, screen, form, view, locks, runs>>
    BY <1>3 DEF Refused
  <2>2. SteeringTypeOK'
    BY <1>0, <2>1 DEF SteeringTypeOK
  <2>. QED
    BY <2>1, <2>2 DEF SessionInv, SignatureOfTheRun, OnPortfolio, PostedAsSigned
<1>4. CASE RunWithoutPage
  <2>1. /\ posting # Nothing /\ Len(runs) < MaxRuns /\ runs' = Append(runs, posting)
        /\ posting' = Nothing /\ screen' = "search" /\ view' = 0
        /\ locks' = EmptySteering /\ UNCHANGED <<storage, saved, form>>
    BY <1>4 DEF RunWithoutPage
  <2>2. /\ runs' \in Seq(Submissions) /\ Len(runs') <= MaxRuns
        /\ \A r \in DOMAIN runs : r \in DOMAIN runs' /\ runs'[r] = runs[r]
    BY <1>0, <2>1, RunsAreKept
  <2>3. SteeringTypeOK'
    BY <1>0, <1>1, <2>1, <2>2 DEF SteeringTypeOK
  <2>4. SignatureOfTheRun(storage', runs')
    BY <2>1, <2>2 DEF SessionInv, SignatureOfTheRun
  <2>. QED
    BY <2>1, <2>3, <2>4 DEF SessionInv, SignatureOfTheRun, OnPortfolio, PostedAsSigned
<1>5. CASE OpenMandate
  <2>1. /\ posting = Nothing /\ screen' = "mandate" /\ view' = 0
        /\ form' = IF saved = Nothing THEN form ELSE saved
        /\ locks' = EmptySteering /\ UNCHANGED <<storage, saved, posting, runs>>
    BY <1>5 DEF OpenMandate
  <2>2. SteeringTypeOK'
    BY <1>0, <1>1, <2>1 DEF SteeringTypeOK
  <2>. QED
    BY <2>1, <2>2 DEF SessionInv, SignatureOfTheRun, OnPortfolio, PostedAsSigned
<1>6. ASSUME UNCHANGED session PROVE SessionInv'
  BY <1>6
  DEF session, SessionInv, SteeringTypeOK, SignatureOfTheRun, OnPortfolio,
      PostedAsSigned, SignedMandate
<1>. QED
  BY <1>2, <1>3, <1>4, <1>5, <1>6, AcceptedStep, SteerStep, OpenPortfolioStep,
     RerunStep, SubmitStep DEF SteeringNext

THEOREM SessionInvariant == SteeringSpec => []SessionInv
BY SessionInitInv, SessionStep, PTL DEF SteeringSpec

\* The portfolio's own copy of the steering is never stale, so that what a
\* rerun posts is what the session has stored.
THEOREM PageIsFresh == SteeringSpec => []PageShowsTheSession
<1>1. SessionInv => PageShowsTheSession
  BY DEF SessionInv, OnPortfolio, PageShowsTheSession
<1>. QED  BY <1>1, SessionInvariant, PTL

\* The primary action offers changes exactly when there are any, in whatever
\* order screens are opened, steered, posted from and answered.
THEOREM LabelIsTrue == SteeringSpec => []LabelTellsTheTruth
<1>1. SessionInv => LabelTellsTheTruth
  BY DEF SessionInv, OnPortfolio, SignatureOfTheRun, LabelTellsTheTruth, Changed
<1>. QED  BY <1>1, SessionInvariant, PTL

-----------------------------------------------------------------------------
(***************************************************************************)
(* The holdings screen: four copies of one state and a timer.              *)
(***************************************************************************)


Drawers == [open : BOOLEAN, project : Holdings \cup {Null},
            head : Holdings \cup {Null}, groups : Holdings \cup {Null},
            status : {Null, "Excluded", "Selected", "Not selected"},
            locked : BOOLEAN, lock : BOOLEAN, exclude : BOOLEAN,
            provenance : Holdings \cup {Null}]

Sorts == [column : Columns, descending : BOOLEAN]

\* The records have the parts the page gives them.
Shaped ==
    /\ controls = [typed |-> controls.typed, chosen |-> controls.chosen,
                   showingAll |-> controls.showingAll]
    /\ controls.showingAll \in BOOLEAN
    /\ table = [rows |-> table.rows, sort |-> table.sort, shown |-> table.shown,
                total |-> table.total]
    /\ table.sort \in Sorts
    /\ drawer \in Drawers

\* The view of the page's controls, its header and its steering.
ViewOf(entries, query) ==
    [entries |-> entries, query |-> query, facets |-> controls.chosen,
     selectedOnly |-> ~controls.showingAll, sort |-> table.sort]

\* Only the query may lag, while it is typed; the rows come with the run.
OneView ==
    /\ timer \in {Null, controls.typed}
    /\ tableView = ViewOf(tableView.entries, tableView.query)
    /\ timer = Null => tableView.query = controls.typed
    /\ arrived => tableView.entries = LockedRows(marks)

\* The component holds what the view resolves to, once there is a run.
ResolvedRows ==
    arrived =>
        /\ table.rows = Resolve(tableView).rows
        /\ table.shown = Resolve(tableView).shown
        /\ table.total = Resolve(tableView).total

\* What is drawn in an open drawer is of the project its buttons steer.
OneProject == drawer.open => arrived /\ DrawerIsOfItsProject

HoldingsInv == Shaped /\ OneView /\ ResolvedRows /\ OneProject

LEMMA HoldingsInitInv == HoldingsInit => HoldingsInv
<1>. SUFFICES ASSUME HoldingsInit PROVE HoldingsInv
  OBVIOUS
<1>1. Shaped
  BY HoldingsConstants DEF HoldingsInit, Shaped, Drawers, FreshSort, Sorts
<1>2. OneView
  BY DEF HoldingsInit, OneView, ViewOf
<1>. QED
  BY <1>1, <1>2 DEF HoldingsInit, HoldingsInv, ResolvedRows, OneProject

\* What a refresh leaves in the component.
LEMMA RefreshedTable ==
    ASSUME NEW v, NEW t, NEW rows, NEW sort, NEW shownBefore, NEW totalBefore,
           t = [rows |-> rows, sort |-> sort, shown |-> shownBefore,
                total |-> totalBefore]
    PROVE  Refreshed(v, t) = [rows |-> Resolve(v).rows, sort |-> sort,
                              shown |-> Resolve(v).shown, total |-> Resolve(v).total]
<1>1. ASSUME NEW x, NEW y, NEW z
      PROVE  [t EXCEPT !.rows = x, !.shown = y, !.total = z]
                = [rows |-> x, sort |-> sort, shown |-> y, total |-> z]
  <2>1. [t EXCEPT !.rows = x]
          = [rows |-> x, sort |-> sort, shown |-> shownBefore, total |-> totalBefore]
    OBVIOUS
  <2>2. ASSUME NEW u, u = [rows |-> x, sort |-> sort, shown |-> shownBefore,
                           total |-> totalBefore]
        PROVE  [u EXCEPT !.shown = y]
                  = [rows |-> x, sort |-> sort, shown |-> y, total |-> totalBefore]
    BY <2>2
  <2>3. ASSUME NEW u, u = [rows |-> x, sort |-> sort, shown |-> y, total |-> totalBefore]
        PROVE  [u EXCEPT !.total = z]
                  = [rows |-> x, sort |-> sort, shown |-> y, total |-> z]
    BY <2>3
  <2>. QED  BY <2>1, <2>2, <2>3, Zenon
<1>2. Refreshed(v, t) = [t EXCEPT !.rows = Resolve(v).rows, !.shown = Resolve(v).shown,
                                  !.total = Resolve(v).total]
  BY Zenon DEF Refreshed
<1>. QED  BY <1>1, <1>2, Zenon

LEMMA RefreshStep ==
    ASSUME HoldingsInv, NEW v, Refresh(v)
    PROVE  /\ tableView' = v /\ table'.sort = table.sort
           /\ table' = [rows |-> table'.rows, sort |-> table'.sort,
                        shown |-> table'.shown, total |-> table'.total]
           /\ table'.rows = Resolve(v).rows /\ table'.shown = Resolve(v).shown
           /\ table'.total = Resolve(v).total
<1>1. table' = [rows |-> Resolve(v).rows, sort |-> table.sort,
                shown |-> Resolve(v).shown, total |-> Resolve(v).total]
  BY RefreshedTable DEF Refresh, HoldingsInv, Shaped
<1>. QED  BY <1>1 DEF Refresh

\* The rows are drawn again for controls that have moved with their view.
LEMMA ControlledView ==
    ASSUME HoldingsInv, NEW v, Refresh(v), NEW chosen, NEW all \in BOOLEAN,
           controls' = [typed |-> controls.typed, chosen |-> chosen, showingAll |-> all],
           v = [entries |-> tableView.entries, query |-> tableView.query,
                facets |-> chosen, selectedOnly |-> ~all, sort |-> table.sort],
           UNCHANGED <<timer, marks, arrived, drawer, asked>>
    PROVE  HoldingsInv'
<1>1. /\ tableView' = v /\ table'.sort = table.sort
      /\ table' = [rows |-> table'.rows, sort |-> table'.sort,
                   shown |-> table'.shown, total |-> table'.total]
      /\ table'.rows = Resolve(v).rows /\ table'.shown = Resolve(v).shown
      /\ table'.total = Resolve(v).total
  BY RefreshStep
<1>2. Shaped'
  BY <1>1 DEF HoldingsInv, Shaped
<1>3. OneView'
  BY <1>1 DEF HoldingsInv, OneView, ViewOf, LockedRows
<1>4. ResolvedRows'
  BY <1>1 DEF ResolvedRows
<1>5. OneProject'
  BY DEF HoldingsInv, OneProject, DrawerIsOfItsProject
<1>. QED  BY <1>2, <1>3, <1>4, <1>5 DEF HoldingsInv

\* They are for what was typed, once the timer has fired.
LEMMA SettledView ==
    ASSUME HoldingsInv, Refresh(ViewOf(tableView.entries, controls.typed)),
           timer' = Null, UNCHANGED <<controls, marks, arrived, drawer, asked>>
    PROVE  HoldingsInv'
<1>. DEFINE v == ViewOf(tableView.entries, controls.typed)
<1>1. /\ tableView' = v /\ table'.sort = table.sort
      /\ table' = [rows |-> table'.rows, sort |-> table'.sort,
                   shown |-> table'.shown, total |-> table'.total]
      /\ table'.rows = Resolve(v).rows /\ table'.shown = Resolve(v).shown
      /\ table'.total = Resolve(v).total
  BY RefreshStep
<1>2. Shaped'
  BY <1>1 DEF HoldingsInv, Shaped
<1>3. OneView'
  BY <1>1 DEF HoldingsInv, OneView, ViewOf, LockedRows
<1>4. ResolvedRows'
  BY <1>1 DEF ResolvedRows
<1>5. OneProject'
  BY DEF HoldingsInv, OneProject, DrawerIsOfItsProject
<1>. QED  BY <1>2, <1>3, <1>4, <1>5 DEF HoldingsInv

\* A control of the table moves, or the burst of typing ends.
LEMMA TableStep ==
    ASSUME HoldingsInv,
           \/ \E q \in Queries : Type(q)
           \/ SearchSettles
           \/ \E s \in Selects, label \in Labels \cup {All} : Choose(s, label)
           \/ ToggleAll
           \/ \E c \in Columns : SortBy(c)
    PROVE  HoldingsInv'
<1>0. /\ controls = [typed |-> controls.typed, chosen |-> controls.chosen,
                     showingAll |-> controls.showingAll]
      /\ controls.showingAll \in BOOLEAN
      /\ tableView = [entries |-> tableView.entries, query |-> tableView.query,
                      facets |-> controls.chosen,
                      selectedOnly |-> ~controls.showingAll, sort |-> table.sort]
  BY DEF HoldingsInv, Shaped, OneView, ViewOf
<1>1. ASSUME NEW q \in Queries, Type(q) PROVE HoldingsInv'
  <2>1. /\ controls' = [controls EXCEPT !.typed = q] /\ timer' = q
        /\ UNCHANGED <<tableView, table, marks, arrived, drawer, asked>>
    BY <1>1 DEF Type
  <2>2. controls' = [typed |-> q, chosen |-> controls.chosen,
                     showingAll |-> controls.showingAll]
    BY <1>0, <2>1
  <2>3. Shaped' /\ OneProject'
    BY <2>1, <2>2 DEF HoldingsInv, Shaped, OneProject, DrawerIsOfItsProject
  <2>4. OneView'
    BY <1>0, <2>1, <2>2, HoldingsConstants DEF HoldingsInv, OneView, ViewOf, LockedRows
  <2>. QED
    BY <2>1, <2>3, <2>4 DEF HoldingsInv, ResolvedRows
<1>2. CASE SearchSettles
  <2>. DEFINE v == [tableView EXCEPT !.query = timer]
  <2>1. /\ timer # Null /\ timer' = Null /\ Refresh(v)
        /\ UNCHANGED <<controls, marks, arrived, drawer, asked>>
    BY <1>2 DEF SearchSettles
  <2>2. timer = controls.typed
    BY <2>1 DEF HoldingsInv, OneView
  <2>3. v = ViewOf(tableView.entries, controls.typed)
    BY <1>0, <2>2 DEF ViewOf
  <2>. QED  BY <2>1, <2>3, SettledView
<1>3. ASSUME NEW s \in Selects, NEW label \in Labels \cup {All}, Choose(s, label)
      PROVE  HoldingsInv'
  <2>. DEFINE v == [tableView EXCEPT !.facets[s] = label]
  <2>1. /\ controls' = [controls EXCEPT !.chosen[s] = label] /\ Refresh(v)
        /\ UNCHANGED <<timer, marks, arrived, drawer, asked>>
    BY <1>3 DEF Choose
  <2>2. controls' = [typed |-> controls.typed,
                     chosen |-> [controls.chosen EXCEPT ![s] = label],
                     showingAll |-> controls.showingAll]
    BY <1>0, <2>1
  <2>3. v = [entries |-> tableView.entries, query |-> tableView.query,
             facets |-> [controls.chosen EXCEPT ![s] = label],
             selectedOnly |-> ~controls.showingAll, sort |-> table.sort]
    BY <1>0
  <2>. QED  BY <2>1, <2>2, <2>3, <1>0, ControlledView
<1>4. CASE ToggleAll
  <2>. DEFINE v == [tableView EXCEPT !.selectedOnly = ~@]
  <2>1. /\ controls' = [controls EXCEPT !.showingAll = tableView.selectedOnly]
        /\ Refresh(v) /\ UNCHANGED <<timer, marks, arrived, drawer, asked>>
    BY <1>4 DEF ToggleAll
  <2>2. tableView.selectedOnly = ~controls.showingAll
    BY <1>0
  <2>3. controls' = [typed |-> controls.typed, chosen |-> controls.chosen,
                     showingAll |-> ~controls.showingAll]
    BY <1>0, <2>1, <2>2
  <2>. DEFINE all == ~controls.showingAll
  <2>4. ~tableView.selectedOnly = ~all
    BY <2>2
  <2>. HIDE DEF all
  <2>5. v = [entries |-> tableView.entries, query |-> tableView.query,
             facets |-> controls.chosen,
             selectedOnly |-> ~all, sort |-> table.sort]
    <3>1. ASSUME NEW x PROVE [tableView EXCEPT !.selectedOnly = x]
            = [entries |-> tableView.entries, query |-> tableView.query,
               facets |-> controls.chosen, selectedOnly |-> x, sort |-> table.sort]
      BY <1>0
    <3>2. v = [tableView EXCEPT !.selectedOnly = ~all]
      <4>1. all \in BOOLEAN /\ tableView.selectedOnly = all
        BY <2>2, Zenon DEF all
      <4>2. CASE all = TRUE
        BY <4>1, <4>2
      <4>3. CASE all = FALSE
        BY <4>1, <4>3
      <4>. QED  BY <4>1, <4>2, <4>3
    <3>. QED  BY <3>1, <3>2, Zenon
  <2>6. all \in BOOLEAN /\ controls' = [typed |-> controls.typed,
                             chosen |-> controls.chosen, showingAll |-> all]
    BY <2>3 DEF all
  <2>. QED  BY <2>1, <2>5, <2>6, ControlledView
<1>5. ASSUME NEW c \in Columns, SortBy(c)
      PROVE  HoldingsInv'
  <2>. DEFINE sort == IF table.sort.column = c
                      THEN [table.sort EXCEPT !.descending = ~@]
                      ELSE [column |-> c, descending |-> TRUE]
              v == [tableView EXCEPT !.sort = sort]
              t == [table EXCEPT !.sort = sort]
  <2>1. /\ tableView' = v /\ table' = Refreshed(v, t)
        /\ UNCHANGED <<controls, timer, marks, arrived, drawer, asked>>
    BY <1>5 DEF SortBy
  <2>2. t = [rows |-> table.rows, sort |-> sort, shown |-> table.shown,
             total |-> table.total]
    <3>1. table = [rows |-> table.rows, sort |-> table.sort, shown |-> table.shown,
                   total |-> table.total]
      BY DEF HoldingsInv, Shaped
    <3>2. ASSUME NEW x PROVE [table EXCEPT !.sort = x]
            = [rows |-> table.rows, sort |-> x, shown |-> table.shown,
               total |-> table.total]
      BY <3>1
    <3>. QED  BY <3>2
  <2>. HIDE DEF sort, v, t
  <2>3. table' = [rows |-> Resolve(v).rows, sort |-> sort,
                  shown |-> Resolve(v).shown, total |-> Resolve(v).total]
    BY <2>1, <2>2, RefreshedTable
  <2>4. v = [entries |-> tableView.entries, query |-> tableView.query,
             facets |-> controls.chosen,
             selectedOnly |-> ~controls.showingAll, sort |-> sort]
    <3>1. ASSUME NEW x PROVE [tableView EXCEPT !.sort = x]
            = [entries |-> tableView.entries, query |-> tableView.query,
               facets |-> controls.chosen,
               selectedOnly |-> ~controls.showingAll, sort |-> x]
      BY <1>0
    <3>. QED  BY <3>1 DEF v
  <2>5. sort \in Sorts
    BY DEF HoldingsInv, Shaped, Sorts, sort
  <2>6. Shaped'
    BY <2>1, <2>3, <2>5 DEF HoldingsInv, Shaped
  <2>7. OneView'
    BY <2>1, <2>3, <2>4 DEF HoldingsInv, OneView, ViewOf, LockedRows
  <2>8. ResolvedRows'
    BY <2>1, <2>3 DEF ResolvedRows
  <2>9. OneProject'
    BY <2>1 DEF HoldingsInv, OneProject, DrawerIsOfItsProject
  <2>. QED  BY <2>6, <2>7, <2>8, <2>9 DEF HoldingsInv
<1>. QED  BY <1>1, <1>2, <1>3, <1>4, <1>5

\* The run comes, or a button of the drawer steers: the rows are made again.
LEMMA LocksStep ==
    ASSUME HoldingsInv, NEW l, ApplyLocks(l), UNCHANGED <<controls, timer>>,
           drawer' \in Drawers, OneProject'
    PROVE  HoldingsInv'
<1>. DEFINE v == [tableView EXCEPT !.entries = LockedRows(l)]
<1>1. marks' = l /\ Refresh(v)
  BY DEF ApplyLocks
<1>2. v = ViewOf(LockedRows(l), tableView.query)
  BY DEF HoldingsInv, OneView, ViewOf
<1>. HIDE DEF v
<1>3. /\ tableView' = v /\ table'.sort = table.sort
      /\ table' = [rows |-> table'.rows, sort |-> table'.sort,
                   shown |-> table'.shown, total |-> table'.total]
      /\ table'.rows = Resolve(v).rows /\ table'.shown = Resolve(v).shown
      /\ table'.total = Resolve(v).total
  BY <1>1, RefreshStep
<1>4. Shaped'
  BY <1>3 DEF HoldingsInv, Shaped
<1>5. v.entries = LockedRows(l) /\ v.query = tableView.query
  BY <1>2 DEF ViewOf
<1>6. tableView' = ViewOf(tableView.entries, tableView.query)'
  BY <1>2, <1>3, <1>5 DEF ViewOf
<1>7. tableView'.entries = LockedRows(marks')
  BY <1>1, <1>3, <1>5
<1>8. OneView'
  BY <1>3, <1>5, <1>6, <1>7 DEF HoldingsInv, OneView
<1>9. ResolvedRows'
  BY <1>3 DEF ResolvedRows
<1>. QED  BY <1>4, <1>8, <1>9 DEF HoldingsInv

LEMMA ButtonsOf ==
    ASSUME NEW d \in Drawers, NEW p, NEW l
    PROVE  LET e == Buttons(d, p, l)
           IN  /\ e \in Drawers /\ e.open = d.open /\ e.project = d.project
               /\ e.head = d.head /\ e.groups = d.groups
               /\ e.provenance = d.provenance
               /\ e.lock <=> p \in l.locked
               /\ e.exclude <=> p \in l.excluded
<1>. DEFINE a == p \in l.locked
            b == p \in l.excluded
            e == Buttons(d, p, l)
<1>1. a \in BOOLEAN /\ b \in BOOLEAN
  OBVIOUS
<1>2. e = [d EXCEPT !.lock = a, !.exclude = b]
  BY Zenon DEF Buttons
<1>. HIDE DEF a, b, e
<1>3. /\ e \in Drawers /\ e.open = d.open /\ e.project = d.project
      /\ e.head = d.head /\ e.groups = d.groups
      /\ e.provenance = d.provenance /\ e.lock = a /\ e.exclude = b
  BY <1>1, <1>2 DEF Drawers
<1>4. (e.lock <=> p \in l.locked) /\ (e.exclude <=> p \in l.excluded)
  BY <1>3, Zenon DEF a, b
<1>. QED  BY <1>3, <1>4, Zenon DEF e

LEMMA PressStep ==
    ASSUME HoldingsInv, NEW set, NEW pressed, Press(set, pressed)
    PROVE  HoldingsInv'
<1>. DEFINE p == drawer.project
            l == Steered(p, set, ~pressed)
<1>1. /\ arrived /\ drawer.open /\ ApplyLocks(l)
      /\ drawer' = Buttons(drawer, p, l)
      /\ UNCHANGED <<controls, timer, arrived, asked>>
  BY DEF Press
<1>2. marks' = l
  BY <1>1 DEF ApplyLocks
<1>. HIDE DEF l
<1>3. drawer \in Drawers
  BY DEF HoldingsInv, Shaped
<1>4. /\ drawer' \in Drawers /\ drawer'.project = p /\ drawer'.head = drawer.head
      /\ drawer'.groups = drawer.groups /\ drawer'.provenance = drawer.provenance
      /\ (drawer'.lock <=> p \in l.locked) /\ (drawer'.exclude <=> p \in l.excluded)
  BY <1>1, <1>3, ButtonsOf
<1>5. OneProject'
  BY <1>1, <1>2, <1>4 DEF HoldingsInv, OneProject, DrawerIsOfItsProject
<1>. QED  BY <1>1, <1>4, <1>5, LocksStep

LEMMA ArrivalStep == HoldingsInv /\ RunArrives => HoldingsInv'
<1>. SUFFICES ASSUME HoldingsInv, RunArrives PROVE HoldingsInv'
  OBVIOUS
<1>1. ~arrived /\ ApplyLocks(Adopt(marks)) /\ UNCHANGED <<controls, timer, drawer, asked>>
  BY DEF RunArrives
<1>2. ~drawer.open /\ drawer' \in Drawers
  BY <1>1 DEF HoldingsInv, OneProject, Shaped
<1>3. OneProject'
  BY <1>1, <1>2 DEF OneProject
<1>. QED  BY <1>1, <1>2, <1>3, LocksStep

LEMMA OpenedDrawer ==
    ASSUME drawer \in Drawers, NEW p \in Holdings
    PROVE  LET d == [Filled(p, marks) EXCEPT !.open = TRUE]
           IN  /\ d \in Drawers /\ d.project = p /\ d.head = p /\ d.groups = p
               /\ d.provenance = Null
               /\ d.lock <=> p \in marks.locked
               /\ d.exclude <=> p \in marks.excluded
<1>. DEFINE inLocked == p \in marks.locked
            filled == [drawer EXCEPT !.project = p, !.head = p, !.groups = p,
                              !.status = Status(p, marks), !.locked = inLocked,
                              !.provenance = Null]
<1>1. Status(p, marks) \in {"Excluded", "Selected", "Not selected"}
  BY DEF Status
<1>2. inLocked \in BOOLEAN
  OBVIOUS
<1>3. Filled(p, marks) = Buttons(filled, p, marks)
  BY Zenon DEF Filled
<1>. HIDE DEF inLocked
<1>4. /\ filled \in Drawers /\ filled.project = p /\ filled.head = p
      /\ filled.groups = p /\ filled.provenance = Null
  BY <1>1, <1>2 DEF Drawers
<1>. DEFINE f == Filled(p, marks)
<1>. HIDE DEF filled, f
<1>5. /\ f \in Drawers /\ f.project = p /\ f.head = p
      /\ f.groups = p /\ f.provenance = Null
      /\ f.lock <=> p \in marks.locked
      /\ f.exclude <=> p \in marks.excluded
  BY <1>3, <1>4, ButtonsOf DEF f
<1>. DEFINE d == [f EXCEPT !.open = TRUE]
<1>6. /\ d \in Drawers /\ d.project = p /\ d.head = p
      /\ d.groups = p /\ d.provenance = Null
      /\ d.lock = f.lock /\ d.exclude = f.exclude
  BY <1>5 DEF Drawers
<1>. HIDE DEF d
<1>7. (d.lock <=> p \in marks.locked) /\ (d.exclude <=> p \in marks.excluded)
  BY <1>5, <1>6, Zenon
<1>. QED  BY <1>6, <1>7, Zenon DEF d, f

\* The drawer opens, closes or is given an answer: the table stays.
LEMMA DrawerStep ==
    ASSUME HoldingsInv, NEW p \in Holdings,
           OpenDrawer(p) \/ CloseDrawer \/ StatementsArrive(p) \/ StatementsRefused(p)
    PROVE  HoldingsInv'
<1>1. UNCHANGED <<controls, timer, tableView, table, marks, arrived>>
  BY DEF OpenDrawer, CloseDrawer, StatementsArrive, StatementsRefused
<1>2. drawer \in Drawers
  BY DEF HoldingsInv, Shaped
<1>3. SUFFICES drawer' \in Drawers /\ OneProject'
  BY <1>1, <1>3
  DEF HoldingsInv, Shaped, OneView, ViewOf, LockedRows, ResolvedRows
<1>4. CASE OpenDrawer(p)
  <2>1. arrived /\ drawer' = [Filled(p, marks) EXCEPT !.open = TRUE]
    BY <1>4 DEF OpenDrawer
  <2>2. /\ drawer' \in Drawers /\ drawer'.project = p /\ drawer'.head = p
        /\ drawer'.groups = p /\ drawer'.provenance = Null
        /\ (drawer'.lock <=> p \in marks.locked)
        /\ (drawer'.exclude <=> p \in marks.excluded)
    BY <1>2, <2>1, OpenedDrawer
  <2>. QED  BY <1>1, <2>1, <2>2 DEF OneProject, DrawerIsOfItsProject
<1>5. CASE CloseDrawer
  <2>1. drawer' = [drawer EXCEPT !.open = FALSE]
    BY <1>5 DEF CloseDrawer
  <2>. QED  BY <1>2, <2>1 DEF Drawers, OneProject
<1>6. CASE StatementsArrive(p) /\ StillOpen(p)
  <2>1. drawer' = [drawer EXCEPT !.provenance = p] /\ drawer.project = p
    BY <1>6 DEF StatementsArrive, StillOpen
  <2>2. /\ drawer' \in Drawers /\ drawer'.open = drawer.open
        /\ drawer'.project = p /\ drawer'.head = drawer.head
        /\ drawer'.groups = drawer.groups /\ drawer'.provenance = p
        /\ drawer'.lock = drawer.lock /\ drawer'.exclude = drawer.exclude
    BY <1>2, <2>1 DEF Drawers
  <2>. QED
    BY <1>1, <2>1, <2>2 DEF HoldingsInv, OneProject, DrawerIsOfItsProject
<1>7. CASE StatementsRefused(p) \/ (StatementsArrive(p) /\ ~StillOpen(p))
  <2>1. drawer' = drawer
    BY <1>7 DEF StatementsArrive, StatementsRefused
  <2>. QED
    BY <1>1, <1>2, <2>1 DEF HoldingsInv, OneProject, DrawerIsOfItsProject
<1>. QED  BY <1>4, <1>5, <1>6, <1>7

LEMMA HoldingsStep == HoldingsInv /\ [HoldingsNext]_holdings => HoldingsInv'
<1>. SUFFICES ASSUME HoldingsInv, [HoldingsNext]_holdings PROVE HoldingsInv'
  OBVIOUS
<1>1. CASE SteerHolding
  BY <1>1, PressStep DEF SteerHolding
<1>2. CASE CloseDrawer
  <2>1. UNCHANGED <<controls, timer, tableView, table, marks, arrived>>
        /\ drawer' = [drawer EXCEPT !.open = FALSE] /\ drawer \in Drawers
    BY <1>2 DEF CloseDrawer, HoldingsInv, Shaped
  <2>2. drawer' \in Drawers /\ ~drawer'.open
    BY <2>1 DEF Drawers
  <2>. QED
    BY <2>1, <2>2
    DEF HoldingsInv, Shaped, OneView, ViewOf, LockedRows, ResolvedRows, OneProject
<1>3. CASE UNCHANGED holdings
  BY <1>3
  DEF holdings, HoldingsInv, Shaped, OneView, ViewOf, LockedRows, ResolvedRows,
      OneProject, DrawerIsOfItsProject
<1>. QED
  BY <1>1, <1>2, <1>3, TableStep, ArrivalStep, DrawerStep
  DEF HoldingsNext, UserMoves, PageMoves

THEOREM HoldingsInvariant == HoldingsSpec => []HoldingsInv
BY HoldingsInitInv, HoldingsStep, PTL DEF HoldingsSpec

\* An open drawer is of one project, whatever comes late and in any order.
THEOREM DrawerIsTrue == HoldingsSpec => []DrawerIsOfItsProject
<1>1. HoldingsInv => DrawerIsOfItsProject
  BY DEF HoldingsInv, OneProject, DrawerIsOfItsProject
<1>. QED  BY <1>1, HoldingsInvariant, PTL

\* Once the burst of typing has settled, the rows on the page are what the
\* controls, the header's own sort and the session's steering resolve to.
RowsAreOfTheControls ==
    arrived /\ timer = Null =>
        LET resolved == Resolve([entries |-> LockedRows(marks),
                                 query |-> controls.typed, facets |-> controls.chosen,
                                 selectedOnly |-> ~controls.showingAll,
                                 sort |-> table.sort])
        IN  /\ table.rows = resolved.rows
            /\ table.shown = resolved.shown /\ table.total = resolved.total

THEOREM RowsFollowTheControls == HoldingsSpec => []RowsAreOfTheControls
<1>1. HoldingsInv => RowsAreOfTheControls
  BY DEF HoldingsInv, OneView, ViewOf, ResolvedRows, RowsAreOfTheControls
<1>. QED  BY <1>1, HoldingsInvariant, PTL

-----------------------------------------------------------------------------
(* What the table resolves to.                                              *)

\* compare is a total order of the holdings, absent figures and all.
LEMMA HoldingsAreOrdered ==
    ASSUME NEW sort \in Sorts, NEW a \in Holdings, NEW b \in Holdings, NEW c \in Holdings
    PROVE  /\ ~Before(a, a, sort)
           /\ Before(a, b, sort) /\ Before(b, c, sort) => Before(a, c, sort)
           /\ a = b \/ Before(a, b, sort) \/ Before(b, a, sort)
<1>. DEFINE x == Figure[sort.column][a]
            y == Figure[sort.column][b]
            z == Figure[sort.column][c]
            lower(u, i, w, j) ==
                \/ u = w /\ i < j
                \/ u # Null /\ w = Null
                \/ /\ u # Null /\ w # Null
                   /\ IF sort.descending THEN w < u ELSE u < w
<1>1. x \in Int \cup {Null} /\ y \in Int \cup {Null} /\ z \in Int \cup {Null}
  BY HoldingsConstants DEF Sorts
<1>2. a \in Nat /\ b \in Nat /\ c \in Nat
  BY HoldingsConstants
<1>3. /\ Before(a, a, sort) = lower(x, a, x, a)
      /\ Before(a, b, sort) = lower(x, a, y, b)
      /\ Before(b, a, sort) = lower(y, b, x, a)
      /\ Before(b, c, sort) = lower(y, b, z, c)
      /\ Before(a, c, sort) = lower(x, a, z, c)
  BY DEF Before
<1>. HIDE DEF x, y, z
<1>. QED  BY <1>1, <1>2, <1>3

\* Rows of which no two are of one holding.
RowsOfHoldings(S) ==
    /\ IsFiniteSet(S)
    /\ \A r \in S : r.id \in Holdings
    /\ \A r, q \in S : r.id = q.id => r = q

SortedBy(sort, S) == {e \in S \X S : Before(e[1].id, e[2].id, sort)}

\* Sorted, each of them has a place, in the order of compare.
LEMMA SortedRows ==
    ASSUME NEW sort \in Sorts, NEW S, RowsOfHoldings(S)
    PROVE  LET rows == Sorted(S, sort)
           IN  /\ DOMAIN rows = 1 .. Cardinality(S) /\ Cardinality(S) \in Nat
               /\ \A n \in DOMAIN rows : rows[n] \in S
               /\ \A r \in S : \E n \in DOMAIN rows : rows[n] = r
               /\ \A n, m \in DOMAIN rows :
                     n < m => Before(rows[n].id, rows[m].id, sort)
<1>. DEFINE R == SortedBy(sort, S)
            rows == Sorted(S, sort)
<1>1. \A r, q \in S : <<r, q>> \in R <=> Before(r.id, q.id, sort)
  BY DEF SortedBy
<1>2. Orders(R, S)
  <2>1. \A r \in S : <<r, r>> \notin R
    BY <1>1, HoldingsAreOrdered DEF RowsOfHoldings
  <2>2. \A r, q, t \in S : <<r, q>> \in R /\ <<q, t>> \in R => <<r, t>> \in R
    BY <1>1, HoldingsAreOrdered DEF RowsOfHoldings
  <2>3. \A r, q \in S : r = q \/ <<r, q>> \in R \/ <<q, r>> \in R
    BY <1>1, HoldingsAreOrdered DEF RowsOfHoldings
  <2>. QED  BY <2>1, <2>2, <2>3 DEF Orders
<1>3. IsFiniteSet(S) /\ Cardinality(S) \in Nat
  BY FS_CardinalityType DEF RowsOfHoldings
<1>. HIDE DEF R
<1>4. \A r \in S : {q \in S : Before(q.id, r.id, sort)} = Beneath(R, S, r)
  BY <1>1 DEF Beneath
<1>5. rows = [n \in 1 .. Cardinality(S) |-> InPlace(R, S, n)]
  <2>1. ASSUME NEW n \in 1 .. Cardinality(S)
        PROVE  (CHOOSE r \in S : Cardinality({q \in S : Before(q.id, r.id, sort)}) = n - 1)
                  = InPlace(R, S, n)
    BY <1>4, Zenon DEF InPlace
  <2>. QED  BY <2>1, Zenon DEF Sorted
<1>6. /\ \A n \in 1 .. Cardinality(S) : InPlace(R, S, n) \in S
      /\ \A r \in S : \E n \in 1 .. Cardinality(S) : InPlace(R, S, n) = r
      /\ \A n, m \in 1 .. Cardinality(S) :
            n < m => <<InPlace(R, S, n), InPlace(R, S, m)>> \in R
  BY <1>2, <1>3, EveryPlaceIsTaken
<1>. HIDE DEF rows
<1>7. /\ DOMAIN rows = 1 .. Cardinality(S)
      /\ \A n \in 1 .. Cardinality(S) : rows[n] = InPlace(R, S, n)
  BY <1>5
<1>8. \A n \in DOMAIN rows : rows[n] \in S
  BY <1>6, <1>7
<1>9. \A r \in S : \E n \in DOMAIN rows : rows[n] = r
  BY <1>6, <1>7
<1>10. ASSUME NEW n \in DOMAIN rows, NEW m \in DOMAIN rows, n < m
       PROVE  Before(rows[n].id, rows[m].id, sort)
  <2>1. <<rows[n], rows[m]>> \in R
    BY <1>6, <1>7, <1>10
  <2>. QED  BY <1>1, <1>7, <1>8, <2>1, Zenon
<1>. QED  BY <1>3, <1>7, <1>8, <1>9, <1>10, Zenon DEF rows

\* One row for each holding, whatever is locked.
LEMMA RowsOfTheRun ==
    ASSUME NEW l, NEW P \in SUBSET Holdings
    PROVE  LET S == {r \in LockedRows(l) : r.id \in P}
           IN  /\ RowsOfHoldings(S)
               /\ {r.id : r \in S} = P
               /\ \A r \in S : r.locked <=> r.id \in l.locked
               /\ Cardinality(S) = Cardinality(P)
<1>. DEFINE S == {r \in LockedRows(l) : r.id \in P}
            row == [p \in P |-> Row(p, l.locked)]
<1>1. \A p \in Holdings : Row(p, l.locked).id = p
  BY DEF Row
<1>2. \A p \in Holdings : Row(p, l.locked).locked <=> p \in l.locked
  BY Zenon DEF Row
<1>3. \A r \in S : r.id \in P /\ r = Row(r.id, l.locked)
  BY <1>1 DEF LockedRows
<1>4. \A p \in P : Row(p, l.locked) \in S
  BY <1>1 DEF LockedRows
<1>5. IsFiniteSet(P)
  BY HoldingsConstants, FS_Subset
<1>. HIDE DEF S
<1>6. row \in Bijection(P, S)
  <2>1. row \in [P -> S]
    BY <1>4
  <2>2. \A p, q \in P : row[p] = row[q] => p = q
    BY <1>1
  <2>3. \A r \in S : \E p \in P : row[p] = r
    BY <1>3
  <2>. QED  BY <2>1, <2>2, <2>3 DEF Bijection, Injection, Surjection, IsInjective
<1>7. IsFiniteSet(S) /\ Cardinality(S) = Cardinality(P)
  BY <1>5, <1>6, FS_Bijection DEF ExistsBijection
<1>8. RowsOfHoldings(S)
  BY <1>3, <1>7, Zenon DEF RowsOfHoldings
<1>9. {r.id : r \in S} = P
  BY <1>1, <1>3, <1>4
<1>10. \A r \in S : r.locked <=> r.id \in l.locked
  BY <1>2, <1>3
<1>. QED  BY <1>7, <1>8, <1>9, <1>10 DEF S

\* The header's arrow says what compare does.
LEMMA HeaderSaysTheOrder ==
    ASSUME table.sort \in Sorts, NEW a \in Holdings, NEW b \in Holdings,
           Before(a, b, table.sort)
    PROVE  InHeaderOrder(a, b)
<1>. DEFINE x == Figure[table.sort.column][a]
            y == Figure[table.sort.column][b]
<1>1. x \in Int \cup {Null} /\ y \in Int \cup {Null} /\ table.sort.descending \in BOOLEAN
  BY HoldingsConstants DEF Sorts
<1>2. \/ x = y /\ a < b
      \/ x # Null /\ y = Null
      \/ /\ x # Null /\ y # Null
         /\ IF table.sort.descending THEN y < x ELSE x < y
  BY DEF Before
<1>3. a \in Nat /\ b \in Nat
  BY HoldingsConstants
<1>4. InHeaderOrder(a, b) =
        (CASE x = Null \/ y = Null -> y = Null /\ (x = Null => a < b)
           [] x = y -> a < b
           [] OTHER -> table.sort.descending <=> x > y)
  BY DEF InHeaderOrder
<1>. HIDE DEF x, y
<1>5. CASE x = Null \/ y = Null
  <2>1. y = Null /\ (x = Null => a < b)
    BY <1>2, <1>5
  <2>. QED  BY <1>4, <1>5, <2>1
<1>6. CASE x # Null /\ y # Null /\ x = y
  <2>1. a < b
    BY <1>1, <1>2, <1>6
  <2>. QED  BY <1>4, <1>6, <2>1
<1>7. CASE x # Null /\ y # Null /\ x # y
  <2>1. table.sort.descending <=> x > y
    BY <1>1, <1>2, <1>7
  <2>. QED  BY <1>4, <1>7, <2>1
<1>. QED  BY <1>5, <1>6, <1>7

\* Once the burst of typing has settled, the table shows exactly the projects the
\* controls ask for, each once, in the order the header says and with the marks of
\* the session's steering, in whatever order run, filters, sort and steering came
\* (table.js, resolve and compare; portfolio.js, applyLocks).
THEOREM RowsAnswer == HoldingsSpec => []RowsAnswerTheControls
<1>1. ASSUME HoldingsInv PROVE RowsAnswerTheControls
  <2>. SUFFICES ASSUME arrived, timer = Null PROVE RowsAnswerTheControls
    BY DEF RowsAnswerTheControls
  <2>. DEFINE v == [entries |-> LockedRows(marks), query |-> controls.typed,
                    facets |-> controls.chosen,
                    selectedOnly |-> ~controls.showingAll, sort |-> table.sort]
              P == {p \in Holdings : Asked(p)}
              Q == {p \in Holdings : controls.showingAll \/ p \in Selected}
              kept == {r \in LockedRows(marks) : r.id \in P}
              base == {r \in LockedRows(marks) : r.id \in Q}
              ids == [i \in DOMAIN table.rows |-> table.rows[i].id]
  <2>1. /\ table.rows = Resolve(v).rows /\ table.shown = Resolve(v).shown
        /\ table.total = Resolve(v).total
    BY <1>1 DEF HoldingsInv, OneView, ViewOf, ResolvedRows
  <2>2. controls.showingAll \in BOOLEAN /\ table.sort \in Sorts
    BY <1>1 DEF HoldingsInv, Shaped
  <2>3. \A r \in LockedRows(marks) : r.id \in Holdings
    BY DEF LockedRows, Row
  <2>4. \A p : InBase(v, p) <=> controls.showingAll \/ p \in Selected
    BY <2>2 DEF InBase
  <2>5. \A p : Keeps(v, p) <=> Asked(p)
    BY <2>4 DEF Keeps, Asked
  <2>6. /\ {r \in LockedRows(marks) : Keeps(v, r.id)} = kept
        /\ {r \in LockedRows(marks) : InBase(v, r.id)} = base
    BY <2>3, <2>4, <2>5
  <2>7. /\ table.rows = Sorted(kept, table.sort)
        /\ table.shown = Cardinality(kept) /\ table.total = Cardinality(base)
    BY <2>1, <2>6 DEF Resolve
  <2>8. /\ RowsOfHoldings(kept) /\ {r.id : r \in kept} = P
        /\ \A r \in kept : r.locked <=> r.id \in marks.locked
        /\ Cardinality(base) = Cardinality(Q)
    BY RowsOfTheRun
  <2>. HIDE DEF kept, base
  <2>9. /\ DOMAIN table.rows = 1 .. Cardinality(kept) /\ Cardinality(kept) \in Nat
        /\ \A n \in DOMAIN table.rows : table.rows[n] \in kept
        /\ \A r \in kept : \E n \in DOMAIN table.rows : table.rows[n] = r
        /\ \A n, m \in DOMAIN table.rows :
              n < m => Before(table.rows[n].id, table.rows[m].id, table.sort)
    BY <2>2, <2>7, <2>8, SortedRows
  <2>10. ToSet(ids) = P
    BY <2>8, <2>9 DEF ToSet
  <2>11. ASSUME NEW i \in DOMAIN ids, NEW j \in DOMAIN ids, i < j
         PROVE  InHeaderOrder(ids[i], ids[j])
    BY <2>2, <2>8, <2>9, <2>11, HeaderSaysTheOrder DEF RowsOfHoldings
  <2>12. \A i \in DOMAIN ids : table.rows[i].locked <=> ids[i] \in marks.locked
    BY <2>8, <2>9
  <2>13. table.shown = Len(ids)
    BY <2>7, <2>9
  <2>. QED
    BY <2>7, <2>8, <2>10, <2>11, <2>12, <2>13 DEF RowsAnswerTheControls
<1>. QED  BY <1>1, HoldingsInvariant, PTL
=============================================================================
