--------------------------- MODULE RunStoreProofs ---------------------------
(* Theorems about RunStore, for any number of runs, snapshots and events.  *)
EXTENDS RunStore, TLAPS

\* The generation named by an event of the batch has the point of one of them.
LEMMA PointInType ==
    ASSUME NEW batch \in Batches, NEW g \in Generations, Mentions(batch, g)
    PROVE  PointIn(batch, g) \in Points
<1>1. batch \in Seq(Events)
  BY StoreConstants
<1>2. PICK i \in DOMAIN batch : batch[i].generation = g
  BY DEF Mentions
<1>3. (CHOOSE j \in DOMAIN batch : batch[j].generation = g) \in DOMAIN batch
  BY <1>2
<1>4. \A j \in DOMAIN batch : batch[j] \in Events
  BY <1>1
<1>5. \A j \in DOMAIN batch : batch[j].point \in Points
  BY <1>4 DEF Events
<1>. QED  BY <1>3, <1>5 DEF PointIn

\* Every store operation keeps the columns within what the schema admits.
LEMMA TypeStep == TypeOK /\ [StoreNext]_vars => TypeOK'
<1>. SUFFICES ASSUME TypeOK, [StoreNext]_vars PROVE TypeOK'
  OBVIOUS
<1>. USE DEF TypeOK
<1>1. ASSUME NEW c \in Calibrations, RecordAssumptionSet(c) PROVE TypeOK'
  BY <1>1 DEF RecordAssumptionSet
<1>2. ASSUME NEW h \in Pipelines, NEW facts \in PipelineFacts,
             RecordPipelineSnapshot(h, facts)
      PROVE  TypeOK'
  BY <1>2 DEF RecordPipelineSnapshot
<1>3. ASSUME NEW r \in RunIds, NEW s \in Submissions, OpenRun(r, s)
      PROVE  TypeOK'
  <2>. DEFINE row == [reference |-> last_reference + 1, inputs |-> s.inputs,
                      calibration |-> s.calibration, eligible |-> s.eligible,
                      status |-> "queued", outcome |-> None]
  <2>1. row \in Rows
    BY DEF Rows, Submissions, InFlight
  <2>2. run' \in [RunIds -> Rows \cup {None}]
    BY <1>3, <2>1 DEF OpenRun
  <2>3. last_reference' \in Nat
    BY <1>3 DEF OpenRun, ReferenceAfterOpen
  <2>. QED  BY <1>3, <2>2, <2>3 DEF OpenRun, snapshots
<1>4. ASSUME NEW r \in RunIds, StartRun(r) PROVE TypeOK'
  <2>1. CASE StartVerdict(r) = "started"
    <3>1. run[r] \in Rows
      BY <2>1 DEF StartVerdict, Exists
    <3>2. [run[r] EXCEPT !.status = "running"] \in Rows
      BY <3>1 DEF Rows, InFlight
    <3>. QED  BY <1>4, <2>1, <3>2 DEF StartRun, snapshots
  <2>2. CASE StartVerdict(r) # "started"
    BY <1>4, <2>2 DEF StartRun, snapshots
  <2>. QED  BY <2>1, <2>2
<1>5. ASSUME NEW r \in RunIds, NEW batch \in Batches, AppendEvents(r, batch)
      PROVE  TypeOK'
  <2>1. \A g \in Generations :
           (IF Mentions(batch, g) THEN PointIn(batch, g) ELSE run_event[r][g])
              \in Points \cup {None}
    BY PointInType DEF Curves
  <2>2. run_event' \in [RunIds -> Curves]
    BY <1>5, <2>1 DEF AppendEvents, Curves
  <2>. QED  BY <1>5, <2>2 DEF AppendEvents, snapshots
<1>6. ASSUME NEW r \in RunIds, NEW inputs \in Inputs, NEW outcome \in Outcomes,
             FinishRun(r, inputs, outcome)
      PROVE  TypeOK'
  <2>1. CASE FinishVerdict(r, inputs, outcome) = "finished"
    <3>1. run[r] \in Rows
      BY <2>1 DEF FinishVerdict, Exists
    <3>2. outcome.status \in Terminal
      BY DEF Outcomes
    <3>3. [run[r] EXCEPT !.status = outcome.status, !.outcome = outcome] \in Rows
      BY <3>1, <3>2 DEF Rows
    <3>. QED  BY <1>6, <2>1, <3>3 DEF FinishRun, snapshots
  <2>2. CASE FinishVerdict(r, inputs, outcome) # "finished"
    BY <1>6, <2>2 DEF FinishRun, snapshots
  <2>. QED  BY <2>1, <2>2
<1>7. CASE UNCHANGED vars
  BY <1>7 DEF vars
<1>. QED
  BY <1>1, <1>2, <1>3, <1>4, <1>5, <1>6, <1>7
  DEF StoreNext, SnapshotStep, RunStep

\* The store is well typed in every reachable state.
THEOREM TypeCorrect == StoreSpec => []TypeOK
<1>1. StoreInit => TypeOK
  BY DEF StoreInit, TypeOK, Curves, NoCurve
<1>. QED  BY <1>1, TypeStep, PTL DEF StoreSpec
-----------------------------------------------------------------------------
(* What one step may do to one run: the case split the theorems below use. *)

Opened(r, s) ==
    /\ CalibrationMatches(s)
    /\ pipeline_snapshot[PipelineOf[s.inputs]] # None
    /\ run[r] = None
    /\ last_reference' = last_reference + 1
    /\ run' = [run EXCEPT ![r] =
                 [reference |-> last_reference + 1, inputs |-> s.inputs,
                  calibration |-> s.calibration, eligible |-> s.eligible,
                  status |-> "queued", outcome |-> None]]
    /\ run_event' = run_event

Started(r) ==
    /\ run[r] # None
    /\ run[r].status = "queued"
    /\ run' = [run EXCEPT ![r].status = "running"]
    /\ UNCHANGED <<last_reference, run_event>>

Appended(r, batch) ==
    /\ run[r] # None
    /\ ~IsTerminal(r)
    /\ \A g \in Logged(r) : ~Mentions(batch, g)
    /\ run_event' = [run_event EXCEPT ![r] =
                       [g \in Generations |->
                          IF Mentions(batch, g) THEN PointIn(batch, g)
                                                ELSE run_event[r][g]]]
    /\ UNCHANGED <<last_reference, run>>

Finished(r, outcome) ==
    /\ run[r] # None
    /\ ~IsTerminal(r)
    /\ CurveAgrees(r, outcome)
    /\ run' = [run EXCEPT ![r].status = outcome.status, ![r].outcome = outcome]
    /\ UNCHANGED <<last_reference, run_event>>

RunsUntouched == UNCHANGED <<last_reference, run, run_event>>

\* A step opens one run, starts one, logs for one, finishes one, or leaves
\* all of them alone; and only the last kind can add a snapshot.
LEMMA StepCases ==
    ASSUME TypeOK, [StoreNext]_vars
    PROVE  \/ /\ UNCHANGED snapshots
              /\ \E r \in RunIds :
                    \/ \E s \in Submissions : Opened(r, s)
                    \/ Started(r)
                    \/ \E batch \in Batches : Appended(r, batch)
                    \/ \E outcome \in Outcomes : Finished(r, outcome)
           \/ /\ RunsUntouched
              /\ assumption_set \subseteq assumption_set'
              /\ \A h \in Pipelines : pipeline_snapshot[h] # None
                    => pipeline_snapshot'[h] = pipeline_snapshot[h]
<1>1. ASSUME NEW c \in Calibrations, RecordAssumptionSet(c)
      PROVE  /\ RunsUntouched
             /\ assumption_set \subseteq assumption_set'
             /\ \A h \in Pipelines : pipeline_snapshot[h] # None
                   => pipeline_snapshot'[h] = pipeline_snapshot[h]
  BY <1>1 DEF RecordAssumptionSet, RunsUntouched
<1>2. ASSUME NEW k \in Pipelines, NEW facts \in PipelineFacts,
             RecordPipelineSnapshot(k, facts)
      PROVE  /\ RunsUntouched
             /\ assumption_set \subseteq assumption_set'
             /\ \A h \in Pipelines : pipeline_snapshot[h] # None
                   => pipeline_snapshot'[h] = pipeline_snapshot[h]
  <2>1. CASE pipeline_snapshot[k] = None
    BY <1>2, <2>1 DEF RecordPipelineSnapshot, RunsUntouched, TypeOK
  <2>2. CASE pipeline_snapshot[k] # None
    <3>1. SnapshotVerdict(k, facts) # "recorded"
      BY <2>2 DEF SnapshotVerdict
    <3>. QED  BY <1>2, <3>1 DEF RecordPipelineSnapshot, RunsUntouched
  <2>. QED  BY <2>1, <2>2
<1>3. ASSUME NEW r \in RunIds, NEW s \in Submissions, OpenRun(r, s)
      PROVE  (UNCHANGED snapshots /\ Opened(r, s)) \/ UNCHANGED vars
  <2>1. CASE OpenVerdict(r, s) = "opened"
    BY <1>3, <2>1
    DEF OpenRun, Opened, OpenVerdict, ReferenceAfterOpen, Exists, snapshots
  <2>2. CASE OpenVerdict(r, s) # "opened"
    BY <1>3, <2>2 DEF OpenRun, ReferenceAfterOpen, snapshots, vars
  <2>. QED  BY <2>1, <2>2
<1>4. ASSUME NEW r \in RunIds, StartRun(r)
      PROVE  (UNCHANGED snapshots /\ Started(r)) \/ UNCHANGED vars
  <2>1. CASE StartVerdict(r) = "started"
    <3>1. run[r] # None
      BY <2>1 DEF StartVerdict, Exists
    <3>2. run[r].status \in InFlight \cup Terminal
      BY <3>1 DEF TypeOK, Rows
    <3>3. run[r].status = "queued"
      BY <2>1, <3>1, <3>2 DEF StartVerdict, InFlight
    <3>. QED  BY <1>4, <2>1, <3>1, <3>3 DEF StartRun, Started, snapshots
  <2>2. CASE StartVerdict(r) # "started"
    BY <1>4, <2>2 DEF StartRun, snapshots, vars
  <2>. QED  BY <2>1, <2>2
<1>5. ASSUME NEW r \in RunIds, NEW batch \in Batches, AppendEvents(r, batch)
      PROVE  (UNCHANGED snapshots /\ Appended(r, batch)) \/ UNCHANGED vars
  <2>1. CASE AppendVerdict(r, batch) = "appended"
    BY <1>5, <2>1 DEF AppendEvents, Appended, AppendVerdict, Exists, snapshots
  <2>2. CASE AppendVerdict(r, batch) # "appended"
    BY <1>5, <2>2 DEF AppendEvents, snapshots, vars
  <2>. QED  BY <2>1, <2>2
<1>6. ASSUME NEW r \in RunIds, NEW inputs \in Inputs, NEW outcome \in Outcomes,
             FinishRun(r, inputs, outcome)
      PROVE  (UNCHANGED snapshots /\ Finished(r, outcome)) \/ UNCHANGED vars
  <2>1. CASE FinishVerdict(r, inputs, outcome) = "finished"
    BY <1>6, <2>1 DEF FinishRun, Finished, FinishVerdict, Exists, snapshots
  <2>2. CASE FinishVerdict(r, inputs, outcome) # "finished"
    BY <1>6, <2>2 DEF FinishRun, snapshots, vars
  <2>. QED  BY <2>1, <2>2
<1>7. UNCHANGED vars
      => /\ RunsUntouched
         /\ assumption_set \subseteq assumption_set'
         /\ \A h \in Pipelines : pipeline_snapshot[h] # None
               => pipeline_snapshot'[h] = pipeline_snapshot[h]
  BY DEF vars, RunsUntouched
<1>8. CASE UNCHANGED vars
  BY <1>7, <1>8
<1>9. CASE SnapshotStep
  BY <1>1, <1>2, <1>9 DEF SnapshotStep
<1>10. CASE \E r \in RunIds : RunStep(r)
  BY <1>3, <1>4, <1>5, <1>6, <1>7, <1>10 DEF RunStep
<1>. QED  BY <1>8, <1>9, <1>10 DEF StoreNext
-----------------------------------------------------------------------------
(* The curve a finished run serves is the log its subscribers replayed.    *)

LEMMA CurveStep ==
    TypeOK /\ ServedCurveIsTheLog /\ [StoreNext]_vars => ServedCurveIsTheLog'
<1>. SUFFICES ASSUME TypeOK, ServedCurveIsTheLog, [StoreNext]_vars,
                     NEW q \in RunIds, IsTerminal(q)'
              PROVE  Logged(q)' = {} \/ run'[q].outcome.curve = run_event'[q]
  BY DEF ServedCurveIsTheLog
<1>. USE DEF TypeOK
<1>0. IsTerminal(q) => Logged(q) = {} \/ run[q].outcome.curve = run_event[q]
  BY DEF ServedCurveIsTheLog
<1>1. CASE run'[q] = run[q] /\ run_event'[q] = run_event[q]
  BY <1>0, <1>1 DEF IsTerminal, Exists, Logged
<1>2. ASSUME NEW r \in RunIds, NEW s \in Submissions, Opened(r, s)
      PROVE  run'[q] = run[q] /\ run_event'[q] = run_event[q]
  <2>1. r # q
    BY <1>2, NoneIsNoValue DEF Opened, IsTerminal, Exists, Terminal
  <2>. QED  BY <1>2, <2>1 DEF Opened
<1>3. ASSUME NEW r \in RunIds, Started(r)
      PROVE  run'[q] = run[q] /\ run_event'[q] = run_event[q]
  <2>1. run[r] \in Rows
    BY <1>3 DEF Started
  <2>2. run'[r].status = "running"
    BY <1>3, <2>1 DEF Started, Rows
  <2>3. r # q
    BY <2>2 DEF IsTerminal, Terminal
  <2>. QED  BY <1>3, <2>3 DEF Started
<1>4. ASSUME NEW r \in RunIds, NEW batch \in Batches, Appended(r, batch)
      PROVE  run'[q] = run[q] /\ run_event'[q] = run_event[q]
  <2>1. r # q
    BY <1>4 DEF Appended, IsTerminal, Exists
  <2>. QED  BY <1>4, <2>1 DEF Appended
<1>5. ASSUME NEW r \in RunIds, NEW outcome \in Outcomes, Finished(r, outcome)
      PROVE  Logged(q)' = {} \/ run'[q].outcome.curve = run_event'[q]
  <2>1. CASE r = q
    <3>1. run[q] \in Rows
      BY <1>5, <2>1 DEF Finished
    <3>2. run'[q].outcome = outcome
      BY <1>5, <2>1, <3>1 DEF Finished, Rows
    <3>. QED  BY <1>5, <2>1, <3>2 DEF Finished, CurveAgrees, Logged
  <2>2. CASE r # q
    BY <1>1, <1>5, <2>2 DEF Finished
  <2>. QED  BY <2>1, <2>2
<1>6. RunsUntouched => run'[q] = run[q] /\ run_event'[q] = run_event[q]
  BY DEF RunsUntouched
<1>. QED  BY <1>1, <1>2, <1>3, <1>4, <1>5, <1>6, StepCases

\* The served curve and the log never come apart, for any number of runs,
\* workers and finishers.
THEOREM CurveIsTheLog == StoreSpec => []ServedCurveIsTheLog
<1>1. StoreInit => ServedCurveIsTheLog
  BY DEF StoreInit, ServedCurveIsTheLog, IsTerminal, Exists
<1>. QED  BY <1>1, CurveStep, TypeCorrect, PTL DEF StoreSpec

-----------------------------------------------------------------------------
(* The references are the numbers 1 .. last_reference, each on one run.    *)

ReferencesAreContiguous == ReferencesHaveNoGap /\ ReferencesAreDistinct

LEMMA ReferenceStep ==
    TypeOK /\ ReferencesAreContiguous /\ [StoreNext]_vars
        => ReferencesAreContiguous'
<1>. SUFFICES ASSUME TypeOK, ReferencesAreContiguous, [StoreNext]_vars
              PROVE  ReferencesAreContiguous'
  OBVIOUS
<1>. USE DEF TypeOK, ReferencesAreContiguous, ReferencesHaveNoGap,
             ReferencesAreDistinct
<1>1. ASSUME last_reference' = last_reference, Issued' = Issued,
             \A r \in Issued : run'[r].reference = run[r].reference
      PROVE  ReferencesAreContiguous'
  BY <1>1
<1>2. ASSUME NEW r \in RunIds, NEW s \in Submissions, Opened(r, s)
      PROVE  ReferencesAreContiguous'
  <2>1. /\ r \notin Issued
        /\ Issued' = Issued \cup {r}
    <3>1. run'[r] = [reference |-> last_reference + 1, inputs |-> s.inputs,
                     calibration |-> s.calibration, eligible |-> s.eligible,
                     status |-> "queued", outcome |-> None]
      BY <1>2 DEF Opened
    <3>2. run'[r] \in Rows
      BY <3>1 DEF Rows, Submissions, InFlight
    <3>3. run'[r] # None
      BY <3>2, NoneIsNoValue
    <3>. QED  BY <1>2, <3>3 DEF Opened, Issued, Exists
  <2>2. \A q \in Issued : run'[q] = run[q]
    BY <1>2, <2>1 DEF Opened, Issued
  <2>3. run'[r].reference = last_reference + 1
    BY <1>2 DEF Opened
  <2>4. last_reference' = last_reference + 1
    BY <1>2 DEF Opened
  <2>5. {run'[q].reference : q \in Issued'}
          = {run[q].reference : q \in Issued} \cup {last_reference + 1}
    BY <2>1, <2>2, <2>3
  <2>6. 1 .. last_reference' = (1 .. last_reference) \cup {last_reference + 1}
    BY <2>4
  <2>7. \A q \in Issued : run[q].reference \in 1 .. last_reference
    OBVIOUS
  <2>8. \A q \in Issued : run[q].reference # last_reference + 1
    BY <2>7
  <2>9. ReferencesAreDistinct'
    BY <2>1, <2>2, <2>3, <2>8
  <2>. QED  BY <2>5, <2>6, <2>9
<1>3. ASSUME NEW r \in RunIds, Started(r) PROVE ReferencesAreContiguous'
  <2>1. run[r] \in Rows
    BY <1>3 DEF Started
  <2>2. run'[r] = [run[r] EXCEPT !.status = "running"]
    BY <1>3 DEF Started
  <2>3. run'[r].reference = run[r].reference /\ run'[r] # None
    <3>1. run'[r] \in Rows
      BY <2>1, <2>2 DEF Rows, InFlight
    <3>. QED  BY <2>1, <2>2, <3>1, NoneIsNoValue DEF Rows
  <2>4. Issued' = Issued
    BY <1>3, <2>3 DEF Started, Issued, Exists
  <2>. QED  BY <1>1, <1>3, <2>3, <2>4 DEF Started
<1>4. ASSUME NEW r \in RunIds, NEW batch \in Batches, Appended(r, batch)
      PROVE  ReferencesAreContiguous'
  BY <1>1, <1>4 DEF Appended, Issued, Exists
<1>5. ASSUME NEW r \in RunIds, NEW outcome \in Outcomes, Finished(r, outcome)
      PROVE  ReferencesAreContiguous'
  <2>1. run[r] \in Rows
    BY <1>5 DEF Finished
  <2>2. run'[r] = [run[r] EXCEPT !.status = outcome.status, !.outcome = outcome]
    BY <1>5 DEF Finished
  <2>3. run'[r].reference = run[r].reference /\ run'[r] # None
    <3>1. run'[r] \in Rows
      BY <2>1, <2>2 DEF Rows, Outcomes
    <3>. QED  BY <2>1, <2>2, <3>1, NoneIsNoValue DEF Rows
  <2>4. Issued' = Issued
    BY <1>5, <2>3 DEF Finished, Issued, Exists
  <2>5. \A q \in Issued : run'[q].reference = run[q].reference
    BY <1>5, <2>3 DEF Finished, Issued
  <2>6. last_reference' = last_reference
    BY <1>5 DEF Finished
  <2>. QED  BY <1>1, <2>4, <2>5, <2>6
<1>6. RunsUntouched => ReferencesAreContiguous'
  BY <1>1 DEF RunsUntouched, Issued, Exists
<1>. QED  BY <1>2, <1>3, <1>4, <1>5, <1>6, StepCases

\* However many submissions are refused, the references on record are
\* 1, 2, ... without a gap and without a repeat.
THEOREM References ==
    StoreSpec => []ReferencesHaveNoGap /\ []ReferencesAreDistinct
<1>1. StoreInit => ReferencesAreContiguous
  <2>1. StoreInit => Issued = {} /\ last_reference = 0
    BY DEF StoreInit, Issued, Exists
  <2>. QED
    BY <2>1 DEF ReferencesAreContiguous, ReferencesHaveNoGap,
                ReferencesAreDistinct
<1>2. StoreSpec => []ReferencesAreContiguous
  BY <1>1, ReferenceStep, TypeCorrect, PTL DEF StoreSpec
<1>. QED  BY <1>2, PTL DEF ReferencesAreContiguous
-----------------------------------------------------------------------------
(* What a stored run cites is on record, and stays as it was recorded.     *)

LEMMA ProvenanceStep ==
    TypeOK /\ ProvenanceIsBacked /\ [StoreNext]_vars => ProvenanceIsBacked'
<1>. SUFFICES ASSUME TypeOK, ProvenanceIsBacked, [StoreNext]_vars,
                     NEW q \in RunIds, run'[q] # None
              PROVE  /\ pipeline_snapshot'[PipelineOf[run'[q].inputs]] # None
                     /\ run'[q].calibration \in assumption_set'
                     /\ IdentityOf[run'[q].calibration] = ClaimOf[run'[q].inputs]
  BY DEF ProvenanceIsBacked, Issued, Exists
<1>. USE DEF TypeOK
<1>1. \A h \in Pipelines : pipeline_snapshot[h] # None
                             => pipeline_snapshot'[h] = pipeline_snapshot[h]
  BY StepCases DEF snapshots
<1>2. assumption_set \subseteq assumption_set'
  BY StepCases DEF snapshots
<1>3. ASSUME run[q] # None, run'[q].inputs = run[q].inputs,
             run'[q].calibration = run[q].calibration
      PROVE  /\ pipeline_snapshot'[PipelineOf[run'[q].inputs]] # None
             /\ run'[q].calibration \in assumption_set'
             /\ IdentityOf[run'[q].calibration] = ClaimOf[run'[q].inputs]
  <2>1. run[q] \in Rows
    BY <1>3
  <2>2. PipelineOf[run[q].inputs] \in Pipelines
    BY <2>1, StoreConstants DEF Rows
  <2>. QED
    BY <1>1, <1>2, <1>3, <2>2 DEF ProvenanceIsBacked, Issued, Exists
<1>4. ASSUME NEW r \in RunIds, NEW s \in Submissions, Opened(r, s), r = q,
             UNCHANGED snapshots
      PROVE  /\ pipeline_snapshot'[PipelineOf[run'[q].inputs]] # None
             /\ run'[q].calibration \in assumption_set'
             /\ IdentityOf[run'[q].calibration] = ClaimOf[run'[q].inputs]
  <2>1. run'[q].inputs = s.inputs /\ run'[q].calibration = s.calibration
    BY <1>4 DEF Opened
  <2>. QED  BY <1>4, <2>1 DEF Opened, CalibrationMatches, snapshots
<1>5. ASSUME NEW r \in RunIds, NEW s \in Submissions, Opened(r, s), r # q
      PROVE  run'[q] = run[q]
  BY <1>5 DEF Opened
<1>6. ASSUME NEW r \in RunIds, Started(r)
      PROVE  /\ run[q] # None
             /\ run'[q].inputs = run[q].inputs
             /\ run'[q].calibration = run[q].calibration
  <2>1. CASE r = q
    <3>1. run[q] \in Rows
      BY <1>6, <2>1 DEF Started
    <3>2. run'[q] = [run[q] EXCEPT !.status = "running"]
      BY <1>6, <2>1 DEF Started
    <3>. QED  BY <1>6, <2>1, <3>1, <3>2 DEF Rows, Started
  <2>2. CASE r # q
    BY <1>6, <2>2 DEF Started
  <2>. QED  BY <2>1, <2>2
<1>7. ASSUME NEW r \in RunIds, NEW outcome \in Outcomes, Finished(r, outcome)
      PROVE  /\ run[q] # None
             /\ run'[q].inputs = run[q].inputs
             /\ run'[q].calibration = run[q].calibration
  <2>1. CASE r = q
    <3>1. run[q] \in Rows
      BY <1>7, <2>1 DEF Finished
    <3>2. run'[q] = [run[q] EXCEPT !.status = outcome.status,
                                   !.outcome = outcome]
      BY <1>7, <2>1 DEF Finished
    <3>. QED  BY <1>7, <2>1, <3>1, <3>2 DEF Rows, Finished
  <2>2. CASE r # q
    BY <1>7, <2>2 DEF Finished
  <2>. QED  BY <2>1, <2>2
<1>8. (\E r \in RunIds, batch \in Batches : Appended(r, batch)) \/ RunsUntouched
        => run'[q] = run[q]
  BY DEF Appended, RunsUntouched
<1>. QED  BY <1>3, <1>4, <1>5, <1>6, <1>7, <1>8, StepCases

\* Every run on record names a pipeline snapshot and a calibration that are on
\* record, and the calibration is the one its provenance claims.
THEOREM Provenance == StoreSpec => []ProvenanceIsBacked
<1>1. StoreInit => ProvenanceIsBacked
  BY DEF StoreInit, ProvenanceIsBacked, Issued, Exists
<1>. QED  BY <1>1, ProvenanceStep, TypeCorrect, PTL DEF StoreSpec

-----------------------------------------------------------------------------
(* A finished run is frozen.                                               *)

\* No later call of any worker, finisher or supervisor touches the row or the
\* log of a run that has ended.
THEOREM Immutability == StoreSpec => FinishedRunsAreFrozen
<1>1. ASSUME TypeOK, [StoreNext]_vars, NEW q \in RunIds, IsTerminal(q)
      PROVE  run'[q] = run[q] /\ run_event'[q] = run_event[q]
  <2>. USE <1>1 DEF TypeOK
  <2>1. ASSUME NEW r \in RunIds, NEW s \in Submissions, Opened(r, s)
        PROVE  run'[q] = run[q] /\ run_event'[q] = run_event[q]
    BY <2>1 DEF Opened, IsTerminal, Exists
  <2>2. ASSUME NEW r \in RunIds, Started(r)
        PROVE  run'[q] = run[q] /\ run_event'[q] = run_event[q]
    BY <2>2 DEF Started, IsTerminal, Terminal
  <2>3. ASSUME NEW r \in RunIds, NEW batch \in Batches, Appended(r, batch)
        PROVE  run'[q] = run[q] /\ run_event'[q] = run_event[q]
    BY <2>3 DEF Appended
  <2>4. ASSUME NEW r \in RunIds, NEW outcome \in Outcomes, Finished(r, outcome)
        PROVE  run'[q] = run[q] /\ run_event'[q] = run_event[q]
    BY <2>4 DEF Finished
  <2>. QED  BY <2>1, <2>2, <2>3, <2>4, StepCases DEF RunsUntouched
<1>2. TypeOK /\ [StoreNext]_vars
        => [\A r \in RunIds : IsTerminal(r)
              => run'[r] = run[r] /\ run_event'[r] = run_event[r]]_vars
  BY <1>1
<1>. QED  BY <1>2, TypeCorrect, PTL DEF StoreSpec, FinishedRunsAreFrozen

-----------------------------------------------------------------------------
(* The history of a run.                                                   *)

\* What HistoryIsAppendOnly says of one run in one step.
KeepsHistory(q) ==
    /\ run'[q] # None
    /\ run'[q].inputs = run[q].inputs
    /\ run'[q].reference = run[q].reference
    /\ LET h == PipelineOf[run[q].inputs]
       IN  pipeline_snapshot'[h] = pipeline_snapshot[h]
    /\ StatusRank(run'[q].status) >= StatusRank(run[q].status)
    /\ \A g \in Logged(q) : run_event'[q][g] = run_event[q][g]

LEMMA HistoryStepKeeps ==
    ASSUME TypeOK, ProvenanceIsBacked, [StoreNext]_vars, NEW q \in Issued
    PROVE  KeepsHistory(q)
<1>. USE DEF TypeOK
<1>0. run[q] \in Rows /\ run[q] # None /\ q \in RunIds
  BY DEF Issued, Exists
<1>1. LET h == PipelineOf[run[q].inputs]
      IN  pipeline_snapshot'[h] = pipeline_snapshot[h]
  <2>1. PipelineOf[run[q].inputs] \in Pipelines
    BY <1>0, StoreConstants DEF Rows
  <2>2. pipeline_snapshot[PipelineOf[run[q].inputs]] # None
    BY DEF ProvenanceIsBacked
  <2>. QED  BY <2>1, <2>2, StepCases DEF snapshots
<1>2. \A status : StatusRank(status) \in 0 .. 2
  BY DEF StatusRank
<1>3. CASE run'[q] = run[q] /\ run_event'[q] = run_event[q]
  BY <1>0, <1>1, <1>2, <1>3 DEF KeepsHistory
<1>4. ASSUME NEW r \in RunIds, NEW s \in Submissions, Opened(r, s)
      PROVE  run'[q] = run[q] /\ run_event'[q] = run_event[q]
  BY <1>0, <1>4 DEF Opened
<1>5. ASSUME NEW r \in RunIds, Started(r), r = q PROVE KeepsHistory(q)
  <2>1. run'[q] = [run[q] EXCEPT !.status = "running"]
    BY <1>0, <1>5 DEF Started
  <2>2. /\ run'[q] \in Rows /\ run'[q].inputs = run[q].inputs
        /\ run'[q].reference = run[q].reference /\ run'[q].status = "running"
    BY <1>0, <2>1 DEF Rows, InFlight
  <2>3. StatusRank(run'[q].status) >= StatusRank(run[q].status)
    BY <1>5, <2>2 DEF Started, StatusRank
  <2>. QED  BY <1>1, <1>5, <2>2, <2>3, NoneIsNoValue DEF KeepsHistory, Started
<1>6. ASSUME NEW r \in RunIds, NEW batch \in Batches, Appended(r, batch), r = q
      PROVE  KeepsHistory(q)
  <2>1. \A g \in Logged(q) : run_event'[q][g] = run_event[q][g]
    BY <1>0, <1>6 DEF Appended, Logged
  <2>2. run' = run
    BY <1>6 DEF Appended
  <2>. QED  BY <1>0, <1>1, <1>2, <2>1, <2>2 DEF KeepsHistory
<1>7. ASSUME NEW r \in RunIds, NEW outcome \in Outcomes, Finished(r, outcome),
             r = q
      PROVE  KeepsHistory(q)
  <2>1. run'[q] = [run[q] EXCEPT !.status = outcome.status, !.outcome = outcome]
    BY <1>0, <1>7 DEF Finished
  <2>2. outcome.status \in Terminal
    BY DEF Outcomes
  <2>3. /\ run'[q] \in Rows /\ run'[q].inputs = run[q].inputs
        /\ run'[q].reference = run[q].reference
        /\ run'[q].status = outcome.status
    BY <1>0, <2>1, <2>2 DEF Rows
  <2>4. StatusRank(run'[q].status) = 2
    BY <2>2, <2>3 DEF StatusRank, Terminal
  <2>5. StatusRank(run'[q].status) >= StatusRank(run[q].status)
    BY <1>2, <2>4
  <2>. QED  BY <1>1, <1>7, <2>3, <2>5, NoneIsNoValue DEF KeepsHistory, Finished
<1>8. ASSUME NEW r \in RunIds, r # q,
             \/ Started(r)
             \/ \E batch \in Batches : Appended(r, batch)
             \/ \E outcome \in Outcomes : Finished(r, outcome)
      PROVE  run'[q] = run[q] /\ run_event'[q] = run_event[q]
  BY <1>0, <1>8 DEF Started, Appended, Finished
<1>9. RunsUntouched => run'[q] = run[q] /\ run_event'[q] = run_event[q]
  BY DEF RunsUntouched
<1>. QED  BY <1>3, <1>4, <1>5, <1>6, <1>7, <1>8, <1>9, StepCases

\* From submission to its end a run keeps its inputs, its reference and the
\* snapshot it cites, its status only moves forward and its log only grows.
THEOREM HistoryIsKept == StoreSpec => HistoryIsAppendOnly
<1>1. TypeOK /\ ProvenanceIsBacked /\ [StoreNext]_vars
        => [\A r \in Issued : KeepsHistory(r)]_vars
  BY HistoryStepKeeps
<1>2. TypeOK /\ ProvenanceIsBacked /\ [StoreNext]_vars
        => [\A r \in Issued :
              /\ run'[r] # None
              /\ run'[r].inputs = run[r].inputs
              /\ run'[r].reference = run[r].reference
              /\ LET h == PipelineOf[run[r].inputs]
                 IN  pipeline_snapshot'[h] = pipeline_snapshot[h]
              /\ StatusRank(run'[r].status) >= StatusRank(run[r].status)
              /\ \A g \in Logged(r) : run_event'[r][g] = run_event[r][g]]_vars
  BY <1>1 DEF KeepsHistory
<1>. QED
  BY <1>2, TypeCorrect, Provenance, PTL DEF StoreSpec, HistoryIsAppendOnly
=============================================================================
