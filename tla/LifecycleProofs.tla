-------------------------- MODULE LifecycleProofs --------------------------
(* Theorems about RunLifecycle, for any number of runs and workers and in   *)
(* every RunnerMode: the service implements RunHistory.                     *)
EXTENDS RunLifecycle, RunStoreProofs, FiniteSetTheorems

(***************************************************************************)
(* Generations and the lengths of curves.                                  *)
(***************************************************************************)

LEMMA PlannedIsCounted == Planned \in Nat \ {0} /\ Generations = 1 .. Planned
<1>1. IsFiniteSet(Generations) /\ Generations # {}
  BY LifecycleConstants
<1>2. Cardinality(Generations) \in Nat
  BY <1>1, FS_CardinalityType
<1>3. Cardinality(Generations) # 0
  BY <1>1, FS_EmptySet
<1>. QED  BY <1>2, <1>3, LifecycleConstants DEF Planned

LEMMA LoggedIsCounted ==
    ASSUME NEW r \in RunIds
    PROVE  /\ IsFiniteSet(Logged(r))
           /\ Cardinality(Logged(r)) \in 0 .. Planned
<1>1. Logged(r) \subseteq Generations /\ IsFiniteSet(Generations)
  BY LifecycleConstants DEF Logged
<1>2. /\ IsFiniteSet(Logged(r))
      /\ Cardinality(Logged(r)) <= Cardinality(Generations)
  BY <1>1, FS_Subset
<1>3. Cardinality(Logged(r)) \in Nat
  BY <1>2, FS_CardinalityType
<1>. QED  BY <1>2, <1>3, PlannedIsCounted DEF Planned

LEMMA LengthIsCounted ==
    ASSUME NEW curve PROVE Length(curve) \in 0 .. Planned
<1>. DEFINE carried == {g \in Generations : curve[g] # None}
<1>1. carried \subseteq Generations /\ IsFiniteSet(Generations)
  BY LifecycleConstants
<1>2. /\ IsFiniteSet(carried)
      /\ Cardinality(carried) <= Cardinality(Generations)
  BY <1>1, FS_Subset
<1>3. Cardinality(carried) \in Nat
  BY <1>2, FS_CardinalityType
<1>. QED  BY <1>2, <1>3, PlannedIsCounted DEF Planned, Length

\* The events a worker sends come one at a time.
One(g, p) == <<[generation |-> g, point |-> p]>>

LEMMA OneEvent ==
    ASSUME NEW g, NEW p
    PROVE  /\ One(g, p) # <<>>
           /\ ~RepeatsWithin(One(g, p))
           /\ \A h : Mentions(One(g, p), h) <=> h = g
           /\ PointIn(One(g, p), g) = p
<1>1. DOMAIN One(g, p) = {1} /\ One(g, p)[1] = [generation |-> g, point |-> p]
  BY DEF One
<1>2. One(g, p) # <<>>
  BY DEF One
<1>3. ~RepeatsWithin(One(g, p))
  BY <1>1 DEF RepeatsWithin
<1>4. \A h : Mentions(One(g, p), h) <=> h = g
  BY <1>1 DEF Mentions
<1>5. (CHOOSE i \in DOMAIN One(g, p) : One(g, p)[i].generation = g) = 1
  BY <1>1
<1>6. PointIn(One(g, p), g) = p
  BY <1>1, <1>5 DEF PointIn
<1>. QED  BY <1>2, <1>3, <1>4, <1>6

(***************************************************************************)
(* The store's columns and what the worker and the callbacks hold.         *)
(***************************************************************************)

HeldTypeOK ==
    /\ TypeOK
    /\ job \in [RunIds -> Jobs]
    /\ step \in [RunIds -> Steps]
    /\ emitted \in [RunIds -> Curves]
    /\ readback \in [RunIds -> Curves]
    /\ cause \in [RunIds -> Causes]

\* The event of an accepted generation is on the log and nothing else moves; a
\* refused one ends the worker.
Accepted(r, g, p) ==
    /\ run[r] # None /\ ~IsTerminal(r)
    /\ g \notin Logged(r)
    /\ run_event' = [run_event EXCEPT ![r][g] = p]
    /\ UNCHANGED <<step, job, cause>>

LEMMA EmitCases ==
    ASSUME HeldTypeOK, NEW r \in RunIds, Emit(r)
    PROVE  \E p \in Points :
             LET g == Length(emitted[r]) + 1
             IN  /\ g \in Generations
                 /\ emitted' = [emitted EXCEPT ![r][g] = p]
                 /\ run' = run
                 /\ UNCHANGED <<snapshots, last_reference, readback>>
                 /\ \/ Accepted(r, g, p)
                    \/ run_event' = run_event /\ Ends(r, "raised")
<1>. DEFINE g == Length(emitted[r]) + 1
<1>1. PICK p \in Points :
         /\ emitted' = [emitted EXCEPT ![r][g] = p]
         /\ AppendEvents(r, One(g, p))
         /\ IF AppendVerdict(r, One(g, p)) = "appended"
            THEN UNCHANGED <<step, job, cause>>
            ELSE Ends(r, "raised")
  BY DEF Emit, One
<1>2. g \in Generations
  <2>1. Length(emitted[r]) \in 0 .. Planned /\ Length(emitted[r]) < Planned
    BY LengthIsCounted DEF Emit
  <2>. QED  BY <2>1, PlannedIsCounted
<1>3. /\ run' = run
      /\ UNCHANGED <<snapshots, last_reference, readback>>
  BY <1>1 DEF AppendEvents, Emit
<1>4. CASE AppendVerdict(r, One(g, p)) = "appended"
  <2>1. run[r] # None /\ ~IsTerminal(r) /\ \A h \in Logged(r) : ~Mentions(One(g, p), h)
    BY <1>4 DEF AppendVerdict, Exists
  <2>2. g \notin Logged(r)
    BY <2>1, OneEvent
  <2>3. run_event' = [run_event EXCEPT ![r] =
                  [h \in Generations |->
                      IF Mentions(One(g, p), h) THEN PointIn(One(g, p), h)
                                                ELSE run_event[r][h]]]
    BY <1>1, <1>4 DEF AppendEvents
  <2>4. run_event[r] \in [Generations -> Points \cup {None}]
    BY DEF HeldTypeOK, TypeOK, Curves
  <2>5. [h \in Generations |->
                      IF Mentions(One(g, p), h) THEN PointIn(One(g, p), h)
                                                ELSE run_event[r][h]]
          = [run_event[r] EXCEPT ![g] = p]
    BY <2>4, OneEvent
  <2>6. run_event' = [run_event EXCEPT ![r][g] = p]
    BY <2>3, <2>5
  <2>7. UNCHANGED <<step, job, cause>>
    BY <1>1, <1>4
  <2>. QED  BY <1>1, <1>2, <1>3, <2>1, <2>2, <2>6, <2>7 DEF Accepted
<1>5. CASE AppendVerdict(r, One(g, p)) # "appended"
  BY <1>1, <1>2, <1>3, <1>5 DEF AppendEvents
<1>. QED  BY <1>4, <1>5

LEMMA SuccessIsStorable ==
    ASSUME HeldTypeOK, NEW r \in RunIds, run[r] # None
    PROVE  /\ run[r] \in Rows /\ run[r].inputs \in Inputs
           /\ Succeeded(r) \in Outcomes
<1>1. run[r] \in Rows
  BY DEF HeldTypeOK, TypeOK
<1>2. run[r].inputs \in Inputs /\ run[r].eligible \in CandidateLists
  BY <1>1 DEF Rows
<1>3. (CHOOSE x \in Results : TRUE) \in Results
  BY LifecycleConstants
<1>. QED  BY <1>1, <1>2, <1>3 DEF Succeeded, Outcomes, Terminal, HeldTypeOK

LEMMA FailureIsStorable ==
    ASSUME HeldTypeOK, NEW r \in RunIds
    PROVE  Stopped(r) \in Outcomes
<1>1. (CHOOSE x \in Results : TRUE) \in Results
  BY LifecycleConstants
<1>2. (CHOOSE w \in Reasons : TRUE) \in Reasons
  BY LifecycleConstants
<1>. QED  BY <1>1, <1>2 DEF Stopped, Outcomes, Terminal, HeldTypeOK

\* A finish either writes the outcome of a run that is in flight, or nothing.
Closed(r, outcome) ==
    /\ run[r] # None /\ ~IsTerminal(r)
    /\ outcome \in Outcomes /\ CurveAgrees(r, outcome)
    /\ run' = [run EXCEPT ![r].status = outcome.status, ![r].outcome = outcome]
    /\ UNCHANGED <<snapshots, last_reference, run_event>>

LEMMA FinishCases ==
    ASSUME HeldTypeOK, NEW r \in RunIds, NEW outcome,
           run[r] # None => outcome \in Outcomes,
           FinishRun(r, run[r].inputs, outcome)
    PROVE  \/ /\ FinishVerdict(r, run[r].inputs, outcome) = "finished"
              /\ Closed(r, outcome)
           \/ UNCHANGED tables
<1>1. CASE FinishVerdict(r, run[r].inputs, outcome) = "finished"
  <2>1. run[r] # None /\ ~IsTerminal(r) /\ CurveAgrees(r, outcome)
    BY <1>1 DEF FinishVerdict, Exists
  <2>. QED  BY <1>1, <2>1 DEF FinishRun, Closed, snapshots
<1>2. CASE FinishVerdict(r, run[r].inputs, outcome) # "finished"
  BY <1>2 DEF FinishRun, snapshots, tables
<1>. QED  BY <1>1, <1>2

\* Every step of the service is a step of the store, or leaves it alone.
LEMMA StepOfTheStore ==
    ASSUME HeldTypeOK, [LifecycleNext]_everything
    PROVE  [StoreNext]_vars
<1>1. CASE UNCHANGED tables
  BY <1>1 DEF vars, tables
<1>2. CASE RecordWhatItCites
  BY <1>2 DEF RecordWhatItCites, StoreNext
<1>3. ASSUME NEW r \in RunIds, Post(r) PROVE StoreNext
  BY <1>3 DEF Post, StoreNext, RunStep
<1>4. ASSUME NEW r \in RunIds, Start(r) PROVE StoreNext
  BY <1>4 DEF Start, StoreNext, RunStep
<1>5. ASSUME NEW r \in RunIds, Emit(r) PROVE StoreNext
  <2>. DEFINE g == Length(emitted[r]) + 1
  <2>1. g \in Generations
    BY <1>5, EmitCases
  <2>2. PICK p \in Points : AppendEvents(r, One(g, p))
    BY <1>5 DEF Emit, One
  <2>3. One(g, p) \in Batches
    BY <2>1, LifecycleConstants DEF One, Events
  <2>. QED  BY <2>2, <2>3 DEF StoreNext, RunStep
<1>6. ASSUME NEW r \in RunIds, NEW outcome,
             run[r] # None => outcome \in Outcomes,
             FinishRun(r, run[r].inputs, outcome)
      PROVE  StoreNext \/ UNCHANGED tables
  <2>1. CASE run[r] # None
    <3>1. run[r].inputs \in Inputs
      BY <2>1, SuccessIsStorable
    <3>. QED  BY <1>6, <2>1, <3>1 DEF StoreNext, RunStep
  <2>2. CASE run[r] = None
    BY <1>6, <2>2, FinishCases DEF Closed
  <2>. QED  BY <2>1, <2>2
<1>7. ASSUME NEW r \in RunIds, Store(r) PROVE StoreNext \/ UNCHANGED tables
  BY <1>6, <1>7, SuccessIsStorable DEF Store
<1>8. ASSUME NEW r \in RunIds, Record(r) PROVE StoreNext \/ UNCHANGED tables
  BY <1>6, <1>8, FailureIsStorable DEF Record
<1>9. ASSUME NEW r \in RunIds,
             \/ SubmitInline(r) \/ SubmitToPool(r) \/ ReportFailure(r)
             \/ BuildRecord(r) \/ ReadLog(r) \/ Executor(r) \/ Load(r)
             \/ Return(r) \/ Raises(r) \/ WorkerDies(r)
      PROVE  UNCHANGED tables
  BY <1>9
  DEF SubmitInline, SubmitToPool, ReportFailure, BuildRecord, ReadLog, Executor,
      Call, Take, CancelPending, Load, Return, Raises, WorkerDies
<1>10. ASSUME \/ ShutDown \/ IdleWorkerDies \/ NoticeDeath \/ TerminateWorkers
              \/ Crash \/ Restart \/ UNCHANGED everything
       PROVE  UNCHANGED tables
  BY <1>10
  DEF ShutDown, IdleWorkerDies, NoticeDeath, TerminateWorkers, Crash, Restart,
      everything
<1>. QED
  BY <1>1, <1>2, <1>3, <1>4, <1>5, <1>7, <1>8, <1>9, <1>10
  DEF LifecycleNext, Handler, Worker

LEMMA HeldTypeStep ==
    ASSUME HeldTypeOK, [LifecycleNext]_everything
    PROVE  HeldTypeOK'
<1>. USE DEF HeldTypeOK
<1>. DEFINE Held == /\ job \in [RunIds -> Jobs]
                    /\ step \in [RunIds -> Steps]
                    /\ emitted \in [RunIds -> Curves]
                    /\ readback \in [RunIds -> Curves]
                    /\ cause \in [RunIds -> Causes]
<1>. SUFFICES Held'
  BY StepOfTheStore, TypeStep
<1>a. /\ "raised" \in Jobs /\ "none" \in Jobs /\ "lost" \in Jobs
      /\ "dead" \in Steps /\ "broken pool" \in Causes
  BY DEF Jobs, Futures, Callbacks, Steps, Causes
<1>b. UNCHANGED <<job, step, emitted, readback, cause>> => Held'
  OBVIOUS
<1>6. ASSUME NEW r \in RunIds, WorkerDies(r) PROVE Held'
  BY <1>a, <1>6 DEF WorkerDies
<1>7. CASE RecordWhatItCites \/ ShutDown \/ IdleWorkerDies \/ Restart
             \/ UNCHANGED everything
  BY <1>b, <1>7
  DEF RecordWhatItCites, ShutDown, IdleWorkerDies, Restart, everything
<1>8. CASE NoticeDeath
  BY <1>a, <1>8 DEF NoticeDeath
<1>9. CASE TerminateWorkers
  BY <1>a, <1>9 DEF TerminateWorkers
<1>10. CASE Crash
  BY <1>a, <1>10 DEF Crash
<1>. USE DEF Jobs, Futures, Callbacks, Steps, Working, Causes
<1>1. ASSUME NEW r \in RunIds, Post(r) \/ Handler(r) PROVE Held'
  <2>1. CASE Post(r) \/ SubmitInline(r) \/ SubmitToPool(r)
    BY <2>1 DEF Post, SubmitInline, SubmitToPool
  <2>2. CASE ReportFailure(r) \/ BuildRecord(r) \/ Store(r)
    BY <2>2 DEF ReportFailure, BuildRecord, Store, GoesToFailed
  <2>3. CASE ReadLog(r) \/ Record(r)
    <3>1. run_event[r] \in Curves
      BY DEF TypeOK
    <3>. QED  BY <2>3, <3>1 DEF ReadLog, Record
  <2>. QED  BY <1>1, <2>1, <2>2, <2>3 DEF Handler
<1>2. ASSUME NEW r \in RunIds, Executor(r) PROVE Held'
  BY <1>2 DEF Executor, Call, Take, CancelPending
<1>3. ASSUME NEW r \in RunIds, NEW how \in Jobs, Ends(r, how)
      PROVE  /\ job' \in [RunIds -> Jobs] /\ step' \in [RunIds -> Steps]
             /\ cause' \in [RunIds -> Causes]
  BY <1>3 DEF Ends
<1>4. ASSUME NEW r \in RunIds, Load(r) \/ Start(r) \/ Return(r) \/ Raises(r)
      PROVE  Held'
  <2>1. UNCHANGED <<emitted, readback>>
    BY <1>4 DEF Load, Start, Return, Raises
  <2>2. \/ Ends(r, "raised") \/ Ends(r, "returned")
        \/ /\ step' = [step EXCEPT ![r] = "starting"] \/ step' = [step EXCEPT ![r] = "searching"]
           /\ UNCHANGED <<job, cause>>
    BY <1>4 DEF Load, Start, Return, Raises
  <2>. QED  BY <1>3, <2>1, <2>2
<1>5. ASSUME NEW r \in RunIds, Emit(r) PROVE Held'
  <2>. DEFINE g == Length(emitted[r]) + 1
  <2>1. PICK p \in Points :
          /\ g \in Generations
          /\ emitted' = [emitted EXCEPT ![r][g] = p]
          /\ readback' = readback
          /\ UNCHANGED <<step, job, cause>> \/ Ends(r, "raised")
    BY <1>5, EmitCases DEF Accepted
  <2>2. [emitted[r] EXCEPT ![g] = p] \in Curves
    BY <2>1 DEF Curves
  <2>3. emitted' \in [RunIds -> Curves]
    BY <2>1, <2>2
  <2>. QED  BY <1>3, <2>1, <2>3
<1>. QED
  BY <1>1, <1>2, <1>4, <1>5, <1>6, <1>7, <1>8, <1>9, <1>10
  DEF LifecycleNext, Worker

(***************************************************************************)
(* What a worker and the callbacks know of the run they act for.           *)
(***************************************************************************)

Begun(r) == Exists(r) /\ run[r].status # "queued"

\* A run someone acts for has a row.
OnRecord(r) == job[r] # "none" => Exists(r)

\* Nobody works on a run before a worker has taken it, nor has it begun.
NotYet(r) ==
    /\ job[r] \in {"none", "accepted", "pending", "called"} => step[r] = "off"
    /\ step[r] = "off" => Status(r) # "running"

\* The worker's own list is the log as long as the worker lives.
LogsWhatItYields(r) ==
    /\ step[r] \in {"off"} \cup Working => emitted[r] = run_event[r]
    /\ step[r] = "searching" => Begun(r)

\* A search that has returned was whole, and all of it is on the log.
ReturnsAWholeSearch(r) ==
    job[r] \in {"returned", "storing"} =>
        /\ step[r] = "done" /\ Begun(r)
        /\ emitted[r] = run_event[r]
        /\ Length(emitted[r]) = Planned

\* A run whose future was cancelled has not been touched by a worker.
CancelledBeforeStart(r) ==
    cause[r] = "cancelled" =>
        /\ step[r] = "off"
        /\ job[r] \in {"cancelled", "failing", "recording", "settled", "lost"}

\* What _failed has read is still on the log, behind whatever came since.
ReadsAPrefix(r) ==
    job[r] = "recording" =>
        \A g \in Generations : readback[r][g] # None
                                 => run_event[r][g] = readback[r][g]

Orderly(r) == /\ NotYet(r) /\ LogsWhatItYields(r) /\ ReturnsAWholeSearch(r)
              /\ CancelledBeforeStart(r) /\ ReadsAPrefix(r)

LifecycleInv == HeldTypeOK /\ \A r \in RunIds : OnRecord(r) /\ Orderly(r)

\* Nothing that Orderly speaks of has changed for the run.
Same(q) == /\ job'[q] = job[q] /\ step'[q] = step[q] /\ cause'[q] = cause[q]
           /\ emitted'[q] = emitted[q] /\ readback'[q] = readback[q]
           /\ run'[q] = run[q] /\ run_event'[q] = run_event[q]

LEMMA SameStaysOrderly ==
    ASSUME NEW q, Orderly(q), Same(q) PROVE Orderly(q)'
BY DEF Orderly, Same, NotYet, LogsWhatItYields, ReturnsAWholeSearch,
       CancelledBeforeStart, ReadsAPrefix, Status, Begun, Exists, Length

\* An action of one run leaves the others as they are.
LEMMA OthersAreSame ==
    ASSUME HeldTypeOK, NEW r \in RunIds, NEW q \in RunIds, r # q,
           Post(r) \/ Handler(r) \/ Executor(r) \/ Worker(r) \/ Raises(r)
             \/ WorkerDies(r)
    PROVE  Same(q)
<1>. USE DEF HeldTypeOK, TypeOK
<1>1. CASE Emit(r)
  <2>1. \E p \in Points :
          /\ emitted' = [emitted EXCEPT ![r][Length(emitted[r]) + 1] = p]
          /\ readback' = readback /\ run' = run
          /\ run_event' = run_event
               \/ run_event' = [run_event EXCEPT ![r][Length(emitted[r]) + 1] = p]
          /\ UNCHANGED <<step, job, cause>> \/ Ends(r, "raised")
    BY <1>1, EmitCases DEF Accepted
  <2>. QED  BY <2>1 DEF Same, Ends
<1>2. CASE Post(r)
  BY <1>2 DEF Post, OpenRun, Same
<1>3. CASE Start(r)
  BY <1>3 DEF Start, StartRun, Same, Ends
<1>4. CASE Store(r) \/ Record(r)
  <2>1. run'[q] = run[q] /\ run_event'[q] = run_event[q]
    BY <1>4 DEF Store, Record, FinishRun, tables
  <2>. QED  BY <1>4, <2>1 DEF Store, Record, Same, GoesToFailed
<1>5. CASE \/ SubmitInline(r) \/ SubmitToPool(r) \/ ReportFailure(r)
           \/ BuildRecord(r) \/ ReadLog(r) \/ Executor(r) \/ Load(r)
           \/ Return(r) \/ Raises(r) \/ WorkerDies(r)
  <2>1. run' = run /\ run_event' = run_event
    BY <1>5
    DEF SubmitInline, SubmitToPool, ReportFailure, BuildRecord, ReadLog, Executor,
        Call, Take, CancelPending, Load, Return, Raises, WorkerDies, tables
  <2>2. CASE SubmitInline(r) \/ SubmitToPool(r) \/ ReportFailure(r)
               \/ BuildRecord(r) \/ ReadLog(r)
    BY <2>1, <2>2
    DEF Same, SubmitInline, SubmitToPool, ReportFailure, BuildRecord, ReadLog,
        GoesToFailed
  <2>3. CASE Executor(r)
    BY <2>1, <2>3 DEF Same, Executor, Call, Take, CancelPending
  <2>4. CASE Load(r) \/ Return(r) \/ Raises(r) \/ WorkerDies(r)
    BY <2>1, <2>4 DEF Same, Load, Return, Raises, WorkerDies, Ends
  <2>. QED  BY <1>5, <2>2, <2>3, <2>4
<1>. QED
  BY <1>1, <1>2, <1>3, <1>4, <1>5 DEF Handler, Worker

\* The request.
LEMMA RequestStaysOrderly ==
    ASSUME HeldTypeOK, NEW q \in RunIds, Orderly(q),
           Post(q) \/ SubmitInline(q) \/ SubmitToPool(q)
    PROVE  Orderly(q)'
<1>. USE DEF HeldTypeOK, TypeOK
<1>1. CASE Post(q)
  <2>1. PICK s \in Submissions : OpenVerdict(q, s) = "opened" /\ OpenRun(q, s)
    BY <1>1 DEF Post
  <2>2. run' = [run EXCEPT ![q] =
                      [reference |-> last_reference + 1, inputs |-> s.inputs,
                       calibration |-> s.calibration, eligible |-> s.eligible,
                       status |-> "queued", outcome |-> None]]
    BY <2>1 DEF OpenRun
  <2>3. run'[q].status = "queued" /\ run_event' = run_event
    BY <2>1, <2>2 DEF OpenRun
  <2>4. /\ step'[q] = "off" /\ job'[q] = "accepted" /\ cause'[q] # "cancelled"
        /\ emitted' = emitted /\ emitted[q] = run_event[q]
    BY <1>1 DEF Post, Orderly, NotYet, LogsWhatItYields, CancelledBeforeStart
  <2>. QED
    BY <2>3, <2>4
    DEF Orderly, NotYet, LogsWhatItYields, ReturnsAWholeSearch,
        CancelledBeforeStart, ReadsAPrefix, Status
<1>2. CASE SubmitInline(q)
  <2>1. /\ step'[q] = "loading" /\ job'[q] = "inline" /\ cause'[q] # "cancelled"
        /\ emitted' = emitted /\ emitted[q] = run_event[q]
        /\ run_event' = run_event
    BY <1>2
    DEF SubmitInline, Orderly, NotYet, LogsWhatItYields, CancelledBeforeStart,
        tables
  <2>. QED
    BY <2>1
    DEF Orderly, NotYet, LogsWhatItYields, ReturnsAWholeSearch,
        CancelledBeforeStart, ReadsAPrefix
<1>3. CASE SubmitToPool(q)
  <2>1. /\ step'[q] = "off" /\ job'[q] \in {"pending", "failing"}
        /\ cause'[q] \in {"none", "error"}
        /\ emitted' = emitted /\ emitted[q] = run_event[q]
        /\ run_event' = run_event /\ run' = run /\ Status(q) # "running"
    BY <1>3
    DEF SubmitToPool, Orderly, NotYet, LogsWhatItYields, CancelledBeforeStart,
        tables
  <2>. QED
    BY <2>1
    DEF Orderly, NotYet, LogsWhatItYields, ReturnsAWholeSearch,
        CancelledBeforeStart, ReadsAPrefix, Status, Exists
<1>. QED  BY <1>1, <1>2, <1>3

\* The executor, and the worker it runs.
LEMMA ExecutorStaysOrderly ==
    ASSUME HeldTypeOK, NEW q \in RunIds, Orderly(q), Executor(q)
    PROVE  Orderly(q)'
<1>. USE DEF HeldTypeOK, TypeOK
<1>1. /\ step[q] = "off" /\ job[q] \in {"pending", "called"}
      /\ cause[q] # "cancelled" /\ emitted[q] = run_event[q]
      /\ Status(q) # "running"
  BY DEF Executor, Call, Take, CancelPending, Orderly, NotYet, LogsWhatItYields,
         CancelledBeforeStart
<1>2. /\ emitted' = emitted /\ run_event' = run_event /\ run' = run
      /\ \/ step'[q] = "off" /\ job'[q] = "called" /\ cause' = cause
         \/ step'[q] = "off" /\ job'[q] = "cancelled"
         \/ step'[q] = "loading" /\ job'[q] = "executing" /\ cause' = cause
  BY <1>1 DEF Executor, Call, Take, CancelPending, tables
<1>. QED
  BY <1>1, <1>2
  DEF Orderly, NotYet, LogsWhatItYields, ReturnsAWholeSearch,
      CancelledBeforeStart, ReadsAPrefix, Status, Exists

\* A worker that has ended, one way or another, returned nothing: no future
\* holds a result of its.
LEMMA EndedStaysOrderly ==
    ASSUME HeldTypeOK, NEW q \in RunIds, Orderly(q),
           step[q] \in Working, step'[q] \in {"done", "dead"},
           job'[q] = job[q] \/ (job[q] \in {"executing", "inline"} /\ job'[q] = "raised"),
           cause'[q] \in {cause[q], "error"},
           readback' = readback, run_event' = run_event
    PROVE  Orderly(q)'
<1>1. job[q] \notin {"returned", "storing"} /\ cause[q] # "cancelled"
  BY DEF Orderly, ReturnsAWholeSearch, CancelledBeforeStart, Working
<1>. QED
  BY <1>1
  DEF Orderly, NotYet, LogsWhatItYields, ReturnsAWholeSearch,
      CancelledBeforeStart, ReadsAPrefix, Working, HeldTypeOK

LEMMA WorkerStaysOrderly ==
    ASSUME HeldTypeOK, NEW q \in RunIds, OnRecord(q), Orderly(q),
           Worker(q) \/ Raises(q) \/ WorkerDies(q)
    PROVE  Orderly(q)'
<1>. USE DEF HeldTypeOK, TypeOK
<1>1. CASE Load(q)
  <2>1. /\ step[q] = "loading" /\ step'[q] = "starting"
        /\ UNCHANGED <<run, run_event, job, emitted, readback, cause>>
    BY <1>1 DEF Load, tables
  <2>. QED
    BY <2>1
    DEF Orderly, NotYet, LogsWhatItYields, ReturnsAWholeSearch, Working,
        CancelledBeforeStart, ReadsAPrefix
<1>2. CASE Raises(q) \/ WorkerDies(q)
  <2>1. /\ step[q] \in Working /\ step'[q] \in {"done", "dead"}
        /\ job'[q] = job[q]
             \/ (job[q] \in {"executing", "inline"} /\ job'[q] = "raised")
        /\ cause'[q] \in {cause[q], "error"}
        /\ readback' = readback /\ run_event' = run_event
    BY <1>2 DEF Raises, WorkerDies, Ends, tables
  <2>. QED  BY <2>1, EndedStaysOrderly
<1>3. CASE Start(q)
  <2>1. step[q] = "starting" /\ readback' = readback /\ emitted' = emitted
        /\ run_event' = run_event
    BY <1>3 DEF Start, StartRun
  <2>2. CASE StartVerdict(q) \in {"started", "already running"}
    <3>1. step'[q] = "searching" /\ UNCHANGED <<job, cause>>
      BY <1>3, <2>2 DEF Start
    <3>2. run'[q] # None /\ run'[q].status = "running"
      <4>1. run[q] # None /\ run[q] \in Rows
        BY <2>1 DEF OnRecord, Orderly, NotYet, Exists
      <4>2. CASE StartVerdict(q) = "started"
        <5>1. run'[q] = [run[q] EXCEPT !.status = "running"]
          BY <1>3, <4>2 DEF Start, StartRun
        <5>2. run'[q] \in Rows /\ run'[q].status = "running"
          BY <4>1, <5>1 DEF Rows, InFlight
        <5>. QED  BY <5>2, NoneIsNoValue
      <4>3. CASE StartVerdict(q) = "already running"
        <5>1. run[q].status = "running" /\ run' = run
          BY <1>3, <4>1, <4>3 DEF Start, StartRun, StartVerdict
        <5>. QED  BY <4>1, <5>1
      <4>. QED  BY <2>2, <4>2, <4>3
    <3>. QED
      BY <2>1, <3>1, <3>2
      DEF Orderly, NotYet, LogsWhatItYields, ReturnsAWholeSearch, Working,
          CancelledBeforeStart, ReadsAPrefix, Begun, Exists
  <2>3. CASE StartVerdict(q) \notin {"started", "already running"}
    <3>1. Ends(q, "raised")
      BY <1>3, <2>3 DEF Start
    <3>2. /\ step'[q] = "done"
          /\ job'[q] = job[q]
               \/ (job[q] \in {"executing", "inline"} /\ job'[q] = "raised")
          /\ cause'[q] \in {cause[q], "error"}
      BY <3>1 DEF Ends
    <3>. QED  BY <2>1, <3>2, EndedStaysOrderly DEF Working
  <2>. QED  BY <2>2, <2>3
<1>4. CASE Return(q)
  <2>1. /\ step[q] = "searching" /\ step'[q] = "done" /\ Begun(q)
        /\ emitted[q] = run_event[q] /\ Length(emitted[q]) = Planned
        /\ UNCHANGED <<run, run_event, emitted, readback, cause>>
        /\ job'[q] \in {job[q], "returned"}
    BY <1>4 DEF Return, Ends, Orderly, LogsWhatItYields, Working, tables
  <2>2. CASE job'[q] = "returned"
    BY <2>1, <2>2
    DEF Orderly, NotYet, LogsWhatItYields, ReturnsAWholeSearch, Working,
        CancelledBeforeStart, ReadsAPrefix, Begun, Exists, Length
  <2>3. CASE job'[q] = job[q]
    BY <2>1, <2>3, EndedStaysOrderly DEF Working
  <2>. QED  BY <2>1, <2>2, <2>3
<1>5. CASE Emit(q)
  <2>. DEFINE g == Length(emitted[q]) + 1
  <2>1. PICK p \in Points :
          /\ g \in Generations
          /\ emitted' = [emitted EXCEPT ![q][g] = p]
          /\ run' = run /\ readback' = readback
          /\ \/ Accepted(q, g, p)
             \/ run_event' = run_event /\ Ends(q, "raised")
    BY <1>5, EmitCases
  <2>2. step[q] = "searching" /\ emitted[q] = run_event[q] /\ Begun(q)
        /\ job[q] \notin {"returned", "storing"} /\ cause[q] # "cancelled"
        /\ job[q] \notin {"none", "accepted", "pending", "called"}
    BY <1>5
    DEF Emit, Orderly, NotYet, LogsWhatItYields, ReturnsAWholeSearch,
        CancelledBeforeStart, Working
  <2>3. CASE Accepted(q, g, p)
    <3>1. /\ run_event' = [run_event EXCEPT ![q][g] = p]
          /\ UNCHANGED <<step, job, cause>> /\ g \notin Logged(q)
      BY <2>3 DEF Accepted
    <3>2. emitted'[q] = run_event'[q]
      BY <2>1, <2>2, <3>1
    <3>3. run_event[q] \in [Generations -> Points \cup {None}]
      BY DEF Curves
    <3>4. \A h \in Generations : run_event[q][h] # None
                                   => run_event'[q][h] = run_event[q][h]
      BY <3>1, <3>3 DEF Logged
    <3>5. ReadsAPrefix(q)'
      BY <2>1, <3>1, <3>4, NoneIsNoValue DEF Orderly, ReadsAPrefix
    <3>. QED
      BY <2>1, <2>2, <3>1, <3>2, <3>5
      DEF Orderly, NotYet, LogsWhatItYields, ReturnsAWholeSearch, Working,
          CancelledBeforeStart, Begun, Exists
  <2>4. CASE run_event' = run_event /\ Ends(q, "raised")
    <3>1. /\ step'[q] = "done"
          /\ job'[q] = job[q]
               \/ (job[q] \in {"executing", "inline"} /\ job'[q] = "raised")
          /\ cause'[q] \in {cause[q], "error"}
      BY <2>4 DEF Ends
    <3>. QED  BY <2>1, <2>2, <2>4, <3>1, EndedStaysOrderly DEF Working
  <2>. QED  BY <2>1, <2>3, <2>4
<1>. QED  BY <1>1, <1>2, <1>3, <1>4, <1>5 DEF Worker

\* The callbacks.
LEMMA CallbackStaysOrderly ==
    ASSUME HeldTypeOK, NEW q \in RunIds, Orderly(q),
           ReportFailure(q) \/ BuildRecord(q) \/ Store(q) \/ ReadLog(q) \/ Record(q)
    PROVE  Orderly(q)'
<1>. USE DEF HeldTypeOK, TypeOK
<1>1. CASE ReportFailure(q)
  <2>1. /\ job[q] \in {"raised", "cancelled"} /\ job'[q] = "failing"
        /\ UNCHANGED <<run, run_event, step, emitted, readback, cause>>
    BY <1>1 DEF ReportFailure, tables
  <2>. QED
    BY <2>1
    DEF Orderly, NotYet, LogsWhatItYields, ReturnsAWholeSearch,
        CancelledBeforeStart, ReadsAPrefix, Begun, Status, Exists
<1>2. CASE BuildRecord(q)
  <2>1. /\ job[q] = "returned"
        /\ \/ job'[q] = "storing" /\ cause' = cause
           \/ job'[q] = "failing" /\ cause'[q] = "error"
        /\ UNCHANGED <<run, run_event, step, emitted, readback>>
    BY <1>2 DEF BuildRecord, GoesToFailed, tables
  <2>. QED
    BY <2>1
    DEF Orderly, NotYet, LogsWhatItYields, ReturnsAWholeSearch, Length,
        CancelledBeforeStart, ReadsAPrefix, Begun, Status, Exists
<1>3. CASE Store(q)
  <2>1. /\ job[q] = "storing" /\ step[q] = "done" /\ cause[q] # "cancelled"
        /\ UNCHANGED <<run_event, step, emitted, readback>>
        /\ \/ job'[q] = "settled" /\ cause' = cause
           \/ job'[q] = "failing" /\ cause'[q] = "error"
    BY <1>3
    DEF Store, GoesToFailed, FinishRun, tables, Orderly, ReturnsAWholeSearch,
        CancelledBeforeStart
  <2>. QED
    BY <2>1
    DEF Orderly, NotYet, LogsWhatItYields, ReturnsAWholeSearch, Working,
        CancelledBeforeStart, ReadsAPrefix
<1>4. CASE ReadLog(q)
  <2>1. /\ job[q] = "failing" /\ job'[q] = "recording"
        /\ readback'[q] = run_event[q]
        /\ UNCHANGED <<run, run_event, step, emitted, cause>>
    BY <1>4 DEF ReadLog, tables
  <2>. QED
    BY <2>1
    DEF Orderly, NotYet, LogsWhatItYields, ReturnsAWholeSearch,
        CancelledBeforeStart, ReadsAPrefix, Begun, Status, Exists
<1>5. CASE Record(q)
  <2>0. run' = run \/ Closed(q, Stopped(q))
    <3>1. FinishRun(q, run[q].inputs, Stopped(q)) /\ Stopped(q) \in Outcomes
      BY <1>5, FailureIsStorable DEF Record
    <3>2. Closed(q, Stopped(q)) \/ UNCHANGED tables
      BY <3>1, FinishCases
    <3>. QED  BY <3>2 DEF tables
  <2>1. /\ job[q] = "recording" /\ job'[q] = "settled"
        /\ UNCHANGED <<run_event, step, emitted, readback, cause>>
    BY <1>5 DEF Record, FinishRun
  <2>2. CASE run' = run
    BY <2>1, <2>2
    DEF Orderly, NotYet, LogsWhatItYields, ReturnsAWholeSearch,
        CancelledBeforeStart, ReadsAPrefix, Begun, Status, Exists
  <2>3. CASE Closed(q, Stopped(q))
    <3>1. run[q] \in Rows /\ Stopped(q) \in Outcomes
      BY <2>3 DEF Closed
    <3>2. Stopped(q).status \in Terminal
      BY <3>1 DEF Outcomes
    <3>3. run'[q] = [run[q] EXCEPT !.status = Stopped(q).status,
                                   !.outcome = Stopped(q)]
      BY <2>3 DEF Closed
    <3>4. run'[q].status \in Terminal
      BY <3>1, <3>2, <3>3 DEF Rows
    <3>5. Status(q)' # "running" /\ (Begun(q) => Begun(q)')
      <4>1. run'[q] \in Rows
        BY <3>1, <3>2, <3>3 DEF Rows
      <4>. QED  BY <3>4, <4>1, NoneIsNoValue DEF Status, Begun, Exists, Terminal
    <3>. QED
      BY <2>1, <3>5
      DEF Orderly, NotYet, LogsWhatItYields, ReturnsAWholeSearch, Working,
          CancelledBeforeStart, ReadsAPrefix
  <2>. QED  BY <2>0, <2>2, <2>3
<1>. QED  BY <1>1, <1>2, <1>3, <1>4, <1>5

\* What the executor, the operator or a crash does to every run at once.
LEMMA ServerStaysOrderly ==
    ASSUME HeldTypeOK, NEW q \in RunIds, Orderly(q),
           \/ RecordWhatItCites \/ ShutDown \/ IdleWorkerDies \/ NoticeDeath
           \/ TerminateWorkers \/ Crash \/ Restart \/ UNCHANGED everything
    PROVE  Orderly(q)'
<1>. USE DEF HeldTypeOK, TypeOK
<1>1. CASE RecordWhatItCites
  <2>1. UNCHANGED <<run, run_event>>
    BY <1>1
    DEF RecordWhatItCites, SnapshotStep, RecordAssumptionSet,
        RecordPipelineSnapshot
  <2>. QED  BY <1>1, <2>1, SameStaysOrderly DEF Same, RecordWhatItCites
<1>2. CASE ShutDown \/ IdleWorkerDies \/ Restart \/ UNCHANGED everything
  BY <1>2, SameStaysOrderly
  DEF Same, ShutDown, IdleWorkerDies, Restart, everything, tables
<1>3. CASE NoticeDeath
  <2>1. /\ UNCHANGED <<run, run_event, step, emitted, readback>>
        /\ \/ job'[q] = job[q] /\ cause'[q] = cause[q]
           \/ /\ job[q] \in Futures
              /\ job'[q] = "raised" /\ cause'[q] = "broken pool"
    BY <1>3 DEF NoticeDeath, tables
  <2>. QED
    BY <2>1
    DEF Futures, Orderly, NotYet, LogsWhatItYields, ReturnsAWholeSearch, Length,
        CancelledBeforeStart, ReadsAPrefix, Begun, Status, Exists
<1>4. ASSUME UNCHANGED <<run, run_event, emitted, readback, cause>>,
             \/ step'[q] = step[q]
             \/ step[q] \in Working /\ step'[q] = "dead",
             job'[q] = job[q] \/ (job[q] # "none" /\ job'[q] = "lost")
      PROVE  Orderly(q)'
  BY <1>4
  DEF Working, Orderly, NotYet, LogsWhatItYields, ReturnsAWholeSearch, Length,
      CancelledBeforeStart, ReadsAPrefix, Begun, Status, Exists
<1>5. CASE TerminateWorkers
  BY <1>4, <1>5 DEF TerminateWorkers, InPool, tables
<1>6. CASE Crash
  BY <1>4, <1>6 DEF Crash, tables
<1>. QED  BY <1>1, <1>2, <1>3, <1>5, <1>6

\* A row is never taken out of the table, and only Post names a new run.
LEMMA RowsRemain ==
    ASSUME HeldTypeOK, [LifecycleNext]_everything, NEW q \in RunIds, Exists(q)
    PROVE  Exists(q)'
<1>. USE DEF HeldTypeOK, TypeOK
<1>0. run[q] \in Rows
  BY DEF Exists
<1>1. CASE run'[q] = run[q]
  BY <1>1 DEF Exists
<1>2. CASE Post(q)
  BY <1>2 DEF Post, OpenVerdict, Exists
<1>3. CASE Start(q)
  <2>1. [run[q] EXCEPT !.status = "running"] \in Rows
    BY <1>0 DEF Rows, InFlight
  <2>2. run'[q] \in {run[q], [run[q] EXCEPT !.status = "running"]}
    BY <1>3 DEF Start, StartRun
  <2>. QED  BY <1>0, <2>1, <2>2, NoneIsNoValue DEF Exists
<1>4. ASSUME NEW outcome \in Outcomes, FinishRun(q, run[q].inputs, outcome)
      PROVE  Exists(q)'
  <2>1. outcome.status \in Terminal
    BY DEF Outcomes
  <2>2. [run[q] EXCEPT !.status = outcome.status, !.outcome = outcome] \in Rows
    BY <1>0, <2>1 DEF Rows
  <2>3. run'[q] \in {run[q], [run[q] EXCEPT !.status = outcome.status,
                                          !.outcome = outcome]}
    BY <1>4 DEF FinishRun
  <2>. QED  BY <1>0, <2>2, <2>3, NoneIsNoValue DEF Exists
<1>5. CASE Store(q)
  BY <1>1, <1>4, <1>5, SuccessIsStorable DEF Store, Exists, tables
<1>6. CASE Record(q)
  BY <1>4, <1>6, FailureIsStorable DEF Record
<1>7. ASSUME NEW r \in RunIds, r # q,
             Post(r) \/ Handler(r) \/ Executor(r) \/ Worker(r) \/ Raises(r)
               \/ WorkerDies(r)
      PROVE  run'[q] = run[q]
  BY <1>7, OthersAreSame DEF Same
<1>8. CASE Emit(q)
  BY <1>1, <1>8, EmitCases
<1>9. CASE \/ SubmitInline(q) \/ SubmitToPool(q) \/ ReportFailure(q)
           \/ BuildRecord(q) \/ ReadLog(q) \/ Executor(q) \/ Load(q)
           \/ Return(q) \/ Raises(q) \/ WorkerDies(q)
  <2>1. run' = run
    BY <1>9
    DEF SubmitInline, SubmitToPool, ReportFailure, BuildRecord, ReadLog, Executor,
        Call, Take, CancelPending, Load, Return, Raises, WorkerDies, tables
  <2>. QED  BY <1>1, <2>1
<1>10. CASE \/ RecordWhatItCites \/ ShutDown \/ IdleWorkerDies \/ NoticeDeath
            \/ TerminateWorkers \/ Crash \/ Restart \/ UNCHANGED everything
  <2>1. run' = run
    BY <1>10
    DEF RecordWhatItCites, SnapshotStep, RecordAssumptionSet,
        RecordPipelineSnapshot, ShutDown, IdleWorkerDies, NoticeDeath,
        TerminateWorkers, Crash, Restart, everything, tables
  <2>. QED  BY <1>1, <2>1
<1>. QED
  BY <1>1, <1>2, <1>3, <1>5, <1>6, <1>7, <1>8, <1>9, <1>10
  DEF LifecycleNext, Handler, Worker

LEMMA NamedRunsAreOnRecord ==
    ASSUME HeldTypeOK, [LifecycleNext]_everything, NEW q \in RunIds,
           job[q] = "none", step[q] = "off", job'[q] # "none"
    PROVE  Exists(q)'
<1>. USE DEF HeldTypeOK, TypeOK
<1>1. CASE Post(q)
  <2>1. PICK s \in Submissions : OpenVerdict(q, s) = "opened" /\ OpenRun(q, s)
    BY <1>1 DEF Post
  <2>. DEFINE row == [reference |-> last_reference + 1, inputs |-> s.inputs,
                      calibration |-> s.calibration, eligible |-> s.eligible,
                      status |-> "queued", outcome |-> None]
  <2>2. row \in Rows
    BY DEF Rows, Submissions, InFlight
  <2>3. run'[q] = row
    BY <2>1 DEF OpenRun
  <2>. QED  BY <2>2, <2>3, NoneIsNoValue DEF Exists
<1>2. ASSUME NEW r \in RunIds, r # q,
             Post(r) \/ Handler(r) \/ Executor(r) \/ Worker(r) \/ Raises(r)
               \/ WorkerDies(r)
      PROVE  FALSE
  BY <1>2, OthersAreSame DEF Same
<1>3. CASE Handler(q) \/ Executor(q)
  BY <1>3
  DEF Handler, SubmitInline, SubmitToPool, ReportFailure, BuildRecord, Store,
      ReadLog, Record, Executor, Call, Take, CancelPending
<1>4. CASE Worker(q) \/ Raises(q) \/ WorkerDies(q)
  BY <1>4 DEF Worker, Load, Start, Emit, Return, Raises, WorkerDies, Working
<1>5. CASE \/ RecordWhatItCites \/ ShutDown \/ IdleWorkerDies \/ NoticeDeath
           \/ TerminateWorkers \/ Crash \/ Restart \/ UNCHANGED everything
  BY <1>5
  DEF RecordWhatItCites, ShutDown, IdleWorkerDies, NoticeDeath,
      TerminateWorkers, Crash, Restart, everything, Futures
<1>. QED  BY <1>1, <1>2, <1>3, <1>4, <1>5 DEF LifecycleNext

LEMMA LifecycleInvStep ==
    LifecycleInv /\ [LifecycleNext]_everything => LifecycleInv'
<1>. SUFFICES ASSUME LifecycleInv, [LifecycleNext]_everything
              PROVE  LifecycleInv'
  OBVIOUS
<1>1. HeldTypeOK'
  BY HeldTypeStep DEF LifecycleInv
<1>2. ASSUME NEW q \in RunIds PROVE OnRecord(q)' /\ Orderly(q)'
  <2>1. HeldTypeOK /\ OnRecord(q) /\ Orderly(q)
    BY DEF LifecycleInv
  <2>7. OnRecord(q)'
    BY <2>1, RowsRemain, NamedRunsAreOnRecord DEF OnRecord, Orderly, NotYet
  <2>. SUFFICES Orderly(q)'
    BY <2>7
  <2>2. ASSUME NEW r \in RunIds, r # q,
               Post(r) \/ Handler(r) \/ Executor(r) \/ Worker(r) \/ Raises(r)
                 \/ WorkerDies(r)
        PROVE  Orderly(q)'
    BY <2>1, <2>2, OthersAreSame, SameStaysOrderly
  <2>3. CASE Post(q) \/ Handler(q)
    BY <2>1, <2>3, RequestStaysOrderly, CallbackStaysOrderly DEF Handler
  <2>4. CASE Executor(q)
    BY <2>1, <2>4, ExecutorStaysOrderly
  <2>5. CASE Worker(q) \/ Raises(q) \/ WorkerDies(q)
    BY <2>1, <2>5, WorkerStaysOrderly
  <2>6. CASE \/ RecordWhatItCites \/ ShutDown \/ IdleWorkerDies \/ NoticeDeath
             \/ TerminateWorkers \/ Crash \/ Restart \/ UNCHANGED everything
    BY <2>1, <2>6, ServerStaysOrderly
  <2>. QED  BY <2>2, <2>3, <2>4, <2>5, <2>6 DEF LifecycleNext
<1>. QED  BY <1>1, <1>2 DEF LifecycleInv

LEMMA LifecycleInvInit == LifecycleInit => LifecycleInv
<1>. SUFFICES ASSUME LifecycleInit PROVE LifecycleInv
  OBVIOUS
<1>1. TypeOK
  BY DEF LifecycleInit, StoreInit, TypeOK, Curves, NoCurve
<1>2. NoCurve \in Curves
  BY DEF NoCurve, Curves
<1>3. HeldTypeOK
  BY <1>1, <1>2 DEF LifecycleInit, HeldTypeOK, Jobs, Steps, Causes
<1>4. ASSUME NEW q \in RunIds PROVE OnRecord(q) /\ Orderly(q)
  BY DEF LifecycleInit, StoreInit, OnRecord, Orderly, NotYet, LogsWhatItYields, Status,
         ReturnsAWholeSearch, CancelledBeforeStart, ReadsAPrefix, Exists
<1>. QED  BY <1>3, <1>4 DEF LifecycleInv

\* The invariant of the service, and with it the type of what its parts hold.
THEOREM LifecycleInvariant == LifecycleSpec => []LifecycleInv
BY LifecycleInvInit, LifecycleInvStep, PTL DEF LifecycleSpec

\* Whatever the pool, the workers and the callbacks do, the tables see nothing
\* but operations of the store: what RunStoreProofs shows of StoreSpec holds of
\* the service.
THEOREM ServiceRunsOnTheStore == LifecycleSpec => StoreSpec
<1>1. LifecycleInit => StoreInit
  BY DEF LifecycleInit
<1>2. LifecycleInv /\ [LifecycleNext]_everything => [StoreNext]_vars
  BY StepOfTheStore DEF LifecycleInv
<1>. QED  BY <1>1, <1>2, LifecycleInvariant, PTL DEF LifecycleSpec, StoreSpec

\* So in the running service, too, a served curve is the log that was replayed,
\* a run that has ended is frozen, and a history is only ever added to.
THEOREM ServiceKeepsTheStore ==
    LifecycleSpec => /\ []ServedCurveIsTheLog /\ []ProvenanceIsBacked
                     /\ []ReferencesHaveNoGap /\ []ReferencesAreDistinct
                     /\ FinishedRunsAreFrozen /\ HistoryIsAppendOnly
BY ServiceRunsOnTheStore, CurveIsTheLog, Provenance, References, Immutability,
   HistoryIsKept, PTL

(***************************************************************************)
(* The refinement: each step of the service, seen through the table of     *)
(* runs and the log, is one step of RunHistory on one run, or none.        *)
(***************************************************************************)

Served(r) == IF IsTerminal(r) THEN Length(run[r].outcome.curve) ELSE 0

\* All runs but r are in the tables as before.
OnlyMoves(r) == \A q \in RunIds \ {r} :
                   run'[q] = run[q] /\ run_event'[q] = run_event[q]

LEMMA SeenThroughOne ==
    ASSUME NEW r \in RunIds, OnlyMoves(r)
    PROVE  /\ [q \in RunIds |-> Status(q)]'
                = [[q \in RunIds |-> Status(q)] EXCEPT ![r] = Status(r)']
           /\ [q \in RunIds |-> Cardinality(Logged(q))]'
                = [[q \in RunIds |-> Cardinality(Logged(q))]
                     EXCEPT ![r] = Cardinality(Logged(r))']
           /\ [q \in RunIds |-> Served(q)]'
                = [[q \in RunIds |-> Served(q)] EXCEPT ![r] = Served(r)']
<1>1. \A q \in RunIds \ {r} : Status(q)' = Status(q) /\ IsTerminal(q)' = IsTerminal(q)
                                /\ Served(q)' = Served(q)
  BY DEF OnlyMoves, Status, IsTerminal, Exists, Served, Length
<1>2. \A q \in RunIds \ {r} : Logged(q)' = Logged(q)
  BY DEF OnlyMoves, Logged
<1>3. \A q \in RunIds \ {r} : Cardinality(Logged(q))' = Cardinality(Logged(q))
  BY <1>2
<1>. QED  BY <1>1, <1>3

LEMMA ServedIsMapped ==
    [r \in RunIds |-> IF IsTerminal(r) THEN Length(run[r].outcome.curve) ELSE 0]
      = [r \in RunIds |-> Served(r)]
BY DEF Served

\* Steps that touch neither table are not seen.
LEMMA UnseenStep ==
    ASSUME run' = run, run_event' = run_event
    PROVE  UNCHANGED History!history
<1>1. \A q \in RunIds : /\ Status(q)' = Status(q) /\ Logged(q)' = Logged(q)
                        /\ IsTerminal(q)' = IsTerminal(q)
  BY DEF Status, Logged, IsTerminal, Exists
<1>2. \A q \in RunIds : Cardinality(Logged(q))' = Cardinality(Logged(q))
  BY <1>1
<1>3. \A q \in RunIds : Length(run[q].outcome.curve)' = Length(run[q].outcome.curve)
  BY DEF Length
<1>. QED  BY <1>1, <1>2, <1>3 DEF History!history

LEMMA AcceptStep ==
    ASSUME HeldTypeOK, NEW r \in RunIds, OnlyMoves(r),
           run[r] = None, run'[r] \in Rows, run'[r].status = "queued",
           run_event' = run_event
    PROVE  History!Accept(r)
<1>1. Status(r) = "absent" /\ Status(r)' = "queued"
  BY NoneIsNoValue DEF Status, Exists
<1>2. Served(r) = 0 /\ Served(r)' = 0
  BY DEF Served, IsTerminal, Exists, Terminal
<1>3. Cardinality(Logged(r))' = Cardinality(Logged(r))
  BY DEF Logged
<1>4. /\ [q \in RunIds |-> Cardinality(Logged(q))]'
           = [q \in RunIds |-> Cardinality(Logged(q))]
      /\ [q \in RunIds |-> Served(q)]' = [q \in RunIds |-> Served(q)]
  BY <1>2, <1>3, SeenThroughOne
<1>. QED  BY <1>1, <1>4, SeenThroughOne, ServedIsMapped DEF History!Accept, Served

LEMMA BeginStep ==
    ASSUME HeldTypeOK, NEW r \in RunIds, OnlyMoves(r),
           run[r] \in Rows, run[r].status = "queued",
           run'[r] \in Rows, run'[r].status = "running", run_event' = run_event
    PROVE  History!Begin(r)
<1>1. Status(r) = "queued" /\ Status(r)' = "running"
  BY NoneIsNoValue DEF Status, Exists
<1>2. Served(r) = 0 /\ Served(r)' = 0
  BY DEF Served, IsTerminal, Exists, Terminal
<1>3. Cardinality(Logged(r))' = Cardinality(Logged(r))
  BY DEF Logged
<1>4. /\ [q \in RunIds |-> Cardinality(Logged(q))]'
           = [q \in RunIds |-> Cardinality(Logged(q))]
      /\ [q \in RunIds |-> Served(q)]' = [q \in RunIds |-> Served(q)]
  BY <1>2, <1>3, SeenThroughOne
<1>. QED  BY <1>1, <1>4, SeenThroughOne, ServedIsMapped DEF History!Begin, Served

LEMMA ProgressStep ==
    ASSUME HeldTypeOK, NEW r \in RunIds, NEW g \in Generations, NEW p \in Points,
           run' = run, run[r] # None, run[r].status = "running",
           g \notin Logged(r), run_event' = [run_event EXCEPT ![r][g] = p]
    PROVE  History!Progress(r)
<1>1. run_event[r] \in [Generations -> Points \cup {None}]
  BY DEF HeldTypeOK, TypeOK, Curves
<1>2. Logged(r)' = Logged(r) \cup {g}
  BY <1>1, NoneIsNoValue DEF Logged, HeldTypeOK, TypeOK
<1>3. IsFiniteSet(Logged(r)) /\ Cardinality(Logged(r)) \in Nat
  BY LoggedIsCounted
<1>4. Cardinality(Logged(r))' = Cardinality(Logged(r)) + 1
  BY <1>2, <1>3, FS_AddElement
<1>5. Cardinality(Logged(r)) < Planned
  <2>1. Logged(r) \cup {g} \subseteq Generations /\ IsFiniteSet(Generations)
    BY LifecycleConstants DEF Logged
  <2>2. Cardinality(Logged(r) \cup {g}) <= Planned
    BY <2>1, FS_Subset DEF Planned
  <2>3. Cardinality(Logged(r) \cup {g}) = Cardinality(Logged(r)) + 1
    BY <1>3, FS_AddElement
  <2>. QED  BY <1>3, <2>2, <2>3, PlannedIsCounted
<1>6. OnlyMoves(r)
  BY DEF OnlyMoves, HeldTypeOK, TypeOK
<1>7. Status(r) = "running" /\ Status(r)' = Status(r)
  BY DEF Status, Exists
<1>8. Served(r) = 0 /\ Served(r)' = 0
  BY DEF Served, IsTerminal, Terminal, Exists
<1>9. /\ [q \in RunIds |-> Status(q)]' = [q \in RunIds |-> Status(q)]
      /\ [q \in RunIds |-> Served(q)]' = [q \in RunIds |-> Served(q)]
  BY <1>6, <1>7, <1>8, SeenThroughOne
<1>10. [q \in RunIds |-> Cardinality(Logged(q))]'
         = [[q \in RunIds |-> Cardinality(Logged(q))]
              EXCEPT ![r] = Cardinality(Logged(r)) + 1]
  BY <1>4, <1>6, SeenThroughOne
<1>. QED
  BY <1>5, <1>7, <1>9, <1>10, ServedIsMapped DEF History!Progress, Served

LEMMA EndStep ==
    ASSUME HeldTypeOK, NEW r \in RunIds, NEW outcome, Closed(r, outcome),
           Length(outcome.curve) = Cardinality(Logged(r)),
           outcome.status = "succeeded" =>
               Begun(r) /\ Cardinality(Logged(r)) = Planned,
           outcome.status = "cancelled" => Status(r) = "queued"
    PROVE  \E how \in History!Stopped : History!End(r, how)
<1>1. run[r] \in Rows /\ outcome \in Outcomes
  BY DEF Closed, HeldTypeOK, TypeOK
<1>2. run[r].status \in {"queued", "running"} /\ outcome.status \in Terminal
  BY <1>1 DEF Closed, IsTerminal, Exists, Rows, InFlight, Outcomes
<1>3. run'[r] = [run[r] EXCEPT !.status = outcome.status, !.outcome = outcome]
  BY DEF Closed, HeldTypeOK, TypeOK
<1>4. /\ run'[r] \in Rows /\ run'[r].status = outcome.status
      /\ run'[r].outcome = outcome
  BY <1>1, <1>2, <1>3 DEF Rows
<1>5. Status(r) = run[r].status /\ Status(r)' = outcome.status
  BY <1>4, NoneIsNoValue DEF Closed, Status, Exists
<1>6. Served(r)' = Cardinality(Logged(r))
  <2>1. IsTerminal(r)'
    BY <1>2, <1>4, NoneIsNoValue DEF IsTerminal, Exists
  <2>2. Served(r)' = Length(outcome.curve)
    BY <1>4, <2>1 DEF Served, Length
  <2>. QED  BY <2>2
<1>7. OnlyMoves(r)
  BY DEF OnlyMoves, Closed, HeldTypeOK, TypeOK
<1>8. Cardinality(Logged(r))' = Cardinality(Logged(r))
  BY DEF Closed, Logged
<1>9. [q \in RunIds |-> Cardinality(Logged(q))]'
        = [q \in RunIds |-> Cardinality(Logged(q))]
  BY <1>7, <1>8, SeenThroughOne
<1>10. History!MayEndAs(r, outcome.status)
  BY <1>2, <1>5 DEF History!MayEndAs, History!Unfinished, Begun
<1>11. History!End(r, outcome.status)
  BY <1>5, <1>6, <1>7, <1>9, <1>10, SeenThroughOne, ServedIsMapped
  DEF History!End, Served
<1>. QED  BY <1>2, <1>11 DEF History!Stopped, Terminal

\* A record that ends a run carries what was logged: all of a whole search for
\* a success, and for a failure what _failed read, an empty log included.
LEMMA SuccessCarriesTheLog ==
    ASSUME HeldTypeOK, NEW r \in RunIds, Orderly(r), job[r] = "storing"
    PROVE  /\ Begun(r)
           /\ Length(Succeeded(r).curve) = Cardinality(Logged(r))
           /\ Cardinality(Logged(r)) = Planned
<1>1. Begun(r) /\ emitted[r] = run_event[r] /\ Length(emitted[r]) = Planned
  BY DEF Orderly, ReturnsAWholeSearch
<1>2. Length(emitted[r]) = Cardinality(Logged(r))
  BY <1>1 DEF Length, Logged
<1>3. Succeeded(r).curve = emitted[r]
  BY DEF Succeeded
<1>. QED  BY <1>1, <1>2, <1>3

LEMMA FailureCarriesTheLog ==
    ASSUME HeldTypeOK, NEW r \in RunIds, Orderly(r), job[r] = "recording",
           CurveAgrees(r, Stopped(r))
    PROVE  Length(Stopped(r).curve) = Cardinality(Logged(r))
<1>1. Stopped(r).curve = readback[r]
  BY DEF Stopped
<1>2. CASE run_event[r] = readback[r]
  BY <1>1, <1>2 DEF Length, Logged
<1>3. CASE Logged(r) = {}
  <2>1. {g \in Generations : readback[r][g] # None} = {}
    BY <1>3 DEF Orderly, ReadsAPrefix, Logged
  <2>. QED  BY <1>1, <1>3, <2>1 DEF Length
<1>. QED  BY <1>1, <1>2, <1>3 DEF CurveAgrees

LEMMA ImplementsStep ==
    LifecycleInv /\ [LifecycleNext]_everything
        => [History!HistoryNext]_(History!history)
<1>. SUFFICES ASSUME LifecycleInv, [LifecycleNext]_everything
              PROVE  [History!HistoryNext]_(History!history)
  OBVIOUS
<1>. USE DEF History!HistoryNext, History!HistoryStep
<1>0. HeldTypeOK /\ \A r \in RunIds : OnRecord(r) /\ Orderly(r)
  BY DEF LifecycleInv
<1>1. CASE run' = run /\ run_event' = run_event
  BY <1>1, UnseenStep
<1>2. ASSUME NEW r \in RunIds, Post(r) PROVE History!Accept(r)
  <2>1. PICK s \in Submissions : OpenVerdict(r, s) = "opened" /\ OpenRun(r, s)
    BY <1>2 DEF Post
  <2>. DEFINE row == [reference |-> last_reference + 1, inputs |-> s.inputs,
                      calibration |-> s.calibration, eligible |-> s.eligible,
                      status |-> "queued", outcome |-> None]
  <2>2. run[r] = None /\ run' = [run EXCEPT ![r] = row] /\ run_event' = run_event
    BY <2>1 DEF OpenRun, OpenVerdict, Exists
  <2>3. row \in Rows
    BY <1>0 DEF HeldTypeOK, TypeOK, Rows, Submissions, InFlight
  <2>4. run'[r] = row /\ OnlyMoves(r)
    BY <1>0, <2>2 DEF HeldTypeOK, TypeOK, OnlyMoves
  <2>. QED  BY <1>0, <2>2, <2>3, <2>4, AcceptStep
<1>3. ASSUME NEW r \in RunIds, Start(r)
      PROVE  History!Begin(r) \/ (run' = run /\ run_event' = run_event)
  <2>1. run_event' = run_event
    BY <1>3 DEF Start, StartRun
  <2>2. CASE StartVerdict(r) = "started"
    <3>1. run[r] # None /\ run[r] \in Rows
      BY <1>0, <2>2 DEF StartVerdict, Exists, HeldTypeOK, TypeOK
    <3>2. run[r].status \in InFlight \cup Terminal
      BY <3>1 DEF Rows
    <3>3. run[r].status = "queued"
      BY <2>2, <3>1, <3>2 DEF StartVerdict, Exists, InFlight
    <3>4. run' = [run EXCEPT ![r].status = "running"]
      BY <1>3, <2>2 DEF Start, StartRun
    <3>5. run'[r] = [run[r] EXCEPT !.status = "running"] /\ OnlyMoves(r)
      BY <1>0, <2>1, <3>4 DEF HeldTypeOK, TypeOK, OnlyMoves
    <3>6. run'[r] \in Rows /\ run'[r].status = "running"
      BY <3>1, <3>5 DEF Rows, InFlight
    <3>. QED  BY <1>0, <2>1, <3>1, <3>3, <3>5, <3>6, BeginStep
  <2>3. CASE StartVerdict(r) # "started"
    BY <1>3, <2>1, <2>3 DEF Start, StartRun
  <2>. QED  BY <2>2, <2>3
<1>4. ASSUME NEW r \in RunIds, Emit(r)
      PROVE  History!Progress(r) \/ (run' = run /\ run_event' = run_event)
  <2>. DEFINE g == Length(emitted[r]) + 1
  <2>1. PICK p \in Points :
          g \in Generations /\ run' = run
            /\ (Accepted(r, g, p) \/ run_event' = run_event)
    BY <1>0, <1>4, EmitCases
  <2>2. CASE Accepted(r, g, p)
    <3>1. run[r] # None /\ run[r] \in Rows /\ ~IsTerminal(r)
      BY <1>0, <2>2 DEF Accepted, HeldTypeOK, TypeOK
    <3>2. run[r].status # "queued"
      BY <1>0, <1>4 DEF Emit, Orderly, LogsWhatItYields, Begun
    <3>3. run[r].status = "running"
      BY <3>1, <3>2 DEF IsTerminal, Exists, Rows, InFlight
    <3>4. g \notin Logged(r) /\ run_event' = [run_event EXCEPT ![r][g] = p]
      BY <2>2 DEF Accepted
    <3>. QED  BY <1>0, <2>1, <3>1, <3>3, <3>4, ProgressStep
  <2>. QED  BY <2>1, <2>2
<1>5. ASSUME NEW r \in RunIds, Store(r)
      PROVE  \/ \E how \in History!Stopped : History!End(r, how)
             \/ run' = run /\ run_event' = run_event
  <2>1. job[r] = "storing" /\ cause[r] # "cancelled"
    BY <1>0, <1>5 DEF Store, Orderly, CancelledBeforeStart
  <2>2. /\ Begun(r) /\ Length(Succeeded(r).curve) = Cardinality(Logged(r))
        /\ Cardinality(Logged(r)) = Planned
    BY <1>0, <2>1, SuccessCarriesTheLog
  <2>3. run[r] # None /\ Succeeded(r) \in Outcomes
    BY <1>0, <2>2, SuccessIsStorable DEF Begun, Exists
  <2>4. Closed(r, Succeeded(r)) \/ UNCHANGED tables
    BY <1>0, <1>5, <2>3, FinishCases DEF Store
  <2>5. Succeeded(r).status = "succeeded"
    BY DEF Succeeded
  <2>6. CASE Closed(r, Succeeded(r))
    BY <1>0, <2>2, <2>5, <2>6, EndStep
  <2>. QED  BY <2>4, <2>6 DEF tables
<1>6. ASSUME NEW r \in RunIds, Record(r)
      PROVE  \/ \E how \in History!Stopped : History!End(r, how)
             \/ run' = run /\ run_event' = run_event
  <2>1. job[r] = "recording" /\ Stopped(r) \in Outcomes
    BY <1>0, <1>6, FailureIsStorable DEF Record
  <2>2. FinishRun(r, run[r].inputs, Stopped(r))
    BY <1>6 DEF Record
  <2>3. Closed(r, Stopped(r)) \/ UNCHANGED tables
    BY <1>0, <2>1, <2>2, FinishCases
  <2>4. CASE Closed(r, Stopped(r))
    <3>1. Length(Stopped(r).curve) = Cardinality(Logged(r))
      BY <1>0, <2>1, <2>4, FailureCarriesTheLog DEF Closed
    <3>2. Stopped(r).status # "succeeded"
      BY DEF Stopped
    <3>3. Stopped(r).status = "cancelled" => cause[r] = "cancelled"
      BY DEF Stopped
    <3>4. cause[r] = "cancelled" => Status(r) # "running"
      BY <1>0 DEF Orderly, CancelledBeforeStart, NotYet
    <3>5. Status(r) \in {"queued", "running"}
      BY <1>0, <2>4
      DEF Closed, Status, Exists, IsTerminal, HeldTypeOK, TypeOK, Rows, InFlight
    <3>. QED  BY <1>0, <2>4, <3>1, <3>2, <3>3, <3>4, <3>5, EndStep
  <2>. QED  BY <2>3, <2>4 DEF tables
<1>7. ASSUME NEW r \in RunIds,
             \/ SubmitInline(r) \/ SubmitToPool(r) \/ ReportFailure(r)
             \/ BuildRecord(r) \/ ReadLog(r) \/ Executor(r) \/ Load(r)
             \/ Return(r) \/ Raises(r) \/ WorkerDies(r)
      PROVE  run' = run /\ run_event' = run_event
  BY <1>7
  DEF SubmitInline, SubmitToPool, ReportFailure, BuildRecord, ReadLog, Executor,
      Call, Take, CancelPending, Load, Return, Raises, WorkerDies, tables
<1>8. ASSUME \/ RecordWhatItCites \/ ShutDown \/ IdleWorkerDies \/ NoticeDeath
             \/ TerminateWorkers \/ Crash \/ Restart \/ UNCHANGED everything
      PROVE  run' = run /\ run_event' = run_event
  BY <1>8
  DEF RecordWhatItCites, SnapshotStep, RecordAssumptionSet,
      RecordPipelineSnapshot, ShutDown, IdleWorkerDies, NoticeDeath,
      TerminateWorkers, Crash, Restart, everything, tables
<1>9. (\E r \in RunIds :
          \/ History!Accept(r) \/ History!Begin(r) \/ History!Progress(r)
          \/ \E how \in History!Stopped : History!End(r, how))
        => History!HistoryNext
  OBVIOUS
<1>. HIDE DEF History!HistoryNext, History!HistoryStep
<1>. QED
  BY <1>1, <1>2, <1>3, <1>4, <1>5, <1>6, <1>7, <1>8, <1>9
  DEF LifecycleNext, Handler, Worker

\* Whatever the pool, the workers, the callbacks, a shutdown or a crash do, a
\* reader of the store sees a run accepted, begun, logged generation by
\* generation and ended once, its record carrying the generations logged.
THEOREM Implementation == LifecycleSpec => ImplementsHistory
<1>1. LifecycleInit => History!HistoryInit
  <2>. SUFFICES ASSUME LifecycleInit PROVE History!HistoryInit
    OBVIOUS
  <2>1. \A r \in RunIds : /\ Status(r) = "absent" /\ ~IsTerminal(r)
                          /\ Logged(r) = {}
    BY DEF LifecycleInit, StoreInit, Status, IsTerminal, Exists, Logged, NoCurve
  <2>2. \A r \in RunIds : Cardinality(Logged(r)) = 0
    BY <2>1, FS_EmptySet
  <2>. QED  BY <2>1, <2>2 DEF History!HistoryInit
<1>2. LifecycleSpec => [][History!HistoryNext]_(History!history)
  BY LifecycleInvariant, ImplementsStep, PTL DEF LifecycleSpec
<1>. QED
  BY <1>1, <1>2, PTL DEF LifecycleSpec, ImplementsHistory, History!HistorySpec

(***************************************************************************)
(* The pool.                                                               *)
(***************************************************************************)

\* The runs that workers of the present executor are executing.
PoolRuns == {r \in RunIds : InPool(r)}

\* Each has a worker of its own that is alive; until a death is noticed its
\* future is still running, and a server that is down has no futures.
PoolInv ==
    /\ server \in {"up", "down", "again"} /\ released \in BOOLEAN
    /\ executor \in {"open", "shut", "broken"}
    /\ workers \in 0 .. MaxWorkers
    /\ IsFiniteSet(PoolRuns) /\ Cardinality(PoolRuns) <= workers
    /\ executor # "broken" => \A r \in PoolRuns : job[r] = "executing"
    /\ server = "down" => \A r \in RunIds : job[r] \in {"none", "lost"}

LEMMA FewerInThePool ==
    ASSUME PoolInv, PoolRuns' \subseteq PoolRuns
    PROVE  /\ IsFiniteSet(PoolRuns)'
           /\ Cardinality(PoolRuns)' <= Cardinality(PoolRuns)
           /\ Cardinality(PoolRuns) \in Nat /\ Cardinality(PoolRuns)' \in Nat
<1>1. IsFiniteSet(PoolRuns)
  BY DEF PoolInv
<1>2. /\ IsFiniteSet(PoolRuns')
      /\ Cardinality(PoolRuns') <= Cardinality(PoolRuns)
  BY <1>1, FS_Subset
<1>. QED  BY <1>1, <1>2, FS_CardinalityType

\* Nobody joins the pool but by Take.
LEMMA NobodyJoins ==
    ASSUME HeldTypeOK, PoolInv,
           \A q \in RunIds : \/ step'[q] \notin Working
                             \/ job'[q] \in {"inline", "lost"}
                             \/ /\ InPool(q)
                                /\ job'[q] = job[q] \/ executor' = "broken",
           workers' = workers, server' = server, released' \in BOOLEAN,
           executor' \in {executor, "shut", "broken"},
           executor = "broken" => executor' = "broken",
           server # "down" \/ job' = job
    PROVE  PoolInv'
<1>1. PoolRuns' \subseteq PoolRuns
  BY DEF PoolRuns, InPool
<1>2. IsFiniteSet(PoolRuns)' /\ Cardinality(PoolRuns)' <= workers'
  <2>1. workers \in Nat
    BY LifecycleConstants DEF PoolInv
  <2>. QED  BY <1>1, <2>1, FewerInThePool DEF PoolInv
<1>3. executor' # "broken" => \A r \in PoolRuns' : job'[r] = "executing"
  BY DEF PoolRuns, InPool, PoolInv
<1>4. server' = "down" => \A r \in RunIds : job'[r] \in {"none", "lost"}
  BY DEF PoolInv
<1>. QED  BY <1>2, <1>3, <1>4 DEF PoolInv

LEMMA OneRunStaysOut ==
    ASSUME HeldTypeOK, PoolInv, NEW r \in RunIds, UNCHANGED pool,
           job' \in [RunIds -> Jobs],
           \A q \in RunIds \ {r} : job'[q] = job[q] /\ step'[q] = step[q],
           \/ step'[r] \notin Working
           \/ job'[r] \in {"inline", "lost"}
           \/ InPool(r) /\ (job'[r] = job[r] \/ executor = "broken"),
           job[r] \in {"none", "lost"} => job'[r] = job[r] \/ server # "down"
    PROVE  PoolInv'
<1>1. \A q \in RunIds \ {r} : \/ step'[q] \notin Working
                              \/ job'[q] \in {"inline", "lost"}
                              \/ InPool(q) /\ job'[q] = job[q]
  BY DEF InPool
<1>2. server # "down" \/ job' = job
  <2>1. ASSUME server = "down" PROVE \A q \in RunIds : job'[q] = job[q]
    BY <2>1 DEF PoolInv
  <2>. QED  BY <2>1 DEF HeldTypeOK
<1>3. UNCHANGED <<workers, server, released, executor>> /\ released \in BOOLEAN
  BY DEF pool, PoolInv
<1>. QED  BY <1>1, <1>2, <1>3, NobodyJoins

LEMMA HandlerKeepsThePool ==
    ASSUME LifecycleInv, PoolInv, [LifecycleNext]_everything,
           NEW r \in RunIds, Post(r) \/ Handler(r)
    PROVE  PoolInv'
<1>1. HeldTypeOK /\ job' \in [RunIds -> Jobs] /\ NotYet(r)
  BY HeldTypeStep DEF LifecycleInv, Orderly, HeldTypeOK
<1>2. \A q \in RunIds \ {r} : job'[q] = job[q] /\ step'[q] = step[q]
  BY <1>1, OthersAreSame DEF Same
<1>3. UNCHANGED pool
  BY DEF Post, Handler, SubmitInline, SubmitToPool, ReportFailure, BuildRecord,
         Store, ReadLog, Record
<1>4. job[r] \in {"none", "lost"} => server # "down"
  BY DEF Post, Handler, SubmitInline, SubmitToPool, ReportFailure, BuildRecord,
         Store, ReadLog, Record
<1>5. \/ job'[r] = "inline"
      \/ step'[r] = "off"
      \/ step'[r] = step[r] /\ job[r] \notin {"none", "executing", "inline", "lost"}
  BY <1>1
  DEF Post, Handler, SubmitInline, SubmitToPool, ReportFailure, BuildRecord,
      Store, ReadLog, Record, NotYet, HeldTypeOK
<1>6. \/ step'[r] \notin Working
      \/ job'[r] = "inline"
      \/ InPool(r) /\ executor = "broken"
  <2>1. InPool(r) /\ job[r] # "executing" => executor = "broken"
    BY DEF PoolInv, PoolRuns
  <2>. QED  BY <1>5, <2>1 DEF InPool, Working
<1>. QED  BY <1>1, <1>2, <1>3, <1>4, <1>6, OneRunStaysOut

LEMMA WorkerKeepsThePool ==
    ASSUME LifecycleInv, PoolInv, [LifecycleNext]_everything,
           NEW r \in RunIds, Worker(r) \/ Raises(r)
    PROVE  PoolInv'
<1>1. HeldTypeOK /\ job' \in [RunIds -> Jobs]
  BY HeldTypeStep DEF LifecycleInv, HeldTypeOK
<1>2. \A q \in RunIds \ {r} : job'[q] = job[q] /\ step'[q] = step[q]
  BY <1>1, OthersAreSame DEF Same
<1>3. UNCHANGED pool /\ step[r] \in Working
  BY DEF Worker, Load, Start, Emit, Return, Raises, Working
<1>4. \/ job' = job
      \/ \E how \in {"raised", "returned"} : Ends(r, how)
  BY DEF Worker, Load, Start, Emit, Return, Raises
<1>5. \/ step'[r] \notin Working /\ (job'[r] = job[r] \/ job[r] \in {"executing", "inline"})
      \/ job' = job
  BY <1>1, <1>4 DEF Ends, HeldTypeOK, Working
<1>. QED  BY <1>1, <1>2, <1>3, <1>5, OneRunStaysOut DEF InPool

LEMMA PoolStep ==
    LifecycleInv /\ PoolInv /\ [LifecycleNext]_everything => PoolInv'
<1>. SUFFICES ASSUME LifecycleInv, PoolInv, [LifecycleNext]_everything
              PROVE  PoolInv'
  OBVIOUS
<1>0. HeldTypeOK /\ \A r \in RunIds : NotYet(r)
  BY DEF LifecycleInv, Orderly
<1>1. CASE UNCHANGED <<pool, job, step>>
  BY <1>1 DEF PoolInv, PoolRuns, InPool, pool
<1>2. ASSUME NEW r \in RunIds, Take(r) PROVE PoolInv'
  <2>1. /\ job' = [job EXCEPT ![r] = "executing"]
        /\ step' = [step EXCEPT ![r] = "loading"]
        /\ step[r] = "off" /\ executor # "broken"
        /\ job[r] \in {"pending", "called"}
        /\ Cardinality(Busy) < workers
        /\ UNCHANGED <<workers, server, released, executor>>
    BY <1>0, <1>2 DEF Take, pool, NotYet
  <2>2. Busy = PoolRuns
    BY <2>1 DEF PoolInv, PoolRuns, InPool, Busy
  <2>3. PoolRuns' = PoolRuns \cup {r}
    BY <1>0, <2>1 DEF PoolRuns, InPool, Working, HeldTypeOK
  <2>4. r \notin PoolRuns /\ IsFiniteSet(PoolRuns)
    BY <2>1 DEF PoolRuns, InPool, Working, PoolInv
  <2>5. /\ IsFiniteSet(PoolRuns)'
        /\ Cardinality(PoolRuns)' = Cardinality(PoolRuns) + 1
        /\ Cardinality(PoolRuns) \in Nat
    BY <2>3, <2>4, FS_AddElement, FS_CardinalityType
  <2>6. workers \in Nat
    BY LifecycleConstants DEF PoolInv
  <2>7. Cardinality(PoolRuns)' <= workers'
    BY <2>1, <2>2, <2>5, <2>6
  <2>8. \A q \in PoolRuns' : job'[q] = "executing"
    BY <1>0, <2>1, <2>3 DEF PoolInv, PoolRuns, HeldTypeOK
  <2>9. server # "down"
    BY <2>1 DEF PoolInv
  <2>. QED  BY <2>1, <2>5, <2>7, <2>8, <2>9 DEF PoolInv
<1>3. ASSUME NEW r \in RunIds, Call(r) \/ CancelPending(r) PROVE PoolInv'
  <2>1. /\ UNCHANGED pool /\ step' = step /\ step[r] = "off"
        /\ \/ job' = [job EXCEPT ![r] = "called"]
           \/ job' = [job EXCEPT ![r] = "cancelled"]
        /\ job[r] = "pending"
    BY <1>0, <1>3 DEF Call, CancelPending, NotYet
  <2>2. job' \in [RunIds -> Jobs]
    BY <1>0, HeldTypeStep DEF HeldTypeOK
  <2>. QED
    BY <1>0, <2>1, <2>2, OneRunStaysOut DEF Working, HeldTypeOK
<1>4. ASSUME NEW r \in RunIds, WorkerDies(r) PROVE PoolInv'
  <2>1. /\ step' = [step EXCEPT ![r] = "dead"] /\ job' = job
        /\ workers' = IF InPool(r) THEN workers - 1 ELSE workers
        /\ UNCHANGED <<server, released, executor>>
    BY <1>4 DEF WorkerDies
  <2>2. PoolRuns' = PoolRuns \ {r}
    BY <1>0, <2>1 DEF PoolRuns, InPool, Working, HeldTypeOK
  <2>3. workers \in 0 .. MaxWorkers /\ MaxWorkers \in Nat
        /\ Cardinality(PoolRuns) <= workers
    BY LifecycleConstants DEF PoolInv
  <2>4. /\ IsFiniteSet(PoolRuns)' /\ Cardinality(PoolRuns)' \in Nat
        /\ Cardinality(PoolRuns) \in Nat
    BY <2>2, FewerInThePool
  <2>5. r \in PoolRuns => Cardinality(PoolRuns)' = Cardinality(PoolRuns) - 1
    BY <2>2, FS_RemoveElement DEF PoolInv
  <2>6. r \notin PoolRuns => Cardinality(PoolRuns)' = Cardinality(PoolRuns)
    <3>1. r \notin PoolRuns => PoolRuns' = PoolRuns
      BY <2>2
    <3>. QED  BY <3>1
  <2>7. r \in PoolRuns <=> InPool(r)
    BY DEF PoolRuns
  <2>8. workers' \in 0 .. MaxWorkers /\ Cardinality(PoolRuns)' <= workers'
    BY <2>1, <2>3, <2>4, <2>5, <2>6, <2>7
  <2>9. executor' # "broken" => \A q \in PoolRuns' : job'[q] = "executing"
    BY <2>1, <2>2 DEF PoolInv
  <2>. QED  BY <2>1, <2>4, <2>8, <2>9 DEF PoolInv
<1>5. CASE IdleWorkerDies
  <2>1. /\ UNCHANGED <<server, released, executor, job, step>>
        /\ workers' = workers - 1 /\ Cardinality(PoolRuns) < workers
    BY <1>5 DEF IdleWorkerDies, PoolRuns
  <2>2. PoolRuns' = PoolRuns
    BY <2>1 DEF PoolRuns, InPool
  <2>3. workers \in 0 .. MaxWorkers /\ MaxWorkers \in Nat
        /\ Cardinality(PoolRuns) \in Nat
    BY LifecycleConstants, FS_CardinalityType DEF PoolInv
  <2>4. workers' \in 0 .. MaxWorkers /\ Cardinality(PoolRuns)' <= workers'
    BY <2>1, <2>2, <2>3
  <2>. QED  BY <2>1, <2>2, <2>4 DEF PoolInv
<1>6. CASE ShutDown
  <2>1. /\ UNCHANGED <<workers, server, job, step>> /\ server # "down"
        /\ released' \in BOOLEAN /\ executor' \in {executor, "shut"}
        /\ executor = "broken" => executor' = "broken"
    BY <1>6 DEF ShutDown, PoolInv
  <2>. QED  BY <1>0, <2>1, NobodyJoins DEF InPool
<1>7. CASE NoticeDeath
  <2>1. /\ UNCHANGED <<workers, server, released, step>> /\ server # "down"
        /\ executor' = "broken"
        /\ \A q \in RunIds : job'[q] \in {job[q], "raised"}
        /\ \A q \in RunIds : job[q] \in {"inline", "lost"} => job'[q] = job[q]
    BY <1>0, <1>7 DEF NoticeDeath, Futures
  <2>2. released' \in BOOLEAN
    BY <2>1 DEF PoolInv
  <2>. QED  BY <1>0, <2>1, <2>2, NobodyJoins DEF InPool
<1>8. CASE TerminateWorkers
  <2>1. /\ UNCHANGED <<server, released, executor, job>> /\ workers' = 0
        /\ \A q \in RunIds : step'[q] = IF InPool(q) THEN "dead" ELSE step[q]
    BY <1>8 DEF TerminateWorkers
  <2>2. PoolRuns' = {}
    BY <2>1 DEF PoolRuns, InPool, Working
  <2>3. IsFiniteSet(PoolRuns)' /\ Cardinality(PoolRuns)' = 0
    BY <2>2, FS_EmptySet
  <2>. QED  BY <2>1, <2>2, <2>3, LifecycleConstants DEF PoolInv
<1>9. CASE Crash
  <2>1. /\ UNCHANGED <<released, executor, workers>> /\ server' = "down"
        /\ job' = [q \in RunIds |-> IF job[q] = "none" THEN "none" ELSE "lost"]
        /\ \A q \in RunIds : step'[q] \in {step[q], "dead"}
    BY <1>9 DEF Crash
  <2>2. PoolRuns' = {}
    BY <1>0, <2>1 DEF PoolRuns, InPool, Working, NotYet
  <2>3. IsFiniteSet(PoolRuns)' /\ Cardinality(PoolRuns)' = 0
    BY <2>2, FS_EmptySet
  <2>4. workers' \in 0 .. MaxWorkers /\ 0 <= workers'
    BY <2>1, LifecycleConstants DEF PoolInv
  <2>. QED  BY <2>1, <2>2, <2>3, <2>4 DEF PoolInv
<1>10. CASE Restart
  <2>1. /\ server = "down" /\ server' = "again" /\ released' = FALSE
        /\ executor' = "open" /\ workers' = MaxWorkers /\ UNCHANGED <<job, step>>
    BY <1>10 DEF Restart
  <2>2. PoolRuns' = {}
    BY <1>0, <2>1 DEF PoolRuns, InPool, Working, NotYet, PoolInv
  <2>3. IsFiniteSet(PoolRuns)' /\ Cardinality(PoolRuns)' = 0
    BY <2>2, FS_EmptySet
  <2>4. workers' \in 0 .. MaxWorkers /\ 0 <= workers'
    BY <2>1, LifecycleConstants
  <2>. QED  BY <2>1, <2>2, <2>3, <2>4 DEF PoolInv
<1>11. CASE RecordWhatItCites \/ UNCHANGED everything
  <2>1. UNCHANGED <<pool, job, step>>
    BY <1>11 DEF RecordWhatItCites, everything
  <2>. QED  BY <1>1, <2>1
<1>. QED
  BY <1>2, <1>3, <1>4, <1>5, <1>6, <1>7, <1>8, <1>9, <1>10, <1>11,
     HandlerKeepsThePool, WorkerKeepsThePool
  DEF LifecycleNext, Executor

\* The pool is never over-committed: each run in it has a live worker of its
\* own, whatever dies, is shut down or is started again.
THEOREM PoolIsNotOverrun == LifecycleSpec => []PoolInv
<1>1. LifecycleInit => PoolInv
  <2>. SUFFICES ASSUME LifecycleInit PROVE PoolInv
    OBVIOUS
  <2>1. PoolRuns = {}
    BY DEF LifecycleInit, PoolRuns, InPool, Working
  <2>2. IsFiniteSet(PoolRuns) /\ Cardinality(PoolRuns) = 0
    BY <2>1, FS_EmptySet
  <2>3. workers \in 0 .. MaxWorkers /\ 0 <= workers
    BY LifecycleConstants DEF LifecycleInit
  <2>. QED  BY <2>1, <2>2, <2>3 DEF LifecycleInit, PoolInv
<1>. QED  BY <1>1, PoolStep, LifecycleInvariant, PTL DEF LifecycleSpec

\* The service is well typed in every reachable state.
THEOREM LifecycleTypeCorrect == LifecycleSpec => []LifecycleTypeOK
<1>1. LifecycleInv /\ PoolInv => LifecycleTypeOK
  BY DEF LifecycleInv, HeldTypeOK, PoolInv, LifecycleTypeOK
<1>. QED  BY <1>1, LifecycleInvariant, PoolIsNotOverrun, PTL
=============================================================================
