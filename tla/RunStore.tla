------------------------------ MODULE RunStore ------------------------------
(***************************************************************************)
(* The run store: the sqlite tables of store/schema.sql and the operations *)
(* of store/runs.py, store/events.py and store/snapshots.py over them.     *)
(*                                                                         *)
(* Every write of a run is one BEGIN IMMEDIATE transaction (store/db.py,   *)
(* writing), serialised against every other connection, and a snapshot is  *)
(* one INSERT in autocommit, compared with a row that never changes where  *)
(* it conflicts; so each operation is one action.  An operation that       *)
(* raises changes nothing; its verdict operator says which error the       *)
(* caller sees, and only the verdict that succeeds changes a table.        *)
(* Modules that model the callers take the verdicts apart.                 *)
(***************************************************************************)
EXTENDS Integers, Sequences, FiniteSets

CONSTANTS
    RunIds,          \* the ids new_ulid mints
    Inputs,          \* what open_run freezes: mandate, ids, effort, provenance
    Pipelines,       \* pipeline hashes
    PipelineFacts,   \* what a snapshot row says besides its hash
    Calibrations,    \* digests of assumption-set payloads
    Identities,      \* (assumption_set_id, assumption_set_hash) pairs
    IdentityOf,      \* the identity a stored calibration carries
    ClaimOf,         \* the identity the provenance in an input claims
    PipelineOf,      \* the pipeline hash the provenance in an input claims
    CandidateLists,  \* eligible_ids of a submission, holdings of a result
    Generations,     \* generation numbers an event may carry
    Points,          \* (best_fitness, mean_fitness) of one generation
    Batches,         \* what append_events may be offered in one transaction
    Results,         \* the rest of a terminal record, and its warnings
    Reasons,         \* (error_code, error_message) of a run with no result
    None             \* SQL NULL, and the absence of a row

InFlight == {"queued", "running"}
Terminal == {"succeeded", "failed", "cancelled"}

\* A curve is the set of generations logged or served, with their fitness.
Curves   == [Generations -> Points \cup {None}]
NoCurve  == [g \in Generations |-> None]

Outcomes == [status : Terminal, holdings : CandidateLists \cup {None},
             curve : Curves, result : Results, reason : Reasons \cup {None}]

Rows == [reference : Nat \ {0}, inputs : Inputs, calibration : Calibrations,
         eligible : CandidateLists, status : InFlight \cup Terminal,
         outcome : Outcomes \cup {None}]

Submissions == [inputs : Inputs, calibration : Calibrations,
                eligible : CandidateLists]

Events == [generation : Generations, point : Points]

ASSUME StoreConstants ==
    /\ Generations \subseteq Nat \ {0}
    /\ IdentityOf \in [Calibrations -> Identities]
    /\ ClaimOf \in [Inputs -> Identities]
    /\ PipelineOf \in [Inputs -> Pipelines]
    /\ Batches \subseteq Seq(Events)

ASSUME NoneIsNoValue ==
    /\ None \notin Points \cup Reasons \cup PipelineFacts
    /\ None \notin Outcomes
    /\ None \notin Rows

VARIABLES
    assumption_set,      \* the calibrations snapshotted so far
    pipeline_snapshot,   \* hash -> the facts stored under it, or None
    last_reference,      \* run_sequence.last_reference
    run,                 \* run id -> its row, or None
    run_event            \* run id -> its generation log

snapshots == <<assumption_set, pipeline_snapshot>>
vars == <<assumption_set, pipeline_snapshot, last_reference, run, run_event>>

Exists(r)    == run[r] # None
IsInFlight(r) == Exists(r) /\ run[r].status \in InFlight
IsTerminal(r) == Exists(r) /\ run[r].status \in Terminal
Logged(r)    == {g \in Generations : run_event[r][g] # None}

-----------------------------------------------------------------------------
(* Snapshots.                                                              *)

\* INSERT ... ON CONFLICT DO NOTHING under a digest of the very bytes.
RecordAssumptionSet(c) ==
    /\ assumption_set' = assumption_set \cup {c}
    /\ UNCHANGED <<pipeline_snapshot, last_reference, run, run_event>>

\* Mutant: the later snapshot silently replaces the stored one.
SnapshotReplaces(h, facts) == "recorded"

\* The hash covers the project files alone, so a second snapshot under one
\* hash may disagree with the stored one; then it is refused.
SnapshotVerdict(h, facts) ==
    CASE pipeline_snapshot[h] = None  -> "recorded"
      [] pipeline_snapshot[h] = facts -> "unchanged"
      [] OTHER                        -> "conflict"

RecordPipelineSnapshot(h, facts) ==
    /\ pipeline_snapshot' =
          IF SnapshotVerdict(h, facts) = "recorded"
          THEN [pipeline_snapshot EXCEPT ![h] = facts]
          ELSE pipeline_snapshot
    /\ UNCHANGED <<assumption_set, last_reference, run, run_event>>

-----------------------------------------------------------------------------
(* Opening a run: verify the calibration, claim a reference, insert.       *)

\* Mutant: the snapshot exists, and nobody checks whose it is.
CalibrationExists(s) == s.calibration \in assumption_set

CalibrationMatches(s) ==
    /\ s.calibration \in assumption_set
    /\ IdentityOf[s.calibration] = ClaimOf[s.inputs]

OpenVerdict(r, s) ==
    CASE ~CalibrationMatches(s)                          -> "unknown snapshot"
      [] Exists(r)                                       -> "duplicate run"
      [] pipeline_snapshot[PipelineOf[s.inputs]] = None  -> "unknown snapshot"
      [] OTHER                                           -> "opened"

\* Mutants: the increment survives the rollback; the counter is never moved.
ReferenceSpent(verdict)  == last_reference + 1
\* _next_reference increments inside the transaction, before the insert can
\* fail: a refused insert rolls the increment back with it.
ReferenceAfterOpen(verdict) ==
    IF verdict = "opened" THEN last_reference + 1 ELSE last_reference

OpenRun(r, s) ==
    /\ last_reference' = ReferenceAfterOpen(OpenVerdict(r, s))
    /\ run' = IF OpenVerdict(r, s) = "opened"
              THEN [run EXCEPT ![r] =
                      [reference |-> last_reference + 1, inputs |-> s.inputs,
                       calibration |-> s.calibration, eligible |-> s.eligible,
                       status |-> "queued", outcome |-> None]]
              ELSE run
    /\ UNCHANGED <<snapshots, run_event>>

-----------------------------------------------------------------------------
(* queued -> running.                                                      *)

StartVerdict(r) ==
    CASE ~Exists(r)                -> "run not found"
      [] run[r].status = "running" -> "already running"
      [] run[r].status \in Terminal -> "already finished"
      [] OTHER                     -> "started"

StartRun(r) ==
    /\ run' = IF StartVerdict(r) = "started"
              THEN [run EXCEPT ![r].status = "running"]
              ELSE run
    /\ UNCHANGED <<snapshots, last_reference, run_event>>

-----------------------------------------------------------------------------
(* The generation log.                                                     *)

Mentions(batch, g) == \E i \in DOMAIN batch : batch[i].generation = g

\* Mutant: the event is stored where its fitness belongs.
EventIn(batch, g) == batch[CHOOSE i \in DOMAIN batch : batch[i].generation = g]

PointIn(batch, g)  ==
    batch[CHOOSE i \in DOMAIN batch : batch[i].generation = g].point

RepeatsWithin(batch) ==
    \E i, j \in DOMAIN batch :
        i < j /\ batch[i].generation = batch[j].generation

\* Mutant: the foreign key asks only whether the run exists.
AppendWhileExists(r, batch) ==
    IF Exists(r) /\ ~RepeatsWithin(batch)
                 /\ \A g \in Logged(r) : ~Mentions(batch, g)
    THEN "appended" ELSE "run not found"

\* The trigger that closes the log fires before the primary key is checked.
AppendVerdict(r, batch) ==
    CASE batch = <<>>         -> "nothing"
      [] RepeatsWithin(batch) -> "duplicate generation"
      [] ~Exists(r)           -> "run not found"
      [] IsTerminal(r)        -> "already finished"
      [] \E g \in Logged(r) : Mentions(batch, g) -> "duplicate generation"
      [] OTHER                -> "appended"

AppendEvents(r, batch) ==
    /\ run_event' =
          IF AppendVerdict(r, batch) = "appended"
          THEN [run_event EXCEPT ![r] =
                  [g \in Generations |->
                      IF Mentions(batch, g) THEN PointIn(batch, g)
                                            ELSE run_event[r][g]]]
          ELSE run_event
    /\ UNCHANGED <<snapshots, last_reference, run>>

-----------------------------------------------------------------------------
(* Finishing a run.                                                        *)

\* Mutant: the lengths are compared, not the points.
CurveLengthAgrees(r, outcome) ==
    Cardinality(Logged(r)) \in
        {0, Cardinality({g \in Generations : outcome.curve[g] # None})}

\* _assert_curve_agrees: an absent log is not a disagreeing one.
CurveAgrees(r, outcome) ==
    Logged(r) = {} \/ run_event[r] = outcome.curve

\* The table's CHECKs on error_code.
ReasonFits(outcome) ==
    /\ outcome.status = "failed" => outcome.reason # None
    /\ outcome.reason # None => outcome.status \in {"failed", "cancelled"}

\* inputs is what the offered record claims to have been opened with.
FinishVerdict(r, inputs, outcome) ==
    CASE ~Exists(r)                -> "run not found"
      [] run[r].inputs # inputs    -> "identity changed"
      [] IsTerminal(r)             -> IF run[r].outcome = outcome
                                      THEN "redelivered"
                                      ELSE "already finished"
      [] outcome.status = "succeeded" /\ outcome.holdings # run[r].eligible
                                   -> "identity changed"
      [] ~CurveAgrees(r, outcome)  -> "identity changed"
      [] ~ReasonFits(outcome)      -> "constraint failed"
      [] OTHER                     -> "finished"

FinishRun(r, inputs, outcome) ==
    /\ run' = IF FinishVerdict(r, inputs, outcome) = "finished"
              THEN [run EXCEPT ![r].status = outcome.status,
                               ![r].outcome = outcome]
              ELSE run
    /\ UNCHANGED <<snapshots, last_reference, run_event>>

-----------------------------------------------------------------------------
(* Any number of connections, calling any operation with any argument.     *)
(* The triggers leave no other way to change a table.                      *)

StoreInit ==
    /\ assumption_set = {}
    /\ pipeline_snapshot = [h \in Pipelines |-> None]
    /\ last_reference = 0
    /\ run = [r \in RunIds |-> None]
    /\ run_event = [r \in RunIds |-> NoCurve]

SnapshotStep ==
    \/ \E c \in Calibrations : RecordAssumptionSet(c)
    \/ \E h \in Pipelines, facts \in PipelineFacts :
          RecordPipelineSnapshot(h, facts)

RunStep(r) ==
    \/ \E s \in Submissions : OpenRun(r, s)
    \/ StartRun(r)
    \/ \E batch \in Batches : AppendEvents(r, batch)
    \/ \E inputs \in Inputs, outcome \in Outcomes :
          FinishRun(r, inputs, outcome)

StoreNext == SnapshotStep \/ \E r \in RunIds : RunStep(r)

StoreSpec == StoreInit /\ [][StoreNext]_vars

-----------------------------------------------------------------------------
(* Properties.                                                             *)

\* The columns hold what schema.sql admits.
TypeOK ==
    /\ assumption_set \subseteq Calibrations
    /\ pipeline_snapshot \in [Pipelines -> PipelineFacts \cup {None}]
    /\ last_reference \in Nat
    /\ run \in [RunIds -> Rows \cup {None}]
    /\ run_event \in [RunIds -> Curves]

\* What a subscriber replayed and what the finished record serves are one
\* curve, value by value, or the run was never logged at all.  Late events,
\* a second finisher and a worker that logged wrong points all threaten it:
\* _assert_curve_agrees (runs.py) and run_event_only_while_in_flight
\* (schema.sql) hold it together.
ServedCurveIsTheLog ==
    \A r \in RunIds :
        IsTerminal(r) => Logged(r) = {} \/ run[r].outcome.curve = run_event[r]

\* The references of the runs on record are 1, 2, ... without a gap and
\* without a repeat, however many submissions were refused on the way: the
\* counter of _next_reference is rolled back with the insert that failed.
Issued == {r \in RunIds : Exists(r)}

ReferencesHaveNoGap ==
    {run[r].reference : r \in Issued} = 1 .. last_reference

ReferencesAreDistinct ==
    \A r, q \in Issued : run[r].reference = run[q].reference => r = q

\* A stored run's provenance can be looked up: the pipeline snapshot it
\* names is recorded, and the calibration it was filed under is recorded and
\* is the one its provenance claims (_verify_snapshot_matches_provenance).
ProvenanceIsBacked ==
    \A r \in Issued :
        /\ pipeline_snapshot[PipelineOf[run[r].inputs]] # None
        /\ run[r].calibration \in assumption_set
        /\ IdentityOf[run[r].calibration] = ClaimOf[run[r].inputs]

\* Once a run has ended nothing about it changes: not its row, whoever
\* finishes, starts or opens it again, and not the log its curve was checked
\* against (run_is_immutable_once_finished, the log-closing trigger).
FinishedRunsAreFrozen ==
    [][\A r \in RunIds :
          IsTerminal(r) => run'[r] = run[r] /\ run_event'[r] = run_event[r]]_vars

\* From submission to the end a run keeps its inputs, its reference and the
\* facts of the snapshot it cites, its status only moves forward, and its
\* log only grows (schema.sql's triggers; the conflict that
\* record_pipeline_snapshot raises rather than overwrite or shadow a row).
StatusRank(status) ==
    CASE status = "queued" -> 0 [] status = "running" -> 1 [] OTHER -> 2

HistoryIsAppendOnly ==
    [][\A r \in Issued :
          /\ run'[r] # None
          /\ run'[r].inputs = run[r].inputs
          /\ run'[r].reference = run[r].reference
          /\ LET h == PipelineOf[run[r].inputs]
             IN  pipeline_snapshot'[h] = pipeline_snapshot[h]
          /\ StatusRank(run'[r].status) >= StatusRank(run[r].status)
          /\ \A g \in Logged(r) : run_event'[r][g] = run_event[r][g]]_vars

=============================================================================
