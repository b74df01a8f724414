---------------------------- MODULE RunLifecycle ----------------------------
(***************************************************************************)
(* One run from POST /optimisations to its terminal row: the request       *)
(* handler (api/service.py), the executor (runner/pool.py), the worker     *)
(* (runner/worker.py) and the done-callbacks, all over the tables of       *)
(* RunStore.  They run in different threads and processes; each store call *)
(* is one transaction and everything between two calls may interleave.     *)
(***************************************************************************)
EXTENDS RunStore

CONSTANTS
    Mode,          \* RunnerMode: "process", "thread" or "inline"
    MaxWorkers,    \* the size of the pool
    MayDie,        \* a worker process may be killed
    MayCrash,      \* the server may be killed once, and is then restarted
    MayShutDown,   \* the lifespan may end while runs are in flight
    ResultFaults   \* a finished search may yield a record that is not storable

ASSUME LifecycleConstants ==
    /\ Mode \in {"process", "thread", "inline"}
    /\ MaxWorkers \in Nat \ {0}
    /\ {MayDie, MayCrash, MayShutDown, ResultFaults} \subseteq BOOLEAN
    /\ MayDie => Mode = "process"
    /\ MayShutDown => Mode # "inline"
    /\ IsFiniteSet(Generations) /\ Generations # {}
    /\ Generations = 1 .. Cardinality(Generations)
    /\ Results # {} /\ Reasons # {}
    /\ {<<event>> : event \in Events} \subseteq Batches

VARIABLES
    server,     \* "up", "down" after a crash, "again" once restarted
    released,   \* Runner._executor is None
    executor,   \* "open", "shut", or "broken" by the death of a worker
    workers,    \* the worker threads or processes of the executor still alive
    job,        \* run -> where its future and its callbacks stand
    step,       \* run -> where the code executing it stands
    emitted,    \* run -> the curve its search has yielded, in the worker
    readback,   \* run -> the log as _failed read it
    cause       \* run -> why it ends without a result

pool   == <<server, released, executor, workers>>
tables == <<assumption_set, pipeline_snapshot, last_reference, run, run_event>>
everything == <<tables, pool, job, step, emitted, readback, cause>>

\* generations_planned: the length of a whole search.
Planned == Cardinality(Generations)
Length(curve) == Cardinality({g \in Generations : curve[g] # None})

\* "accepted": the row is committed and runner.submit is not yet called.
\* "pending", "called": in the executor, before and after the future can no
\* longer be cancelled; "inline": executed by the request itself.
\* "returned", "raised", "cancelled": resolved, the callback not yet begun.
\* "storing", "failing", "recording": inside _succeeded and _failed.
Futures   == {"pending", "called", "executing"}
Callbacks == {"returned", "raised", "cancelled", "storing", "failing", "recording"}
Jobs      == {"none", "accepted", "inline", "settled", "lost"}
                 \cup Futures \cup Callbacks

Working == {"loading", "starting", "searching"}
Steps   == {"off", "done", "dead"} \cup Working
Causes  == {"none", "error", "broken pool", "cancelled"}

LifecycleInit ==
    /\ StoreInit
    /\ server = "up"
    /\ released = FALSE
    /\ executor = "open"
    /\ workers = MaxWorkers
    /\ job = [r \in RunIds |-> "none"]
    /\ step = [r \in RunIds |-> "off"]
    /\ emitted = [r \in RunIds |-> NoCurve]
    /\ readback = [r \in RunIds |-> NoCurve]
    /\ cause = [r \in RunIds |-> "none"]

-----------------------------------------------------------------------------
(* The request.                                                            *)

\* Service.__init__ and Service.submit record what the run will cite before
\* open_run commits its row.
RecordWhatItCites ==
    /\ server # "down"
    /\ SnapshotStep
    /\ UNCHANGED <<pool, job, step, emitted, readback, cause>>

Post(r) ==
    /\ server # "down"
    /\ job[r] = "none"
    /\ \E s \in Submissions : OpenVerdict(r, s) = "opened" /\ OpenRun(r, s)
    /\ job' = [job EXCEPT ![r] = "accepted"]
    /\ UNCHANGED <<pool, step, emitted, readback, cause>>

SubmitInline(r) ==
    /\ job[r] = "accepted"
    /\ Mode = "inline" \/ released
    /\ job' = [job EXCEPT ![r] = "inline"]
    /\ step' = [step EXCEPT ![r] = "loading"]
    /\ UNCHANGED <<tables, pool, emitted, readback, cause>>

\* A broken or shut executor refuses, and Service.submit sends the refusal to _failed.
SubmitToPool(r) ==
    /\ job[r] = "accepted"
    /\ Mode # "inline" /\ ~released
    /\ job' = [job EXCEPT ![r] = IF executor = "open" THEN "pending" ELSE "failing"]
    /\ cause' = [cause EXCEPT ![r] = IF executor = "open" THEN "none" ELSE "error"]
    /\ UNCHANGED <<tables, pool, step, emitted, readback>>

-----------------------------------------------------------------------------
(* The executor of concurrent.futures, as pool.py drives it.               *)

Busy == {r \in RunIds : job[r] = "executing" /\ step[r] \in Working}

\* A worker process of this executor is executing r, whatever has become of
\* r's future.  A worker that outlived a killed server belongs to nobody.
InPool(r) == step[r] \in Working /\ job[r] \notin {"inline", "lost"}

\* The manager moves a future to the call queue of a process pool ahead of
\* the workers, and from then on the future cannot be cancelled.
Call(r) ==
    /\ Mode = "process" /\ executor # "broken"
    /\ job[r] = "pending"
    /\ job' = [job EXCEPT ![r] = "called"]
    /\ UNCHANGED <<tables, pool, step, emitted, readback, cause>>

Take(r) ==
    /\ executor # "broken"
    /\ job[r] = IF Mode = "process" THEN "called" ELSE "pending"
    /\ Cardinality(Busy) < workers
    /\ job' = [job EXCEPT ![r] = "executing"]
    /\ step' = [step EXCEPT ![r] = "loading"]
    /\ UNCHANGED <<tables, pool, emitted, readback, cause>>

\* Runner.shutdown: the executor is shut with cancel_futures and without
\* waiting, and then let go; a request may fall between the two.
ShutDown ==
    /\ MayShutDown /\ server # "down"
    /\ ~released
    /\ IF executor = "open"
       THEN executor' = "shut" /\ UNCHANGED released
       ELSE released' = TRUE /\ UNCHANGED executor
    /\ UNCHANGED <<tables, server, workers, job, step, emitted, readback, cause>>

CancelPending(r) ==
    /\ executor = "shut" /\ job[r] = "pending"
    /\ job' = [job EXCEPT ![r] = "cancelled"]
    /\ cause' = [cause EXCEPT ![r] = "cancelled"]
    /\ UNCHANGED <<tables, pool, step, emitted, readback>>

\* A worker process is killed, whatever it was doing: by the kernel for want
\* of memory, or by hand.
WorkerDies(r) ==
    /\ MayDie
    /\ step[r] \in Working /\ job[r] # "inline"
    /\ step' = [step EXCEPT ![r] = "dead"]
    /\ workers' = IF InPool(r) THEN workers - 1 ELSE workers
    /\ UNCHANGED <<tables, server, released, executor, job, emitted, readback,
                   cause>>

IdleWorkerDies ==
    /\ MayDie /\ server # "down"
    /\ Cardinality({r \in RunIds : InPool(r)}) < workers
    /\ workers' = workers - 1
    /\ UNCHANGED <<tables, server, released, executor, job, step, emitted,
                   readback, cause>>

\* The executor fails every future it still holds with BrokenProcessPool ...
NoticeDeath ==
    /\ workers < MaxWorkers /\ server # "down"
    /\ executor # "broken"
    /\ executor' = "broken"
    /\ job' = [r \in RunIds |-> IF job[r] \in Futures THEN "raised" ELSE job[r]]
    /\ cause' = [r \in RunIds |-> IF job[r] \in Futures THEN "broken pool"
                                                        ELSE cause[r]]
    /\ UNCHANGED <<tables, server, released, workers, step, emitted, readback>>

\* ... and terminates the workers left once their callbacks have returned.
TerminateWorkers ==
    /\ executor = "broken" /\ workers > 0 /\ server # "down"
    /\ \A r \in RunIds : ~(cause[r] = "broken pool" /\ job[r] \in Callbacks)
    /\ workers' = 0
    /\ step' = [r \in RunIds |-> IF InPool(r) THEN "dead" ELSE step[r]]
    /\ UNCHANGED <<tables, server, released, executor, job, emitted, readback,
                   cause>>

-----------------------------------------------------------------------------
(* The worker: execute, on a pool worker or on the request's own thread.   *)

\* How the code that executes r ends.  Nobody is waiting for a worker whose
\* future has been failed already, or whose server is gone.
Ends(r, how) ==
    /\ step' = [step EXCEPT ![r] = "done"]
    /\ LET awaited == job[r] \in {"executing", "inline"}
       IN  /\ job' = [job EXCEPT ![r] = IF awaited THEN how ELSE @]
           /\ cause' = [cause EXCEPT ![r] =
                          IF awaited /\ how = "raised" THEN "error" ELSE @]

\* Anything in execute may raise: the pipeline moved, the engine failed, the
\* database stayed locked.
Raises(r) ==
    /\ step[r] \in Working
    /\ Ends(r, "raised")
    /\ UNCHANGED <<tables, pool, emitted, readback>>

Load(r) ==
    /\ step[r] = "loading"
    /\ step' = [step EXCEPT ![r] = "starting"]
    /\ UNCHANGED <<tables, pool, job, emitted, readback, cause>>

Start(r) ==
    /\ step[r] = "starting"
    /\ StartRun(r)
    /\ IF StartVerdict(r) \in {"started", "already running"}
       THEN /\ step' = [step EXCEPT ![r] = "searching"]
            /\ UNCHANGED <<job, cause>>
       ELSE Ends(r, "raised")
    /\ UNCHANGED <<pool, emitted, readback>>

\* One generation: into the worker's own list, then onto the log.
Emit(r) ==
    /\ step[r] = "searching"
    /\ Length(emitted[r]) < Planned
    /\ \E p \in Points :
         LET g     == Length(emitted[r]) + 1
             batch == <<[generation |-> g, point |-> p]>>
         IN  /\ emitted' = [emitted EXCEPT ![r][g] = p]
             /\ AppendEvents(r, batch)
             /\ IF AppendVerdict(r, batch) = "appended"
                THEN UNCHANGED <<step, job, cause>>
                ELSE Ends(r, "raised")
    /\ UNCHANGED <<pool, readback>>

Return(r) ==
    /\ step[r] = "searching"
    /\ Length(emitted[r]) = Planned
    /\ Ends(r, "returned")
    /\ UNCHANGED <<tables, pool, emitted, readback>>

-----------------------------------------------------------------------------
(* The done-callbacks, Service._succeeded and Service._failed.             *)

\* Mutant: a cancelled future is asked for its exception, which raises in the
\* callback, and neither handler runs.
ReportUnchecked(r) ==
    /\ job[r] \in {"raised", "cancelled"}
    /\ job' = [job EXCEPT ![r] = IF @ = "cancelled" THEN "settled" ELSE "failing"]
    /\ UNCHANGED <<tables, pool, step, emitted, readback, cause>>

\* _report: whatever has no result goes to _failed, a cancellation first.
ReportFailure(r) ==
    /\ job[r] \in {"raised", "cancelled"}
    /\ job' = [job EXCEPT ![r] = "failing"]
    /\ UNCHANGED <<tables, pool, step, emitted, readback, cause>>

GoesToFailed(r) ==
    /\ job' = [job EXCEPT ![r] = "failing"]
    /\ cause' = [cause EXCEPT ![r] = "error"]

BuildRecord(r) ==
    /\ job[r] = "returned"
    /\ \/ job' = [job EXCEPT ![r] = "storing"] /\ UNCHANGED cause
       \/ ResultFaults /\ GoesToFailed(r)
    /\ UNCHANGED <<tables, pool, step, emitted, readback>>

Succeeded(r) ==
    [status |-> "succeeded", holdings |-> run[r].eligible, curve |-> emitted[r],
     result |-> CHOOSE x \in Results : TRUE, reason |-> None]

Stopped(r) ==
    [status |-> IF cause[r] = "cancelled" THEN "cancelled" ELSE "failed",
     holdings |-> None, curve |-> readback[r],
     result |-> CHOOSE x \in Results : TRUE,
     reason |-> CHOOSE w \in Reasons : TRUE]

Settles(verdict) == verdict \in {"finished", "redelivered", "already finished"}

Store(r) ==
    /\ job[r] = "storing"
    /\ \/ /\ FinishRun(r, run[r].inputs, Succeeded(r))
          /\ IF Settles(FinishVerdict(r, run[r].inputs, Succeeded(r)))
             THEN job' = [job EXCEPT ![r] = "settled"] /\ UNCHANGED cause
             ELSE GoesToFailed(r)
       \/ ResultFaults /\ GoesToFailed(r) /\ UNCHANGED tables
    /\ UNCHANGED <<pool, step, emitted, readback>>

\* _failed reads the log in autocommit ...
ReadLog(r) ==
    /\ job[r] = "failing"
    /\ readback' = [readback EXCEPT ![r] = run_event[r]]
    /\ job' = [job EXCEPT ![r] = "recording"]
    /\ UNCHANGED <<tables, pool, step, emitted, cause>>

\* ... and then writes the outcome in a transaction of its own.  Whatever the
\* store answers, that was the last line of defence.
Record(r) ==
    /\ job[r] = "recording"
    /\ FinishRun(r, run[r].inputs, Stopped(r))
    /\ job' = [job EXCEPT ![r] = "settled"]
    /\ UNCHANGED <<pool, step, emitted, readback, cause>>

-----------------------------------------------------------------------------
(* The server is killed and started again.  Its threads and futures go with *)
(* it; a worker process may or may not outlive it.                         *)

Crash ==
    /\ MayCrash /\ server = "up"
    /\ server' = "down"
    /\ job' = [r \in RunIds |-> IF job[r] = "none" THEN "none" ELSE "lost"]
    /\ \E killed \in SUBSET {r \in RunIds : step[r] \in Working} :
         /\ Mode # "process" => killed = {r \in RunIds : step[r] \in Working}
         /\ step' = [r \in RunIds |-> IF r \in killed THEN "dead" ELSE step[r]]
    /\ UNCHANGED <<tables, released, executor, workers, emitted, readback, cause>>

\* build_service on the same database: it records the snapshots again and
\* reads no run.
Restart ==
    /\ server = "down"
    /\ server' = "again"
    /\ released' = FALSE
    /\ executor' = "open"
    /\ workers' = MaxWorkers
    /\ UNCHANGED <<tables, job, step, emitted, readback, cause>>

-----------------------------------------------------------------------------

Handler(r)  == SubmitInline(r) \/ SubmitToPool(r) \/ ReportFailure(r)
                  \/ BuildRecord(r) \/ Store(r) \/ ReadLog(r) \/ Record(r)
Executor(r) == Call(r) \/ Take(r) \/ CancelPending(r)
Worker(r)   == Load(r) \/ Start(r) \/ Emit(r) \/ Return(r)

LifecycleNext ==
    \/ RecordWhatItCites
    \/ \E r \in RunIds : \/ Post(r) \/ Handler(r) \/ Executor(r) \/ Worker(r)
                         \/ Raises(r) \/ WorkerDies(r)
    \/ ShutDown \/ IdleWorkerDies \/ NoticeDeath \/ TerminateWorkers
    \/ Crash \/ Restart

\* Threads and live processes are scheduled, the executor's manager included,
\* and a killed server is started again; nothing forces a request, a fault, a
\* shutdown or a death.
LifecycleFairness ==
    /\ \A r \in RunIds : /\ WF_everything(Handler(r))
                         /\ WF_everything(Executor(r))
                         /\ WF_everything(Worker(r))
    /\ WF_everything(NoticeDeath)
    /\ WF_everything(TerminateWorkers)
    /\ WF_everything(Restart)

LifecycleSpec == LifecycleInit /\ [][LifecycleNext]_everything /\ LifecycleFairness

-----------------------------------------------------------------------------
(* Properties.                                                             *)

LifecycleTypeOK ==
    /\ TypeOK
    /\ server \in {"up", "down", "again"}
    /\ released \in BOOLEAN
    /\ executor \in {"open", "shut", "broken"}
    /\ workers \in 0 .. MaxWorkers
    /\ job \in [RunIds -> Jobs]
    /\ step \in [RunIds -> Steps]
    /\ emitted \in [RunIds -> Curves]
    /\ readback \in [RunIds -> Curves]
    /\ cause \in [RunIds -> Causes]

\* Every run whose row was committed ends: every failure path funnels through
\* callbacks.failed, a run left running for ever being worse than a run
\* recorded as failed (pool.py, Runner.submit; service.py, submit, _succeeded).
EveryAcceptedRunEnds == \A r \in RunIds : IsInFlight(r) ~> IsTerminal(r)

\* The life of a run as its readers see it.
Status(r) == IF Exists(r) THEN run[r].status ELSE "absent"

History == INSTANCE RunHistory WITH
    status <- [r \in RunIds |-> Status(r)],
    logged <- [r \in RunIds |-> Cardinality(Logged(r))],
    served <- [r \in RunIds |-> IF IsTerminal(r) THEN Length(run[r].outcome.curve)
                                                 ELSE 0]

\* The service implements RunHistory: generations reach the log one by one and
\* only while the run is running, it ends once, a success only after all of
\* them, a cancellation only before the first step, and the record serves as
\* many as were logged.
ImplementsHistory == History!HistorySpec
=============================================================================
