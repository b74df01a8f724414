---------------------------- MODULE ResultReader ----------------------------
(***************************************************************************)
(* GET /optimisations/{id} (api/routes_runs.py, get_optimisation): three   *)
(* reads of the store, each a statement of its own on a connection in      *)
(* autocommit, while the run goes on as RunHistory promises.               *)
(***************************************************************************)
EXTENDS WatchedRun

VARIABLES
    reading,    \* what the handler has read so far
    answers,    \* every answer given
    latest      \* the highest generation an answer has reported

reader == <<reading, answers, latest>>

Kinds    == {"none", "result", "stopped", "in_flight"}
Answer(kind, s, g) == [kind |-> kind, status |-> s, generation |-> g]
Answers  == [kind : Kinds, status : Unfinished \cup Stopped \cup {"absent"},
             generation : 0 .. Planned]

Reading(at, s) == [at |-> at, status |-> s]
Idle == Reading("idle", "absent")

ReaderInit ==
    /\ HistoryInit
    /\ reading = Idle
    /\ answers = {}
    /\ latest = 0

Give(answer) ==
    /\ answers' = answers \cup {answer}
    /\ latest' = IF answer.generation > latest THEN answer.generation ELSE latest
    /\ reading' = Idle

\* _pulse, or 404 for a run that is not there.
ReadPulse ==
    /\ reading = Idle /\ status[Watched] # "absent"
    /\ reading' = Reading("pulse", status[Watched])
    /\ UNCHANGED <<history, answers, latest>>

\* Mutant: any run that is not queued is answered from result_json.
ServesResult(s) == s # "queued"

\* The run was finished by then: load_result_json, immutable from now on.
ServesStored(s) == s \in Stopped

AnswerFinished ==
    /\ reading.at = "pulse" /\ ServesStored(reading.status)
    /\ Give(Answer(IF reading.status = "succeeded" THEN "result" ELSE "stopped",
                   status[Watched], served[Watched]))
    /\ UNCHANGED history

\* It was not: load_run reads the row again ...
LoadRun ==
    /\ reading.at = "pulse" /\ ~ServesStored(reading.status)
    /\ reading' = Reading("run", status[Watched])
    /\ UNCHANGED <<history, answers, latest>>

\* Mutant: the log is read of a running run only.
AnswerWhileRunning ==
    /\ reading.at = "run"
    /\ Give(Answer("in_flight", reading.status,
                   IF reading.status = "running" THEN logged[Watched] ELSE 0))
    /\ UNCHANGED history

\* ... and latest_generation the log, for RunInFlight.
AnswerInFlight ==
    /\ reading.at = "run"
    /\ Give(Answer("in_flight", reading.status, logged[Watched]))
    /\ UNCHANGED history

ReaderNext ==
    \/ HistoryNext /\ UNCHANGED reader
    \/ ReadPulse \/ AnswerFinished \/ LoadRun \/ AnswerInFlight

ReaderSpec == ReaderInit /\ [][ReaderNext]_<<history, reader>>

-----------------------------------------------------------------------------
(* Properties.                                                             *)

ReaderTypeOK ==
    /\ reading.at \in {"idle", "pulse", "run"}
    /\ answers \subseteq Answers
    /\ latest \in 0 .. Planned

\* What is served as immutable is final: every such answer carries the
\* outcome and the curve the run has now and will always have, so a cache
\* that keeps it for ever (Cache-Control: immutable) never serves a lie.
ImmutableAnswersAreFinal ==
    \A a \in answers : a.kind \in {"result", "stopped"} =>
        /\ a.status = status[Watched]
        /\ a.generation = served[Watched]
        /\ a.kind = "result" => a.status = "succeeded"

\* A reader who polls never sees the run go back: an answer reports at least
\* the generation any earlier answer reported.
ProgressNeverGoesBack ==
    [][answers' # answers
          => \A a \in answers' \ answers : a.generation >= latest]_<<history, reader>>
=============================================================================
