----------------------------- MODULE RunHistory -----------------------------
(***************************************************************************)
(* What the server promises about a run, as anyone reading the store sees  *)
(* it: a run is accepted, searches generation by generation, and ends once *)
(* with one of three outcomes, its record serving the generations that     *)
(* were logged.  RunLifecycle, the service with its pool, workers and      *)
(* callbacks, is checked to implement it, and EventStream reads it.        *)
(***************************************************************************)
EXTENDS Integers

CONSTANTS RunIds,    \* the runs that may be submitted
          Planned    \* generations_planned, the length of a whole search

ASSUME PlannedIsPositive == Planned \in Nat \ {0}

VARIABLES status,    \* run id -> status, or "absent" before it is accepted
          logged,    \* run id -> the number of generations in its log
          served     \* run id -> the generations its finished record carries

history == <<status, logged, served>>

Stopped == {"succeeded", "failed", "cancelled"}
Unfinished == {"queued", "running"}

HistoryInit ==
    /\ status = [r \in RunIds |-> "absent"]
    /\ logged = [r \in RunIds |-> 0]
    /\ served = [r \in RunIds |-> 0]

\* POST /optimisations answered 202: the row is committed.
Accept(r) ==
    /\ status[r] = "absent"
    /\ status' = [status EXCEPT ![r] = "queued"]
    /\ UNCHANGED <<logged, served>>

\* A worker has picked the run up.
Begin(r) ==
    /\ status[r] = "queued"
    /\ status' = [status EXCEPT ![r] = "running"]
    /\ UNCHANGED <<logged, served>>

\* The next generation is on the log; none is skipped, repeated or late.
Progress(r) ==
    /\ status[r] = "running"
    /\ logged[r] < Planned
    /\ logged' = [logged EXCEPT ![r] = @ + 1]
    /\ UNCHANGED <<status, served>>

\* A success is a whole search.  A cancelled run is one that never started.
MayEndAs(r, outcome) ==
    /\ status[r] \in Unfinished
    /\ outcome = "succeeded" => status[r] = "running" /\ logged[r] = Planned
    /\ outcome = "cancelled" => status[r] = "queued"

End(r, outcome) ==
    /\ MayEndAs(r, outcome)
    /\ status' = [status EXCEPT ![r] = outcome]
    /\ served' = [served EXCEPT ![r] = logged[r]]
    /\ UNCHANGED logged

HistoryStep(r) ==
    \/ Accept(r)
    \/ Begin(r)
    \/ Progress(r)
    \/ \E outcome \in Stopped : End(r, outcome)

HistoryNext == \E r \in RunIds : HistoryStep(r)

HistorySpec == HistoryInit /\ [][HistoryNext]_history

=============================================================================
