----------------------------- MODULE WatchedRun -----------------------------
(***************************************************************************)
(* The run in the path of a request, whose history its readers follow:     *)
(* ResultReader by repeated GETs, EventStream as a subscriber.             *)
(***************************************************************************)
EXTENDS RunHistory

CONSTANT Watched    \* the run that is read

ASSUME WatchedIsARun == Watched \in RunIds
=============================================================================
