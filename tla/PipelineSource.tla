--------------------------- MODULE PipelineSource ---------------------------
(***************************************************************************)
(* The pipeline directory, the load of it in force (api/pipeline_source.py)*)
(* and those who read it while users edit it: POST /pipeline/reload, POST  *)
(* /optimisations from its 409 to open_run, and the workers, which load    *)
(* the directory again (runner/worker.py, _pipeline_for).  The tables are  *)
(* those of RunStore.                                                      *)
(*                                                                         *)
(* What a load finds is the hash of the files that parsed and tied out, and *)
(* a report of everything else: rejected files do not enter the hash.      *)
(***************************************************************************)
EXTENDS RunStore

CONSTANTS
    Reloaders,     \* requests to POST /pipeline/reload
    Workers,       \* the processes that execute runs
    EligibleOf,    \* the candidates a mandate has in a pipeline
    Calibration,   \* the calibration of this server
    MaxEdits       \* bound: how often the directory is edited

ASSUME SourceConstants ==
    /\ EligibleOf \in [Pipelines -> CandidateLists]
    /\ Calibration \in Calibrations
    /\ \A m \in Inputs : ClaimOf[m] = IdentityOf[Calibration]
    /\ \A h \in Pipelines : \E m \in Inputs : PipelineOf[m] = h
    /\ MaxEdits \in Nat
    /\ {None, "moved"} \cap Pipelines = {}

VARIABLES
    directory,    \* what a load would find now, and after how many edits
    snapshot,     \* PipelineSource._snapshot, the load in force
    reload,       \* reload request -> where it stands, and what it has loaded
    claimed,      \* run -> the hash its client has from GET /pipeline
    post,         \* run -> where its POST stands
    held,         \* run -> the snapshot its POST took, once
    screened,     \* run -> the candidates its POST screened
    cached,       \* worker -> the pipeline it holds
    searched      \* run -> the pipeline its search ran on

source   == <<directory, snapshot, reload, cached>>
requests == <<claimed, post, held, screened, searched>>
system   == <<vars, source, requests>>

Load == [hash : Pipelines, facts : PipelineFacts, at : 0 .. MaxEdits]
Posts == {"none", "moved", "screened", "recorded", "conflict", "accepted"}

InputOn(h) == CHOOSE m \in Inputs : PipelineOf[m] = h

\* A server on a new database: Service.__init__ has recorded its calibration
\* and the load it starts with.
SourceInit ==
    /\ directory \in {l \in Load : l.at = 0}
    /\ assumption_set = {Calibration}
    /\ pipeline_snapshot = [h \in Pipelines |-> IF h = directory.hash
                                               THEN directory.facts ELSE None]
    /\ last_reference = 0
    /\ run = [r \in RunIds |-> None]
    /\ run_event = [r \in RunIds |-> NoCurve]
    /\ snapshot = directory
    /\ reload = [c \in Reloaders |-> [phase |-> "idle", loaded |-> None]]
    /\ claimed = [r \in RunIds |-> None]
    /\ post = [r \in RunIds |-> "none"]
    /\ held = [r \in RunIds |-> None]
    /\ screened = [r \in RunIds |-> None]
    /\ cached = [w \in Workers |-> None]
    /\ searched = [r \in RunIds |-> None]

-----------------------------------------------------------------------------
(* The directory and its reload.                                           *)

\* A user adds, removes or changes files.
Edit ==
    /\ directory.at < MaxEdits
    /\ \E h \in Pipelines, facts \in PipelineFacts :
          /\ <<h, facts>> # <<directory.hash, directory.facts>>
          /\ directory' = [hash |-> h, facts |-> facts, at |-> directory.at + 1]
    /\ UNCHANGED <<vars, snapshot, reload, cached, requests>>

\* Mutant: reloads overlap.
MayReload(c) == reload[c].phase = "idle"

\* The _reloading lock is held from the load to the assignment.
MayLoad(c) ==
    /\ reload[c].phase = "idle"
    /\ \A d \in Reloaders : reload[d].phase # "loaded"

ReloadLoads(c) ==
    /\ MayLoad(c)
    /\ reload' = [reload EXCEPT ![c] = [phase |-> "loaded", loaded |-> directory]]
    /\ UNCHANGED <<vars, directory, snapshot, cached, requests>>

ReloadAssigns(c) ==
    /\ reload[c].phase = "loaded"
    /\ snapshot' = reload[c].loaded
    /\ reload' = [reload EXCEPT ![c].phase = "assigned"]
    /\ UNCHANGED <<vars, directory, cached, requests>>

\* Then it records whatever is in force by now; a conflict is the caller's
\* 409, and changes nothing that is in force.
ReloadRecords(c) ==
    /\ reload[c].phase = "assigned"
    /\ RecordPipelineSnapshot(snapshot.hash, snapshot.facts)
    /\ reload' = [reload EXCEPT ![c] = [phase |-> "idle", loaded |-> None]]
    /\ UNCHANGED <<directory, snapshot, cached, requests>>

-----------------------------------------------------------------------------
(* GET /pipeline, and POST /optimisations up to open_run.                  *)

Browse(r) ==
    /\ post[r] = "none"
    /\ claimed' = [claimed EXCEPT ![r] = snapshot.hash]
    /\ UNCHANGED <<vars, source, post, held, screened, searched>>

\* post_optimisation takes the snapshot once, refuses a stale claim, and
\* screens.  A client need not claim a hash.
Screen(r) ==
    /\ post[r] = "none"
    /\ IF claimed[r] \in {None, snapshot.hash}
       THEN /\ post' = [post EXCEPT ![r] = "screened"]
            /\ held' = [held EXCEPT ![r] = snapshot]
            /\ screened' = [screened EXCEPT ![r] = EligibleOf[snapshot.hash]]
       ELSE /\ post' = [post EXCEPT ![r] = "moved"]
            /\ UNCHANGED <<held, screened>>
    /\ UNCHANGED <<vars, source, claimed, searched>>

\* Mutant: submit reads the source again.
CitedNow(r) == snapshot

\* Service.submit is handed the snapshot that was screened.
Cited(r) == held[r]

RecordCited(r) ==
    /\ post[r] = "screened"
    /\ RecordPipelineSnapshot(Cited(r).hash, Cited(r).facts)
    /\ post' = [post EXCEPT ![r] =
                  IF SnapshotVerdict(Cited(r).hash, Cited(r).facts) = "conflict"
                  THEN "conflict" ELSE "recorded"]
    /\ UNCHANGED <<source, claimed, held, screened, searched>>

Open(r) ==
    /\ post[r] = "recorded"
    /\ LET s == [inputs |-> InputOn(Cited(r).hash), calibration |-> Calibration,
                 eligible |-> screened[r]]
       IN  OpenVerdict(r, s) = "opened" /\ OpenRun(r, s)
    /\ post' = [post EXCEPT ![r] = "accepted"]
    /\ UNCHANGED <<source, claimed, held, screened, searched>>

-----------------------------------------------------------------------------
(* A worker gets the pipeline of a run.                                    *)

Expected(r) == PipelineOf[run[r].inputs]

\* Mutant: the cache is keyed on the directory alone.
CacheHolds(w, h) == cached[w] # None

CacheHit(w, h) == cached[w] = h

\* _pipeline_for: the one cached load if its key matches, and otherwise the
\* directory as it is now, if it still hashes to what was accepted.
Execute(w, r) ==
    /\ Exists(r) /\ searched[r] = None
    /\ \/ /\ CacheHit(w, Expected(r))
          /\ searched' = [searched EXCEPT ![r] = cached[w]]
          /\ UNCHANGED cached
       \/ /\ ~CacheHit(w, Expected(r))
          /\ directory.hash = Expected(r)
          /\ cached' = [cached EXCEPT ![w] = directory.hash]
          /\ searched' = [searched EXCEPT ![r] = directory.hash]
       \/ /\ ~CacheHit(w, Expected(r))
          /\ directory.hash # Expected(r)
          /\ searched' = [searched EXCEPT ![r] = "moved"]
          /\ UNCHANGED cached
    /\ UNCHANGED <<vars, directory, snapshot, reload, claimed, post, held, screened>>

SourceNext ==
    \/ Edit
    \/ \E c \in Reloaders : ReloadLoads(c) \/ ReloadAssigns(c) \/ ReloadRecords(c)
    \/ \E r \in RunIds : \/ Browse(r) \/ Screen(r) \/ RecordCited(r) \/ Open(r)
                         \/ \E w \in Workers : Execute(w, r)

SourceSpec == SourceInit /\ [][SourceNext]_system

-----------------------------------------------------------------------------
(* Properties.                                                             *)

SourceTypeOK ==
    /\ TypeOK
    /\ directory \in Load /\ snapshot \in Load
    /\ reload \in [Reloaders -> [phase : {"idle", "loaded", "assigned"},
                                 loaded : Load \cup {None}]]
    /\ claimed \in [RunIds -> Pipelines \cup {None}]
    /\ post \in [RunIds -> Posts]
    /\ held \in [RunIds -> Load \cup {None}]
    /\ screened \in [RunIds -> CandidateLists \cup {None}]
    /\ cached \in [Workers -> Pipelines \cup {None}]
    /\ searched \in [RunIds -> Pipelines \cup {None, "moved"}]

\* A run is recorded with the eligibility of the very pipeline it cites,
\* however reloads fall between its screening and its row (service.py,
\* submit).
EligibilityIsOfTheCitedPipeline ==
    \A r \in Issued : run[r].eligible = EligibleOf[Expected(r)]

\* The report stored under the hash a run cites is the one of the load that
\* accepted it, whatever is loaded, recorded or refused later
\* (record_pipeline_snapshot: no second verdict under one hash).
VerdictIsTheOneScreened ==
    \A r \in Issued : pipeline_snapshot[Expected(r)] = held[r].facts

\* A search ran on the pipeline its run cites or not at all, though the
\* worker reads the directory later than the server did and keeps a load of
\* it between runs (worker.py, _pipeline_for).
SearchesWhatItCites ==
    \A r \in RunIds : searched[r] \in Pipelines => searched[r] = Expected(r)

\* The load in force is never replaced by an older one, however reloads
\* overlap (pipeline_source.py, reload: "serialised").
ReloadsNeverGoBack == [][snapshot'.at >= snapshot.at]_system

\* Rejected files and warnings "never block" (A-7): no POST is turned away
\* because of what a load reports besides the pipeline itself.
NoReportBlocksARun == \A r \in RunIds : post[r] # "conflict"
=============================================================================
