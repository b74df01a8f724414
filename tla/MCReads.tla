------------------------------ MODULE MCReads -------------------------------
(* Small instances for TLC of what is read of a run and of the pipeline: a  *)
(* run while it goes on and after, by its clients; the pipeline through its *)
(* caches; the record of a run in its documents.  They share no state; a    *)
(* behaviour is one of one of them, its endpoint.                           *)
EXTENDS ResultReader, PipelineCache, MCPortfolio

CONSTANTS r1, q1, q2, h1, h2, c1, c2, Endpoints

VARIABLE endpoint

ReadsInit ==
    /\ endpoint \in Endpoints
    /\ ReaderInit
    /\ CacheInit
    /\ endpoint # "documents" => inForce = CHOOSE l \in Loads : TRUE
    /\ PortfolioInit

ReadsNext ==
    \/ /\ endpoint = "run" /\ ReaderNext
       /\ UNCHANGED <<traffic, portfolio>>
    \/ /\ endpoint = "pipeline" /\ CacheNext
       /\ UNCHANGED <<history, reader, portfolio>>
    \/ /\ endpoint = "documents" /\ PortfolioNext
       /\ UNCHANGED <<history, reader, traffic>>

reads == <<history, reader, traffic, portfolio, endpoint>>

ReadsSpec == ReadsInit /\ [][ReadsNext /\ UNCHANGED endpoint]_reads

ReadsSymmetry ==
    Permutations(Requests) \cup Permutations(Holds) \cup Permutations(LoadContents)
=============================================================================
