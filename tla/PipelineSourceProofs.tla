------------------------ MODULE PipelineSourceProofs ------------------------
(***************************************************************************)
(* Theorems about the pipeline directory from both of its ends.            *)
(*                                                                         *)
(* PipelineSource, for any pipelines, runs, reloads and workers and any    *)
(* number of edits: every step of it is a step of the store or leaves the  *)
(* store alone, so the lemmas of RunStoreProofs apply.                     *)
(*                                                                         *)
(* PipelineDirectory, for any seeds, counts and cover ratios and any       *)
(* number of commands: the invariant says which files a generate has       *)
(* removed and which it has brought at every step of its swap.             *)
(*                                                                         *)
(* WorkbookFile, for whatever is exported and typed and any number of      *)
(* edits: the invariant says what the row of a label holds.                *)
(***************************************************************************)
EXTENDS PipelineSource, PipelineDirectory, WorkbookFile, RunStoreProofs, FiniteSetTheorems

\* What a POST holds is what it screened, what it recorded and what it opened
\* its run with; what a run was searched on is what it cites.
PostOK(r) ==
    /\ post[r] \in {"screened", "recorded", "accepted"}
          => held[r] \in Load /\ screened[r] = EligibleOf[held[r].hash]
    /\ post[r] \in {"recorded", "accepted"}
          => pipeline_snapshot[held[r].hash] = held[r].facts
    /\ Exists(r) => /\ post[r] = "accepted"
                    /\ run[r].inputs = InputOn(held[r].hash)
                    /\ run[r].eligible = screened[r]
    /\ searched[r] \in Pipelines => Exists(r) /\ searched[r] = Expected(r)

PostsOK == \A r \in RunIds : PostOK(r)

\* The load in force is no newer than the directory, and the one load that
\* waits to be assigned is between the two.
ReloadsOK ==
    /\ snapshot.at <= directory.at
    /\ \A c \in Reloaders : reload[c].phase = "loaded" =>
          /\ reload[c].loaded \in Load
          /\ snapshot.at <= reload[c].loaded.at
          /\ reload[c].loaded.at <= directory.at
    /\ \A c, d \in Reloaders :
          reload[c].phase = "loaded" /\ reload[d].phase = "loaded" => c = d

SourceInv == SourceTypeOK /\ PostsOK /\ ReloadsOK

-----------------------------------------------------------------------------
(* The inputs a pipeline is submitted with, and the store underneath.      *)

LEMMA InputOnCites ==
    ASSUME NEW h \in Pipelines
    PROVE  InputOn(h) \in Inputs /\ PipelineOf[InputOn(h)] = h
<1>1. \E m \in Inputs : PipelineOf[m] = h
  BY SourceConstants
<1>. QED  BY <1>1 DEF InputOn

\* What Open submits is a submission the store may be offered.
LEMMA SubmissionOf ==
    ASSUME SourceTypeOK, NEW r \in RunIds, PostOK(r), post[r] = "recorded"
    PROVE  [inputs |-> InputOn(Cited(r).hash), calibration |-> Calibration,
            eligible |-> screened[r]] \in Submissions
<1>1. held[r] \in Load /\ screened[r] = EligibleOf[held[r].hash]
  BY DEF PostOK
<1>2. held[r].hash \in Pipelines
  BY <1>1 DEF Load
<1>3. EligibleOf[held[r].hash] \in CandidateLists /\ Calibration \in Calibrations
  BY <1>2, SourceConstants
<1>. QED  BY <1>1, <1>2, <1>3, InputOnCites DEF Submissions, Cited

\* A step of the source is a step of the store, or the store's tables stand.
LEMMA SourceStepIsStoreStep ==
    ASSUME SourceInv, [SourceNext]_system
    PROVE  [StoreNext]_vars
<1>. USE DEF SourceInv
<1>1. CASE Edit
  BY <1>1 DEF Edit
<1>2. ASSUME NEW c \in Reloaders, ReloadLoads(c) PROVE [StoreNext]_vars
  BY <1>2 DEF ReloadLoads
<1>3. ASSUME NEW c \in Reloaders, ReloadAssigns(c) PROVE [StoreNext]_vars
  BY <1>3 DEF ReloadAssigns
<1>4. ASSUME NEW c \in Reloaders, ReloadRecords(c) PROVE [StoreNext]_vars
  <2>1. snapshot.hash \in Pipelines /\ snapshot.facts \in PipelineFacts
    BY DEF SourceTypeOK, Load
  <2>. QED  BY <1>4, <2>1 DEF ReloadRecords, StoreNext, SnapshotStep
<1>5. ASSUME NEW r \in RunIds, Browse(r) \/ Screen(r) PROVE [StoreNext]_vars
  BY <1>5 DEF Browse, Screen
<1>6. ASSUME NEW r \in RunIds, RecordCited(r) PROVE [StoreNext]_vars
  <2>1. held[r] \in Load
    BY <1>6 DEF RecordCited, PostsOK, PostOK
  <2>2. Cited(r).hash \in Pipelines /\ Cited(r).facts \in PipelineFacts
    BY <2>1 DEF Load, Cited
  <2>. QED  BY <1>6, <2>2 DEF RecordCited, StoreNext, SnapshotStep
<1>7. ASSUME NEW r \in RunIds, Open(r) PROVE [StoreNext]_vars
  <2>1. PostOK(r) /\ post[r] = "recorded"
    BY <1>7 DEF Open, PostsOK
  <2>2. \E s \in Submissions : OpenRun(r, s)
    BY <1>7, <2>1, SubmissionOf DEF Open
  <2>. QED  BY <2>2 DEF StoreNext, RunStep
<1>8. ASSUME NEW r \in RunIds, NEW w \in Workers, Execute(w, r)
      PROVE  [StoreNext]_vars
  BY <1>8 DEF Execute
<1>9. CASE UNCHANGED system
  BY <1>9 DEF system
<1>. QED
  BY <1>1, <1>2, <1>3, <1>4, <1>5, <1>6, <1>7, <1>8, <1>9 DEF SourceNext

\* What is stored under a hash stays.
LEMMA SnapshotsStay ==
    ASSUME TypeOK, [StoreNext]_vars
    PROVE  \A h \in Pipelines : pipeline_snapshot[h] # None
              => pipeline_snapshot'[h] = pipeline_snapshot[h]
BY StepCases DEF snapshots

-----------------------------------------------------------------------------
(* The types.                                                              *)

LEMMA SourceTypeStep ==
    ASSUME SourceInv, [SourceNext]_system
    PROVE  SourceTypeOK'
<1>0. TypeOK'
  BY SourceStepIsStoreStep, TypeStep DEF SourceInv, SourceTypeOK
<1>. USE <1>0 DEF SourceInv, SourceTypeOK
<1>1. CASE Edit
  <2>1. PICK h \in Pipelines, facts \in PipelineFacts :
            directory' = [hash |-> h, facts |-> facts, at |-> directory.at + 1]
    BY <1>1 DEF Edit
  <2>2. directory.at \in 0 .. MaxEdits /\ directory.at < MaxEdits
    BY <1>1 DEF Edit, Load
  <2>3. directory' \in Load
    BY <2>1, <2>2, SourceConstants DEF Load
  <2>. QED  BY <1>1, <2>3 DEF Edit, requests
<1>2. ASSUME NEW c \in Reloaders, ReloadLoads(c) PROVE SourceTypeOK'
  BY <1>2 DEF ReloadLoads, requests
<1>3. ASSUME NEW c \in Reloaders, ReloadAssigns(c) PROVE SourceTypeOK'
  <2>1. snapshot' \in Load
    BY <1>3 DEF ReloadAssigns, ReloadsOK
  <2>. QED  BY <1>3, <2>1 DEF ReloadAssigns, requests
<1>4. ASSUME NEW c \in Reloaders, ReloadRecords(c) PROVE SourceTypeOK'
  BY <1>4 DEF ReloadRecords, requests
<1>5. ASSUME NEW r \in RunIds, Browse(r) PROVE SourceTypeOK'
  BY <1>5 DEF Browse, source, Load
<1>6. ASSUME NEW r \in RunIds, Screen(r) PROVE SourceTypeOK'
  <2>1. EligibleOf[snapshot.hash] \in CandidateLists
    BY SourceConstants DEF Load
  <2>. QED  BY <1>6, <2>1 DEF Screen, source, Posts
<1>7. ASSUME NEW r \in RunIds, RecordCited(r) PROVE SourceTypeOK'
  BY <1>7 DEF RecordCited, source, Posts
<1>8. ASSUME NEW r \in RunIds, Open(r) PROVE SourceTypeOK'
  BY <1>8 DEF Open, source, Posts
<1>9. ASSUME NEW r \in RunIds, NEW w \in Workers, Execute(w, r)
      PROVE  SourceTypeOK'
  <2>1. directory.hash \in Pipelines
    BY DEF Load
  <2>2. cached' \in [Workers -> Pipelines \cup {None}]
    BY <1>9, <2>1 DEF Execute
  <2>3. searched' \in [RunIds -> Pipelines \cup {None, "moved"}]
    BY <1>9, <2>1 DEF Execute
  <2>. QED  BY <1>9, <2>2, <2>3 DEF Execute
<1>10. CASE UNCHANGED system
  BY <1>10 DEF system, source, requests
<1>. QED
  BY <1>1, <1>2, <1>3, <1>4, <1>5, <1>6, <1>7, <1>8, <1>9, <1>10 DEF SourceNext

-----------------------------------------------------------------------------
(* Reloads.                                                                *)

LEMMA ReloadsStep ==
    ASSUME SourceInv, [SourceNext]_system
    PROVE  ReloadsOK' /\ snapshot'.at >= snapshot.at
<1>0. /\ directory.at \in Nat /\ snapshot.at \in Nat
      /\ \A l \in Load : l.at \in Nat
  BY SourceConstants DEF SourceInv, SourceTypeOK, Load
<1>. USE <1>0 DEF SourceInv, SourceTypeOK, ReloadsOK
<1>1. CASE Edit
  <2>1. directory'.at = directory.at + 1
    BY <1>1 DEF Edit
  <2>2. reload' = reload /\ snapshot' = snapshot
    BY <1>1 DEF Edit
  <2>. QED  BY <2>1, <2>2
<1>2. ASSUME NEW c \in Reloaders, ReloadLoads(c)
      PROVE  ReloadsOK' /\ snapshot'.at >= snapshot.at
  <2>1. reload' = [reload EXCEPT ![c] = [phase |-> "loaded", loaded |-> directory]]
    BY <1>2 DEF ReloadLoads
  <2>2. \A d \in Reloaders : reload'[d].phase = "loaded"
           => d = c /\ reload'[d].loaded = directory
    BY <1>2, <2>1 DEF ReloadLoads, MayLoad
  <2>3. directory' = directory /\ snapshot' = snapshot
    BY <1>2 DEF ReloadLoads
  <2>. QED  BY <2>2, <2>3
<1>3. ASSUME NEW c \in Reloaders, ReloadAssigns(c)
      PROVE  ReloadsOK' /\ snapshot'.at >= snapshot.at
  <2>1. /\ reload[c].phase = "loaded" /\ snapshot' = reload[c].loaded
        /\ directory' = directory
    BY <1>3 DEF ReloadAssigns
  <2>2. \A d \in Reloaders : reload'[d].phase # "loaded"
    BY <1>3 DEF ReloadAssigns
  <2>. QED  BY <2>1, <2>2
<1>4. ASSUME NEW c \in Reloaders, ReloadRecords(c)
      PROVE  ReloadsOK' /\ snapshot'.at >= snapshot.at
  <2>1. /\ reload' = [reload EXCEPT ![c] = [phase |-> "idle", loaded |-> None]]
        /\ directory' = directory /\ snapshot' = snapshot
    BY <1>4 DEF ReloadRecords
  <2>2. \A d \in Reloaders : reload'[d].phase = "loaded"
           => reload'[d] = reload[d]
    BY <2>1
  <2>. QED  BY <2>1, <2>2
<1>5. CASE UNCHANGED <<directory, snapshot, reload>>
  BY <1>5
<1>6. ASSUME NEW r \in RunIds,
             \/ Browse(r) \/ Screen(r) \/ RecordCited(r) \/ Open(r)
             \/ \E w \in Workers : Execute(w, r)
      PROVE  UNCHANGED <<directory, snapshot, reload>>
  BY <1>6 DEF Browse, Screen, RecordCited, Open, Execute, source
<1>7. CASE UNCHANGED system
  BY <1>5, <1>7 DEF system, source
<1>. QED
  BY <1>1, <1>2, <1>3, <1>4, <1>5, <1>6, <1>7 DEF SourceNext

-----------------------------------------------------------------------------
(* Posts and workers.                                                      *)

\* Nothing is lost for a run when its request stands still and the rows and
\* the snapshots it rests on do.
LEMMA StandingPost ==
    ASSUME SourceInv, [SourceNext]_system, NEW r \in RunIds,
           post'[r] = post[r], held'[r] = held[r], screened'[r] = screened[r],
           searched'[r] = searched[r], run'[r] = run[r]
    PROVE  PostOK(r)'
<1>1. PostOK(r)
  BY DEF SourceInv, PostsOK
<1>2. \A h \in Pipelines : pipeline_snapshot[h] # None
         => pipeline_snapshot'[h] = pipeline_snapshot[h]
  BY SourceStepIsStoreStep, SnapshotsStay DEF SourceInv, SourceTypeOK
<1>3. ASSUME held[r] \in Load
      PROVE  held[r].hash \in Pipelines /\ held[r].facts # None
  BY <1>3, NoneIsNoValue DEF Load
<1>. QED  BY <1>1, <1>2, <1>3 DEF PostOK, Exists, Expected

LEMMA PostsStep ==
    ASSUME SourceInv, [SourceNext]_system
    PROVE  PostsOK'
<1>. USE DEF SourceInv, SourceTypeOK, TypeOK
<1>. SUFFICES ASSUME NEW q \in RunIds PROVE PostOK(q)'
  BY DEF PostsOK
<1>0. PostOK(q)
  BY DEF PostsOK
<1>1. CASE Edit
  BY <1>1, StandingPost DEF Edit, requests, vars
<1>2. ASSUME NEW c \in Reloaders,
             ReloadLoads(c) \/ ReloadAssigns(c) \/ ReloadRecords(c)
      PROVE  PostOK(q)'
  BY <1>2, StandingPost
  DEF ReloadLoads, ReloadAssigns, ReloadRecords, RecordPipelineSnapshot,
      requests, vars
<1>3. ASSUME NEW r \in RunIds, Browse(r) PROVE PostOK(q)'
  BY <1>3, StandingPost DEF Browse, vars
<1>4. ASSUME NEW r \in RunIds, Screen(r) PROVE PostOK(q)'
  <2>1. CASE q # r
    BY <1>4, <2>1, StandingPost DEF Screen, vars
  <2>2. CASE q = r
    <3>1. ~Exists(r) /\ searched[r] \notin Pipelines
      BY <1>0, <1>4, <2>2 DEF Screen, PostOK
    <3>2. post'[r] = "moved" \/ /\ post'[r] = "screened" /\ held'[r] = snapshot
                                /\ screened'[r] = EligibleOf[snapshot.hash]
      BY <1>4 DEF Screen
    <3>3. run' = run /\ searched' = searched
      BY <1>4 DEF Screen, vars
    <3>. QED  BY <2>2, <3>1, <3>2, <3>3 DEF PostOK, Exists
  <2>. QED  BY <2>1, <2>2
<1>5. ASSUME NEW r \in RunIds, RecordCited(r) PROVE PostOK(q)'
  <2>1. CASE q # r
    BY <1>5, <2>1, StandingPost DEF RecordCited, RecordPipelineSnapshot
  <2>2. CASE q = r
    <3>1. held[r] \in Load /\ screened[r] = EligibleOf[held[r].hash]
      BY <1>0, <1>5, <2>2 DEF RecordCited, PostOK
    <3>2. ~Exists(r) /\ searched[r] \notin Pipelines
      BY <1>0, <1>5, <2>2 DEF RecordCited, PostOK
    <3>3. UNCHANGED <<run, searched, held, screened>>
      BY <1>5 DEF RecordCited, RecordPipelineSnapshot
    <3>4. \/ post'[r] = "conflict"
          \/ /\ post'[r] = "recorded"
             /\ pipeline_snapshot'[held[r].hash] = held[r].facts
      <4>1. held[r].hash \in Pipelines
        BY <3>1 DEF Load
      <4>. QED
        BY <1>5, <4>1 DEF RecordCited, RecordPipelineSnapshot, SnapshotVerdict, Cited
    <3>. QED  BY <2>2, <3>1, <3>2, <3>3, <3>4 DEF PostOK, Exists
  <2>. QED  BY <2>1, <2>2
<1>6. ASSUME NEW r \in RunIds, Open(r) PROVE PostOK(q)'
  <2>1. CASE q # r
    BY <1>6, <2>1, StandingPost DEF Open, OpenRun
  <2>2. CASE q = r
    <3>1. /\ held[r] \in Load /\ screened[r] = EligibleOf[held[r].hash]
          /\ pipeline_snapshot[held[r].hash] = held[r].facts
          /\ searched[r] \notin Pipelines
      BY <1>0, <1>6, <2>2 DEF Open, PostOK
    <3>2. run'[r].inputs = InputOn(held[r].hash) /\ run'[r].eligible = screened[r]
      BY <1>6 DEF Open, OpenRun, Cited
    <3>3. /\ post'[r] = "accepted" /\ held' = held /\ screened' = screened
          /\ searched' = searched /\ pipeline_snapshot' = pipeline_snapshot
      BY <1>6 DEF Open, OpenRun, snapshots
    <3>. QED  BY <2>2, <3>1, <3>2, <3>3 DEF PostOK
  <2>. QED  BY <2>1, <2>2
<1>7. ASSUME NEW r \in RunIds, NEW w \in Workers, Execute(w, r)
      PROVE  PostOK(q)'
  <2>1. CASE q # r
    BY <1>7, <2>1, StandingPost DEF Execute, vars
  <2>2. CASE q = r
    <3>1. Exists(r) /\ searched'[r] \in {Expected(r), "moved"}
      BY <1>7 DEF Execute, CacheHit
    <3>2. UNCHANGED <<run, post, held, screened, pipeline_snapshot>>
      BY <1>7 DEF Execute, vars
    <3>3. "moved" \notin Pipelines
      BY SourceConstants
    <3>. QED  BY <1>0, <2>2, <3>1, <3>2, <3>3 DEF PostOK, Exists, Expected
  <2>. QED  BY <2>1, <2>2
<1>8. CASE UNCHANGED system
  BY <1>8, StandingPost DEF system, requests, vars
<1>. QED
  BY <1>1, <1>2, <1>3, <1>4, <1>5, <1>6, <1>7, <1>8 DEF SourceNext

-----------------------------------------------------------------------------
(* The invariant, and the theorems.                                        *)

LEMMA SourceInitInv == SourceInit => SourceInv
<1>. SUFFICES ASSUME SourceInit PROVE SourceInv
  OBVIOUS
<1>1. directory \in Load /\ directory.at = 0 /\ snapshot = directory
  BY DEF SourceInit
<1>2. pipeline_snapshot \in [Pipelines -> PipelineFacts \cup {None}]
  BY <1>1 DEF SourceInit, Load
<1>3. TypeOK
  BY <1>2, SourceConstants DEF SourceInit, TypeOK, Curves, NoCurve
<1>4. SourceTypeOK
  BY <1>1, <1>3 DEF SourceInit, SourceTypeOK, Posts
<1>5. PostsOK
  BY SourceConstants DEF SourceInit, PostsOK, PostOK, Exists
<1>6. ReloadsOK
  BY <1>1 DEF SourceInit, ReloadsOK
<1>. QED  BY <1>4, <1>5, <1>6 DEF SourceInv

LEMMA SourceInvariant == SourceSpec => []SourceInv
<1>1. SourceInv /\ [SourceNext]_system => SourceInv'
  BY SourceTypeStep, PostsStep, ReloadsStep DEF SourceInv
<1>. QED  BY <1>1, SourceInitInv, PTL DEF SourceSpec

\* A run is recorded with the eligibility of the pipeline it cites, wherever
\* reloads fall between its screening and its row.
THEOREM Eligibility == SourceSpec => []EligibilityIsOfTheCitedPipeline
<1>1. SourceInv => EligibilityIsOfTheCitedPipeline
  <2>. SUFFICES ASSUME SourceInv, NEW r \in Issued
                PROVE  run[r].eligible = EligibleOf[Expected(r)]
    BY DEF EligibilityIsOfTheCitedPipeline
  <2>1. PostOK(r) /\ Exists(r)
    BY DEF SourceInv, PostsOK, Issued
  <2>2. held[r].hash \in Pipelines
    BY <2>1 DEF PostOK, Load
  <2>. QED  BY <2>1, <2>2, InputOnCites DEF PostOK, Expected
<1>. QED  BY <1>1, SourceInvariant, PTL

\* The report stored under the hash a run cites is that of the load that
\* accepted it.
THEOREM Verdict == SourceSpec => []VerdictIsTheOneScreened
<1>1. SourceInv => VerdictIsTheOneScreened
  <2>. SUFFICES ASSUME SourceInv, NEW r \in Issued
                PROVE  pipeline_snapshot[Expected(r)] = held[r].facts
    BY DEF VerdictIsTheOneScreened
  <2>1. PostOK(r) /\ Exists(r)
    BY DEF SourceInv, PostsOK, Issued
  <2>2. held[r].hash \in Pipelines
    BY <2>1 DEF PostOK, Load
  <2>. QED  BY <2>1, <2>2, InputOnCites DEF PostOK, Expected
<1>. QED  BY <1>1, SourceInvariant, PTL

\* A search ran on the pipeline its run cites, or not at all.
THEOREM Searched == SourceSpec => []SearchesWhatItCites
<1>1. SourceInv => SearchesWhatItCites
  BY DEF SourceInv, PostsOK, PostOK, SearchesWhatItCites
<1>. QED  BY <1>1, SourceInvariant, PTL

\* The load in force is never replaced by an older one.
THEOREM Forward == SourceSpec => ReloadsNeverGoBack
<1>1. SourceInv /\ [SourceNext]_system => [snapshot'.at >= snapshot.at]_system
  BY ReloadsStep
<1>. QED  BY <1>1, SourceInvariant, PTL DEF SourceSpec, ReloadsNeverGoBack

\* The store under the source keeps its promise: what a run cites is stored.
THEOREM Backed == SourceSpec => []ProvenanceIsBacked
<1>1. SourceInit => ProvenanceIsBacked
  BY DEF SourceInit, ProvenanceIsBacked, Issued, Exists
<1>2. SourceInv /\ ProvenanceIsBacked /\ [SourceNext]_system
         => ProvenanceIsBacked'
  BY SourceStepIsStoreStep, ProvenanceStep DEF SourceInv, SourceTypeOK
<1>. QED  BY <1>1, <1>2, SourceInvariant, PTL DEF SourceSpec

-----------------------------------------------------------------------------
(* The commands that write to the directory (PipelineDirectory).           *)

\* An id that is built is of the pool.
LEMMA BuiltAreIds ==
    ASSUME NEW seed, NEW count \in Counts
    PROVE  Built(seed, count) \subseteq Ids
  BY DEF Built, Placed, Ids

-----------------------------------------------------------------------------
\* What may stand under a name.
Contents == Files \cup {Nothing, Garbled}

HoldsAProject(file) == file \notin {Nothing, Garbled}

DirectoryTypeOK ==
    /\ files \in [Names -> Contents]
    /\ book \in Files \cup {Nothing}

\* What a generate may bring: a file of the generator to each name, each with
\* an id of its own, and none with the id of a file it does not replace.
PayloadOK(payload, before) ==
    /\ DOMAIN payload \subseteq Names
    /\ \A n \in DOMAIN payload : payload[n] \in Files /\ payload[n].by = "generator"
    /\ \A m, n \in DOMAIN payload : payload[m].id = payload[n].id => m = n
    /\ \A m \in DOMAIN payload : \A n \in Names \ OursOf(before) :
          HoldsAProject(before[n]) => before[n].id # payload[m].id

\* The directory a generate has made so far of the one it found.
SoFar(j) ==
    [n \in Names |->
        IF j.phase = "moving" /\ n \in DOMAIN j.payload \ j.staged THEN j.payload[n]
        ELSE IF n \in OursOf(j.before) \ j.ours THEN Nothing
        ELSE j.before[n]]

Jobs == [payload : UNION {[S -> Files] : S \in SUBSET Names},
         staged : SUBSET Names, ours : SUBSET Names,
         phase : {"staging", "swapping", "moving"},
         before : [Names -> Contents], kept : SUBSET Names, disturbed : BOOLEAN]

JobOK(j) ==
    /\ j \in Jobs
    /\ PayloadOK(j.payload, j.before)
    /\ j.staged \subseteq DOMAIN j.payload
    /\ j.ours \subseteq OursOf(j.before)
    /\ j.phase = "staging" => j.ours = OursOf(j.before)
    /\ j.phase = "swapping" => j.staged = DOMAIN j.payload
    /\ j.phase = "moving" => j.ours = {}
    /\ ~j.disturbed => files = SoFar(j)

DirectoryInv ==
    /\ DirectoryTypeOK
    /\ job # Nothing => JobOK(job) /\ outcome = "running"

\* What a generate that is not refused brings: an id of the pool to each, and
\* none that a file of somebody else's claims.
LEMMA PayloadIsOK ==
    ASSUME DirectoryTypeOK, NEW seed \in Seeds, NEW count \in Counts,
           ~Refuses(seed, count)
    PROVE  /\ Payload(seed, count) \in UNION {[S -> Files] : S \in SUBSET Names}
           /\ PayloadOK(Payload(seed, count), files)
<1>. DEFINE names == {Drawn(seed, i) : i \in Built(seed, count)}
            payload == Payload(seed, count)
<1>1. Built(seed, count) \subseteq Ids
  BY BuiltAreIds
<1>2. names \subseteq Names
  BY <1>1 DEF Drawn, Names
<1>3. \A n \in names : n[2] \in Built(seed, count) /\ n = <<seed, n[2]>>
  BY DEF Drawn
<1>4. DOMAIN payload = names
      /\ \A n \in names : payload[n] = File(n[2], "generator", seed)
  BY DEF Payload
<1>5. payload = [n \in names |-> File(n[2], "generator", seed)]
  BY DEF Payload
<1>. HIDE DEF names, payload
<1>6. ASSUME NEW n \in names
      PROVE  /\ payload[n] \in Files /\ payload[n].by = "generator"
             /\ payload[n].id = n[2]
  <2>1. n[2] \in Ids
    BY <1>1, <1>3
  <2>2. payload[n] = File(n[2], "generator", seed)
    BY <1>4
  <2>. QED  BY <2>1, <2>2 DEF File, Files
<1>7. TheirIds \cap Built(seed, count) = {}
  BY DEF Refuses
<1>8. ASSUME NEW n \in Names \ OursOf(files), HoldsAProject(files[n])
      PROVE  files[n].id \in TheirIds
  BY <1>8 DEF TheirIds, Theirs, Whole, Present, HoldsAProject
<1>9. payload \in [names -> Files]
  BY <1>5, <1>6
<1>10. PayloadOK(payload, files)
  BY <1>2, <1>3, <1>4, <1>6, <1>7, <1>8 DEF PayloadOK
<1>. QED  BY <1>2, <1>9, <1>10 DEF payload

\* One lemma for each step of a generate.
LEMMA GenerateKeeps ==
    ASSUME DirectoryInv, NEW seed \in Seeds, NEW count \in Counts,
           Generate(seed, count)
    PROVE  DirectoryInv'
<1>. USE DEF Generate
<1>1. DirectoryTypeOK /\ DirectoryTypeOK'
  BY DEF DirectoryInv, DirectoryTypeOK
<1>2. CASE Refuses(seed, count)
  BY <1>1, <1>2 DEF DirectoryInv
<1>3. CASE ~Refuses(seed, count)
  <2>. DEFINE j == [payload |-> Payload(seed, count), staged |-> {},
                    ours |-> OursOf(files), phase |-> "staging",
                    before |-> files, kept |-> Theirs, disturbed |-> FALSE]
  <2>1. job' = j /\ files' = files /\ outcome' = "running"
    BY <1>3
  <2>2. OursOf(files) \subseteq Names /\ Theirs \subseteq Names
    BY DEF OursOf, Theirs, Present
  <2>3. j \in Jobs
    BY <1>1, <1>3, <2>2, PayloadIsOK DEF Jobs, DirectoryTypeOK
  <2>4. files = SoFar(j)
    BY <1>1 DEF SoFar, DirectoryTypeOK
  <2>5. JobOK(j)
    BY <1>1, <1>3, <2>3, <2>4, PayloadIsOK DEF JobOK
  <2>. HIDE DEF j
  <2>6. JobOK(job)'
    BY <2>1, <2>5 DEF JobOK
  <2>. QED  BY <1>1, <2>1, <2>6 DEF DirectoryInv
<1>. QED  BY <1>2, <1>3

LEMMA StageKeeps ==
    ASSUME DirectoryInv, NEW n \in Names, Stage(n)
    PROVE  DirectoryInv'
<1>. DEFINE k == [job EXCEPT !.staged = @ \cup {n}]
<1>1. /\ JobOK(job) /\ job.phase = "staging" /\ n \in DOMAIN job.payload
      /\ job' = k /\ files' = files /\ book' = book /\ outcome' = "running"
  BY DEF DirectoryInv, Stage
<1>2. /\ k \in Jobs
      /\ k.payload = job.payload /\ k.before = job.before /\ k.ours = job.ours
      /\ k.phase = "staging" /\ k.staged = job.staged \cup {n}
      /\ k.disturbed = job.disturbed
  BY <1>1 DEF JobOK, Jobs
<1>. HIDE DEF k
<1>3. SoFar(k) = SoFar(job)
  BY <1>1, <1>2 DEF SoFar
<1>4. JobOK(k)
  BY <1>1, <1>2, <1>3 DEF JobOK
<1>5. JobOK(job)'
  BY <1>1, <1>4 DEF JobOK
<1>. QED  BY <1>1, <1>5 DEF DirectoryInv, DirectoryTypeOK

LEMMA UnlinkKeeps ==
    ASSUME DirectoryInv, NEW n \in Names, Unlink(n)
    PROVE  DirectoryInv'
<1>. DEFINE k == [job EXCEPT !.phase = "swapping", !.ours = @ \ {n}]
<1>1. /\ JobOK(job) /\ job.phase \in {"staging", "swapping"}
      /\ job.staged = DOMAIN job.payload /\ n \in job.ours
      /\ job' = k /\ files' = [files EXCEPT ![n] = Nothing]
      /\ book' = book /\ outcome' = "running" /\ DirectoryTypeOK
  BY DEF DirectoryInv, Unlink
<1>2. /\ k \in Jobs
      /\ k.payload = job.payload /\ k.before = job.before
      /\ k.ours = job.ours \ {n} /\ k.phase = "swapping"
      /\ k.staged = job.staged /\ k.disturbed = job.disturbed
  BY <1>1 DEF JobOK, Jobs
<1>. HIDE DEF k
<1>3. files' \in [Names -> Contents]
  BY <1>1 DEF DirectoryTypeOK, Contents
<1>4. ASSUME ~k.disturbed PROVE files' = SoFar(k)
  <2>1. files = SoFar(job)
    BY <1>1, <1>2, <1>4 DEF JobOK
  <2>2. \A m \in Names : files'[m] = SoFar(k)[m]
    BY <1>1, <1>2, <2>1 DEF SoFar, JobOK, DirectoryTypeOK
  <2>3. DOMAIN files' = Names /\ SoFar(k) = [m \in Names |-> SoFar(k)[m]]
    BY <1>3 DEF SoFar
  <2>. QED  BY <1>3, <2>2, <2>3
<1>5. JobOK(job)'
  BY <1>1, <1>2, <1>4 DEF JobOK
<1>. QED  BY <1>1, <1>3, <1>5 DEF DirectoryInv, DirectoryTypeOK

LEMMA MoveKeeps ==
    ASSUME DirectoryInv, NEW n \in Names, Move(n)
    PROVE  DirectoryInv'
<1>. DEFINE k == [job EXCEPT !.phase = "moving", !.staged = @ \ {n}]
<1>1. /\ JobOK(job) /\ job.ours = {} /\ n \in job.staged
      /\ job.phase = "staging" => job.staged = DOMAIN job.payload
      /\ job' = k /\ files' = [files EXCEPT ![n] = job.payload[n]]
      /\ book' = book /\ outcome' = "running" /\ DirectoryTypeOK
  BY DEF DirectoryInv, Move
<1>2. /\ k \in Jobs
      /\ k.payload = job.payload /\ k.before = job.before
      /\ k.ours = {} /\ k.phase = "moving"
      /\ k.staged = job.staged \ {n} /\ k.disturbed = job.disturbed
  BY <1>1 DEF JobOK, Jobs
<1>. HIDE DEF k
<1>3. files' \in [Names -> Contents]
  BY <1>1 DEF DirectoryTypeOK, Contents, JobOK, PayloadOK
<1>4. ASSUME ~k.disturbed PROVE files' = SoFar(k)
  <2>1. files = SoFar(job)
    BY <1>1, <1>2, <1>4 DEF JobOK
  <2>2. job.phase # "moving" => job.staged = DOMAIN job.payload
    BY <1>1 DEF JobOK, Jobs
  <2>3. \A m \in Names : files'[m] = SoFar(k)[m]
    BY <1>1, <1>2, <2>1, <2>2 DEF SoFar, JobOK, DirectoryTypeOK
  <2>4. DOMAIN files' = Names /\ SoFar(k) = [m \in Names |-> SoFar(k)[m]]
    BY <1>3 DEF SoFar
  <2>. QED  BY <1>3, <2>3, <2>4
<1>5. JobOK(job)'
  BY <1>1, <1>2, <1>4 DEF JobOK
<1>. QED  BY <1>1, <1>3, <1>5 DEF DirectoryInv, DirectoryTypeOK

\* Whoever else writes to the directory is seen to have.
LEMMA OthersKeep ==
    ASSUME DirectoryInv, DirectoryTypeOK', job' = Disturbed,
           job # Nothing => outcome' = outcome
    PROVE  DirectoryInv'
<1>1. CASE job = Nothing
  BY <1>1 DEF DirectoryInv, Disturbed
<1>2. CASE job # Nothing
  <2>. DEFINE k == [job EXCEPT !.disturbed = TRUE]
  <2>1. JobOK(job) /\ job' = k /\ outcome' = "running"
    BY <1>2 DEF DirectoryInv, Disturbed
  <2>2. /\ k \in Jobs
        /\ k.payload = job.payload /\ k.before = job.before
        /\ k.ours = job.ours /\ k.phase = job.phase
        /\ k.staged = job.staged /\ k.disturbed
    BY <2>1 DEF JobOK, Jobs
  <2>. HIDE DEF k
  <2>3. JobOK(job)'
    BY <2>1, <2>2 DEF JobOK
  <2>. QED  BY <2>1, <2>3 DEF DirectoryInv
<1>. QED  BY <1>1, <1>2

LEMMA EditByHandKeeps ==
    ASSUME DirectoryInv, NEW n \in Names, EditByHand(n)
    PROVE  DirectoryInv'
<1>1. \A i \in Ids : File(i, "analyst", "revised") \in Contents
  BY DEF File, Files, Contents
<1>2. Garbled \in Contents /\ Nothing \in Contents
  BY DEF Contents
<1>3. DirectoryTypeOK'
  BY <1>1, <1>2 DEF EditByHand, DirectoryInv, DirectoryTypeOK
<1>. QED  BY <1>3, OthersKeep DEF EditByHand

LEMMA IngestKeeps ==
    ASSUME DirectoryInv, NEW written, Ingest(written)
    PROVE  DirectoryInv'
<1>1. book \in Files /\ written \in Contents /\ files \in [Names -> Contents]
  BY DEF Ingest, DirectoryInv, DirectoryTypeOK, Contents
<1>2. Ingested(book.id) \in Names
  BY <1>1 DEF Ingested, Names, Files
<1>3. DirectoryTypeOK'
  BY <1>1, <1>2 DEF Ingest, DirectoryTypeOK
<1>. QED  BY <1>3, OthersKeep DEF Ingest

\* The steps that write to no file of the directory.
LEMMA ReadersKeep ==
    ASSUME DirectoryInv, files' = files, book' \in Files \cup {Nothing},
           job' = Nothing \/ (job' = job /\ (job # Nothing => outcome' = outcome))
    PROVE  DirectoryInv'
<1>1. DirectoryTypeOK'
  BY DEF DirectoryInv, DirectoryTypeOK
<1>2. CASE job' = Nothing
  BY <1>1, <1>2 DEF DirectoryInv
<1>3. CASE job' = job /\ (job # Nothing => outcome' = outcome)
  <2>1. JobOK(job) => JobOK(job)'
    BY <1>3 DEF JobOK
  <2>. QED  BY <1>1, <1>3, <2>1 DEF DirectoryInv
<1>. QED  BY <1>2, <1>3

LEMMA DirectoryStep ==
    ASSUME DirectoryInv, [DirectoryNext]_disk
    PROVE  DirectoryInv'
<1>0. book \in Files \cup {Nothing} /\ files \in [Names -> Contents]
  BY DEF DirectoryInv, DirectoryTypeOK
<1>1. CASE \E seed \in Seeds, count \in Counts : Generate(seed, count)
  BY <1>1, GenerateKeeps
<1>2. CASE \E n \in Names : Stage(n) \/ Unlink(n) \/ Move(n)
  BY <1>2, StageKeeps, UnlinkKeeps, MoveKeeps
<1>3. CASE Finish \/ Interrupted \/ Killed
  BY <1>0, <1>3, ReadersKeep DEF Finish, Interrupted, Killed
<1>4. ASSUME NEW n \in Names, Export(n) PROVE DirectoryInv'
  <2>1. files[n] \in Files
    BY <1>0, <1>4 DEF Export, FirstOfItsId, Whole, Present, Contents
  <2>. QED  BY <1>0, <1>4, <2>1, ReadersKeep DEF Export
<1>5. CASE \E n \in Names : EditByHand(n)
  BY <1>5, EditByHandKeeps
<1>6. CASE Revise
  <2>1. book \in Files
    BY <1>0, <1>6 DEF Revise
  <2>2. PICK by \in {book.by, "analyst"} :
           book' = [book EXCEPT !.content = "revised", !.by = by]
    BY <1>6 DEF Revise
  <2>3. book' \in Files
    BY <2>1, <2>2 DEF Files
  <2>. QED  BY <1>6, <2>3, ReadersKeep DEF Revise
<1>7. CASE RefuseBook
  BY <1>0, <1>7, ReadersKeep DEF RefuseBook
<1>8. CASE \E written \in {book, Garbled} : Ingest(written)
  BY <1>8, IngestKeeps
<1>9. CASE UNCHANGED disk
  BY <1>0, <1>9, ReadersKeep DEF disk
<1>. QED
  BY <1>1, <1>2, <1>3, <1>4, <1>5, <1>6, <1>7, <1>8, <1>9 DEF DirectoryNext

\* Whatever the commands and the hands that write to the directory, and
\* wherever one is interrupted or killed: a generate that nobody disturbed has
\* made of the directory it found what SoFar says, no more and no less
\* (write_pipeline).
THEOREM DirectoryInvariant ==
    DirectorySpec => []DirectoryInv
<1>1. DirectoryInit => DirectoryInv
  BY DEF DirectoryInit, DirectoryInv, DirectoryTypeOK, Contents
<1>. QED  BY <1>1, DirectoryStep, PTL DEF DirectorySpec

\* A generate that fails before its swap leaves the previous pipeline as it
\* was (write_pipeline: "a failed run leaves the previous pipeline intact").
THEOREM FailureLeavesThePrevious ==
    DirectorySpec => []FailedRunLeavesThePrevious
<1>1. ASSUME DirectoryInv PROVE FailedRunLeavesThePrevious
  <2>. SUFFICES ASSUME job # Nothing, job.phase = "staging", ~job.disturbed
                PROVE  files = job.before
    BY DEF FailedRunLeavesThePrevious
  <2>1. JobOK(job)
    BY <1>1 DEF DirectoryInv
  <2>2. files = SoFar(job) /\ job.ours = OursOf(job.before)
        /\ job.before \in [Names -> Contents]
    BY <2>1 DEF JobOK, Jobs
  <2>3. SoFar(job) = [n \in Names |-> job.before[n]]
    BY <2>2 DEF SoFar
  <2>. QED  BY <2>2, <2>3
<1>. QED  BY <1>1, DirectoryInvariant, PTL

\* A command that runs ends as written only by the last step of it.
LEMMA OnlyFinishWrites ==
    ASSUME DirectoryInv, DirectoryNext, job # Nothing, outcome' = "written"
    PROVE  Finish
<1>1. outcome = "running"
  BY DEF DirectoryInv
<1>2. ~\E n \in Names : Export(n) \/ EditByHand(n)
  BY <1>1 DEF Export, EditByHand
<1>3. ~\E n \in Names : Stage(n) \/ Unlink(n) \/ Move(n)
  BY <1>1 DEF Stage, Unlink, Move
<1>4. ~\E seed \in Seeds, count \in Counts : Generate(seed, count)
  BY DEF Generate
<1>5. ~(Interrupted \/ Killed \/ Revise \/ RefuseBook)
  BY <1>1 DEF Interrupted, Killed, Revise, RefuseBook
<1>6. ~\E written \in {book, Garbled} : Ingest(written)
  BY <1>1 DEF Ingest
<1>. QED  BY <1>2, <1>3, <1>4, <1>5, <1>6 DEF DirectoryNext

\* And then the swap is complete: nothing staged, nothing left to remove.
LEMMA FinishReplaces ==
    ASSUME DirectoryInv, Finish, ~job.disturbed
    PROVE  LET ours == OursOf(files')
           IN  /\ ours = DOMAIN job.payload
               /\ \A n \in ours : files'[n] = job.payload[n]
               /\ \A m \in ours : \A n \in Names \ {m} :
                     files'[n] \notin {Nothing, Garbled} => files'[n].id # files'[m].id
<1>1. /\ JobOK(job) /\ job.phase = "moving" /\ job.staged = {} /\ files' = files
  BY DEF Finish, DirectoryInv
<1>2. /\ job.ours = {} /\ files = SoFar(job) /\ PayloadOK(job.payload, job.before)
      /\ job.before \in [Names -> Contents]
  BY <1>1 DEF JobOK, Jobs
<1>3. \A n \in DOMAIN job.payload :
         n \in Names /\ files[n] = job.payload[n] /\ HoldsAProject(files[n])
         /\ files[n].by = "generator"
  BY <1>1, <1>2, DirectoryConstants DEF SoFar, PayloadOK, HoldsAProject
<1>4. \A n \in Names \ DOMAIN job.payload :
         HoldsAProject(files[n]) => n \notin OursOf(job.before) /\ files[n] = job.before[n]
  BY <1>1, <1>2 DEF SoFar, HoldsAProject
<1>5. \A n \in Names \ DOMAIN job.payload : n \notin OursOf(files)
  BY <1>4 DEF OursOf, HoldsAProject
<1>6. OursOf(files) = DOMAIN job.payload
  BY <1>3, <1>5 DEF OursOf, HoldsAProject
<1>7. ASSUME NEW m \in DOMAIN job.payload, NEW n \in Names \ {m}, HoldsAProject(files[n])
      PROVE  files[n].id # files[m].id
  <2>1. CASE n \in DOMAIN job.payload
    BY <1>2, <1>3, <1>7, <2>1 DEF PayloadOK
  <2>2. CASE n \notin DOMAIN job.payload
    BY <1>2, <1>3, <1>4, <1>7, <2>2 DEF PayloadOK
  <2>. QED  BY <2>1, <2>2
<1>. QED  BY <1>1, <1>3, <1>6, <1>7 DEF HoldsAProject

\* A generate that succeeds leaves the generator's new files, none of its old
\* ones, and no id in two files on its account, whatever was left by commands
\* that failed before it (write_pipeline).
THEOREM RegenerationIsWhole ==
    DirectorySpec => RegenerationReplaces
<1>. DEFINE A == job # Nothing /\ outcome' = "written" /\ ~job.disturbed =>
         LET ours == OursOf(files')
         IN  /\ ours = DOMAIN job.payload
             /\ \A n \in ours : files'[n] = job.payload[n]
             /\ \A m \in ours : \A n \in Names \ {m} :
                   files'[n] \notin {Nothing, Garbled} => files'[n].id # files'[m].id
<1>1. DirectoryInv /\ [DirectoryNext]_disk => [A]_disk
  BY OnlyFinishWrites, FinishReplaces
<1>. QED  BY <1>1, DirectoryInvariant, PTL DEF DirectorySpec, RegenerationReplaces

-----------------------------------------------------------------------------
(* A workbook: its rows, wherever they stand, hold what is meant by them.   *)

\* The places of a label's figures in its row, and what may come to stand there.
Places(l) == IF l \in Series THEN DOMAIN Exported[l] ELSE {1}

Stands(l) == Typed[l] \cup (IF l \in Series THEN {Cell(Exported[l][y]) : y \in DOMAIN Exported[l]}
                            ELSE {Cell(Exported[l])})

CellsOf(l) == Stands(l) \cup {Recast(c) : c \in Stands(l)}

RowsOf(l) == [label : {l}, cells : [Places(l) -> CellsOf(l)]]

SheetRows == {Header, Remark} \cup UNION {RowsOf(l) : l \in Labels}

Sheets == {"fields", "statements"}
LabelsOf(s) == IF s = "fields" THEN Labels \ Series ELSE Series

\* A row of a label holds what was typed, and is the only one of it.
RowsAreMeant(s) ==
    /\ \A i \in 1 .. Len(sheets[s]) : sheets[s][i].label \in Labels =>
          /\ sheets[s][i].label \in LabelsOf(s)
          /\ \A y \in Places(sheets[s][i].label) :
                sheets[s][i].cells[y].of = meant[sheets[s][i].label][y]
    /\ \A i, j \in 1 .. Len(sheets[s]) :
          sheets[s][i].label \in Labels /\ sheets[s][j].label = sheets[s][i].label => i = j

\* What nobody has spoiled has its heading, its rows and its whole numbers.
WholeSheet(s) ==
    /\ Len(sheets[s]) > 0 /\ sheets[s][1] = Header
    /\ \A l \in LabelsOf(s) : \E i \in 1 .. Len(sheets[s]) : sheets[s][i].label = l
    /\ \A i \in 1 .. Len(sheets[s]) :
          sheets[s][i].label \in IntegerFields => IsWhole(sheets[s][i].cells[1].of)

BookOK ==
    /\ sheets \in [Sheets -> Seq(SheetRows)]
    /\ meant = [l \in Labels |-> [y \in Places(l) |-> meant[l][y]]]
    /\ spoiled \in BOOLEAN
    /\ \A s \in Sheets : RowsAreMeant(s)
    /\ ~spoiled => \A s \in Sheets : WholeSheet(s)

BookInv == BookOK /\ IngestedAsTyped

\* What stands in a cell is of its label's kind.
LEMMA CellsAreOfTheirKind ==
    ASSUME NEW l \in Labels, NEW c \in CellsOf(l)
    PROVE  /\ c = [of |-> c.of, kind |-> c.kind]
           /\ Recast(c) \in CellsOf(l) /\ Recast(c).of = c.of
           /\ c.kind \in IF l \in Texts THEN {"text", "date"}
                         ELSE {"whole", "real"} \cup (IF l \in Series THEN {"blank"} ELSE {})
           /\ c.kind = "whole" => IsWhole(c.of)
<1>. DEFINE Kinds == IF l \in Texts THEN {"text", "date"}
                     ELSE {"whole", "real"} \cup (IF l \in Series THEN {"blank"} ELSE {})
            Fits(x) == /\ x = [of |-> x.of, kind |-> x.kind]
                       /\ x.kind \in Kinds
                       /\ x.kind = "whole" => IsWhole(x.of)
<1>1. ASSUME NEW x \in Typed[l] PROVE Fits(x)
  BY TypedConstants
<1>2. ASSUME l \notin Series PROVE Fits(Cell(Exported[l]))
  <2>1. Exported[l].kind = IF l \in Texts THEN "text" ELSE IF l \in IntegerFields THEN "int" ELSE "float"
    BY <1>2, FileConstants
  <2>2. l \in IntegerFields => IsWhole(Exported[l].of)
    BY FileConstants
  <2>. QED  BY <1>2, <2>1, <2>2 DEF Cell
<1>3. ASSUME l \in Series, NEW y \in DOMAIN Exported[l] PROVE Fits(Cell(Exported[l][y]))
  <2>1. Exported[l][y].kind \in {"float", "null"} /\ l \notin Texts
    BY <1>3, FileConstants
  <2>. QED  BY <1>3, <2>1 DEF Cell
<1>4. \A x \in Stands(l) : Fits(x)
  BY <1>1, <1>2, <1>3 DEF Stands
<1>5. ASSUME NEW x, Fits(x) PROVE Fits(Recast(x)) /\ Recast(x).of = x.of /\ Recast(Recast(x)) = Recast(x)
  <2>. HIDE DEF Kinds
  <2>0. "real" \in Kinds => "whole" \in Kinds
    BY DEF Kinds
  <2>1. CASE x.kind = "real" /\ IsWhole(x.of)
    <3>1. Recast(x) = [of |-> x.of, kind |-> "whole"]
      BY <1>5, <2>1 DEF Recast
    <3>. QED  BY <1>5, <2>0, <2>1, <3>1 DEF Recast
  <2>2. CASE ~(x.kind = "real" /\ IsWhole(x.of))
    BY <1>5, <2>2 DEF Recast
  <2>. QED  BY <2>1, <2>2
<1>. HIDE DEF Fits
<1>6. Fits(c) /\ Recast(c) \in CellsOf(l)
  <2>1. CASE c \in Stands(l)
    BY <1>4, <2>1 DEF CellsOf
  <2>2. CASE c \notin Stands(l)
    <3>1. PICK x \in Stands(l) : c = Recast(x)
      BY <2>2 DEF CellsOf
    <3>. QED  BY <1>4, <1>5, <3>1 DEF CellsOf
  <2>. QED  BY <2>1, <2>2
<1>7. Recast(c).of = c.of
  BY <1>5, <1>6
<1>. QED  BY <1>6, <1>7 DEF Fits

\* The row of a label.
LEMMA RowOfItsLabel ==
    ASSUME BookOK, NEW s \in Sheets, NEW i \in 1 .. Len(sheets[s]),
           sheets[s][i].label \in Labels
    PROVE  /\ sheets[s][i] \in RowsOf(sheets[s][i].label)
           /\ DOMAIN sheets[s][i].cells = Places(sheets[s][i].label)
           /\ \A y \in Places(sheets[s][i].label) :
                 sheets[s][i].cells[y] \in CellsOf(sheets[s][i].label)
<1>1. sheets[s][i] \in SheetRows
  BY DEF BookOK
<1>2. sheets[s][i] # Header /\ sheets[s][i] # Remark
  BY TypedConstants DEF Header, Remark
<1>3. sheets[s][i] \in RowsOf(sheets[s][i].label)
  BY <1>1, <1>2 DEF SheetRows, RowsOf
<1>. QED  BY <1>3 DEF RowsOf

-----------------------------------------------------------------------------
(* Rows are moved, put between others and removed.                          *)

\* Every row is a remark or one that was there, and none is there twice.
KeptFrom(old, rows, from) ==
    /\ rows \in Seq(SheetRows)
    /\ from \in [1 .. Len(rows) -> 0 .. Len(old)]
    /\ \A k \in 1 .. Len(rows) : from[k] = 0 => rows[k] = Remark
    /\ \A k \in 1 .. Len(rows) : from[k] # 0 => rows[k] = old[from[k]]
    /\ \A k, m \in 1 .. Len(rows) : from[k] # 0 /\ from[k] = from[m] => k = m

\* The heading stays, and at most a remark is gone.
NothingIsLost(old, rows, from) ==
    /\ Len(rows) > 0 /\ rows[1] = old[1]
    /\ \A i \in 1 .. Len(old) :
          (\E k \in 1 .. Len(rows) : from[k] = i) \/ old[i].label = "remark"

\* A step that does no more to a sheet than that.
Rearranged(s, rows, from) ==
    /\ sheets' = [sheets EXCEPT ![s] = rows]
    /\ meant' = meant
    /\ spoiled' \in BOOLEAN /\ (spoiled => spoiled')
    /\ spoiled' \/ NothingIsLost(sheets[s], rows, from)

\* A reading changes nothing in the book.
LEMMA BookIsWhatItIs ==
    ASSUME BookOK, sheets' = sheets, meant' = meant, spoiled' = spoiled
    PROVE  BookOK'
<1>1. \A s \in Sheets : RowsAreMeant(s)'
  <2>. SUFFICES ASSUME NEW s \in Sheets PROVE RowsAreMeant(s)'
    OBVIOUS
  <2>1. RowsAreMeant(s)
    BY DEF BookOK
  <2>. QED  BY <2>1 DEF RowsAreMeant, LabelsOf, Places
<1>2. ~spoiled' => \A s \in Sheets : WholeSheet(s)'
  <2>. SUFFICES ASSUME ~spoiled', NEW s \in Sheets PROVE WholeSheet(s)'
    OBVIOUS
  <2>1. WholeSheet(s)
    BY DEF BookOK
  <2>. QED  BY <2>1 DEF WholeSheet, LabelsOf
<1>. QED  BY <1>1, <1>2 DEF BookOK, Places

\* What is read is a function of the sheets.
LEMMA ReadingIsOfTheSheets ==
    ASSUME sheets' = sheets PROVE ReadWorkbook' = ReadWorkbook
<1>1. ASSUME NEW l \in Labels PROVE ReadField(l)' = ReadField(l) /\ ReadSeries(l)' = ReadSeries(l)
  BY DEF ReadField, ReadSeries
<1>. QED  BY <1>1 DEF ReadWorkbook

\* Then the book is still what is meant.
LEMMA RowsAreKept ==
    ASSUME BookOK, NEW s \in Sheets, NEW rows, NEW from,
           KeptFrom(sheets[s], rows, from), Rearranged(s, rows, from)
    PROVE  BookOK'
<1>. USE DEF KeptFrom, Rearranged, NothingIsLost
<1>1. /\ sheets'[s] = rows
      /\ \A t \in Sheets \ {s} : sheets'[t] = sheets[t]
      /\ sheets' \in [Sheets -> Seq(SheetRows)]
  BY DEF BookOK
<1>2. ASSUME NEW k \in 1 .. Len(rows), rows[k].label \in Labels
      PROVE  from[k] \in 1 .. Len(sheets[s]) /\ rows[k] = sheets[s][from[k]]
  <2>1. from[k] # 0
    BY <1>2, TypedConstants DEF Remark
  <2>. QED  BY <2>1
<1>3. RowsAreMeant(s)'
  <2>1. RowsAreMeant(s)
    BY DEF BookOK
  <2>2. ASSUME NEW k \in 1 .. Len(rows), rows[k].label \in Labels
        PROVE  /\ rows[k].label \in LabelsOf(s)
               /\ \A y \in Places(rows[k].label) : rows[k].cells[y].of = meant[rows[k].label][y]
    <3>1. from[k] \in 1 .. Len(sheets[s]) /\ rows[k] = sheets[s][from[k]]
      BY <1>2, <2>2
    <3>2. sheets[s][from[k]].label \in Labels
      BY <2>2, <3>1
    <3>3. /\ sheets[s][from[k]].label \in LabelsOf(s)
          /\ \A y \in Places(sheets[s][from[k]].label) :
                sheets[s][from[k]].cells[y].of = meant[sheets[s][from[k]].label][y]
      BY <2>1, <3>1, <3>2 DEF RowsAreMeant
    <3>. QED  BY <3>1, <3>3
  <2>3. ASSUME NEW k \in 1 .. Len(rows), NEW m \in 1 .. Len(rows),
               rows[k].label \in Labels, rows[m].label = rows[k].label
        PROVE  k = m
    <3>1. /\ from[k] \in 1 .. Len(sheets[s]) /\ rows[k] = sheets[s][from[k]]
          /\ from[m] \in 1 .. Len(sheets[s]) /\ rows[m] = sheets[s][from[m]]
      BY <1>2, <2>3
    <3>2. from[k] = from[m]
      BY <2>1, <2>3, <3>1 DEF RowsAreMeant
    <3>3. from[k] # 0
      BY <3>1
    <3>. QED  BY <2>3, <3>2, <3>3
  <2>. QED  BY <1>1, <2>2, <2>3 DEF RowsAreMeant, LabelsOf, Places
<1>4. ASSUME NEW t \in Sheets PROVE RowsAreMeant(t)'
  <2>1. CASE t = s
    BY <1>3, <2>1
  <2>2. CASE t # s
    <3>1. RowsAreMeant(t) /\ sheets'[t] = sheets[t] /\ meant' = meant
      BY <1>1, <2>2 DEF BookOK
    <3>. QED  BY <3>1 DEF RowsAreMeant, LabelsOf, Places
  <2>. QED  BY <2>1, <2>2
<1>5. ASSUME ~spoiled' PROVE \A t \in Sheets : WholeSheet(t)'
  <2>1. \A t \in Sheets : WholeSheet(t)
    BY <1>5 DEF BookOK
  <2>2. \A t \in Sheets \ {s} : WholeSheet(t)'
    BY <1>1, <2>1 DEF WholeSheet, LabelsOf
  <2>3. Len(rows) > 0 /\ rows[1] = Header
    BY <1>5, <2>1 DEF WholeSheet
  <2>4. ASSUME NEW l \in LabelsOf(s) PROVE \E k \in 1 .. Len(rows) : rows[k].label = l
    <3>1. PICK i \in 1 .. Len(sheets[s]) : sheets[s][i].label = l
      BY <2>1 DEF WholeSheet
    <3>2. l # "remark"
      BY TypedConstants, FileConstants DEF LabelsOf
    <3>3. PICK k \in 1 .. Len(rows) : from[k] = i
      BY <1>5, <3>1, <3>2
    <3>. QED  BY <3>1, <3>3
  <2>5. ASSUME NEW k \in 1 .. Len(rows), rows[k].label \in IntegerFields
        PROVE  IsWhole(rows[k].cells[1].of)
    <3>1. rows[k].label \in Labels
      BY <2>5, FileConstants
    <3>. QED  BY <1>2, <2>1, <2>5, <3>1 DEF WholeSheet
  <2>6. WholeSheet(s)'
    BY <1>1, <2>3, <2>4, <2>5 DEF WholeSheet, LabelsOf
  <2>. QED  BY <2>2, <2>6
<1>. QED  BY <1>1, <1>4, <1>5 DEF BookOK, Places

\* A sequence with a member less.
LEMMA Removed ==
    ASSUME NEW S, NEW old \in Seq(S), NEW i \in 1 .. Len(old)
    PROVE  /\ RemoveAt(old, i) \in Seq(S) /\ Len(RemoveAt(old, i)) = Len(old) - 1
           /\ \A k \in 1 .. Len(old) - 1 :
                 RemoveAt(old, i)[k] = IF k < i THEN old[k] ELSE old[k + 1]
<1>. DEFINE head == SubSeq(old, 1, i - 1)
            tail == SubSeq(old, i + 1, Len(old))
<1>1. head \in Seq(S) /\ Len(head) = i - 1 /\ \A k \in 1 .. i - 1 : head[k] = old[k]
  OBVIOUS
<1>2. /\ tail \in Seq(S) /\ Len(tail) = Len(old) - i
      /\ \A k \in 1 .. Len(old) - i : tail[k] = old[i + k]
  OBVIOUS
<1>3. RemoveAt(old, i) = head \o tail
  BY DEF RemoveAt
<1>. HIDE DEF head, tail
<1>4. /\ head \o tail \in Seq(S) /\ Len(head \o tail) = Len(old) - 1
      /\ \A k \in 1 .. Len(old) - 1 : (head \o tail)[k] = IF k < i THEN old[k] ELSE old[k + 1]
  <2>1. head \o tail \in Seq(S)
    BY <1>1, <1>2
  <2>2. Len(head \o tail) = Len(old) - 1
    <3>0. head \in Seq(S) /\ tail \in Seq(S)
      BY <1>1, <1>2
    <3>1. Len(head \o tail) = Len(head) + Len(tail)
      BY <3>0
    <3>2. Len(old) \in Nat
      OBVIOUS
    <3>. QED  BY <1>1, <1>2, <3>1, <3>2
  <2>3. ASSUME NEW k \in 1 .. Len(old) - 1, k < i PROVE (head \o tail)[k] = old[k]
    BY <1>1, <1>2, <2>3
  <2>4. ASSUME NEW k \in 1 .. Len(old) - 1, ~(k < i) PROVE (head \o tail)[k] = old[k + 1]
    <3>1. k - (i - 1) \in 1 .. Len(tail) /\ i + (k - (i - 1)) = k + 1
      BY <1>2, <2>4
    <3>2. (head \o tail)[k] = tail[k - (i - 1)]
      BY <1>1, <1>2, <2>4, <3>1
    <3>. QED  BY <1>2, <3>1, <3>2
  <2>. QED  BY <2>1, <2>2, <2>3, <2>4
<1>. QED  BY <1>3, <1>4

\* A sequence with a member more.
LEMMA Inserted ==
    ASSUME NEW S, NEW old \in Seq(S), NEW i \in 1 .. Len(old), NEW e \in S
    PROVE  /\ InsertAt(old, i, e) \in Seq(S) /\ Len(InsertAt(old, i, e)) = Len(old) + 1
           /\ InsertAt(old, i, e)[i] = e
           /\ \A k \in 1 .. i - 1 : InsertAt(old, i, e)[k] = old[k]
           /\ \A k \in i + 1 .. Len(old) + 1 : InsertAt(old, i, e)[k] = old[k - 1]
<1>. DEFINE head == SubSeq(old, 1, i - 1)
            tail == SubSeq(old, i, Len(old))
<1>1. head \in Seq(S) /\ Len(head) = i - 1 /\ \A k \in 1 .. i - 1 : head[k] = old[k]
  OBVIOUS
<1>2. /\ tail \in Seq(S) /\ Len(tail) = Len(old) - i + 1
      /\ \A k \in 1 .. Len(old) - i + 1 : tail[k] = old[i + k - 1]
  OBVIOUS
<1>3. InsertAt(old, i, e) = (head \o <<e>>) \o tail
  BY DEF InsertAt
<1>. HIDE DEF head, tail
<1>. DEFINE front == head \o <<e>>
<1>4. /\ front \in Seq(S) /\ Len(front) = i /\ front[i] = e
      /\ \A k \in 1 .. i - 1 : front[k] = old[k]
  BY <1>1
<1>. HIDE DEF front
<1>5. Len(old) \in Nat /\ front \in Seq(S) /\ tail \in Seq(S)
  BY <1>2, <1>4
<1>6. front \o tail \in Seq(S) /\ Len(front \o tail) = Len(front) + Len(tail)
  BY <1>5
<1>7. \A k \in 1 .. i : (front \o tail)[k] = front[k]
  BY <1>4, <1>5
<1>8. ASSUME NEW k \in i + 1 .. Len(old) + 1 PROVE (front \o tail)[k] = old[k - 1]
  <2>1. k - i \in 1 .. Len(tail) /\ i + (k - i) - 1 = k - 1
    BY <1>2, <1>5
  <2>2. (front \o tail)[k] = tail[k - i]
    BY <1>2, <1>4, <1>5, <2>1
  <2>. QED  BY <1>2, <2>1, <2>2
<1>9. Len(front \o tail) = Len(old) + 1
  BY <1>2, <1>4, <1>5, <1>6
<1>10. /\ (front \o tail)[i] = e
       /\ \A k \in 1 .. i - 1 : (front \o tail)[k] = old[k]
  BY <1>4, <1>7
<1>11. InsertAt(old, i, e) = front \o tail
  BY <1>3 DEF front
<1>. QED  BY <1>6, <1>8, <1>9, <1>10, <1>11

\* Two rows change places.
LEMMA MoveKeepsBook ==
    ASSUME BookOK, NEW s \in Sheets, NEW i \in 1 .. Len(sheets[s]), MoveRow(s, i)
    PROVE  BookOK'
<1>. DEFINE old == sheets[s]
            rows == [old EXCEPT ![i] = old[i + 1], ![i + 1] = old[i]]
            from == [k \in 1 .. Len(old) |-> IF k = i THEN i + 1 ELSE IF k = i + 1 THEN i ELSE k]
<1>1. old \in Seq(SheetRows) /\ Len(old) \in Nat /\ i + 1 \in 1 .. Len(old)
  BY DEF BookOK, MoveRow
<1>2. rows \in Seq(SheetRows) /\ Len(rows) = Len(old)
  BY <1>1
<1>3. sheets' = [sheets EXCEPT ![s] = rows]
  BY DEF MoveRow, BookOK
<1>4. from \in [1 .. Len(rows) -> 0 .. Len(old)]
  BY <1>1, <1>2
<1>5. \A k \in 1 .. Len(rows) : from[k] # 0 /\ rows[k] = old[from[k]]
  BY <1>1, <1>2
<1>6. \A k, m \in 1 .. Len(rows) : from[k] # 0 /\ from[k] = from[m] => k = m
  BY <1>1, <1>2
<1>7. spoiled' \/ NothingIsLost(old, rows, from)
  <2>1. \A j \in 1 .. Len(old) : from[from[j]] = j /\ from[j] \in 1 .. Len(rows)
    BY <1>1, <1>2
  <2>2. i # 1 => rows[1] = old[1]
    BY <1>1, <1>2
  <2>3. Len(rows) > 0
    BY <1>1, <1>2
  <2>4. i = 1 => spoiled'
    BY DEF MoveRow
  <2>5. i # 1 => NothingIsLost(old, rows, from)
    <3>. HIDE DEF rows, from
    <3>. QED  BY <1>2, <2>1, <2>2, <2>3 DEF NothingIsLost
  <2>. QED  BY <2>4, <2>5
<1>8. meant' = meant /\ spoiled' \in BOOLEAN /\ (spoiled => spoiled')
  BY DEF MoveRow, BookOK
<1>. HIDE DEF rows, from
<1>9. KeptFrom(sheets[s], rows, from)
  BY <1>2, <1>4, <1>5, <1>6 DEF KeptFrom
<1>10. Rearranged(s, rows, from)
  BY <1>3, <1>7, <1>8 DEF Rearranged
<1>. QED  BY <1>9, <1>10, RowsAreKept

\* A remark is put between rows.
LEMMA InsertKeepsBook ==
    ASSUME BookOK, NEW s \in Sheets, NEW i \in 1 .. Len(sheets[s]), InsertRemark(s, i)
    PROVE  BookOK'
<1>. DEFINE old == sheets[s]
            rows == InsertAt(old, i, Remark)
            from == [k \in 1 .. Len(old) + 1 |-> IF k = i THEN 0 ELSE IF k < i THEN k ELSE k - 1]
<1>1. old \in Seq(SheetRows) /\ Len(old) \in Nat /\ Remark \in SheetRows
  BY DEF BookOK, SheetRows
<1>2. /\ rows \in Seq(SheetRows) /\ Len(rows) = Len(old) + 1
      /\ \A k \in 1 .. Len(rows) :
            rows[k] = IF k = i THEN Remark ELSE IF k < i THEN old[k] ELSE old[k - 1]
  <2>1. rows \in Seq(SheetRows) /\ Len(rows) = Len(old) + 1
    BY <1>1, Inserted
  <2>2. rows[i] = Remark
    BY <1>1, Inserted
  <2>3. \A k \in 1 .. i - 1 : rows[k] = old[k]
    BY <1>1, Inserted
  <2>4. \A k \in i + 1 .. Len(old) + 1 : rows[k] = old[k - 1]
    <3>1. i \in 1 .. Len(old)
      OBVIOUS
    <3>. HIDE DEF old
    <3>. QED  BY <1>1, <3>1, Inserted
  <2>. HIDE DEF rows
  <2>. QED  BY <1>1, <2>1, <2>2, <2>3, <2>4
<1>3. sheets' = [sheets EXCEPT ![s] = rows]
  BY DEF InsertRemark
<1>4. from \in [1 .. Len(rows) -> 0 .. Len(old)]
  BY <1>1, <1>2
<1>. HIDE DEF rows
<1>5. \A k \in 1 .. Len(rows) :
         /\ from[k] = 0 => rows[k] = Remark
         /\ from[k] # 0 => rows[k] = old[from[k]]
  BY <1>1, <1>2
<1>6. \A k, m \in 1 .. Len(rows) : from[k] # 0 /\ from[k] = from[m] => k = m
  BY <1>1, <1>2
<1>7. spoiled' \/ NothingIsLost(old, rows, from)
  <2>1. ASSUME NEW j \in 1 .. Len(old) PROVE \E k \in 1 .. Len(rows) : from[k] = j
    <3>1. CASE j < i
      <4>1. j \in 1 .. Len(rows) /\ from[j] = j
        BY <1>1, <1>2, <3>1
      <4>. QED  BY <4>1
    <3>2. CASE ~(j < i)
      <4>1. j + 1 \in 1 .. Len(rows) /\ from[j + 1] = j
        BY <1>1, <1>2, <3>2
      <4>. QED  BY <4>1
    <3>. QED  BY <3>1, <3>2
  <2>2. i # 1 => rows[1] = old[1]
    BY <1>1, <1>2
  <2>3. Len(rows) > 0
    BY <1>1, <1>2
  <2>4. i = 1 => spoiled'
    BY DEF InsertRemark
  <2>5. i # 1 => NothingIsLost(old, rows, from)
    <3>. HIDE DEF from
    <3>. QED  BY <2>1, <2>2, <2>3 DEF NothingIsLost
  <2>. QED  BY <2>4, <2>5
<1>8. meant' = meant /\ spoiled' \in BOOLEAN /\ (spoiled => spoiled')
  BY DEF InsertRemark, BookOK
<1>. HIDE DEF from
<1>9. KeptFrom(sheets[s], rows, from)
  BY <1>2, <1>4, <1>5, <1>6 DEF KeptFrom
<1>10. Rearranged(s, rows, from)
  BY <1>3, <1>7, <1>8 DEF Rearranged
<1>. QED  BY <1>9, <1>10, RowsAreKept

\* A row is removed.
LEMMA DeleteKeepsBook ==
    ASSUME BookOK, NEW s \in Sheets, NEW i \in 1 .. Len(sheets[s]), DeleteRow(s, i)
    PROVE  BookOK'
<1>. DEFINE old == sheets[s]
            rows == RemoveAt(old, i)
            from == [k \in 1 .. Len(old) - 1 |-> IF k < i THEN k ELSE k + 1]
<1>1. old \in Seq(SheetRows) /\ Len(old) \in Nat
  BY DEF BookOK
<1>2. /\ rows \in Seq(SheetRows) /\ Len(rows) = Len(old) - 1
      /\ \A k \in 1 .. Len(rows) : rows[k] = IF k < i THEN old[k] ELSE old[k + 1]
  BY <1>1, Removed
<1>3. sheets' = [sheets EXCEPT ![s] = rows]
  BY DEF DeleteRow
<1>4. from \in [1 .. Len(rows) -> 0 .. Len(old)]
  BY <1>1, <1>2
<1>. HIDE DEF rows
<1>5. \A k \in 1 .. Len(rows) : from[k] # 0 /\ rows[k] = old[from[k]]
  BY <1>1, <1>2
<1>6. \A k, m \in 1 .. Len(rows) : from[k] # 0 /\ from[k] = from[m] => k = m
  BY <1>1, <1>2
<1>7. spoiled' \/ NothingIsLost(old, rows, from)
  <2>. SUFFICES ASSUME ~spoiled'
                PROVE  NothingIsLost(old, rows, from)
    OBVIOUS
  <2>1. old[i].label = "remark" /\ ~spoiled
    BY DEF DeleteRow, BookOK
  <2>2. old[1] = Header
    BY <2>1 DEF BookOK, WholeSheet
  <2>3. i # 1
    BY <2>1, <2>2 DEF Header
  <2>4. ASSUME NEW j \in 1 .. Len(old), j # i PROVE \E k \in 1 .. Len(rows) : from[k] = j
    <3>1. CASE j < i
      <4>1. j \in 1 .. Len(rows) /\ from[j] = j
        BY <1>1, <1>2, <3>1
      <4>. QED  BY <4>1
    <3>2. CASE j > i
      <4>1. j - 1 \in 1 .. Len(rows) /\ from[j - 1] = j
        BY <1>1, <1>2, <3>2
      <4>. QED  BY <4>1
    <3>. QED  BY <2>4, <3>1, <3>2
  <2>5. Len(rows) > 0 /\ rows[1] = old[1]
    BY <1>1, <1>2, <2>3
  <2>. HIDE DEF from
  <2>. QED  BY <2>1, <2>4, <2>5 DEF NothingIsLost
<1>8. meant' = meant /\ spoiled' \in BOOLEAN /\ (spoiled => spoiled')
  BY DEF DeleteRow, BookOK
<1>. HIDE DEF from
<1>9. KeptFrom(sheets[s], rows, from)
  BY <1>2, <1>4, <1>5, <1>6 DEF KeptFrom
<1>10. Rearranged(s, rows, from)
  BY <1>3, <1>7, <1>8 DEF Rearranged
<1>. QED  BY <1>9, <1>10, RowsAreKept

-----------------------------------------------------------------------------
(* Cells are typed over, and saved.                                         *)

\* A label belongs to one sheet.
LEMMA SheetsAreApart ==
    ASSUME NEW s \in Sheets, NEW t \in Sheets, NEW l \in LabelsOf(s), l \in LabelsOf(t)
    PROVE  s = t
  BY DEF LabelsOf, Sheets

\* What is typed is meant, and no other row has the label.
LEMMA TypingKeepsBook ==
    ASSUME BookOK, NEW s \in Sheets, NEW i \in 1 .. Len(sheets[s]),
           NEW j \in DOMAIN sheets[s][i].cells, NEW c, TypeCell(s, i, j, c)
    PROVE  BookOK'
<1>. DEFINE row == sheets[s][i]
            l == row.label
            new == [row EXCEPT !.cells[j] = c]
            rows == [sheets[s] EXCEPT ![i] = new]
<1>1. /\ sheets \in [Sheets -> Seq(SheetRows)] /\ sheets[s] \in Seq(SheetRows)
      /\ RowsAreMeant(s) /\ meant = [m \in Labels |-> [y \in Places(m) |-> meant[m][y]]]
  BY DEF BookOK
<1>2. l \in Labels /\ c \in Typed[l] /\ meant' = [meant EXCEPT ![l][j] = c.of]
  BY DEF TypeCell
<1>3. row \in RowsOf(l) /\ j \in Places(l) /\ c \in CellsOf(l)
  BY <1>2, RowOfItsLabel DEF CellsOf, Stands
<1>4. /\ new = [label |-> l, cells |-> [row.cells EXCEPT ![j] = c]]
      /\ new \in RowsOf(l)
  BY <1>3 DEF RowsOf
<1>5. new \in SheetRows
  BY <1>2, <1>4 DEF SheetRows
<1>6. sheets' = [sheets EXCEPT ![s] = rows]
  BY <1>1 DEF TypeCell
<1>7. rows \in Seq(SheetRows) /\ Len(rows) = Len(sheets[s])
      /\ rows[i] = new /\ \A k \in 1 .. Len(rows) : k # i => rows[k] = sheets[s][k]
  BY <1>1, <1>5
<1>. HIDE DEF rows
<1>8. /\ sheets' \in [Sheets -> Seq(SheetRows)] /\ sheets'[s] = rows
      /\ \A t \in Sheets \ {s} : sheets'[t] = sheets[t]
  BY <1>1, <1>6, <1>7
<1>9. /\ \A m \in Labels \ {l} : meant'[m] = meant[m]
      /\ meant'[l][j] = c.of
      /\ \A y \in Places(l) : y # j => meant'[l][y] = meant[l][y]
  BY <1>1, <1>2, <1>3
<1>10. meant' = [m \in Labels |-> [y \in Places(m) |-> meant'[m][y]]]
  <2>. DEFINE f == [meant[l] EXCEPT ![j] = c.of]
  <2>1. meant' = [meant EXCEPT ![l] = f]
    BY <1>1, <1>2
  <2>2. f = [y \in Places(l) |-> f[y]]
    BY <1>1, <1>2
  <2>. HIDE DEF f
  <2>3. meant' = [m \in Labels |-> IF m = l THEN f ELSE meant[m]]
    BY <1>1, <2>1
  <2>4. \A m \in Labels : meant'[m] = [y \in Places(m) |-> meant'[m][y]]
    BY <1>1, <2>2, <2>3
  <2>. QED  BY <2>3, <2>4
<1>11. \A k \in 1 .. Len(rows) : rows[k].label = sheets[s][k].label
  BY <1>4, <1>7
<1>12. RowsAreMeant(s)'
  <2>1. ASSUME NEW k \in 1 .. Len(rows), rows[k].label \in Labels
        PROVE  /\ rows[k].label \in LabelsOf(s)
               /\ \A y \in Places(rows[k].label) : rows[k].cells[y].of = meant'[rows[k].label][y]
    <3>1. /\ sheets[s][k].label \in LabelsOf(s)
          /\ \A y \in Places(sheets[s][k].label) :
                sheets[s][k].cells[y].of = meant[sheets[s][k].label][y]
      BY <1>1, <1>7, <1>11, <2>1 DEF RowsAreMeant
    <3>2. CASE k = i
      <4>1. \A y \in Places(l) : rows[k].cells[y] = IF y = j THEN c ELSE row.cells[y]
        BY <1>3, <1>4, <1>7, <3>2 DEF RowsOf
      <4>. QED  BY <1>9, <1>11, <3>1, <3>2, <4>1
    <3>3. CASE k # i
      <4>1. rows[k] = sheets[s][k]
        BY <1>7, <3>3
      <4>2. rows[k].label # l
        BY <1>1, <1>2, <1>7, <2>1, <3>3, <4>1 DEF RowsAreMeant
      <4>. QED  BY <1>9, <2>1, <3>1, <4>1, <4>2
    <3>. QED  BY <3>2, <3>3
  <2>2. ASSUME NEW k \in 1 .. Len(rows), NEW m \in 1 .. Len(rows),
               rows[k].label \in Labels, rows[m].label = rows[k].label
        PROVE  k = m
    BY <1>1, <1>7, <1>11, <2>2 DEF RowsAreMeant
  <2>. QED  BY <1>8, <2>1, <2>2 DEF RowsAreMeant, LabelsOf, Places
<1>13. ASSUME NEW t \in Sheets PROVE RowsAreMeant(t)'
  <2>1. CASE t = s
    BY <1>12, <2>1
  <2>2. CASE t # s
    <3>1. sheets'[t] = sheets[t] /\ RowsAreMeant(t)
      BY <1>8, <2>2 DEF BookOK
    <3>2. l \notin LabelsOf(t)
      BY <1>1, <1>2, <2>2, SheetsAreApart DEF RowsAreMeant
    <3>. QED  BY <1>9, <3>1, <3>2 DEF RowsAreMeant, LabelsOf, Places
  <2>. QED  BY <2>1, <2>2
<1>14. spoiled' \in BOOLEAN /\ (spoiled => spoiled')
       /\ (~spoiled' => (l \in IntegerFields => IsWhole(c.of)))
  BY DEF BookOK, TypeCell
<1>15. ASSUME ~spoiled' PROVE \A t \in Sheets : WholeSheet(t)'
  <2>1. \A t \in Sheets : WholeSheet(t)
    BY <1>14, <1>15 DEF BookOK
  <2>2. \A t \in Sheets \ {s} : WholeSheet(t)'
    BY <1>8, <2>1 DEF WholeSheet, LabelsOf
  <2>3. Len(rows) > 0 /\ rows[1] = Header
    <3>1. i # 1
      BY <1>2, <2>1, TypedConstants DEF WholeSheet, Header
    <3>. QED  BY <1>7, <2>1, <3>1 DEF WholeSheet
  <2>4. \A m \in LabelsOf(s) : \E k \in 1 .. Len(rows) : rows[k].label = m
    BY <1>7, <1>11, <2>1 DEF WholeSheet
  <2>5. ASSUME NEW k \in 1 .. Len(rows), rows[k].label \in IntegerFields
        PROVE  IsWhole(rows[k].cells[1].of)
    <3>1. CASE k = i
      <4>1. l \in IntegerFields /\ Places(l) = {1}
        BY <1>4, <1>7, <2>5, <3>1, FileConstants DEF Places
      <4>2. rows[k].cells[1] = c
        BY <1>3, <1>4, <1>7, <3>1, <4>1 DEF RowsOf
      <4>. QED  BY <1>14, <1>15, <4>1, <4>2
    <3>2. CASE k # i
      BY <1>7, <2>1, <2>5, <3>2 DEF WholeSheet
    <3>. QED  BY <3>1, <3>2
  <2>6. WholeSheet(s)'
    BY <1>8, <2>3, <2>4, <2>5 DEF WholeSheet, LabelsOf
  <2>. QED  BY <2>2, <2>6
<1>. QED  BY <1>8, <1>10, <1>13, <1>14, <1>15 DEF BookOK, Places

\* A whole number that is written as such is of its kind, and the same number.
LEMMA SavingKeepsBook ==
    ASSUME BookOK, Save
    PROVE  BookOK'
<1>. DEFINE saved(row) == [row EXCEPT !.cells = [j \in DOMAIN @ |-> Recast(@[j])]]
<1>1. /\ sheets \in [Sheets -> Seq(SheetRows)]
      /\ meant' = meant /\ spoiled' = spoiled
  BY DEF BookOK, Save
<1>2. /\ \A t \in Sheets : sheets'[t] = [k \in 1 .. Len(sheets[t]) |-> saved(sheets[t][k])]
      /\ sheets' = [t \in Sheets |-> sheets'[t]]
  BY <1>1 DEF Save
<1>3. ASSUME NEW l \in Labels, NEW row \in RowsOf(l)
      PROVE  /\ saved(row) \in RowsOf(l) /\ saved(row).label = row.label
             /\ \A y \in Places(l) : saved(row).cells[y].of = row.cells[y].of
  <2>1. row = [label |-> l, cells |-> row.cells] /\ row.cells \in [Places(l) -> CellsOf(l)]
    BY DEF RowsOf
  <2>2. saved(row) = [label |-> l, cells |-> [y \in Places(l) |-> Recast(row.cells[y])]]
    BY <2>1
  <2>3. \A y \in Places(l) : Recast(row.cells[y]) \in CellsOf(l) /\ Recast(row.cells[y]).of = row.cells[y].of
    BY <2>1, CellsAreOfTheirKind
  <2>. QED  BY <2>1, <2>2, <2>3 DEF RowsOf
<1>4. saved(Header) = Header /\ saved(Remark) = Remark
  BY DEF Header, Remark
<1>. HIDE DEF saved
<1>5. \A row \in SheetRows : saved(row) \in SheetRows /\ saved(row).label = row.label
  BY <1>3, <1>4 DEF SheetRows
<1>6. \A t \in Sheets : sheets[t] \in Seq(SheetRows)
  BY <1>1
<1>7. ASSUME NEW t \in Sheets
      PROVE  /\ sheets'[t] \in Seq(SheetRows) /\ Len(sheets'[t]) = Len(sheets[t])
             /\ \A k \in 1 .. Len(sheets[t]) : /\ sheets'[t][k] = saved(sheets[t][k])
                                              /\ sheets'[t][k].label = sheets[t][k].label
  <2>1. sheets'[t] = [k \in 1 .. Len(sheets[t]) |-> saved(sheets[t][k])]
    BY <1>2
  <2>2. Len(sheets[t]) \in Nat /\ \A k \in 1 .. Len(sheets[t]) : sheets[t][k] \in SheetRows
    BY <1>6
  <2>3. sheets'[t] \in [1 .. Len(sheets[t]) -> SheetRows]
    BY <1>5, <2>1, <2>2
  <2>. QED  BY <1>5, <2>1, <2>2, <2>3
<1>8. ASSUME NEW t \in Sheets, NEW k \in 1 .. Len(sheets[t]), sheets[t][k].label \in Labels
      PROVE  \A y \in Places(sheets[t][k].label) :
                sheets'[t][k].cells[y].of = sheets[t][k].cells[y].of
  BY <1>3, <1>7, <1>8, RowOfItsLabel
<1>9. ASSUME NEW t \in Sheets PROVE RowsAreMeant(t)'
  <2>1. RowsAreMeant(t)
    BY DEF BookOK
  <2>2. ASSUME NEW k \in 1 .. Len(sheets[t]), sheets[t][k].label \in Labels
        PROVE  /\ sheets'[t][k].label \in LabelsOf(t)
               /\ \A y \in Places(sheets'[t][k].label) :
                     sheets'[t][k].cells[y].of = meant[sheets'[t][k].label][y]
    <3>1. /\ sheets[t][k].label \in LabelsOf(t)
          /\ \A y \in Places(sheets[t][k].label) :
                sheets[t][k].cells[y].of = meant[sheets[t][k].label][y]
      BY <2>1, <2>2 DEF RowsAreMeant
    <3>2. sheets'[t][k].label = sheets[t][k].label
      BY <1>7
    <3>. QED  BY <1>8, <2>2, <3>1, <3>2
  <2>3. \A i, j \in 1 .. Len(sheets'[t]) :
           sheets'[t][i].label \in Labels /\ sheets'[t][j].label = sheets'[t][i].label => i = j
    BY <1>7, <2>1 DEF RowsAreMeant
  <2>4. \A k \in 1 .. Len(sheets[t]) : sheets'[t][k].label = sheets[t][k].label
    BY <1>7
  <2>5. Len(sheets'[t]) = Len(sheets[t])
    BY <1>7
  <2>. QED  BY <1>1, <2>2, <2>3, <2>4, <2>5 DEF RowsAreMeant, LabelsOf, Places
<1>10. ASSUME ~spoiled', NEW t \in Sheets PROVE WholeSheet(t)'
  <2>1. WholeSheet(t)
    BY <1>1, <1>10 DEF BookOK
  <2>2. Len(sheets'[t]) > 0 /\ sheets'[t][1] = Header
    BY <1>4, <1>6, <1>7, <2>1 DEF WholeSheet
  <2>3. ASSUME NEW k \in 1 .. Len(sheets[t]), sheets[t][k].label \in IntegerFields
        PROVE  IsWhole(sheets'[t][k].cells[1].of)
    <3>1. sheets[t][k].label \in Labels /\ 1 \in Places(sheets[t][k].label)
      BY <2>3, FileConstants DEF Places
    <3>2. sheets'[t][k].cells[1].of = sheets[t][k].cells[1].of
      BY <1>8, <3>1
    <3>. QED  BY <2>1, <2>3, <3>2 DEF WholeSheet
  <2>. QED  BY <1>7, <2>1, <2>2, <2>3 DEF WholeSheet, LabelsOf
<1>11. sheets' \in [Sheets -> Seq(SheetRows)]
  <2>1. \A t \in Sheets : sheets'[t] \in Seq(SheetRows)
    BY <1>7
  <2>2. [t \in Sheets |-> sheets'[t]] \in [Sheets -> Seq(SheetRows)]
    BY <2>1
  <2>. QED  BY <1>2, <2>2
<1>. QED  BY <1>1, <1>9, <1>10, <1>11 DEF BookOK, Places

-----------------------------------------------------------------------------
(* What is written, and what is read.                                       *)

\* A heading, rows and a remark.
LEMMA Framed ==
    ASSUME NEW S, NEW a \in S, NEW z \in S, NEW n \in Nat, NEW mid \in [1 .. n -> S]
    PROVE  LET all == <<a>> \o mid \o <<z>>
           IN  /\ all \in Seq(S) /\ Len(all) = n + 2 /\ all[1] = a /\ all[n + 2] = z
               /\ \A k \in 1 .. n : all[k + 1] = mid[k]
<1>. DEFINE front == <<a>> \o mid
<1>1. mid \in Seq(S) /\ Len(mid) = n
  OBVIOUS
<1>2. /\ front \in Seq(S) /\ Len(front) = n + 1 /\ front[1] = a
      /\ \A k \in 1 .. n : front[k + 1] = mid[k]
  BY <1>1
<1>. HIDE DEF front
<1>3. <<z>> \in Seq(S) /\ Len(<<z>>) = 1 /\ <<z>>[1] = z
  OBVIOUS
<1>4. front \o <<z>> \in Seq(S) /\ Len(front \o <<z>>) = n + 2
  BY <1>2, <1>3
<1>5. (front \o <<z>>)[1] = a /\ (front \o <<z>>)[n + 2] = z
  BY <1>2, <1>3
<1>6. \A k \in 1 .. n : (front \o <<z>>)[k + 1] = mid[k]
  BY <1>2, <1>3
<1>. QED  BY <1>4, <1>5, <1>6 DEF front

\* A finite set, as a sequence, has each member once.
LEMMA ListOfASet ==
    ASSUME NEW T, IsFiniteSet(T)
    PROVE  /\ Len(SetToSeq(T)) \in Nat
           /\ SetToSeq(T) \in [1 .. Len(SetToSeq(T)) -> T]
           /\ \A x \in T : \E k \in 1 .. Len(SetToSeq(T)) : SetToSeq(T)[k] = x
           /\ \A k, m \in 1 .. Len(SetToSeq(T)) : SetToSeq(T)[k] = SetToSeq(T)[m] => k = m
<1>. DEFINE N == Cardinality(T)
            q == SetToSeq(T)
<1>1. N \in Nat
  BY FS_CardinalityType
<1>2. \E f \in [1 .. N -> T] : IsInjective(f)
  <2>1. PICK f : f \in Bijection(1 .. N, T)
    BY FS_CardinalityType DEF ExistsBijection
  <2>. QED  BY <2>1 DEF Bijection, Injection
<1>3. q \in [1 .. N -> T] /\ IsInjective(q)
  BY <1>2 DEF SetToSeq
<1>. HIDE DEF q
<1>4. q \in Surjection(1 .. N, T)
  <2>1. q \in Injection(1 .. N, T)
    BY <1>3 DEF Injection
  <2>2. Cardinality(1 .. N) = N
    BY <1>1, FS_Interval
  <2>. QED  BY <2>1, <2>2, FS_Injection
<1>5. Len(q) = N
  BY <1>1, <1>3
<1>. QED  BY <1>1, <1>3, <1>4, <1>5 DEF Surjection, IsInjective, q

\* The row that is written for a label.
RowFor(l) == IF l \in Series THEN StatementRow(l) ELSE FieldRow(l)

\* The row that is written for a label holds what is exported.
LEMMA RowsWritten ==
    ASSUME NEW l \in Labels
    PROVE  /\ RowFor(l) \in RowsOf(l)
           /\ \A y \in Places(l) : RowFor(l).cells[y].of =
                 IF l \in Series THEN Exported[l][y].of ELSE Exported[l].of
<1>1. CASE l \in Series
  <2>1. RowFor(l) = [label |-> l, cells |-> [y \in Places(l) |-> Cell(Exported[l][y])]]
    BY <1>1 DEF RowFor, StatementRow, Places
  <2>2. \A y \in Places(l) : Cell(Exported[l][y]) \in CellsOf(l)
    BY <1>1 DEF CellsOf, Stands, Places
  <2>3. RowFor(l) \in RowsOf(l)
    BY <2>1, <2>2 DEF RowsOf
  <2>4. \A y \in Places(l) : RowFor(l).cells[y] = Cell(Exported[l][y])
    BY <2>1
  <2>5. \A y \in Places(l) : Cell(Exported[l][y]).of = Exported[l][y].of
    BY DEF Cell
  <2>. QED  BY <1>1, <2>3, <2>4, <2>5
<1>2. CASE l \notin Series
  <2>1. RowFor(l) = [label |-> l, cells |-> <<Cell(Exported[l])>>] /\ Places(l) = {1}
    BY <1>2 DEF RowFor, FieldRow, Places
  <2>2. Cell(Exported[l]) \in CellsOf(l)
    BY <1>2 DEF CellsOf, Stands
  <2>3. <<Cell(Exported[l])>> \in [{1} -> CellsOf(l)]
    BY <2>2
  <2>4. RowFor(l) \in RowsOf(l)
    BY <2>1, <2>3 DEF RowsOf
  <2>5. RowFor(l).cells[1] = Cell(Exported[l])
    BY <2>1
  <2>6. Cell(Exported[l]).of = Exported[l].of
    BY DEF Cell
  <2>. QED  BY <1>2, <2>1, <2>4, <2>5, <2>6
<1>. QED  BY <1>1, <1>2

\* A sheet as it is written.
LEMMA SheetWritten ==
    ASSUME NEW s \in Sheets
    PROVE  LET q == SetToSeq(LabelsOf(s))
               n == Len(q)
           IN  /\ n \in Nat
               /\ Written[s] \in Seq(SheetRows) /\ Len(Written[s]) = n + 2
               /\ Written[s][1] = Header /\ Written[s][n + 2] = Remark
               /\ \A k \in 1 .. n : Written[s][k + 1] = RowFor(q[k])
<1>. DEFINE q == SetToSeq(LabelsOf(s))
            n == Len(q)
            mid == [k \in 1 .. n |-> RowFor(q[k])]
<1>1. LabelsOf(s) \in SUBSET Labels /\ IsFiniteSet(LabelsOf(s))
  BY FileConstants, FS_Subset DEF LabelsOf
<1>2. n \in Nat /\ q \in [1 .. n -> LabelsOf(s)]
  BY <1>1, ListOfASet
<1>. HIDE DEF q
<1>3. mid \in [1 .. n -> SheetRows]
  BY <1>1, <1>2, RowsWritten DEF SheetRows
<1>4. Written[s] = <<Header>> \o mid \o <<Remark>>
  <2>1. CASE s = "fields"
    <3>1. \A k \in 1 .. n : RowFor(q[k]) = FieldRow(q[k])
      BY <1>2, <2>1 DEF RowFor, LabelsOf
    <3>2. mid = [k \in 1 .. n |-> FieldRow(q[k])]
      BY <3>1
    <3>3. Written.fields = <<Header>> \o [k \in 1 .. n |-> FieldRow(q[k])] \o <<Remark>>
      BY <2>1 DEF Written, q, LabelsOf
    <3>. QED  BY <2>1, <3>2, <3>3
  <2>2. CASE s = "statements"
    <3>1. \A k \in 1 .. n : RowFor(q[k]) = StatementRow(q[k])
      BY <1>2, <2>2 DEF RowFor, LabelsOf
    <3>2. mid = [k \in 1 .. n |-> StatementRow(q[k])]
      BY <3>1
    <3>3. Written.statements = <<Header>> \o [k \in 1 .. n |-> StatementRow(q[k])] \o <<Remark>>
      BY <2>2 DEF Written, q, LabelsOf
    <3>. QED  BY <2>2, <3>2, <3>3
  <2>. QED  BY <2>1, <2>2 DEF Sheets
<1>5. Header \in SheetRows /\ Remark \in SheetRows
  BY DEF SheetRows
<1>. DEFINE all == <<Header>> \o mid \o <<Remark>>
<1>. HIDE DEF mid
<1>6. /\ all \in Seq(SheetRows) /\ Len(all) = n + 2 /\ all[1] = Header /\ all[n + 2] = Remark
      /\ \A k \in 1 .. n : all[k + 1] = mid[k]
  BY <1>2, <1>3, <1>5, Framed
<1>. QED  BY <1>2, <1>4, <1>6 DEF mid, q

\* What is written is what is exported.
LEMMA WrittenIsMeant == FileInit => BookInv
<1>. SUFFICES ASSUME FileInit PROVE BookInv
  OBVIOUS
<1>1. sheets = Written /\ spoiled = FALSE /\ reading = "none"
  BY DEF FileInit
<1>2. ASSUME NEW l \in Labels
      PROVE  /\ meant[l] = [y \in Places(l) |-> meant[l][y]]
             /\ \A y \in Places(l) : RowFor(l).cells[y].of = meant[l][y]
  <2>1. CASE l \in Series
    <3>1. meant[l] = [y \in Places(l) |-> Exported[l][y].of]
      BY <2>1 DEF FileInit, Places
    <3>. QED  BY <2>1, <3>1, RowsWritten
  <2>2. CASE l \notin Series
    <3>1. meant[l] = <<Exported[l].of>> /\ Places(l) = {1}
      BY <2>2 DEF FileInit, Places
    <3>. QED  BY <2>2, <3>1, RowsWritten
  <2>. QED  BY <2>1, <2>2
<1>3. meant = [l \in Labels |-> [y \in Places(l) |-> meant[l][y]]]
  <2>1. meant = [l \in Labels |-> meant[l]]
    BY DEF FileInit
  <2>. QED  BY <1>2, <2>1
<1>4. Written = [s \in Sheets |-> Written[s]]
  BY DEF Written, Sheets
<1>5. ASSUME NEW s \in Sheets
      PROVE  sheets[s] \in Seq(SheetRows) /\ RowsAreMeant(s) /\ WholeSheet(s)
  <2>. DEFINE q == SetToSeq(LabelsOf(s))
              n == Len(q)
              rows == Written[s]
  <2>1. /\ n \in Nat
        /\ rows \in Seq(SheetRows) /\ Len(rows) = n + 2
        /\ rows[1] = Header /\ rows[n + 2] = Remark
        /\ \A k \in 1 .. n : rows[k + 1] = RowFor(q[k])
    BY SheetWritten
  <2>2. LabelsOf(s) \in SUBSET Labels /\ IsFiniteSet(LabelsOf(s))
    BY FileConstants, FS_Subset DEF LabelsOf
  <2>3. /\ q \in [1 .. n -> LabelsOf(s)]
        /\ \A x \in LabelsOf(s) : \E k \in 1 .. n : q[k] = x
        /\ \A k, m \in 1 .. n : q[k] = q[m] => k = m
    BY <2>2, ListOfASet
  <2>4. sheets[s] = rows
    BY <1>1
  <2>. HIDE DEF q, rows
  <2>5. ASSUME NEW k \in 1 .. n PROVE rows[k + 1] = RowFor(q[k]) /\ rows[k + 1].label = q[k]
    <3>1. q[k] \in Labels
      BY <2>2, <2>3
    <3>2. RowFor(q[k]).label = q[k]
      BY <3>1, RowsWritten DEF RowsOf
    <3>. QED  BY <2>1, <3>2
  <2>6. ASSUME NEW i \in 1 .. Len(rows), rows[i].label \in Labels
        PROVE  i - 1 \in 1 .. n
    <3>1. i # 1 /\ i # n + 2
      BY <2>1, <2>6, TypedConstants DEF Header, Remark
    <3>. QED  BY <2>1, <3>1
  <2>7. ASSUME NEW i \in 1 .. Len(rows), rows[i].label \in Labels
        PROVE  /\ rows[i] = RowFor(q[i - 1]) /\ rows[i].label = q[i - 1]
               /\ q[i - 1] \in LabelsOf(s)
    <3>1. i - 1 \in 1 .. n /\ (i - 1) + 1 = i
      BY <2>1, <2>6, <2>7
    <3>. QED  BY <2>3, <2>5, <3>1
  <2>8. RowsAreMeant(s)
    <3>1. ASSUME NEW i \in 1 .. Len(rows), rows[i].label \in Labels
          PROVE  /\ rows[i].label \in LabelsOf(s)
                 /\ \A y \in Places(rows[i].label) : rows[i].cells[y].of = meant[rows[i].label][y]
      <4>1. rows[i] = RowFor(q[i - 1]) /\ rows[i].label = q[i - 1] /\ q[i - 1] \in LabelsOf(s)
        BY <2>7, <3>1
      <4>2. \A y \in Places(rows[i].label) : RowFor(rows[i].label).cells[y].of = meant[rows[i].label][y]
        BY <1>2, <3>1
      <4>. QED  BY <4>1, <4>2
    <3>2. ASSUME NEW i \in 1 .. Len(rows), NEW j \in 1 .. Len(rows),
                 rows[i].label \in Labels, rows[j].label = rows[i].label
          PROVE  i = j
      <4>1. i - 1 \in 1 .. n /\ j - 1 \in 1 .. n /\ q[i - 1] = q[j - 1]
        BY <2>6, <2>7, <3>2
      <4>2. i - 1 = j - 1
        BY <2>3, <4>1
      <4>. QED  BY <2>1, <4>2
    <3>. QED  BY <2>4, <3>1, <3>2 DEF RowsAreMeant
  <2>9. WholeSheet(s)
    <3>1. ASSUME NEW l \in LabelsOf(s) PROVE \E i \in 1 .. Len(rows) : rows[i].label = l
      <4>1. PICK k \in 1 .. n : q[k] = l
        BY <2>3
      <4>2. k + 1 \in 1 .. Len(rows) /\ rows[k + 1].label = l
        BY <2>1, <2>5, <4>1
      <4>. QED  BY <4>2
    <3>2. ASSUME NEW i \in 1 .. Len(rows), rows[i].label \in IntegerFields
          PROVE  IsWhole(rows[i].cells[1].of)
      <4>. DEFINE l == rows[i].label
      <4>1. l \in Labels /\ l \notin Series /\ IsWhole(Exported[l].of) /\ 1 \in Places(l)
        BY <3>2, FileConstants DEF Places
      <4>2. rows[i] = RowFor(l)
        BY <2>7, <4>1
      <4>. HIDE DEF l
      <4>3. RowFor(l).cells[1].of = Exported[l].of
        BY <4>1, RowsWritten
      <4>. QED  BY <4>1, <4>2, <4>3
    <3>. QED  BY <2>1, <2>4, <3>1, <3>2 DEF WholeSheet
  <2>. QED  BY <2>1, <2>4, <2>8, <2>9
<1>6. sheets \in [Sheets -> Seq(SheetRows)]
  BY <1>1, <1>4, <1>5
<1>. QED  BY <1>1, <1>3, <1>5, <1>6 DEF BookInv, BookOK, IngestedAsTyped

\* A label that is found is found in its row.
LEMMA FoundInItsRow ==
    ASSUME BookOK, NEW s \in Sheets, NEW l \in LabelsOf(s), RowOf(sheets[s], l) # 0
    PROVE  /\ RowOf(sheets[s], l) \in 2 .. Len(sheets[s])
           /\ sheets[s][RowOf(sheets[s], l)].label = l
<1>. DEFINE I == {i \in 2 .. Len(sheets[s]) : sheets[s][i].label = l}
<1>1. RowOf(sheets[s], l) = IF I # {} THEN Max(I) ELSE 0
  BY DEF RowOf, SelectLastInSubSeq
<1>2. I # {}
  BY <1>1
<1>3. PICK i \in I : TRUE
  BY <1>2
<1>4. l \in Labels /\ Len(sheets[s]) \in Nat
  BY FileConstants DEF LabelsOf, BookOK
<1>5. \A j \in I : j = i
  <2>1. RowsAreMeant(s)
    BY DEF BookOK
  <2>. QED  BY <1>3, <1>4, <2>1 DEF RowsAreMeant
<1>6. Max(I) = i
  BY <1>3, <1>4, <1>5 DEF Max
<1>. QED  BY <1>1, <1>2, <1>3, <1>6

\* A label that has a row below the heading is found.
LEMMA RowsAreFound ==
    ASSUME BookOK, NEW s \in Sheets, WholeSheet(s), NEW l \in LabelsOf(s)
    PROVE  RowOf(sheets[s], l) # 0
<1>. DEFINE I == {i \in 2 .. Len(sheets[s]) : sheets[s][i].label = l}
<1>1. RowOf(sheets[s], l) = IF I # {} THEN Max(I) ELSE 0
  BY DEF RowOf, SelectLastInSubSeq
<1>2. PICK i \in 1 .. Len(sheets[s]) : sheets[s][i].label = l
  BY DEF WholeSheet
<1>3. l \in Labels /\ Len(sheets[s]) \in Nat
  BY FileConstants DEF LabelsOf, BookOK
<1>4. i # 1
  BY <1>2, <1>3, TypedConstants DEF WholeSheet, Header
<1>5. i \in I
  BY <1>2, <1>3, <1>4
<1>6. ASSUME NEW j \in I PROVE j = i
  <2>1. RowsAreMeant(s)
    BY DEF BookOK
  <2>. QED  BY <1>2, <1>3, <2>1 DEF RowsAreMeant
<1>7. Max(I) = i
  BY <1>3, <1>5, <1>6 DEF Max
<1>. QED  BY <1>1, <1>4, <1>5, <1>7

\* What is read of a cell, and its type.
LEMMA CellIsRead ==
    ASSUME NEW l \in Labels, NEW c \in CellsOf(l)
    PROVE  /\ l \notin Series => Narrow(l, Value(c)).of = c.of
           /\ l \in Series => /\ Floated(Value(c)).of = c.of
                              /\ Floated(Value(c)).kind \in {"float", "null"}
           /\ l \in Texts => Narrow(l, Value(c)).kind = "text"
           /\ l \in IntegerFields /\ IsWhole(c.of) => Narrow(l, Value(c)).kind = "int"
           /\ l \in Figures => Narrow(l, Value(c)).kind \in {"int", "float"}
<1>1. /\ c.kind \in IF l \in Texts THEN {"text", "date"}
                    ELSE {"whole", "real"} \cup (IF l \in Series THEN {"blank"} ELSE {})
  BY CellsAreOfTheirKind
<1>2. Value(c) = [of |-> c.of,
                  kind |-> CASE c.kind = "whole" -> "int" [] c.kind = "real" -> "float"
                             [] c.kind = "blank" -> "null" [] OTHER -> c.kind]
  BY <1>1 DEF Value
<1>3. CASE l \in Texts
  BY <1>1, <1>2, <1>3, FileConstants DEF Narrow, Figures
<1>4. CASE l \in Series
  BY <1>1, <1>2, <1>4, FileConstants DEF Floated, Figures
<1>5. CASE l \notin Texts \cup Series
  BY <1>1, <1>2, <1>5, FileConstants DEF Narrow, Figures
<1>. QED  BY <1>3, <1>4, <1>5

\* The row that is read for a label.
TheRow(s, l) == sheets[s][RowOf(sheets[s], l)]

\* The row of a label that is found holds what is meant by it.
LEMMA ReadAsMeant ==
    ASSUME BookOK, NEW s \in Sheets, NEW l \in LabelsOf(s), RowOf(sheets[s], l) # 0
    PROVE  /\ TheRow(s, l).cells \in [Places(l) -> CellsOf(l)]
           /\ \A y \in Places(l) : TheRow(s, l).cells[y].of = meant[l][y]
<1>1. /\ RowOf(sheets[s], l) \in 1 .. Len(sheets[s])
      /\ TheRow(s, l).label = l /\ l \in Labels
  BY FoundInItsRow, FileConstants DEF TheRow, LabelsOf
<1>2. TheRow(s, l) \in RowsOf(l)
  BY <1>1, RowOfItsLabel DEF TheRow
<1>3. RowsAreMeant(s)
  BY DEF BookOK
<1>. QED  BY <1>1, <1>2, <1>3 DEF RowsAreMeant, RowsOf, TheRow

\* What is ingested is what is meant, and what is whole is not refused.
LEMMA ReadingKeepsBook ==
    ASSUME BookInv, IngestBook
    PROVE  BookInv'
<1>1. BookOK
  BY DEF BookInv
<1>2. sheets' = sheets /\ meant' = meant /\ spoiled' = spoiled
  BY DEF IngestBook
<1>3. BookOK'
  BY <1>1, <1>2, BookIsWhatItIs
<1>4. ASSUME NEW l \in Labels \ Series, RowOf(sheets.fields, l) # 0
      PROVE  \E c \in CellsOf(l) : /\ ReadField(l) = Narrow(l, Value(c))
                                   /\ c.of = meant[l][1]
                                   /\ TheRow("fields", l).cells[1] = c
  <2>1. l \in LabelsOf("fields") /\ "fields" \in Sheets /\ Places(l) = {1}
    BY DEF LabelsOf, Sheets, Places
  <2>2. /\ TheRow("fields", l).cells[1] \in CellsOf(l)
        /\ TheRow("fields", l).cells[1].of = meant[l][1]
    BY <1>1, <1>4, <2>1, ReadAsMeant
  <2>3. ReadField(l) = Narrow(l, Value(TheRow("fields", l).cells[1]))
    BY DEF ReadField, TheRow
  <2>. QED  BY <2>2, <2>3
<1>5. ASSUME NEW l \in Series, RowOf(sheets.statements, l) # 0
      PROVE  /\ DOMAIN ReadSeries(l) = Places(l)
             /\ \A y \in Places(l) : /\ ReadSeries(l)[y].of = meant[l][y]
                                     /\ ReadSeries(l)[y].kind \in {"float", "null"}
  <2>1. l \in LabelsOf("statements") /\ "statements" \in Sheets /\ l \in Labels
    BY FileConstants DEF LabelsOf, Sheets
  <2>2. /\ TheRow("statements", l).cells \in [Places(l) -> CellsOf(l)]
        /\ \A y \in Places(l) : TheRow("statements", l).cells[y].of = meant[l][y]
    BY <1>1, <1>5, <2>1, ReadAsMeant
  <2>3. ReadSeries(l) = [y \in Places(l) |-> Floated(Value(TheRow("statements", l).cells[y]))]
    BY <2>2 DEF ReadSeries, TheRow
  <2>. QED  BY <2>1, <2>2, <2>3, CellIsRead
<1>6. reading' = "refused" => spoiled
  <2>. SUFFICES ASSUME ~spoiled
                PROVE  Readable /\ Found(sheets.statements, Series) /\ Accepted(ReadWorkbook)
    BY DEF IngestBook
  <2>1. WholeSheet("fields") /\ WholeSheet("statements")
    BY <1>1 DEF BookOK, Sheets
  <2>2. \A l \in Labels \ Series : RowOf(sheets.fields, l) # 0
    BY <1>1, <2>1, RowsAreFound DEF LabelsOf, Sheets
  <2>3. \A l \in Series : RowOf(sheets.statements, l) # 0
    BY <1>1, <2>1, RowsAreFound DEF LabelsOf, Sheets
  <2>4. Head(sheets.statements).label = "header"
    <3>1. sheets.statements \in Seq(SheetRows) /\ Len(sheets.statements) > 0
      BY <1>1, <2>1 DEF BookOK, Sheets, WholeSheet
    <3>2. Head(sheets.statements) = sheets.statements[1]
      BY <3>1
    <3>. QED  BY <2>1, <3>2 DEF WholeSheet, Header
  <2>5. \A l \in Texts : ReadWorkbook[l].kind = "text"
    <3>. SUFFICES ASSUME NEW l \in Texts PROVE ReadWorkbook[l].kind = "text"
      OBVIOUS
    <3>1. l \in Labels \ Series
      BY FileConstants
    <3>. QED  BY <1>4, <2>2, <3>1, CellIsRead DEF ReadWorkbook
  <2>6. \A l \in IntegerFields : ReadWorkbook[l].kind = "int"
    <3>. SUFFICES ASSUME NEW l \in IntegerFields PROVE ReadWorkbook[l].kind = "int"
      OBVIOUS
    <3>1. l \in Labels \ Series
      BY FileConstants
    <3>2. PICK c \in CellsOf(l) : /\ ReadField(l) = Narrow(l, Value(c))
                                  /\ TheRow("fields", l).cells[1] = c
      BY <1>4, <2>2, <3>1
    <3>3. /\ RowOf(sheets.fields, l) \in 1 .. Len(sheets.fields)
          /\ sheets.fields[RowOf(sheets.fields, l)].label = l
      BY <1>1, <2>2, <3>1, FoundInItsRow DEF LabelsOf, Sheets
    <3>4. IsWhole(c.of)
      BY <2>1, <3>2, <3>3 DEF WholeSheet, TheRow
    <3>. QED  BY <3>1, <3>2, <3>4, CellIsRead DEF ReadWorkbook
  <2>7. \A l \in Figures : ReadWorkbook[l].kind \in {"int", "float"}
    <3>. SUFFICES ASSUME NEW l \in Figures PROVE ReadWorkbook[l].kind \in {"int", "float"}
      OBVIOUS
    <3>1. l \in Labels \ Series
      BY DEF Figures
    <3>. QED  BY <1>4, <2>2, <3>1, CellIsRead DEF ReadWorkbook
  <2>8. \A l \in Series : \A y \in DOMAIN ReadWorkbook[l] :
            ReadWorkbook[l][y].kind \in {"float", "null"}
    BY <1>5, <2>3, FileConstants DEF ReadWorkbook
  <2>. QED  BY <2>2, <2>3, <2>4, <2>5, <2>6, <2>7, <2>8 DEF Readable, Found, Accepted
<1>7. ASSUME reading' = "ingested", NEW l \in Labels
      PROVE  meant[l] = IF l \in Series
                        THEN [y \in DOMAIN ReadWorkbook[l] |-> ReadWorkbook[l][y].of]
                        ELSE <<ReadWorkbook[l].of>>
  <2>1. Readable /\ Found(sheets.statements, Series)
    BY <1>7 DEF IngestBook
  <2>2. meant[l] = [y \in Places(l) |-> meant[l][y]]
    BY <1>1 DEF BookOK
  <2>3. CASE l \in Series
    <3>1. RowOf(sheets.statements, l) # 0
      BY <2>1, <2>3 DEF Found
    <3>2. ReadWorkbook[l] = ReadSeries(l)
      BY <2>3 DEF ReadWorkbook
    <3>. QED  BY <1>5, <2>2, <2>3, <3>1, <3>2
  <2>4. CASE l \notin Series
    <3>1. RowOf(sheets.fields, l) # 0
      BY <2>1, <2>4 DEF Readable, Found
    <3>2. ReadWorkbook[l] = ReadField(l)
      BY <2>4 DEF ReadWorkbook
    <3>3. ReadField(l).of = meant[l][1]
      BY <1>4, <2>4, <3>1, CellIsRead
    <3>4. meant[l] = <<meant[l][1]>>
      BY <2>2, <2>4 DEF Places
    <3>. QED  BY <2>4, <3>2, <3>3, <3>4
  <2>. QED  BY <2>3, <2>4
<1>8. ReadWorkbook' = ReadWorkbook
  BY <1>2, ReadingIsOfTheSheets
<1>. QED  BY <1>2, <1>3, <1>6, <1>7, <1>8 DEF BookInv, IngestedAsTyped

\* No edit follows a reading.
LEMMA EditsAreBeforeReading ==
    ASSUME BookOK', Change
    PROVE  BookInv'
  BY DEF Change, BookInv, IngestedAsTyped

\* The invariant of a workbook, whatever is exported and typed, and however
\* often it is edited and saved.
THEOREM BookInvariant == FileSpec => []BookInv
<1>1. BookInv /\ [FileNext]_workbook => BookInv'
  <2>. SUFFICES ASSUME BookInv, [FileNext]_workbook PROVE BookInv'
    OBVIOUS
  <2>0. BookOK
    BY DEF BookInv
  <2>1. CASE UNCHANGED workbook
    <3>1. ReadWorkbook' = ReadWorkbook
      BY <2>1, ReadingIsOfTheSheets DEF workbook
    <3>2. BookOK'
      BY <2>0, <2>1, BookIsWhatItIs DEF workbook
    <3>. QED  BY <2>1, <3>1, <3>2 DEF workbook, BookInv, IngestedAsTyped
  <2>2. ASSUME NEW s \in DOMAIN sheets, NEW i \in DOMAIN sheets[s],
               \/ \E j \in DOMAIN sheets[s][i].cells, c \in UNION {Typed[l] : l \in Labels} :
                     TypeCell(s, i, j, c)
               \/ MoveRow(s, i) \/ InsertRemark(s, i) \/ DeleteRow(s, i)
        PROVE  BookInv'
    <3>1. s \in Sheets /\ i \in 1 .. Len(sheets[s])
      BY <2>0 DEF BookOK
    <3>2. ASSUME NEW j \in DOMAIN sheets[s][i].cells, NEW c, TypeCell(s, i, j, c)
          PROVE  BookOK' /\ Change
      BY <2>0, <3>1, <3>2, TypingKeepsBook DEF TypeCell
    <3>3. ASSUME MoveRow(s, i) PROVE BookOK' /\ Change
      BY <2>0, <3>1, <3>3, MoveKeepsBook DEF MoveRow
    <3>4. ASSUME InsertRemark(s, i) PROVE BookOK' /\ Change
      BY <2>0, <3>1, <3>4, InsertKeepsBook DEF InsertRemark
    <3>5. ASSUME DeleteRow(s, i) PROVE BookOK' /\ Change
      BY <2>0, <3>1, <3>5, DeleteKeepsBook DEF DeleteRow
    <3>6. BookOK' /\ Change
      BY <2>2, <3>2, <3>3, <3>4, <3>5
    <3>. QED  BY <3>6, EditsAreBeforeReading
  <2>3. CASE Save
    BY <2>0, <2>3, SavingKeepsBook, EditsAreBeforeReading DEF Save
  <2>4. CASE IngestBook
    BY <2>4, ReadingKeepsBook
  <2>. QED  BY <2>1, <2>2, <2>3, <2>4 DEF FileNext
<1>. QED  BY <1>1, WrittenIsMeant, PTL DEF FileSpec

\* A workbook that is ingested is the file with what was typed, and it is
\* refused only when it was spoiled (spreadsheet.py, read_workbook).
THEOREM WorkbookIngested == FileSpec => []IngestedAsTyped
<1>1. BookInv => IngestedAsTyped
  BY DEF BookInv
<1>. QED  BY <1>1, BookInvariant, PTL
=============================================================================
