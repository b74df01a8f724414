-------------------------- MODULE PipelineDirectory --------------------------
(***************************************************************************)
(* The pipeline directory and the three commands that write to it:         *)
(* generate, which replaces the set it last wrote; ingest, which reads a   *)
(* workbook; and export, which makes one (cli.py, generate/pipeline.py,    *)
(* generate/spreadsheet.py).  Users edit the same directory by hand, and a *)
(* command may be interrupted or killed at any of its steps.  A site's id  *)
(* is its place in the pool that a seed draws.                             *)
(***************************************************************************)
EXTENDS Integers, FiniteSets

CONSTANTS
    Seeds,         \* what --seed may be
    Counts,        \* what --count may be
    Attempts,      \* generator.dscr_resample_attempts
    InBand,        \* [Seeds -> [1 .. pool -> 0 .. ]]: the attempt that lands in
                   \* the min-DSCR band, 0 where none would
    MaxCommands,   \* bound: commands and edits by hand
    Garbled,       \* a file that does not parse
    Nothing        \* no file, no command, no workbook

\* A site's place in the deepest pool.
Ids == UNION {1 .. 2 * count : count \in Counts}

\* What a file says of itself: provenance.preparedBy decides whose it is.
Files == [id : Ids, by : {"generator", "analyst"}, content : Seeds \cup {"revised"}]

File(i, by, content) == [id |-> i, by |-> by, content |-> content]

ASSUME DirectoryConstants ==
    /\ Counts \subseteq Nat \ {0}
    /\ Attempts \in Nat \ {0} /\ MaxCommands \in Nat
    /\ InBand \in [Seeds -> [Ids -> Nat]]
    /\ Nothing \notin Files /\ Garbled \notin Files /\ Nothing # Garbled

VARIABLES
    files,       \* the directory: name -> file, or Nothing
    job,         \* the generate that is running, or Nothing
    litter,      \* a staging directory of an earlier generate is still there
    book,        \* the workbook last exported or revised, or Nothing
    outcome,     \* of the last command
    commands     \* bound: how many there have been

disk == <<files, job, litter, book, outcome, commands>>

\* A name is of a seed and an id, for the site's name is in it, or the id's own.
Drawn(seed, i) == <<seed, i>>
Ingested(i) == <<Nothing, i>>
Names == (Seeds \cup {Nothing}) \X Ids

Present == {n \in Names : files[n] # Nothing}
Whole == {n \in Present : files[n] # Garbled}

-----------------------------------------------------------------------------
(* What a load makes of it: _reject_duplicate_ids aborts the whole of it,   *)
(* a garbled file is rejected alone.                                        *)

Loads(f) ==
    LET whole == {n \in Names : f[n] \notin {Nothing, Garbled}}
    IN  \A m, n \in whole : f[m].id = f[n].id => m = n

-----------------------------------------------------------------------------
(* generate.                                                               *)

\* build_project draws again until the cover is in the band, or gives up.
Placeable(seed, i) == InBand[seed][i] \in 1 .. Attempts

\* generate_pipeline: a pool twice as deep as asked, and the first that place.
Placed(seed, count) == {i \in 1 .. 2 * count : Placeable(seed, i)}

Built(seed, count) ==
    {i \in Placed(seed, count) :
        Cardinality({j \in Placed(seed, count) : j < i}) < count}

\* The payload: name -> file, on the names it has.
Payload(seed, count) ==
    [n \in {Drawn(seed, i) : i \in Built(seed, count)} |->
        File(n[2], "generator", seed)]

\* _previously_generated: what cannot be read is somebody else's.
OursOf(f) == {n \in Names : f[n] \notin {Nothing, Garbled} /\ f[n].by = "generator"}
Theirs == Present \ OursOf(files)

\* _project_ids: a file that cannot be read has no id.
TheirIds == {files[n].id : n \in Theirs \cap Whole}

Refuses(seed, count) ==
    \/ Cardinality(Built(seed, count)) < count        \* PipelineExhaustedError
    \/ TheirIds \cap Built(seed, count) # {}          \* PipelineCollisionError

Spend == commands < MaxCommands /\ commands' = commands + 1

\* before, kept and disturbed are history: the directory as it was found, and
\* whether anybody else wrote to it since.
Generate(seed, count) ==
    /\ job = Nothing /\ Spend
    /\ IF Refuses(seed, count)
       THEN job' = job /\ outcome' = "refused"
       ELSE /\ job' = [payload |-> Payload(seed, count), staged |-> {},
                       ours |-> OursOf(files), phase |-> "staging",
                       before |-> files, kept |-> Theirs, disturbed |-> FALSE]
            /\ outcome' = "running"
    /\ UNCHANGED <<files, litter, book>>

\* Mutant: each file is written where it belongs as soon as it is serialised.
StageInPlace(n) ==
    /\ job # Nothing /\ job.phase = "staging" /\ n \in DOMAIN job.payload \ job.staged
    /\ job' = [job EXCEPT !.staged = @ \cup {n}]
    /\ files' = [files EXCEPT ![n] = job.payload[n]]
    /\ UNCHANGED <<litter, book, outcome, commands>>

Stage(n) ==
    /\ job # Nothing /\ job.phase = "staging" /\ n \in DOMAIN job.payload \ job.staged
    /\ job' = [job EXCEPT !.staged = @ \cup {n}]
    /\ UNCHANGED <<files, litter, book, outcome, commands>>

\* Mutant: what was written before is overwritten, and not removed.
UnlinkNone(n) ==
    /\ job # Nothing /\ n \in job.ours
    /\ job.phase \in {"staging", "swapping"} /\ job.staged = DOMAIN job.payload
    /\ job' = [job EXCEPT !.phase = "swapping", !.ours = @ \ {n}]
    /\ UNCHANGED <<files, litter, book, outcome, commands>>

\* The swap begins when everything is staged: first the old ones go, and one
\* that has gone already ends the command.
Unlink(n) ==
    /\ job # Nothing /\ n \in job.ours /\ files[n] # Nothing
    /\ job.phase \in {"staging", "swapping"} /\ job.staged = DOMAIN job.payload
    /\ job' = [job EXCEPT !.phase = "swapping", !.ours = @ \ {n}]
    /\ files' = [files EXCEPT ![n] = Nothing]
    /\ UNCHANGED <<litter, book, outcome, commands>>

\* replace: over whatever is there.
Move(n) ==
    /\ job # Nothing /\ job.ours = {} /\ n \in job.staged
    /\ job.phase = "staging" => job.staged = DOMAIN job.payload
    /\ job' = [job EXCEPT !.phase = "moving", !.staged = @ \ {n}]
    /\ files' = [files EXCEPT ![n] = job.payload[n]]
    /\ UNCHANGED <<litter, book, outcome, commands>>

Finish ==
    /\ job # Nothing /\ job.phase = "moving" /\ job.staged = {}
    /\ job' = Nothing
    /\ outcome' = "written"
    /\ UNCHANGED <<files, litter, book, commands>>

\* An exception or Ctrl-C: the finally clause takes the staging directory away.
Interrupted ==
    /\ job # Nothing
    /\ job' = Nothing
    /\ outcome' = "failed"
    /\ UNCHANGED <<files, litter, book, commands>>

\* A kill: nothing is cleaned up, and the next command has another pid.
Killed ==
    /\ job # Nothing
    /\ job' = Nothing /\ litter' = TRUE
    /\ outcome' = "failed"
    /\ UNCHANGED <<files, book, commands>>

-----------------------------------------------------------------------------
(* export, ingest, and edits by hand.                                      *)

Disturbed == IF job = Nothing THEN job ELSE [job EXCEPT !.disturbed = TRUE]

\* In the order of names, {id}-{slug}.json comes before {id}.json; of two names
\* drawn for one id the slug decides, and either may be first.
Precedes(m, n) == m[2] < n[2] \/ (m[2] = n[2] /\ m[1] # Nothing)

FirstOfItsId(n) ==
    n \in Whole /\ \A m \in Whole \ {n} : files[m].id = files[n].id => Precedes(n, m)

\* Every file is parsed in the search for the id, so that one garbled file of
\* anybody's ends the command.
Export(n) ==
    /\ FirstOfItsId(n) /\ Spend
    /\ book' = IF Present = Whole THEN files[n] ELSE book
    /\ outcome' = IF job # Nothing THEN outcome
                  ELSE IF Present = Whole THEN "exported" ELSE "failed"
    /\ UNCHANGED <<files, job, litter>>

\* In the workbook: the figures, and the name of who prepared them or not.
Revise ==
    /\ book # Nothing
    /\ \E by \in {book.by, "analyst"} :
          book' = [book EXCEPT !.content = "revised", !.by = by]
    /\ UNCHANGED <<files, job, litter, outcome, commands>>

\* A workbook that validates and ties out is written under its id, over what is
\* there; a kill in the middle of the write leaves half a file.
Ingest(written) ==
    /\ book # Nothing /\ Spend
    /\ written \in {book, Garbled}
    /\ files' = [files EXCEPT ![Ingested(book.id)] = written]
    /\ job' = Disturbed
    /\ outcome' = IF job # Nothing THEN outcome
                  ELSE IF written = book THEN "ingested" ELSE "failed"
    /\ UNCHANGED <<litter, book>>

\* One that does not leaves everything as it was.
RefuseBook ==
    /\ book # Nothing /\ book.content = "revised" /\ job = Nothing /\ Spend
    /\ outcome' = "refused"
    /\ UNCHANGED <<files, job, litter, book>>

\* A half-edited file; a project made from another's file; a file taken away.
EditByHand(n) ==
    /\ n \in Present /\ Spend
    /\ \/ files' = [files EXCEPT ![n] = Garbled]
       \/ \E i \in Ids : files' = [files EXCEPT ![n] = File(i, "analyst", "revised")]
       \/ files' = [files EXCEPT ![n] = Nothing]
    /\ job' = Disturbed
    /\ outcome' = IF job = Nothing THEN "edited" ELSE outcome
    /\ UNCHANGED <<litter, book>>

DirectoryInit ==
    /\ files = [n \in Names |-> Nothing]
    /\ job = Nothing /\ litter = FALSE /\ book = Nothing
    /\ outcome = "none" /\ commands = 0

DirectoryNext ==
    \/ \E seed \in Seeds, count \in Counts : Generate(seed, count)
    \/ \E n \in Names : Stage(n) \/ Unlink(n) \/ Move(n)
    \/ Finish \/ Interrupted \/ Killed
    \/ \E n \in Names : Export(n) \/ EditByHand(n)
    \/ Revise \/ RefuseBook
    \/ \E written \in {book, Garbled} : Ingest(written)

DirectorySpec == DirectoryInit /\ [][DirectoryNext]_disk

-----------------------------------------------------------------------------
(* Properties.                                                             *)

\* A regenerated pipeline replaces the previous one: when generate says it
\* has written and nobody else wrote meanwhile, the generator's files are the
\* new ones and no others, whatever earlier commands, interrupted and killed
\* ones included, had left; and no id is in two files unless two files of
\* somebody else's claim it (write_pipeline: a stale file under an old name
\* would abort every load).
RegenerationReplaces ==
    [][job # Nothing /\ outcome' = "written" /\ ~job.disturbed =>
         LET ours == OursOf(files')
         IN  /\ ours = DOMAIN job.payload
             /\ \A n \in ours : files'[n] = job.payload[n]
             /\ \A m \in ours : \A n \in Names \ {m} :
                   files'[n] \notin {Nothing, Garbled} => files'[n].id # files'[m].id]_disk

\* A generate that fails before it has staged all of its files, or refuses,
\* leaves the directory as it found it, edits of others apart
\* (write_pipeline: "a failed run leaves the previous pipeline intact").
FailedRunLeavesThePrevious ==
    job # Nothing /\ job.phase = "staging" /\ ~job.disturbed => files = job.before

\* What generate says it kept is as it was (write_pipeline: files this
\* generator did not write are "left exactly as they were", and one it cannot
\* parse is "somebody's work").  The code does not keep this promise: a file
\* moved in replaces a garbled or renumbered one of the same name.
KeptFilesAreLeftAlone ==
    [][job # Nothing /\ outcome' = "written" /\ ~job.disturbed =>
         \A n \in job.kept : files'[n] = job.before[n]]_disk

\* A partial directory is told from a whole one by the staging directory that
\* is still there (write_pipeline).  The code does not keep this promise: its
\* finally clause removes it whatever happened.
PartialIsMarked ==
    [][job # Nothing /\ job.phase # "staging" /\ outcome' = "failed" => litter']_disk

\* A project written out as a workbook, revised and ingested again leaves a
\* pipeline that loads, as it did before (cli.py: "so it can be revised and
\* re-ingested").  The code does not keep this promise: the old file stays
\* under its own name.
RevisedProjectLoads ==
    [][outcome' = "ingested" /\ Loads(files)
         /\ (\E n \in Whole : files[n].id = book.id) => Loads(files')]_disk
=============================================================================
