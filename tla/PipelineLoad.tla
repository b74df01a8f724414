---------------------------- MODULE PipelineLoad ----------------------------
(***************************************************************************)
(* What a load makes of the pipeline directory (pipeline/loader.py,        *)
(* pipeline/snapshot.py): files that are rejected one by one, defects of   *)
(* the index that abort the load, and otherwise the projects in canonical  *)
(* order under the hash that stored runs cite.  The directory is edited    *)
(* between loads.                                                          *)
(*                                                                         *)
(* An id is the sequence of its digits, after a prefix that all ids share, *)
(* which is how the pipeline numbers its projects (the schema would allow  *)
(* other names too); a file's bytes are a content, which fixes the rest.   *)
(***************************************************************************)
EXTENDS Integers, Sequences, FiniteSets, FiniteSetsExt, SequencesExt

CONSTANTS
    Paths,       \* names a file may have in the directory
    Contents,    \* what the bytes of a file may be
    Parsed,      \* content -> its id and base year, or NoFile: not a project file
    TiesOut,     \* the contents without a tie-out failure
    NoFile       \* no file of this name

ASSUME LoadConstants ==
    /\ IsFiniteSet(Paths) /\ NoFile \notin Contents
    /\ \A c \in Contents :
          Parsed[c] = NoFile \/ (/\ Parsed[c].id \in Seq(0 .. 9)
                                 /\ Parsed[c].id # <<>>
                                 /\ Parsed[c].base_year \in Nat)
    /\ TiesOut \subseteq Contents

VARIABLE directory    \* path -> its content, or NoFile

Present == {p \in Paths : directory[p] # NoFile}

-----------------------------------------------------------------------------
(* load_pipeline.                                                          *)

\* _parse, then tie_out_failures.
IsAccepted(c) == Parsed[c] # NoFile /\ c \in TiesOut

Accepted == {p \in Present : IsAccepted(directory[p])}
Id(p)       == Parsed[directory[p]].id
BaseYear(p) == Parsed[directory[p]].base_year
Ids         == {Id(p) : p \in Accepted}

\* _reject_duplicate_ids, _require_one_base_year, _require_uniform_id_width,
\* in this order; a pipeline without files has the base year 0.
HasDuplicates == Cardinality(Ids) < Cardinality(Accepted)
Widths        == {Len(i) : i \in Ids}

BaseYears == {BaseYear(p) : p \in Accepted}

LoadError ==
    IF HasDuplicates THEN "duplicate ids"
    ELSE IF Cardinality(BaseYears) > 1 THEN "base years"
    ELSE IF Cardinality(Widths) > 1 THEN "id widths"
    ELSE "none"

Loads == LoadError = "none"

\* canonical_order is a plain string sort.
StringBefore(i, j) ==
    \/ i # j /\ IsPrefix(i, j)
    \/ \E k \in DOMAIN i \cap DOMAIN j :
          /\ i[k] < j[k]
          /\ SubSeq(i, 1, k - 1) = SubSeq(j, 1, k - 1)

\* The n-th id is the one with n - 1 before it.
IdsBefore(i)   == {j \in Ids : StringBefore(j, i)}
CanonicalOrder ==
    [n \in 1 .. Cardinality(Ids) |-> CHOOSE i \in Ids : Cardinality(IdsBefore(i)) = n - 1]

PathOf(i) == CHOOSE p \in Accepted : Id(p) = i

\* The loaded files in the order of the arrays, and the hash of the sorted
\* pairs of id and content hash: equal for equal pairs only.
Files == [n \in DOMAIN CanonicalOrder |-> directory[PathOf(CanonicalOrder[n])]]

\* Mutant: the names are hashed and not the contents.
HashOfNames == {<<i, NoFile>> : i \in Ids}

PipelineHash == {<<i, directory[PathOf(i)]>> : i \in Ids}

-----------------------------------------------------------------------------
(* Users edit the directory.                                               *)

LoadInit == directory \in [Paths -> Contents \cup {NoFile}]

WriteFile(p) ==
    \E c \in Contents : directory' = [directory EXCEPT ![p] = c]

RemoveFile(p) == p \in Present /\ directory' = [directory EXCEPT ![p] = NoFile]

RenameFile(p, q) ==
    /\ p \in Present /\ p # q
    /\ directory' = [directory EXCEPT ![q] = directory[p], ![p] = NoFile]

LoadNext ==
    \E p \in Paths : WriteFile(p) \/ RemoveFile(p) \/ \E q \in Paths : RenameFile(p, q)

LoadSpec == LoadInit /\ [][LoadNext]_directory

-----------------------------------------------------------------------------
(* Properties.                                                             *)

\* The hash moves with every edit of what was loaded, and with nothing else,
\* a file's name included (snapshot.py).
HashIsTheLoadedContents ==
    [][Loads /\ Loads' => (PipelineHash' = PipelineHash <=> Files' = Files)]_directory
=============================================================================
