--------------------------- MODULE MCPipelineSource -------------------------
(* Small instances for TLC of the pipeline directory from both of its ends: *)
(* the server and its workers, who load it (PipelineSource), the commands,  *)
(* who write it (PipelineDirectory), and the workbook that is taken from it *)
(* and brought back (WorkbookFile).  A behaviour is one of one of them, its *)
(* subject: to the server, a command is an edit.                            *)
EXTENDS PipelineSource, PipelineDirectory, WorkbookFile, TLC

CONSTANTS r1, r2, m1, m2, p1, p2, c1, i1, e1, e2, l1, l2, s1, s2, Subjects

VARIABLE subject

MCInit ==
    /\ subject \in Subjects
    /\ subject # "server" => directory = CHOOSE l \in Load : l.at = 0
    /\ SourceInit
    /\ DirectoryInit
    /\ FileInit

MCNext ==
    \/ subject = "server" /\ SourceNext /\ UNCHANGED <<disk, workbook>>
    \/ subject = "commands" /\ DirectoryNext /\ UNCHANGED <<system, workbook>>
    \/ subject = "workbook" /\ FileNext /\ UNCHANGED <<system, disk>>

MCSpec == MCInit /\ [][MCNext /\ UNCHANGED subject]_<<system, disk, workbook, subject>>

-----------------------------------------------------------------------------

MCIdentityOf == [c \in Calibrations |-> i1]
MCClaimOf    == [m \in Inputs |-> i1]
MCPipelineOf == [m \in Inputs |-> IF m = m1 THEN p1 ELSE p2]
MCEligibleOf == [h \in Pipelines |-> IF h = p1 THEN e1 ELSE e2]

OneGeneration == 1 .. 1
NoBatches     == {<<>>}

\* The attempt at which each site of a pool comes into the band: at the
\* first, the second, after the last, or never.
MCInBand == s1 :> <<2, 1, 0, 1>> @@ s2 :> <<3, 1, 2, 1>>

\* A file of a tenor, a rate, a name that looks like a formula, a day, and two
\* lines of two years, one with a year that has no figure.  Halves: 36 is 18.
MCExported ==
    LET float(n) == [kind |-> "float", of |-> n]
        none     == [kind |-> "null", of |-> -1]
    IN  "tenor" :> [kind |-> "int", of |-> 36] @@ "rate" :> float(3)
          @@ "name" :> [kind |-> "text", of |-> "="]
          @@ "day" :> [kind |-> "text", of |-> "yesterday"]
          @@ "fcfe" :> <<float(4), float(3)>> @@ "dscr" :> <<none, float(5)>>

MCTyped ==
    LET whole(n) == [kind |-> "whole", of |-> n]
        real(n)  == [kind |-> "real", of |-> n]
    IN  "tenor" :> {whole(38), real(38), real(39)} @@ "rate" :> {whole(2), real(5)}
          @@ "name" :> {[kind |-> "text", of |-> "plain"]}
          @@ "day" :> {[kind |-> "date", of |-> "today"]}
          @@ "fcfe" :> {whole(2), real(5)}
          @@ "dscr" :> {real(7), [kind |-> "blank", of |-> -1]}

RequestSymmetry == Permutations({r1, r2}) \cup Permutations({l1, l2})
=============================================================================
