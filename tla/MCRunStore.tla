----------------------------- MODULE MCRunStore -----------------------------
(* Small instances of RunStore for TLC.                                    *)
EXTENDS RunStore, TLC

CONSTANTS r1, r2, m1, m2, p1, p2, c1, c2, i1, i2, x, y

\* m1 was screened on p1 under the calibration c1; m2 on p2 under c2.
OneInput     == {m1}
TwoInputs    == {m1, m2}
MCIdentityOf == [c \in Calibrations |-> IF c = c1 THEN i1 ELSE i2]
MCClaimOf    == [m \in Inputs |-> IF m = m1 THEN i1 ELSE i2]
MCPipelineOf == [m \in Inputs |-> IF m = m1 THEN p1 ELSE p2]

OneGeneration  == 1 .. 1
TwoGenerations == 1 .. 2

\* Batches of at most two events.
MCBatches == {<<>>} \cup {<<e>> : e \in Events}
                   \cup {<<e, f>> : e \in Events, f \in Events}

RunSymmetry   == Permutations({r1, r2})
CurveSymmetry == Permutations({r1, r2}) \cup Permutations({x, y})
=============================================================================
