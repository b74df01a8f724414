--------------------------- MODULE MCRunLifecycle ---------------------------
(* Small instances of RunLifecycle for TLC: what the runs submit and log is *)
(* one value each, so that the interleavings are what is explored.          *)
EXTENDS RunLifecycle, TLC

CONSTANTS r1, r2, m1, p1, c1, i1

MCIdentityOf == [c \in Calibrations |-> i1]
MCClaimOf    == [m \in Inputs |-> i1]
MCPipelineOf == [m \in Inputs |-> p1]

TwoGenerations == 1 .. 2

\* append_events is given one event at a time by the worker.
MCBatches == {<<e>> : e \in Events}

RunSymmetry == Permutations({r1, r2})
=============================================================================
