-------------------------------- MODULE MCSmoke --------------------------------
(***************************************************************************)
(* Small instances of SmokeWorker for TLC.  Runs are strings, because Kind *)
(* distinguishes them.                                                     *)
(***************************************************************************)
EXTENDS SmokeWorkerInv

CONSTANTS w1, w2, s1, s2

MCWorkers == {w1, w2}
MCSubmitters == {s1, s2}

\* The kinds the operator's switch tells apart.
MCRuns == {"scenario", "canary"}
MCKind == [r \in MCRuns |-> IF r = "scenario" THEN "interactive" ELSE "validation"]
=============================================================================
