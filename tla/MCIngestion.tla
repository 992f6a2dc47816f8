----------------------------- MODULE MCIngestion -----------------------------
(***************************************************************************)
(* Small instances of Ingestion for TLC.                                   *)
(***************************************************************************)
EXTENDS IngestionInv

\* One run of two fields, both required.
OneRun == {10}
TwoFields == [s \in {1, 2} |-> IF s = 1 THEN "rain" ELSE "wind"]
InOneRun == [s \in {1, 2} |-> 10]
Both == [r \in OneRun |-> 2]
Fresh == [r \in OneRun |-> "nothing"]

\* One run of one source.
OnlyRain == [s \in {1} |-> "rain"]
AloneInRun == [s \in {1} |-> 10]
JustOne == [r \in OneRun |-> 1]

\* An old run and a new one, of one source each.
TwoRuns == {10, 20}
InTwoRuns == [s \in {1, 2} |-> 10 * s]
OneEach == [r \in TwoRuns |-> 1]
OneField == [s \in {1, 2} |-> "rain"]
FreshRuns == [r \in TwoRuns |-> "nothing"]
=============================================================================
