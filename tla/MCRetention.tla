----------------------------- MODULE MCRetention -----------------------------
(***************************************************************************)
(* Small instances of Retention for TLC.                                   *)
(***************************************************************************)
EXTENDS Retention

\* One run, of one source or of two fields.
OneRun == {10}
InOneRun == [s \in Sources |-> 10]
FieldNames == [s \in Sources |-> IF s = 1 THEN "rain" ELSE "wind"]
AllOfThem == [r \in OneRun |-> Cardinality(Sources)]
Fresh == [r \in OneRun |-> "nothing"]
Interrupted == [r \in OneRun |-> "interrupted"]
=============================================================================
