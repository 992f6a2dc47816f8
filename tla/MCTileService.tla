---------------------------- MODULE MCTileService ----------------------------
(***************************************************************************)
(* A small instance of TileService for TLC.                                *)
(***************************************************************************)
EXTENDS TileService

OneSource == {1}
OneRun == {1}
InOneRun == [s \in {1} |-> 1]
OneFieldEach == [s \in {1} |-> "rain"]
OneExpected == [r \in {1} |-> 1]
Fresh == [r \in {1} |-> "nothing"]
=============================================================================
