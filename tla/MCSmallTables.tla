--------------------------- MODULE MCSmallTables ---------------------------
(* A small instance of SmallTables for TLC: its cfg gives every constant a   *)
(* value.                                                                    *)
EXTENDS SmallTables
=============================================================================
