------------------------------- MODULE MCHost -------------------------------
(* A small instance of Host for TLC: its cfg gives every constant a value.  *)
EXTENDS Host
=============================================================================
