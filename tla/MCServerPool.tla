----------------------------- MODULE MCServerPool -----------------------------
(* A small instance of ServerPool for TLC: its cfg gives every constant a    *)
(* value.                                                                    *)
EXTENDS ServerPool
=============================================================================
