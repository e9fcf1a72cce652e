---------------------------- MODULE MCDocuments ------------------------------
(* A small instance of Documents for TLC: every input up to the bounds of    *)
(* its cfg, and offsets in, before and behind a number for what the stack    *)
(* holds.                                                                    *)
EXTENDS Documents

MCKeys == {{}, {0, 1, 3, 4}, {0, 3, 4, 5}}

MCGarbage == {-20, -2, 0, 3, 8}
=============================================================================
