------------------------------ MODULE MCCrCache ------------------------------
(* Small instances of CrCache for TLC.                                      *)
EXTENDS CrCache, TLC

Symmetry == Permutations(Worker) \cup Permutations(CR) \cup Permutations(SR)
              \cup Permutations(Desc)
=============================================================================
