---------------------------- MODULE MCUnityUpdate ----------------------------
(* Small instances of UnityUpdate for TLC.                                  *)
EXTENDS UnityUpdate, TLC

Symmetry == Permutations(Updater) \cup Permutations(SR) \cup Permutations(Queue)
=============================================================================
