--------------------------- MODULE MCQueueService ---------------------------
(* Small instances of QueueService for TLC.                                 *)
EXTENDS QueueService, TLC

Symmetry == Permutations(Updater) \cup Permutations(SR) \cup Permutations(Fields)
              \cup Permutations(Chat) \cup Permutations(Name)
=============================================================================
