---------------------------- MODULE MCChatUpdate ----------------------------
(* Small instances of ChatUpdate for TLC.                                   *)
EXTENDS ChatUpdate, TLC

Symmetry == Permutations(Updater) \cup Permutations(Chat) \cup Permutations(SR)
              \cup Permutations(Name)
=============================================================================
