-------------------------- MODULE MCSenderService ---------------------------
(* Instance of SenderService for TLC; the cfg files give the constants.     *)
EXTENDS SenderService, TLC

Symmetry == Permutations(Consumers) \cup Permutations(Objects) \cup Permutations(Tasks)
                \cup Permutations(Workers)

=============================================================================
