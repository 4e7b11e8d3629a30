---------------------------- MODULE MCTriggerHook ----------------------------
(* Instance of TriggerHook for TLC; the cfg files give the constants.       *)
EXTENDS TriggerHook, TLC

(* Ids and clients are interchangeable in the safety runs.                  *)
Symmetry == Permutations(Ids) \cup Permutations(Clients)

=============================================================================
