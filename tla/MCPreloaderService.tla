------------------------- MODULE MCPreloaderService -------------------------
(* Instance of PreloaderService for TLC; the cfg files give the constants.  *)
EXTENDS PreloaderService, TLC

Symmetry == Permutations(Ids) \cup Permutations(Creators) \cup Permutations(Workers)

=============================================================================
