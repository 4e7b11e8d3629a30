--------------------------- MODULE MCErrorService ----------------------------
(* Instance of ErrorService for TLC; the cfg files give the constants.      *)
EXTENDS ErrorService, TLC

=============================================================================
