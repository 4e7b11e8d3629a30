-------------------------- MODULE MCWaitingService --------------------------
(* Instance of WaitingService for TLC; the cfg files give the constants.    *)
EXTENDS WaitingService, TLC

=============================================================================
