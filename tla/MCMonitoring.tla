----------------------------- MODULE MCMonitoring ----------------------------
(* Instance of Monitoring for TLC; the cfg file gives the constants.        *)
EXTENDS Monitoring, TLC

=============================================================================
