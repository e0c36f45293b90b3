---------------------------- MODULE MCHealthEndpoint ----------------------------
(* The production interval, in seconds; everything late takes all the slack. *)
EXTENDS HealthEndpoint
=============================================================================
