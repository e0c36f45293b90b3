------------------------------ MODULE MCPollCycle ------------------------------
(* A node polling an upstream that goes through three versions. *)
EXTENDS PollCycle
=============================================================================
