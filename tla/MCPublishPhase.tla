----------------------------- MODULE MCPublishPhase -----------------------------
(* Two areas, through one slot of the semaphore and through two.            *)
EXTENDS PublishPhase

CONSTANTS a1, a2

MCAreas == <<a1, a2>>
=============================================================================
