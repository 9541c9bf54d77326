------------------------ MODULE MCWorkerSupervisor ------------------------
(* Two request IDs, so that a caller can repeat one and a worker can answer   *)
(* with the wrong one, and enough calls and processes for a timeout or a      *)
(* crash to be followed by a restart and a retry.                             *)
EXTENDS WorkerSupervisor

CONSTANTS r1, r2

MCIds == {r1, r2}

=============================================================================
