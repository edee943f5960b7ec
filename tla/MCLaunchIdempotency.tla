------------------------ MODULE MCLaunchIdempotency ------------------------
(***************************************************************************)
(* Instances of LaunchIdempotency for TLC: the original call of a key, a   *)
(* retry, a retry with other parameters (a3), a call of another key (b1).  *)
(***************************************************************************)
EXTENDS LaunchIdempotency

CONSTANTS a1, a2, a3, b1, ka, kb

MCKeyOf   == [c \in Calls |-> IF c = b1 THEN kb ELSE ka]
MCPrintOf == [c \in Calls |-> IF c = a3 THEN "other" ELSE "original"]
=============================================================================
