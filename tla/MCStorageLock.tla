--------------------------- MODULE MCStorageLock ---------------------------
(* Small instances of StorageLock for TLC. *)
EXTENDS StorageLock

CONSTANTS d1, d2, e, g,     \* owners: two of the daemon, one elsewhere, a guest
          pd, pe, pg        \* their processes

MCProcOf == [o \in Owners |-> IF o \in {d1, d2} THEN pd ELSE IF o = e THEN pe ELSE pg]
MCSpaceOf == [p \in Procs |-> IF p = pg THEN "guest" ELSE "host"]
MCOneSpace == [p \in Procs |-> "host"]
=============================================================================
