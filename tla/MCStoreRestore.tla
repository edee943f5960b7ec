--------------------------- MODULE MCStoreRestore ---------------------------
(* Small instances of StoreRestore for TLC. *)
EXTENDS StoreRestore

CONSTANTS d, r, pd, pr    \* a daemon that opens the store, a restore

MCProcOf == [o \in Owners |-> IF o = d THEN pd ELSE pr]
MCSpaceOf == [p \in Procs |-> "host"]
MCGuestSpaceOf == [p \in Procs |-> IF p = pd THEN "guest" ELSE "host"]
=============================================================================
