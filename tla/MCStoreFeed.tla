---------------------------- MODULE MCStoreFeed ----------------------------
(* Small instances of StoreFeed for TLC. *)
EXTENDS StoreFeed, TLC

AnyWriter == Permutations(Writers)
=============================================================================
