--------------------------- MODULE MCSingleFlight ---------------------------
(***************************************************************************)
(* SingleFlight for TLC.  Three callers over two keys in a registry of one *)
(* entry: two can share a flight while the third finds the registry full.  *)
(***************************************************************************)
EXTENDS SingleFlight, TLC

CONSTANTS c1, c2, c3, k1, k2
=============================================================================
