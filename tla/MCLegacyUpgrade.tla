-------------------------- MODULE MCLegacyUpgrade --------------------------
(***************************************************************************)
(* LegacyUpgrade for TLC: five upgrades, rollbacks and retries, with three *)
(* faults among them and writes of either runtime.                         *)
(***************************************************************************)
EXTENDS LegacyUpgrade
=============================================================================
