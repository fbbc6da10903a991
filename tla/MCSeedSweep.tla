---------------------------- MODULE MCSeedSweep ----------------------------
(* Small instances of SeedSweep for TLC. *)
EXTENDS SeedSweep

CONSTANTS d1, d2

MCDrivers == {d1, d2}
=============================================================================
