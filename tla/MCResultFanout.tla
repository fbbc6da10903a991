--------------------------- MODULE MCResultFanout ---------------------------
(* Small instances of ResultFanout for TLC. *)
EXTENDS ResultFanout

CONSTANTS c1, c2

MCConns == {c1, c2}
=============================================================================
