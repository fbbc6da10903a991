------------------------------ MODULE MCK1Study ------------------------------
(* Batches of different lengths, one of them with nothing to attack.        *)
EXTENDS K1Study

MCSizes == <<3, 3, 2, 3, 1>>
MCClean == <<2, 3, 0, 3, 1>>
MCSurviving == <<1, 2, 0, 3, 0>>

MCLimits == {0, 1, 3}
=============================================================================
