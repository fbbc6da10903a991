----------------------------- MODULE MCDashboard -----------------------------
(* Two lost sockets, three results for two places, two polls at a time.     *)
EXTENDS Dashboard
=============================================================================
