----------------------------- MODULE MCCwSearch -----------------------------
EXTENDS CwSearch
=============================================================================
