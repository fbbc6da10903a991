---------------------------- MODULE MCModelFiles ----------------------------
EXTENDS ModelFiles

MCAllTraining == <<"cicids2017">>
=============================================================================
