------------------------------ MODULE MCIec104 ------------------------------
EXTENDS Iec104
=============================================================================
