------------------------------ MODULE MCKvSlots ------------------------------
EXTENDS KvDefrag
MCDeltas == {}
MCDivs == {}
=============================================================================
