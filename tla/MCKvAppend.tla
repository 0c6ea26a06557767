------------------------------ MODULE MCKvAppend ------------------------------
EXTENDS KvCache
MCDeltas == {}
MCDivs == {}
=============================================================================
