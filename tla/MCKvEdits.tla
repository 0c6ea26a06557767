------------------------------ MODULE MCKvEdits ------------------------------
EXTENDS KvDefrag
MCDeltas == {-1, 1}
MCDivs == {2}
=============================================================================
