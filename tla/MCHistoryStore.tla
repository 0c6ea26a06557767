--------------------------- MODULE MCHistoryStore ---------------------------
EXTENDS HistoryStore
=============================================================================
