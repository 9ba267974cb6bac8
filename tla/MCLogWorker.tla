---------------------------- MODULE MCLogWorker -----------------------------
EXTENDS LogWorker
=============================================================================
