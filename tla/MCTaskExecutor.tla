-------------------------- MODULE MCTaskExecutor --------------------------
EXTENDS TaskExecutor, TLC
=============================================================================
