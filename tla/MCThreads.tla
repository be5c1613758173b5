----------------------------- MODULE MCThreads ------------------------------
EXTENDS Threads, MCThreadLocks, MCAsyncThread
=============================================================================
