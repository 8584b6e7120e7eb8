----------------------------- MODULE MCCorePool -----------------------------
\* The core pool with the threads and calls the .cfg files give.
EXTENDS CorePool
=============================================================================
