--------------------------- MODULE MCBlockingPool ---------------------------
\* The blocking pool with the threads and tasks the .cfg files give.
EXTENDS BlockingPool
=============================================================================
