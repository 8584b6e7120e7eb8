----------------------------- MODULE MCExecutor -----------------------------
\* One block_on with one spawned task, one core thread, one or two blocking threads.
EXTENDS Executor
=============================================================================
