------------------------------ MODULE MCFuture ------------------------------
\* Four coroutines that wait twice besides, on one or two core threads.
EXTENDS Future
=============================================================================
