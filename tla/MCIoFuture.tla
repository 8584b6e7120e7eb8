----------------------------- MODULE MCIoFuture -----------------------------
\* Two operations in flight at once, each of which may succeed or fail.
EXTENDS IoFuture
=============================================================================
