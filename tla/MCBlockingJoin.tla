--------------------------- MODULE MCBlockingJoin ---------------------------
\* Two blocking tasks, one of which has an owner that may be destroyed.
EXTENDS BlockingJoin
=============================================================================
