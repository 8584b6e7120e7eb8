---------------------------- MODULE MCJoinHandle ----------------------------
\* Two spawned tasks on one or two core threads.
EXTENDS JoinHandle
=============================================================================
