---------------------------- MODULE MCSharedMutex ----------------------------
\* Four threads on a word of four bits.
EXTENDS SharedMutex
=============================================================================
