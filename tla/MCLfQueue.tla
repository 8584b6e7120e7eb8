------------------------------ MODULE MCLfQueue ------------------------------
\* lfqueue with small sets of threads, see the .cfg files.
EXTENDS LfQueue
==============================================================================
