--------------------------- MODULE MCBufferCache ---------------------------
\* Instances of the buffer cache for TLC.
EXTENDS BufferCache, TLC

\* Processes are interchangeable: nothing compares or orders them.
ProcSymmetry == Permutations(Procs)
=============================================================================
