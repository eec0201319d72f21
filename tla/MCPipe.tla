------------------------------- MODULE MCPipe -------------------------------
\* Instances of the pipe for TLC.
EXTENDS Pipe

\* One byte, and one more than a ring of two holds.
ShortAndLong == {<<1, 0, 1>>}
=============================================================================
