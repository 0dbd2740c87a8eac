--------------------------- MODULE MCForwardRuntime ---------------------------
\* One forward: every race of the table is a race for one of its entries.
EXTENDS ForwardRuntime

CONSTANTS f1, c1, c2, s1

=============================================================================
