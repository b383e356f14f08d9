----------------------------- MODULE MCDsoData -----------------------------
EXTENDS DsoData, TLC

CONSTANTS t1, t2

Threads == Permutations({t1, t2})

\* A read of both pages over the end of the file, one from its end on and one
\* behind it.
MCRequest == {<<1, 3>>, <<3, 1>>, <<4, 1>>}

\* The limit reached by the dsos, and the system's limit reached before it.
MCLimits == {<<1, 2>>, <<2, 2>>, <<3, 1>>, <<3, 2>>}
=============================================================================
