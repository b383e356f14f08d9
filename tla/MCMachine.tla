----------------------------- MODULE MCMachine -----------------------------
EXTENDS Machine, TLC

\* A process of two threads runs, and a third tid is free.
MCInitial == 1 :> 1 @@ 2 :> 1

\* The whole range, and its middle.
MCMmapEvent ==
  {[start |-> 0, end |-> 3, pgoff |-> 0, dso |-> 1],
   [start |-> 1, end |-> 2, pgoff |-> 0, dso |-> 2]}
=============================================================================
