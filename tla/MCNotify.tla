------------------------------ MODULE MCNotify ------------------------------
EXTENDS Notify, TLC

\* Nothing tells two messages apart (used by the run without liveness only).
Symmetry == Permutations(Emails)
=============================================================================
