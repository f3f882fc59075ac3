--------------------------- MODULE MCModelCalls ---------------------------
(* ModelCalls on small instances: messages and slots are interchangeable.  *)
EXTENDS ModelCalls, TLC

CallSymmetry == Permutations(Messages) \cup Permutations(Slots)
=============================================================================
