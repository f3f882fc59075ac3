---------------------------- MODULE MCSessions ----------------------------
(* Sessions on small instances: requests are interchangeable.              *)
EXTENDS Sessions, TLC

RequestSymmetry == Permutations(Requests)
=============================================================================
