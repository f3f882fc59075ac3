--------------------------- MODULE MCSendPipeline ---------------------------
(* Small instances of SendPipeline for TLC: the rows of a table and the slots *)
(* of a worker pool are interchangeable.                                      *)
EXTENDS SendPipeline, TLC

Symmetry == Permutations(Drafts) \cup Permutations(Workers)
=============================================================================
