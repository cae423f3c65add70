---------------------------- MODULE MCSeriesMerge ----------------------------
(* SeriesMerge for TLC: values and serial numbers are interchangeable. *)
EXTENDS SeriesMerge, TLC

Symmetry == Permutations(Texts) \cup Permutations(Ids)
=============================================================================
