------------------------- MODULE MCTemplateHandler --------------------------
(* Requests are interchangeable, and so are the structs of the dot pool.   *)
EXTENDS TemplateHandler, TLC

Symmetry == Permutations(Requests) \cup Permutations(Dots)
=============================================================================
