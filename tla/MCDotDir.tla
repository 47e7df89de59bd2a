------------------------------ MODULE MCDotDir ------------------------------
(* A file in the root and one in a subdirectory.                           *)
EXTENDS DotDir, TLC

MCDirs == {<<>>, <<"sub">>}
MCTree == {<<"foo">>, <<"sub", "world">>}
Symmetry == Permutations(Requests) \cup Permutations(Handles)
=============================================================================
