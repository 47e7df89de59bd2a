---------------------------- MODULE MCStaticFiles ---------------------------
(* A file with a copy that can be decoded and one that cannot.  The copy   *)
(* is smaller than the file, or larger, or as large.                       *)
EXTENDS StaticFiles

MCPaths == << <<"a", "css">>, <<"a", "css", "gz">>, <<"a", "css", "zip">> >>
MCSize ==
  [p \in PathSet |-> [c \in 1..MaxWrites |-> IF p = <<"a", "css", "gz">> THEN c ELSE 2]]
=============================================================================
