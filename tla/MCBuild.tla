------------------------------ MODULE MCBuild -------------------------------
(* Two files; the route of "GET /a" is also that of the first file, as     *)
(* a.html is served at /a.                                                 *)
EXTENDS Build

MCNames == {"GET /a", "INIT x", "INIT y"}
MCInitNames == {"INIT x", "INIT y"}
MCPattern(f, n) ==
  IF n = Own THEN (IF f = 1 THEN "GET /a" ELSE "GET /b")
  ELSE IF n \in MCInitNames THEN None ELSE n
MCContents == {c \in [1..NumFiles -> SUBSET MCNames] : "INIT y" \notin c[1]}

(* Fewer files to choose from, where the requests matter.                  *)
MCSmallContents == {[f \in 1..NumFiles |-> {}], [f \in 1..NumFiles |-> {"INIT x"}]}
=============================================================================
