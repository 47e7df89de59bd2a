---------------------------- MODULE MCNegotiate -----------------------------
(* Around the boundaries: differences of 0.09, 0.1, 0.11 and their sums, a *)
(* refused encoding, and a q value that no client should send.             *)
EXTENDS Negotiate

MCQs == {-10, 0, 10, 39, 41, 50, 59, 100}
=============================================================================
