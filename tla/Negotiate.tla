----------------------------- MODULE Negotiate ------------------------------
(***************************************************************************)
(* negiotiateEncoding (handlers.go): one pass over the items of a client's *)
(* Accept-Encoding headers, in the order they are listed, keeps the best   *)
(* encoding so far.  An item with a clearly higher q replaces it; an item  *)
(* with about the same q does if its encoding is smaller, that is, listed  *)
(* earlier in the file's encodings.  "About the same" is not transitive,   *)
(* so what is kept depends on the order of the items.                      *)
(*                                                                         *)
(* q values are hundredths.  The code subtracts floating-point numbers: a  *)
(* difference of 0.1 on paper may come out on either side of 0.1.          *)
(***************************************************************************)
EXTENDS Integers, Sequences

CONSTANTS
  Names,    \* the encodings there are, "identity" among them
  Other,    \* an encoding that no file has
  Qs,       \* q values that clients send
  MaxItems  \* bound on the items of a header

ASSUME NegotiateAssumption ==
  /\ "identity" \in Names
  /\ Other \notin Names
  /\ Qs \subseteq Int
  /\ MaxItems \in Nat

VARIABLES
  encodings,  \* fileInfo.encodings, smallest first
  seen,       \* the items looked at so far
  maxq,       \* q of the encoding kept
  maxqIdx,    \* its index
  done

vars == <<encodings, seen, maxq, maxqIdx, done>>

Items == [enc : Names \cup {Other}, q : Qs]

(* A file has its identity encoding, and every encoding once: see          *)
(* EncodingsAgree in module StaticFiles.                                   *)
Offers ==
  UNION {{s \in [1..n -> Names] :
            /\ \A i, j \in 1..n : s[i] = s[j] => i = j
            /\ \E i \in 1..n : s[i] = "identity"} : n \in 1..4}

TypeOK ==
  /\ encodings \in Offers
  /\ seen \in Seq(Items)
  /\ maxq \in Qs \cup {0}
  /\ maxqIdx \in DOMAIN encodings
  /\ done \in BOOLEAN

(* The index of an encoding in the list, or 0 (-1 in the code).            *)
IndexOf(e) ==
  IF \E i \in DOMAIN encodings : encodings[i] = e
  THEN CHOOSE i \in DOMAIN encodings : encodings[i] = e ELSE 0

(* How q compares with maxq + 0.1, and its distance from maxq with 0.1;    *)
(* edge tells how a distance of exactly 0.1 came out.                      *)
Above(q, edge) == q - maxq > 10 \/ (q - maxq = 10 /\ edge)

(* Mutant: the difference is compared without its absolute value.          *)
NearBelow(q, edge) == q - maxq < 10 \/ (q - maxq = 10 /\ ~edge)

Near(q, edge) ==
  \/ q - maxq < 10 /\ maxq - q < 10
  \/ q - maxq \in {-10, 10} /\ ~edge

(* Mutant: the first encoding is the default.                              *)
DefaultFirst(encs) == 1

(* Mutant: the q of the kept encoding is not remembered.                   *)
KeepNoQ(e, q) == maxq' = maxq /\ maxqIdx' = IndexOf(e)

(* Mutant: an encoding listed later is preferred.                          *)
PrefersLater(e, q, edge) ==
  Above(q, edge) \/ (Near(q, edge) /\ IndexOf(e) > maxqIdx)

(* Default to the identity encoding, with q = 0.                           *)
Default(encs) == CHOOSE i \in DOMAIN encs : encs[i] = "identity"

(* A single encoding is returned at once.                                  *)
Init ==
  /\ encodings \in Offers
  /\ seen = <<>>
  /\ maxq = 0
  /\ maxqIdx = Default(encodings)
  /\ done = (Len(encodings) = 1)

(* The client has a strong preference for this encoding, or a small one    *)
(* and the encoding is listed earlier.                                     *)
Prefers(e, q, edge) ==
  Above(q, edge) \/ (Near(q, edge) /\ IndexOf(e) < maxqIdx)

Keep(e, q) == maxq' = q /\ maxqIdx' = IndexOf(e)

(* The next item asks for encoding e with quality q.                       *)
Consider(e, q) ==
  /\ ~done
  /\ Len(seen) < MaxItems
  /\ seen' = Append(seen, [enc |-> e, q |-> q])
  /\ \E edge \in BOOLEAN :
       IF IndexOf(e) # 0 /\ Prefers(e, q, edge)
       THEN Keep(e, q)
       ELSE UNCHANGED <<maxq, maxqIdx>>
  /\ UNCHANGED <<encodings, done>>

Finish ==
  /\ ~done
  /\ done' = TRUE
  /\ UNCHANGED <<encodings, seen, maxq, maxqIdx>>

Quiet == done /\ UNCHANGED vars

Next == (\E e \in Names \cup {Other}, q \in Qs : Consider(e, q)) \/ Finish \/ Quiet

Spec == Init /\ [][Next]_vars

-----------------------------------------------------------------------------
(* Properties                                                              *)

Chosen == encodings[maxqIdx]

(* The items for encodings of this file.                                   *)
Wanted == {i \in DOMAIN seen : IndexOf(seen[i].enc) # 0}

(* No encoding is listed twice.                                            *)
Plain == \A i, j \in DOMAIN seen : seen[i].enc = seen[j].enc => i = j

(* The client gets the identity encoding or one that it has asked for,     *)
(* with the q it gave for it.                                              *)
DefaultOrAsked ==
  \/ Chosen = "identity" /\ maxq = 0
  \/ \E i \in DOMAIN seen : seen[i] = [enc |-> Chosen, q |-> maxq]

(* A strong preference wins, wherever it is listed: an encoding whose q is *)
(* more than 0.1 above that of every other one that the file has, and of   *)
(* the default's 0, is the one that is chosen.                             *)
StrongPreferenceWins ==
  \A i \in Wanted :
    /\ seen[i].q > 10
    /\ \A j \in Wanted : j # i => seen[i].q - seen[j].q > 10
    => Chosen = seen[i].enc

(* Among encodings that a client likes about the same, and more than       *)
(* nothing, it gets the smallest, in whatever order it lists them.         *)
SmallestOfEquals ==
  (/\ Wanted # {}
   /\ \A i, j \in Wanted : seen[i].q - seen[j].q < 10
   /\ \A i \in Wanted : seen[i].q > 10)
  => \A i \in Wanted : maxqIdx <= IndexOf(seen[i].enc)

(* Small preferences add up, but not without bound: with n encodings, each *)
(* listed once, the chosen one is at most (n - 1) * 0.1 worse for the      *)
(* client than the best it could have got; or n * 0.1, if there are        *)
(* negative q values, which ParseFloat lets through.                       *)
BoundedDrift ==
  LET lost == IF \A i \in Wanted : seen[i].q >= 0 THEN 1 ELSE 0 IN
  Plain => \A i \in Wanted : seen[i].q - maxq <= 10 * (Len(encodings) - lost)
=============================================================================
