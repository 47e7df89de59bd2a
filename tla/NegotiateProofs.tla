-------------------------- MODULE NegotiateProofs ---------------------------
(***************************************************************************)
(* Proofs about the choice of an encoding, for headers of any length and   *)
(* any q values.  That "about the same" is not transitive makes the choice *)
(* depend on the order of the items; these are facts that do not.          *)
(***************************************************************************)
EXTENDS Negotiate, FiniteSetTheorems, TLAPS

(* A file with one encoding is served without a look at the header.        *)
Shortcut == Len(encodings) = 1 => done /\ seen = <<>>

(* A wanted item that is clearly liked more than the rest is the one kept, *)
(* with its q, so that no later item comes near it.                        *)
Strong ==
  \A i \in Wanted :
    /\ seen[i].q > 10
    /\ \A j \in Wanted : j # i => seen[i].q - seen[j].q > 10
    => Chosen = seen[i].enc /\ maxq = seen[i].q

(* What was kept is the q of a wanted item, or nothing was kept yet.       *)
Kept == \E i \in Wanted : seen[i].q = maxq

(* The premise of SmallestOfEquals, which keeps the default from being     *)
(* near any of the items.                                                  *)
Equals ==
  /\ Wanted # {}
  /\ \A i, j \in Wanted : seen[i].q - seen[j].q < 10
  /\ \A i \in Wanted : seen[i].q > 10

Smallest == Equals => Kept /\ \A i \in Wanted : maxqIdx <= IndexOf(seen[i].enc)

(* Every wanted item costs at most 0.1, the first one kept nothing unless  *)
(* the default's 0 was passed downwards.                                   *)
Lost == IF \A i \in Wanted : seen[i].q >= 0 THEN 1 ELSE 0

Drift ==
  \/ maxq = 0 /\ \A i \in Wanted : seen[i].q <= 10
  \/ /\ Wanted # {}
     /\ \A i \in Wanted : seen[i].q - maxq <= 10 * (Cardinality(Wanted) - Lost)

IInv == TypeOK /\ Shortcut /\ DefaultOrAsked /\ Strong /\ Smallest /\ Drift

-----------------------------------------------------------------------------
(* The list of encodings and the pass over the items                       *)

(* A file's encodings are a list without repetitions.                      *)
LEMMA OfferFacts ==
  ASSUME encodings \in Offers
  PROVE  /\ Len(encodings) \in Nat \ {0}
         /\ DOMAIN encodings = 1..Len(encodings)
         /\ \A i, j \in DOMAIN encodings : encodings[i] = encodings[j] => i = j
         /\ \E i \in DOMAIN encodings : encodings[i] = "identity"
<1>1. PICK n \in 1..4 : /\ encodings \in [1..n -> Names]
                        /\ \A i, j \in 1..n : encodings[i] = encodings[j] => i = j
                        /\ \E i \in 1..n : encodings[i] = "identity"
  BY DEF Offers
<1>2. Len(encodings) = n /\ DOMAIN encodings = 1..n
  BY <1>1
<1>. QED
  BY <1>1, <1>2

(* The search for an encoding finds it, if it is there.                    *)
LEMMA IndexOfFacts ==
  ASSUME encodings \in Offers, NEW e
  PROVE  /\ IndexOf(e) \in Nat
         /\ IndexOf(e) # 0 => IndexOf(e) \in DOMAIN encodings /\ encodings[IndexOf(e)] = e
         /\ \A i \in DOMAIN encodings : encodings[i] = e => IndexOf(e) = i
<1>1. DOMAIN encodings = 1..Len(encodings) /\ Len(encodings) \in Nat
  BY OfferFacts
<1>2. \A i, j \in DOMAIN encodings : encodings[i] = encodings[j] => i = j
  BY OfferFacts
<1>3. CASE \E i \in DOMAIN encodings : encodings[i] = e
  <2>1. IndexOf(e) \in DOMAIN encodings /\ encodings[IndexOf(e)] = e
    BY <1>3 DEF IndexOf
  <2>. QED
    BY <1>1, <1>2, <2>1
<1>4. CASE ~ \E i \in DOMAIN encodings : encodings[i] = e
  BY <1>4 DEF IndexOf
<1>. QED
  BY <1>3, <1>4

(* What is chosen is an encoding of the file, and so an item for it is a   *)
(* wanted one.                                                             *)
LEMMA ChosenWanted ==
  ASSUME TypeOK, NEW i \in DOMAIN seen, seen[i].enc = Chosen
  PROVE  i \in Wanted
BY IndexOfFacts, OfferFacts DEF TypeOK, Chosen, Wanted

(* The list of items that were looked at grows by one.                     *)
LEMMA SeenStep ==
  ASSUME TypeOK, NEW e \in Names \cup {Other}, NEW q \in Qs, Consider(e, q),
         NEW n \in Nat, n = Len(seen) + 1
  PROVE  /\ n \notin DOMAIN seen /\ DOMAIN seen' = DOMAIN seen \cup {n}
         /\ seen'[n].enc = e /\ seen'[n].q = q
         /\ \A i \in DOMAIN seen : seen'[i] = seen[i]
         /\ seen' \in Seq(Items)
<1>1. seen \in Seq(Items) /\ seen' = Append(seen, [enc |-> e, q |-> q])
  BY DEF TypeOK, Consider
<1>2. [enc |-> e, q |-> q] \in Items
  BY DEF Items
<1>. QED
  BY <1>1, <1>2

(* The new item is wanted if the file has its encoding.                    *)
LEMMA WantedStep ==
  ASSUME TypeOK, NEW e \in Names \cup {Other}, NEW q \in Qs, Consider(e, q),
         NEW n \in Nat, n = Len(seen) + 1
  PROVE  /\ Wanted' = IF IndexOf(e) = 0 THEN Wanted ELSE Wanted \cup {n}
         /\ n \notin Wanted
         /\ \A i \in Wanted' :
              IndexOf(seen[i].enc)' = IF i = n THEN IndexOf(e) ELSE IndexOf(seen[i].enc)
<1>1. /\ n \notin DOMAIN seen /\ DOMAIN seen' = DOMAIN seen \cup {n}
      /\ seen'[n].enc = e
      /\ \A i \in DOMAIN seen : seen'[i] = seen[i]
  BY SeenStep, Zenon
<1>2. encodings' = encodings
  BY DEF Consider
<1>3. /\ \A i \in DOMAIN seen : IndexOf(seen[i].enc)' = IndexOf(seen[i].enc)
      /\ IndexOf(seen[n].enc)' = IndexOf(e)
  BY <1>1, <1>2, Zenon DEF IndexOf
<1>4. Wanted' = {i \in DOMAIN seen' : IndexOf(seen[i].enc)' # 0}
  BY DEF Wanted
<1>. QED
  BY <1>1, <1>3, <1>4 DEF Wanted

(* What becomes of a wanted item, whatever the rounding: it is kept only   *)
(* if it is about 0.1 better, or near and smaller; and it is passed over   *)
(* only if it is not more than 0.1 better, or near and not smaller.        *)
LEMMA Verdict ==
  ASSUME TypeOK, NEW e \in Names \cup {Other}, NEW q \in Qs, Consider(e, q), IndexOf(e) # 0
  PROVE  \/ /\ maxq' = q /\ maxqIdx' = IndexOf(e)
            /\ q - maxq >= 10 \/ (q - maxq >= -10 /\ q - maxq <= 10 /\ IndexOf(e) < maxqIdx)
         \/ /\ maxq' = maxq /\ maxqIdx' = maxqIdx
            /\ q - maxq <= 10
            /\ q - maxq < 10 /\ q - maxq > -10 => maxqIdx <= IndexOf(e)
<1>1. maxq \in Int /\ q \in Int
  <2>1. maxq \in Qs \cup {0}
    BY DEF TypeOK
  <2>. QED
    BY <2>1, NegotiateAssumption
<1>2. maxqIdx \in Nat /\ IndexOf(e) \in Nat
  BY OfferFacts, IndexOfFacts DEF TypeOK
<1>3. PICK edge \in BOOLEAN :
        IF Prefers(e, q, edge) THEN Keep(e, q) ELSE UNCHANGED <<maxq, maxqIdx>>
  BY DEF Consider
<1>4. CASE Prefers(e, q, edge)
  BY <1>1, <1>2, <1>3, <1>4 DEF Prefers, Keep, Above, Near
<1>5. CASE ~Prefers(e, q, edge)
  BY <1>1, <1>2, <1>3, <1>5 DEF Prefers, Above, Near
<1>. QED
  BY <1>4, <1>5

-----------------------------------------------------------------------------
(* The invariant                                                           *)

(* The default is kept, and no item was looked at.                         *)
LEMMA InitIInv == Init => IInv
<1>. SUFFICES ASSUME Init PROVE IInv
  OBVIOUS
<1>1. Default(encodings) \in DOMAIN encodings /\ encodings[Default(encodings)] = "identity"
  BY OfferFacts DEF Init, Default
<1>2. TypeOK
  BY <1>1 DEF Init, TypeOK
<1>3. Wanted = {}
  BY DEF Init, Wanted
<1>4. DefaultOrAsked
  BY <1>1 DEF Init, DefaultOrAsked, Chosen
<1>5. Shortcut
  BY Zenon DEF Init, Shortcut
<1>6. Strong /\ Smallest
  BY <1>3 DEF Strong, Smallest, Equals
<1>7. Drift
  BY <1>3 DEF Drift, Init
<1>. QED
  BY <1>2, <1>4, <1>5, <1>6, <1>7 DEF IInv

(* An item keeps the invariant, in whatever order the items come.          *)
LEMMA ConsiderIInv ==
  ASSUME IInv, NEW e \in Names \cup {Other}, NEW q \in Qs, Consider(e, q)
  PROVE  IInv'
<1>i. TypeOK /\ Shortcut /\ DefaultOrAsked /\ Strong /\ Smallest /\ Drift
  BY DEF IInv
<1>n. PICK n \in Nat : n = Len(seen) + 1
  BY <1>i DEF TypeOK
<1>s. /\ n \notin DOMAIN seen /\ DOMAIN seen' = DOMAIN seen \cup {n}
      /\ seen'[n].enc = e /\ seen'[n].q = q
      /\ \A i \in DOMAIN seen : seen'[i] = seen[i]
      /\ seen' \in Seq(Items)
  BY <1>i, <1>n, SeenStep, Zenon
<1>w. /\ Wanted' = IF IndexOf(e) = 0 THEN Wanted ELSE Wanted \cup {n}
      /\ n \notin Wanted
      /\ \A i \in Wanted' :
           IndexOf(seen[i].enc)' = IF i = n THEN IndexOf(e) ELSE IndexOf(seen[i].enc)
  BY <1>i, <1>n, WantedStep
<1>q. /\ maxq \in Int /\ q \in Int
      /\ \A i \in DOMAIN seen : seen[i].q \in Int
  <2>1. maxq \in Qs \cup {0} /\ seen \in Seq(Items)
    BY <1>i DEF TypeOK
  <2>2. \A i \in DOMAIN seen : seen[i] \in Items
    BY <2>1
  <2>3. \A i \in DOMAIN seen : seen[i].q \in Qs
    BY <2>2 DEF Items
  <2>. QED
    BY <2>1, <2>3, NegotiateAssumption
<1>d. Wanted \subseteq DOMAIN seen
  BY DEF Wanted
<1>e. encodings' = encodings /\ done' = done /\ ~done
  BY DEF Consider
<1>o. encodings \in Offers /\ maxqIdx \in DOMAIN encodings
  BY <1>i DEF TypeOK
<1>f. IndexOf(e) \in Nat /\ (IndexOf(e) # 0 => IndexOf(e) \in DOMAIN encodings /\ encodings[IndexOf(e)] = e)
  BY <1>o, IndexOfFacts
<1>x. maxqIdx \in Nat
  BY <1>o, OfferFacts
<1>k. \/ IndexOf(e) = 0 /\ maxq' = maxq /\ maxqIdx' = maxqIdx
      \/ /\ IndexOf(e) # 0
         /\ maxq' = q /\ maxqIdx' = IndexOf(e)
         /\ q - maxq >= 10 \/ (q - maxq >= -10 /\ q - maxq <= 10 /\ IndexOf(e) < maxqIdx)
      \/ /\ IndexOf(e) # 0
         /\ maxq' = maxq /\ maxqIdx' = maxqIdx
         /\ q - maxq <= 10
         /\ q - maxq < 10 /\ q - maxq > -10 => maxqIdx <= IndexOf(e)
  <2>1. CASE IndexOf(e) = 0
    BY <2>1 DEF Consider
  <2>2. CASE IndexOf(e) # 0
    BY <1>i, <2>2, Verdict
  <2>. QED
    BY <2>1, <2>2
<1>m. Kept \/ (Chosen = "identity" /\ maxq = 0)
  BY <1>i, ChosenWanted DEF DefaultOrAsked, Kept
<1>1. TypeOK'
  BY <1>i, <1>s, <1>e, <1>f, <1>k DEF TypeOK
<1>2. Shortcut'
  BY <1>i, <1>e DEF Shortcut
<1>3. DefaultOrAsked'
  <2>1. CASE maxq' = maxq /\ maxqIdx' = maxqIdx
    BY <1>i, <1>s, <1>e, <2>1 DEF DefaultOrAsked, Chosen
  <2>2. CASE maxq' = q /\ Chosen' = e
    <3>1. seen'[n] = [enc |-> e, q |-> q]
      BY <1>i, <1>n DEF TypeOK, Consider
    <3>. QED
      BY <1>s, <2>2, <3>1 DEF DefaultOrAsked
  <2>. QED
    BY <1>k, <1>e, <1>f, <2>1, <2>2 DEF Chosen
<1>4. Strong'
  <2>. SUFFICES ASSUME NEW i \in Wanted', seen'[i].q > 10,
                       \A j \in Wanted' : j # i => seen'[i].q - seen'[j].q > 10
                PROVE  Chosen' = seen'[i].enc /\ maxq' = seen'[i].q
    BY DEF Strong
  <2>1. CASE i \in Wanted
    <3>1. Chosen = seen[i].enc /\ maxq = seen[i].q
      BY <1>i, <1>s, <1>w, <1>d, <2>1 DEF Strong
    <3>2. IndexOf(e) # 0 => maxq - q > 10
      BY <1>s, <1>w, <1>d, <2>1, <3>1
    <3>3. maxq' = maxq /\ maxqIdx' = maxqIdx
      BY <1>k, <1>q, <3>2
    <3>. QED
      BY <1>s, <1>d, <1>e, <2>1, <3>1, <3>3 DEF Chosen
  <2>2. CASE i \notin Wanted
    <3>1. IndexOf(e) # 0 /\ i = n
      BY <1>w, <2>2
    <3>2. \A j \in Wanted : q - seen[j].q > 10
      BY <1>s, <1>w, <1>d, <3>1
    <3>3. q - maxq > 10
      BY <1>m, <1>q, <1>s, <3>1, <3>2 DEF Kept
    <3>4. maxq' = q /\ maxqIdx' = IndexOf(e)
      BY <1>k, <1>q, <3>1, <3>3
    <3>. QED
      BY <1>s, <1>e, <1>f, <3>1, <3>4 DEF Chosen
  <2>. QED
    BY <2>1, <2>2
<1>5. Smallest'
  <2>. SUFFICES ASSUME Equals'
                PROVE  Kept' /\ \A i \in Wanted' : maxqIdx' <= IndexOf(seen[i].enc)'
    BY DEF Smallest
  <2>1. CASE IndexOf(e) = 0
    <3>1. Equals
      BY <1>s, <1>w, <1>d, <2>1 DEF Equals
    <3>. QED
      BY <1>i, <1>k, <1>s, <1>w, <1>d, <2>1, <3>1 DEF Smallest, Kept
  <2>2. CASE IndexOf(e) # 0
    <3>1. q > 10 /\ \A i \in Wanted : seen[i].q - q < 10 /\ q - seen[i].q < 10
      BY <1>s, <1>w, <1>d, <2>2 DEF Equals
    <3>2. CASE Wanted = {}
      <4>1. maxq' = q /\ maxqIdx' = IndexOf(e)
        BY <1>k, <1>m, <1>q, <2>2, <3>1, <3>2 DEF Kept
      <4>. QED
        BY <1>f, <1>s, <1>w, <2>2, <3>2, <4>1 DEF Kept
    <3>3. CASE Wanted # {}
      <4>1. Equals
        BY <1>s, <1>w, <1>d, <2>2, <3>3 DEF Equals
      <4>2. Kept /\ \A i \in Wanted : maxqIdx <= IndexOf(seen[i].enc)
        BY <1>i, <4>1 DEF Smallest
      <4>3. q - maxq < 10 /\ q - maxq > -10
        BY <1>q, <1>d, <3>1, <4>2 DEF Kept
      <4>4. \A i \in Wanted : IndexOf(seen[i].enc) \in Nat
        BY <1>o, IndexOfFacts
      <4>5. \/ maxq' = q /\ maxqIdx' = IndexOf(e) /\ IndexOf(e) < maxqIdx
            \/ maxq' = maxq /\ maxqIdx' = maxqIdx /\ maxqIdx <= IndexOf(e)
        BY <1>k, <1>q, <2>2, <4>3
      <4>6. Kept'
        BY <1>s, <1>w, <1>d, <2>2, <4>2, <4>5 DEF Kept
      <4>7. \A i \in Wanted : maxqIdx' <= IndexOf(seen[i].enc)
        BY <1>f, <1>x, <4>2, <4>4, <4>5
      <4>8. maxqIdx' <= IndexOf(e)
        BY <1>f, <4>5
      <4>. QED
        BY <1>w, <1>d, <2>2, <4>6, <4>7, <4>8
    <3>. QED
      BY <3>2, <3>3
  <2>. QED
    BY <2>1, <2>2
<1>6. Drift'
  <2>. DEFINE c == Cardinality(Wanted)
  <2>1. c \in Nat /\ (Wanted # {} => c >= 1) /\ (Wanted = {} => c = 0)
        /\ (IndexOf(e) # 0 => Cardinality(Wanted') = c + 1)
    <3>1. DOMAIN seen = 1..Len(seen) /\ Len(seen) \in Nat
      BY <1>i DEF TypeOK
    <3>2. IsFiniteSet(Wanted)
      <4>1. IsFiniteSet(DOMAIN seen)
        BY <3>1, FS_Interval
      <4>. QED
        BY <4>1, <1>d, FS_Subset
    <3>3. IndexOf(e) # 0 => Cardinality(Wanted') = c + 1
      BY <1>w, <3>2, FS_AddElement, Zenon
    <3>4. c \in Nat
      BY <3>2, FS_CardinalityType
    <3>. QED
      BY <3>2, <3>3, <3>4, FS_EmptySet
  <2>2. CASE IndexOf(e) = 0
    BY <1>i, <1>k, <1>s, <1>w, <1>d, <2>2 DEF Drift, Lost
  <2>3. CASE IndexOf(e) # 0
    <3>. HIDE DEF c
    <3>1. /\ Lost \in {0, 1} /\ Lost' \in {0, 1} /\ Lost' <= Lost
          /\ Lost' = 1 => q >= 0
      BY <1>s, <1>w, <1>d, <2>3 DEF Lost
    <3>2. \A i \in Wanted : seen'[i].q = seen[i].q /\ seen[i].q \in Int
      BY <1>s, <1>d, <1>q
    <3>. DEFINE Idle == /\ maxq' = maxq /\ q - maxq <= 10
                        /\ maxq = 0 /\ \A i \in Wanted : seen[i].q <= 10
    <3>3. CASE Idle
      BY <1>q, <1>s, <1>w, <2>3, <3>2, <3>3 DEF Drift
    <3>4. SUFFICES ASSUME ~Idle
                   PROVE  \A i \in Wanted' : seen'[i].q - maxq' <= 10 * (c + 1 - Lost')
      <4>1. Wanted' # {} /\ Cardinality(Wanted)' = c + 1
        BY <1>w, <2>1, <2>3
      <4>. HIDE DEF Idle
      <4>. QED
        BY <2>1, <3>1, <3>3, <4>1 DEF Drift
    <3>. TAKE i \in Wanted'
    <3>5. CASE maxq = 0 /\ \A j \in Wanted : seen[j].q <= 10
      <4>1. maxq' = q /\ q >= -10 /\ (Lost' = 1 => q >= 0)
        BY <1>k, <1>q, <2>3, <3>1, <3>4, <3>5
      <4>2. CASE i \in Wanted
        BY <1>q, <2>1, <3>1, <3>2, <3>5, <4>1, <4>2
      <4>3. CASE i = n
        BY <1>s, <1>q, <2>1, <3>1, <4>1, <4>3
      <4>. QED
        BY <1>w, <4>2, <4>3
    <3>6. CASE /\ Wanted # {}
               /\ \A j \in Wanted : seen[j].q - maxq <= 10 * (c - Lost)
      <4>1. CASE i \in Wanted
        <5>1. maxq' \in Int /\ maxq' >= maxq - 10
          BY <1>k, <1>q, <2>3
        <5>2. seen[i].q - maxq <= 10 * (c - Lost)
          BY <3>6, <4>1
        <5>. QED
          BY <1>q, <2>1, <3>1, <3>2, <4>1, <5>1, <5>2
      <4>2. CASE i = n
        <5>1. maxq' = q \/ (maxq' = maxq /\ q - maxq <= 10)
          BY <1>k, <2>3
        <5>. QED
          BY <1>q, <1>s, <2>1, <3>1, <3>6, <4>2, <5>1
      <4>. QED
        BY <1>w, <4>1, <4>2
    <3>. QED
      BY <1>i, <3>5, <3>6 DEF Drift, c
  <2>. QED
    BY <2>2, <2>3
<1>. QED
  BY <1>1, <1>2, <1>3, <1>4, <1>5, <1>6 DEF IInv

(* The end of the pass, and no step, leave the choice alone.               *)
LEMMA NextIInv == IInv /\ [Next]_vars => IInv'
<1>. SUFFICES ASSUME IInv, [Next]_vars PROVE IInv'
  OBVIOUS
<1>1. ASSUME NEW e \in Names \cup {Other}, NEW q \in Qs, Consider(e, q) PROVE IInv'
  BY <1>1, ConsiderIInv
<1>2. CASE UNCHANGED <<encodings, seen, maxq, maxqIdx>> /\ done' \in {TRUE, done}
  <2>1. Wanted' = Wanted
    BY <1>2 DEF Wanted, IndexOf
  <2>2. TypeOK' /\ Shortcut' /\ DefaultOrAsked'
    BY <1>2, Zenon DEF IInv, TypeOK, Shortcut, DefaultOrAsked, Chosen
  <2>3. Strong'
    BY <1>2, <2>1 DEF IInv, Strong, Chosen
  <2>4. Smallest'
    BY <1>2, <2>1 DEF IInv, Smallest, Equals, Kept, IndexOf
  <2>5. Drift'
    BY <1>2, <2>1 DEF IInv, Drift, Lost
  <2>. QED
    BY <2>2, <2>3, <2>4, <2>5 DEF IInv
<1>. QED
  BY <1>1, <1>2, Zenon DEF Next, Finish, Quiet, vars

-----------------------------------------------------------------------------
(* Theorems                                                                *)

(* The conjuncts together are inductive.                                   *)
THEOREM Invariance == Spec => []IInv
BY InitIInv, NextIInv, PTL DEF Spec

(* The client gets the identity encoding, which it need not ask for, or    *)
(* one that it asked for.                                                  *)
THEOREM DefaultOrAskedAlways == Spec => []DefaultOrAsked
<1>1. IInv => DefaultOrAsked
  BY DEF IInv
<1>. QED
  BY <1>1, Invariance, PTL

(* A clear preference is respected wherever the client lists it.           *)
THEOREM StrongPreferenceWinsAlways == Spec => []StrongPreferenceWins
<1>1. IInv => StrongPreferenceWins
  BY DEF IInv, Strong, StrongPreferenceWins
<1>. QED
  BY <1>1, Invariance, PTL

(* Among encodings liked about the same the smallest is chosen.            *)
THEOREM SmallestOfEqualsAlways == Spec => []SmallestOfEquals
<1>1. IInv => SmallestOfEquals
  BY DEF IInv, Smallest, Equals, SmallestOfEquals
<1>. QED
  BY <1>1, Invariance, PTL

(* What the chain of small preferences costs is bounded by the number of   *)
(* encodings: every wanted item costs one step of 0.1, and in a header     *)
(* without repetitions there are no more of them than encodings.           *)
THEOREM BoundedDriftAlways == Spec => []BoundedDrift
<1>1. ASSUME IInv PROVE BoundedDrift
  <2>. SUFFICES ASSUME Plain, NEW i \in Wanted
                PROVE  seen[i].q - maxq <= 10 * (Len(encodings) - Lost)
    BY DEF BoundedDrift, Lost
  <2>1. TypeOK /\ Shortcut /\ Drift
    BY <1>1 DEF IInv
  <2>2. Len(encodings) \in Nat \ {0} /\ DOMAIN encodings = 1..Len(encodings)
    BY <2>1, OfferFacts DEF TypeOK
  <2>3. Len(encodings) # 1
    BY <2>1 DEF Shortcut, Wanted
  <2>4. Lost \in {0, 1}
    BY DEF Lost
  <2>5. maxq \in Int /\ seen[i].q \in Int
    <3>0. maxq \in Qs \cup {0}
      BY <2>1 DEF TypeOK
    <3>1. seen \in Seq(Items) /\ i \in DOMAIN seen
      BY <2>1 DEF TypeOK, Wanted
    <3>2. seen[i] \in Items
      BY <3>1
    <3>3. seen[i].q \in Qs
      BY <3>2 DEF Items
    <3>4. \A x \in Qs \cup {0} : x \in Int
      BY NegotiateAssumption
    <3>. QED
      BY <3>0, <3>3, <3>4, Zenon
  <2>6. IsFiniteSet(Wanted)
    <3>1. DOMAIN seen = 1..Len(seen) /\ Len(seen) \in Nat
      BY <2>1 DEF TypeOK
    <3>2. IsFiniteSet(DOMAIN seen)
      BY <3>1, FS_Interval
    <3>. QED
      BY <3>2, FS_Subset DEF Wanted
  <2>7. Cardinality(Wanted) \in Nat
    BY <2>6, FS_CardinalityType
  <2>8. Cardinality(Wanted) <= Len(encodings)
    <3>. SUFFICES ASSUME Len(encodings) < Cardinality(Wanted) PROVE FALSE
      BY <2>2, <2>7
    <3>. DEFINE f == [j \in Wanted |-> IndexOf(seen[j].enc)]
    <3>1. \A j \in Wanted : /\ IndexOf(seen[j].enc) \in DOMAIN encodings
                            /\ encodings[IndexOf(seen[j].enc)] = seen[j].enc
      BY <2>1, IndexOfFacts DEF TypeOK, Wanted
    <3>2. f \in [Wanted -> DOMAIN encodings]
      BY <3>1
    <3>3. IsFiniteSet(DOMAIN encodings) /\ Cardinality(DOMAIN encodings) = Len(encodings)
      BY <2>2, FS_Interval
    <3>. HIDE DEF f
    <3>4. PICK j, k \in Wanted : j # k /\ f[j] = f[k]
      BY <2>6, <3>2, <3>3, FS_PigeonHole
    <3>5. seen[j].enc = seen[k].enc
      BY <3>1, <3>4 DEF f
    <3>. QED
      BY <3>4, <3>5 DEF Plain, Wanted
  <2>. QED
    BY <2>1, <2>2, <2>3, <2>4, <2>5, <2>7, <2>8 DEF Drift
<1>. QED
  BY <1>1, Invariance, PTL
=============================================================================
