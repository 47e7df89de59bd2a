--------------------------- MODULE ContentProofs ----------------------------
(***************************************************************************)
(* Proofs about what templates read: the files that they open through a    *)
(* Dir dot field, for any number of requests and file descriptors, and the *)
(* documents that splitFrontMatter splits, of any length.                  *)
(***************************************************************************)
EXTENDS DotDir, FrontMatter, SequenceTheorems, WellFoundedInduction, TLAPS

(* Files opened through a Dir                                              *)

(* Who is to close what: a request's clean-up list and the handles that    *)
(* its template was given are disjoint, hold only files that this request  *)
(* opened, and between them all of them; a clean-up list is empty once it  *)
(* was worked off.                                                         *)
Custody ==
  /\ \A r \in Requests : opened[r] \cap given[r] = {}
  /\ \A r \in Requests : \A h \in opened[r] \cup given[r] : owner[h] = r
  /\ \A h \in Live : h \in opened[owner[h]] \cup given[owner[h]]
  /\ \A r \in Requests : pc[r] = "done" => opened[r] = {}

IInv == TypeOK /\ Custody

-----------------------------------------------------------------------------
(* What opening and closing a file does to the table of open files         *)

(* The file that fs.Open opened is a new one, and the others are left.     *)
LEMMA FsOpenTable ==
  ASSUME NEW r \in Requests, NEW h \in Handles, FsOpen(r, h)
  PROVE  /\ h \notin Live /\ Live' = Live \cup {h}
         /\ owner'[h] = r
         /\ \A k \in Live : owner'[k] = owner[k]
BY DEF FsOpen, Free, Live

(* Closing files leaves the others.                                        *)
LEMMA CloseTable ==
  ASSUME NEW hs, Close(hs)
  PROVE  /\ Live' = Live \ hs
         /\ \A k \in Live \ hs : owner'[k] = owner[k]
BY DEF Close, Live

-----------------------------------------------------------------------------
(* The invariant                                                           *)

(* No file is open when the templates start.                               *)
LEMMA InitIInv == Init => IInv
BY DirAssumption DEF Init, IInv, TypeOK, Custody, Live, Results

(* A file is recorded, in one of the two places, in the step that opens it *)
(* and crossed out in the step that closes it; a call that runs out of     *)
(* file descriptors after its first open leaves that one recorded.         *)
LEMMA NextIInv ==
  ASSUME IInv, [Next]_vars
  PROVE  IInv'
<1>. USE DirAssumption DEF IInv
<1>t. /\ pc \in [Requests -> {"exec", "open", "exists", "done"}]
      /\ ops \in 0..MaxOps
      /\ result \in [Requests -> Results]
      /\ Live \subseteq Handles /\ \A h \in Live : owner[h] \in Requests
      /\ opened \in [Requests -> SUBSET Live]
      /\ given \in [Requests -> SUBSET Live]
  BY DEF TypeOK
<1>e. \A p : OpenError(p) \in Results
  BY DEF OpenError, Results
<1>k. UNCHANGED owner => Live' = Live
  BY DEF Live
<1>1. ASSUME NEW r \in Requests, NEW c \in {"open", "exists"}, NEW d \in Dirs, NEW n \in Names,
             OpenFirst(r, c, d, n)
      PROVE  IInv'
  <2>1. ops' \in 0..MaxOps /\ given' = given /\ pc[r] = "exec"
    BY <1>t, <1>1 DEF OpenFirst, Call
  <2>2. ASSUME NEW h \in Free, FsOpen(r, h), opened' = [opened EXCEPT ![r] = @ \cup {h}],
               pc' = [pc EXCEPT ![r] = c], UNCHANGED result
        PROVE  IInv'
    <3>1. /\ h \in Handles /\ h \notin Live /\ Live' = Live \cup {h}
          /\ owner'[h] = r
          /\ \A k \in Live : owner'[k] = owner[k]
      BY <2>2, FsOpenTable DEF Free
    <3>2. opened'[r] = opened[r] \cup {h} /\ \A q \in Requests \ {r} : opened'[q] = opened[q]
      BY <1>t, <2>2
    <3>3. pc'[r] = c /\ \A q \in Requests \ {r} : pc'[q] = pc[q]
      BY <1>t, <2>2
    <3>4. TypeOK'
      BY <1>t, <2>1, <2>2, <3>1 DEF TypeOK
    <3>5. Custody'
      BY <1>t, <2>1, <3>1, <3>2, <3>3 DEF Custody
    <3>. QED
      BY <3>4, <3>5
  <2>3. CASE \E e \in Results : Return(r, e) /\ UNCHANGED <<owner, opened>>
    BY <1>t, <1>k, <2>1, <2>3 DEF Return, TypeOK, Custody
  <2>. QED
    BY <1>1, <1>e, <2>2, <2>3 DEF OpenFirst
<1>2. ASSUME NEW r \in Requests, OpenSecond(r) PROVE IInv'
  <2>1. pc[r] = "open" /\ UNCHANGED <<ops, opened>>
    BY <1>2 DEF OpenSecond
  <2>2. ASSUME NEW h \in Free, FsOpen(r, h), given' = [given EXCEPT ![r] = @ \cup {h}],
               Return(r, "ok")
        PROVE  IInv'
    <3>1. /\ h \in Handles /\ h \notin Live /\ Live' = Live \cup {h}
          /\ owner'[h] = r
          /\ \A k \in Live : owner'[k] = owner[k]
      BY <2>2, FsOpenTable DEF Free
    <3>2. given'[r] = given[r] \cup {h} /\ \A q \in Requests \ {r} : given'[q] = given[q]
      BY <1>t, <2>2
    <3>3. pc'[r] = "exec" /\ \A q \in Requests \ {r} : pc'[q] = pc[q]
      BY <1>t, <2>2 DEF Return
    <3>4. TypeOK'
      BY <1>t, <2>1, <2>2, <3>1 DEF TypeOK, Return, Results
    <3>5. Custody'
      BY <1>t, <2>1, <3>1, <3>2, <3>3 DEF Custody
    <3>. QED
      BY <3>4, <3>5
  <2>3. CASE Return(r, "exhausted") /\ UNCHANGED <<owner, given>>
    BY <1>t, <1>k, <2>1, <2>3 DEF Return, TypeOK, Custody, Results
  <2>. QED
    BY <1>2, <2>2, <2>3 DEF OpenSecond
<1>3. ASSUME NEW r \in Requests, ExistsSecond(r) PROVE IInv'
  BY <1>t, <1>k, <1>3 DEF ExistsSecond, Return, TypeOK, Custody, Results
<1>4. ASSUME NEW r \in Requests, NEW d \in Dirs, NEW n \in Names, Read(r, d, n) PROVE IInv'
  BY <1>t, <1>e, <1>k, <1>4 DEF Read, Call, Return, TypeOK, Custody
<1>5. ASSUME NEW r \in Requests, NEW h \in Handles, CloseFile(r, h) PROVE IInv'
  <2>1. h \in given[r] /\ Close({h}) /\ UNCHANGED <<pc, ops, result, opened>>
    BY <1>5 DEF CloseFile
  <2>2. given' = [given EXCEPT ![r] = @ \ {h}]
    BY <1>5 DEF CloseFile
  <2>3. Live' = Live \ {h} /\ \A k \in Live \ {h} : owner'[k] = owner[k]
    BY <2>1, CloseTable
  <2>4. given'[r] = given[r] \ {h} /\ \A q \in Requests \ {r} : given'[q] = given[q]
    BY <1>t, <2>2
  <2>5. \A q \in Requests : h \notin opened[q] /\ (q # r => h \notin given[q])
    BY <1>t, <2>1 DEF Custody
  <2>6. TypeOK'
    BY <1>t, <2>1, <2>2, <2>3, <2>4, <2>5 DEF TypeOK
  <2>7. Custody'
    BY <1>t, <2>1, <2>3, <2>4, <2>5 DEF Custody
  <2>. QED
    BY <2>6, <2>7
<1>6. ASSUME NEW r \in Requests, Cleanup(r) PROVE IInv'
  <2>1. Close(opened[r]) /\ UNCHANGED <<ops, result, given>>
    BY <1>6 DEF Cleanup
  <2>2. Live' = Live \ opened[r] /\ \A k \in Live \ opened[r] : owner'[k] = owner[k]
    BY <2>1, CloseTable
  <2>3. opened'[r] = {} /\ \A q \in Requests \ {r} : opened'[q] = opened[q]
    BY <1>t, <1>6 DEF Cleanup
  <2>4. pc'[r] = "done" /\ \A q \in Requests \ {r} : pc'[q] = pc[q]
    BY <1>t, <1>6 DEF Cleanup
  <2>5. /\ \A q \in Requests : given[q] \cap opened[r] = {}
        /\ \A q \in Requests \ {r} : opened[q] \cap opened[r] = {}
    BY <1>t DEF Custody
  <2>6. TypeOK'
    <3>1. /\ opened' \in [Requests -> SUBSET Live'] /\ given' \in [Requests -> SUBSET Live']
          /\ pc' \in [Requests -> {"exec", "open", "exists", "done"}]
      BY <1>t, <1>6, <2>1, <2>2, <2>3, <2>5 DEF Cleanup
    <3>. QED
      BY <1>t, <2>1, <2>2, <3>1 DEF TypeOK
  <2>7. Custody'
    BY <1>t, <2>1, <2>2, <2>3, <2>4, <2>5 DEF Custody
  <2>. QED
    BY <2>6, <2>7
<1>7. CASE UNCHANGED vars
  BY <1>t, <1>k, <1>7 DEF vars, TypeOK, Custody
<1>. QED
  BY <1>1, <1>2, <1>3, <1>4, <1>5, <1>6, <1>7 DEF Next, Quiet

-----------------------------------------------------------------------------
(* Theorems                                                                *)

(* The two conjuncts together are inductive.                               *)
THEOREM Invariance == Spec => []IInv
BY InitIInv, NextIInv, PTL DEF Spec

(* Only what Dir.Open returned outlives its request, whatever the          *)
(* templates do and however few descriptors there are.                     *)
THEOREM OnlyReturnedStayOpenAlways == Spec => []OnlyReturnedStayOpen
<1>1. IInv => OnlyReturnedStayOpen
  BY DEF IInv, TypeOK, Custody, OnlyReturnedStayOpen
<1>. QED
  BY <1>1, Invariance, PTL

-----------------------------------------------------------------------------
(* The loop over the first lines of a document                             *)

(* A set of numbers that is not empty has a smallest one.                  *)
LEMMA Least ==
  ASSUME NEW T \in SUBSET Nat, T # {}
  PROVE  \E x \in T : \A y \in T : x <= y
<1>. DEFINE R == {ss \in Nat \X Nat : ss[1] < ss[2]}
<1>1. IsWellFoundedOn(R, Nat)
  BY NatLessThanWellFounded DEF OpToRel
<1>. HIDE DEF R
<1>2. PICK x \in T : \A y \in T : ~ (<<y, x>> \in R)
  BY <1>1, WFMin, Zenon
<1>3. ASSUME NEW y \in T PROVE x <= y
  <2>. DEFINE z == <<y, x>>
  <2>1. z \in Nat \X Nat /\ z[1] = y /\ z[2] = x
    OBVIOUS
  <2>2. z \notin R
    BY <1>2
  <2>. HIDE DEF z
  <2>3. ~ (y < x)
    BY <2>1, <2>2 DEF R
  <2>. QED
    BY <2>3
<1>. QED
  BY <1>3

(* Min picks it.                                                           *)
LEMMA MinIs ==
  ASSUME NEW T \in SUBSET Nat, T # {}
  PROVE  Min(T) \in T /\ \A y \in T : Min(T) <= y
BY Least, Zenon DEF Min

(* Max picks the largest of a set that has a bound.                        *)
LEMMA MaxIs ==
  ASSUME NEW n \in Nat, NEW T \in SUBSET (1..n), T # {}
  PROVE  Max(T) \in T /\ \A y \in T : y <= Max(T)
<1>. DEFINE U == {k \in 0..n : n - k \in T}
<1>1. U \in SUBSET Nat /\ U # {}
  <2>1. PICK x : x \in T
    OBVIOUS
  <2>2. x \in 1..n
    BY <2>1
  <2>3. n - x \in 0..n /\ n - (n - x) = x
    BY <2>2
  <2>4. n - x \in U
    BY <2>1, <2>3
  <2>. QED
    BY <2>4
<1>2. PICK k \in U : \A y \in U : k <= y
  BY <1>1, Least, Zenon
<1>3. n - k \in T /\ k \in Nat
  BY <1>2
<1>4. ASSUME NEW y \in T PROVE y <= n - k
  <2>1. y \in 1..n
    OBVIOUS
  <2>2. n - y \in 0..n /\ n - (n - y) = y
    BY <2>1
  <2>3. n - y \in U
    BY <2>2
  <2>4. k <= n - y
    BY <1>2, <2>3, Zenon
  <2>. QED
    BY <1>3, <2>1, <2>4
<1>5. \E x \in T : \A y \in T : x >= y
  <2>1. \A y \in T : n - k >= y
    BY <1>3, <1>4
  <2>. QED
    BY <1>3, <2>1
<1>6. PICK m : m = Max(T)
  OBVIOUS
<1>7. m \in T /\ \A y \in T : m >= y
  BY <1>5, <1>6, Zenon DEF Max
<1>8. \A y \in T : y \in Int /\ m \in Int
  BY <1>7
<1>. QED
  BY <1>6, <1>7, <1>8

(* The first values of the loop's variables.                               *)
Start == [start |-> 0, end |-> 0, empty |-> TRUE, stop |-> FALSE]

(* f holds the loop's variables after each of the first n iterations.      *)
Runs(f, in, n) == f = [k \in 0..n |-> IF k = 0 THEN Start ELSE Iterate(f[k - 1], in, k)]

(* A loop of any length has a run.                                         *)
LEMMA RunExists ==
  ASSUME NEW in, NEW n \in Nat
  PROVE  \E f : Runs(f, in, n)
<1>. DEFINE T == {m \in Nat : ~ \E f : Runs(f, in, m)}
<1>1. SUFFICES ASSUME T # {} PROVE FALSE
  OBVIOUS
<1>2. PICK m \in T : \A y \in T : m <= y
  BY <1>1, Least, Zenon
<1>3. m \in Nat /\ ~ \E f : Runs(f, in, m)
  OBVIOUS
<1>4. CASE m = 0
  <2>. DEFINE f == [k \in 0..0 |-> Start]
  <2>1. Runs(f, in, 0)
    BY DEF Runs
  <2>. QED
    BY <1>3, <1>4, <2>1
<1>5. CASE m # 0
  <2>1. m - 1 \in Nat /\ m - 1 \notin T
    BY <1>2, <1>3, <1>5
  <2>2. PICK f : Runs(f, in, m - 1)
    BY <2>1
  <2>. DEFINE g == [k \in 0..m |-> IF k = m THEN Iterate(f[m - 1], in, m) ELSE f[k]]
  <2>3. \A k \in 0..(m - 1) : f[k] = IF k = 0 THEN Start ELSE Iterate(f[k - 1], in, k)
    BY <2>2 DEF Runs
  <2>4. ASSUME NEW k \in 0..m
        PROVE  g[k] = IF k = 0 THEN Start ELSE Iterate(g[k - 1], in, k)
    <3>1. CASE k = 0
      BY <1>3, <1>5, <2>3, <3>1
    <3>2. CASE k # 0 /\ k # m
      <4>1. k \in 0..(m - 1) /\ k - 1 \in 0..m /\ k - 1 # m
        BY <1>3, <3>2
      <4>2. g[k] = f[k] /\ g[k - 1] = f[k - 1]
        BY <3>2, <4>1
      <4>. QED
        BY <2>3, <3>2, <4>1, <4>2
    <3>3. CASE k # 0 /\ k = m
      <4>1. m - 1 \in 0..m /\ m - 1 # m
        BY <1>3, <1>5
      <4>2. g[m - 1] = f[m - 1] /\ g[k] = Iterate(f[m - 1], in, m)
        BY <3>3, <4>1
      <4>. QED
        BY <3>3, <4>2
    <3>. QED
      BY <3>1, <3>2, <3>3
  <2>5. g = [k \in 0..m |-> g[k]]
    OBVIOUS
  <2>. HIDE DEF g
  <2>6. Runs(g, in, m)
    BY <2>4, <2>5, Zenon DEF Runs
  <2>. QED
    BY <1>3, <2>6
<1>. QED
  BY <1>4, <1>5

(* Scan is one.                                                            *)
LEMMA ScanRuns ==
  ASSUME NEW in \in Seq(Tokens)
  PROVE  /\ Scan(in)[0] = Start
         /\ \A k \in 1..Len(in) : Scan(in)[k] = Iterate(Scan(in)[k - 1], in, k)
<1>1. Len(in) \in Nat
  OBVIOUS
<1>2. \E f : Runs(f, in, Len(in))
  BY <1>1, RunExists, Zenon
<1>3. Scan(in) = CHOOSE f : Runs(f, in, Len(in))
  BY Zenon DEF Scan, Runs, Start
<1>4. Runs(Scan(in), in, Len(in))
  BY <1>2, <1>3
<1>5. PICK f : f = Scan(in)
  OBVIOUS
<1>6. \A k \in 0..Len(in) : f[k] = IF k = 0 THEN Start ELSE Iterate(f[k - 1], in, k)
  BY <1>4, <1>5 DEF Runs
<1>7. f[0] = Start /\ \A k \in 1..Len(in) : f[k] = Iterate(f[k - 1], in, k)
  BY <1>1, <1>6
<1>. QED
  BY <1>5, <1>7

-----------------------------------------------------------------------------
(* The first line with text                                                *)

Blank(in, k) == \A i \in 1..k : IsSpace(in[i])

(* No line with text ends within the first k tokens.                       *)
NoLineEnds(in, k) == \A j \in 1..k : in[j] = NL => Blank(in, j)

(* The loop's variables after k iterations.                                *)
Scanned(s, in, k) ==
  /\ s \in [start : 0..k, end : 0..k, empty : BOOLEAN, stop : BOOLEAN]
  /\ s.start <= s.end
  /\ Blank(in, s.start)
  /\ s.stop =>
       /\ s.end < k /\ in[s.end + 1] = NL
       /\ ~Blank(in, s.end)
       /\ NoLineEnds(in, s.end)
  /\ ~s.stop =>
       /\ s.end > 0 => s.end < k /\ in[s.end + 1] = NL
       /\ s.empty <=> Blank(in, k)
       /\ NoLineEnds(in, k)

(* One iteration keeps it.                                                 *)
LEMMA IterateScanned ==
  ASSUME NEW in, NEW k \in Nat \ {0}, NEW s, Scanned(s, in, k - 1)
  PROVE  Scanned(Iterate(s, in, k), in, k)
<1>. DEFINE t == Iterate(s, in, k)
<1>t. /\ s.start \in 0..(k - 1) /\ s.end \in 0..(k - 1) /\ s.empty \in BOOLEAN /\ s.stop \in BOOLEAN
      /\ s.start <= s.end /\ Blank(in, s.start)
      /\ s \in [start : 0..(k - 1), end : 0..(k - 1), empty : BOOLEAN, stop : BOOLEAN]
  BY DEF Scanned
<1>1. CASE s.stop
  <2>1. t = s
    BY <1>1 DEF Iterate
  <2>2. s \in [start : 0..k, end : 0..k, empty : BOOLEAN, stop : BOOLEAN]
    BY <1>t
  <2>3. s.end < k /\ in[s.end + 1] = NL /\ ~Blank(in, s.end) /\ NoLineEnds(in, s.end)
    BY <1>t, <1>1 DEF Scanned
  <2>. QED
    BY <1>t, <1>1, <2>1, <2>2, <2>3 DEF Scanned
<1>2. CASE ~s.stop
  <2>1. /\ s.end > 0 => s.end < k - 1 /\ in[s.end + 1] = NL
        /\ s.empty <=> Blank(in, k - 1)
        /\ NoLineEnds(in, k - 1)
    BY <1>2 DEF Scanned
  <2>2. CASE in[k] = NL
    <3>. DEFINE b == IF s.end > 0 THEN s.end + 1 ELSE s.end
    <3>1. t = [start |-> b, end |-> k - 1, empty |-> s.empty, stop |-> ~s.empty]
      BY <1>t, <1>2, <2>2, Zenon DEF Iterate, AtNewline
    <3>2. b \in 0..(k - 1)
      BY <1>t, <2>1
    <3>3. Blank(in, b)
      <4>1. CASE s.end > 0
        <5>1. s.end + 1 \in 1..(k - 1) /\ in[s.end + 1] = NL
          BY <1>t, <2>1, <4>1
        <5>. QED
          BY <2>1, <4>1, <5>1 DEF NoLineEnds
      <4>2. CASE ~(s.end > 0)
        BY <1>t, <4>2 DEF Blank
      <4>. QED
        BY <4>1, <4>2
    <3>. HIDE DEF b
    <3>4. s.empty => Blank(in, k)
      BY <2>1, <2>2 DEF Blank, IsSpace
    <3>5. s.empty => NoLineEnds(in, k)
      BY <2>1, <3>4 DEF NoLineEnds
    <3>6. ~s.empty => ~Blank(in, k - 1) /\ (k - 1) + 1 = k
      BY <2>1
    <3>7. /\ t \in [start : 0..k, end : 0..k, empty : BOOLEAN, stop : BOOLEAN]
          /\ t.start = b /\ t.end = k - 1 /\ t.empty = s.empty /\ t.stop = ~s.empty
      BY <1>t, <3>1, <3>2
    <3>. HIDE DEF t
    <3>8. t.start <= t.end /\ Blank(in, t.start) /\ t.end < k /\ in[t.end + 1] = NL
      BY <2>2, <3>2, <3>3, <3>7
    <3>9. t.stop => ~Blank(in, t.end) /\ NoLineEnds(in, t.end)
      BY <1>t, <2>1, <3>6, <3>7
    <3>10. ~t.stop => (t.empty <=> Blank(in, k)) /\ NoLineEnds(in, k)
      BY <1>t, <3>4, <3>5, <3>7
    <3>11. Scanned(t, in, k)
      BY <3>7, <3>8, <3>9, <3>10 DEF Scanned
    <3>. QED
      BY <3>11 DEF t
  <2>3. CASE in[k] # NL
    <3>1. t = [start |-> s.start, end |-> s.end,
               empty |-> (s.empty /\ IsSpace(in[k])), stop |-> FALSE]
      BY <1>t, <1>2, <2>3, Zenon DEF Iterate
    <3>2. (s.empty /\ IsSpace(in[k])) <=> Blank(in, k)
      BY <2>1 DEF Blank
    <3>3. NoLineEnds(in, k)
      BY <2>1, <2>3 DEF NoLineEnds
    <3>4. s.end > 0 => s.end < k /\ in[s.end + 1] = NL
      BY <1>t, <2>1
    <3>5. /\ t.start = s.start /\ t.end = s.end /\ t.empty = (s.empty /\ IsSpace(in[k])) /\ t.stop = FALSE
          /\ t \in [start : 0..k, end : 0..k, empty : BOOLEAN, stop : BOOLEAN]
      BY <1>t, <3>1 DEF IsSpace
    <3>. HIDE DEF t
    <3>6. Scanned(t, in, k)
      BY <1>t, <3>2, <3>3, <3>4, <3>5 DEF Scanned
    <3>. QED
      BY <3>6 DEF t
  <2>. QED
    BY <2>2, <2>3
<1>. QED
  BY <1>t, <1>1, <1>2

(* So does the whole loop.                                                 *)
LEMMA FirstLineScanned ==
  ASSUME NEW in \in Seq(Tokens)
  PROVE  Scanned(FirstLine(in), in, Len(in))
<1>. DEFINE T == {k \in 0..Len(in) : ~Scanned(Scan(in)[k], in, k)}
<1>n. Len(in) \in Nat
  OBVIOUS
<1>1. SUFFICES ASSUME T # {} PROVE FALSE
  <2>1. Len(in) \in 0..Len(in)
    BY <1>n
  <2>. QED
    BY <2>1 DEF FirstLine
<1>2. PICK k \in T : \A y \in T : k <= y
  <2>1. T \in SUBSET Nat
    BY <1>n
  <2>. HIDE DEF T
  <2>. QED
    BY <1>1, <2>1, Least
<1>3. k \in 0..Len(in) /\ ~Scanned(Scan(in)[k], in, k)
  OBVIOUS
<1>4. CASE k = 0
  <2>1. Scan(in)[0] = Start
    BY ScanRuns
  <2>2. Scanned(Start, in, 0)
    BY DEF Scanned, Start, Blank, NoLineEnds
  <2>. QED
    BY <1>3, <1>4, <2>1, <2>2
<1>5. CASE k # 0
  <2>1. k \in 1..Len(in) /\ k - 1 \in 0..Len(in) /\ ~(k <= k - 1) /\ k \in Nat \ {0}
    BY <1>n, <1>3, <1>5
  <2>2. Scanned(Scan(in)[k - 1], in, k - 1)
    BY <1>2, <2>1
  <2>3. Scan(in)[k] = Iterate(Scan(in)[k - 1], in, k)
    BY <2>1, ScanRuns
  <2>4. Scanned(Iterate(Scan(in)[k - 1], in, k), in, k)
    BY <2>1, <2>2, IterateScanned
  <2>. QED
    BY <1>3, <2>3, <2>4
<1>. QED
  BY <1>4, <1>5

-----------------------------------------------------------------------------
(* Slices, trimming, searching                                             *)

(* A slice of a document is the tokens between two offsets.                *)
LEMMA SliceIs ==
  ASSUME NEW s \in Seq(Tokens), NEW b \in 0..Len(s), NEW a \in 0..b
  PROVE  /\ Slice(s, a, b) \in Seq(Tokens)
         /\ Len(Slice(s, a, b)) = b - a
         /\ \A i \in 1..(b - a) : Slice(s, a, b)[i] = s[a + i]
<1>1. \A i \in (a + 1)..b : s[i] \in Tokens
  OBVIOUS
<1>2. a + 1 \in Int /\ b \in Int /\ b - (a + 1) + 1 = b - a
  OBVIOUS
<1>3. /\ SubSeq(s, a + 1, b) \in Seq(Tokens)
      /\ Len(SubSeq(s, a + 1, b)) = IF a + 1 <= b THEN b - (a + 1) + 1 ELSE 0
      /\ \A i \in 1..(b - (a + 1) + 1) : SubSeq(s, a + 1, b)[i] = s[(a + 1) + i - 1]
  BY <1>1, <1>2, SubSeqProperties
<1>4. PICK t : t = SubSeq(s, a + 1, b)
  BY Zenon
<1>5. t \in Seq(Tokens) /\ Len(t) = b - a
  BY <1>2, <1>3, <1>4
<1>6. \A i \in 1..(b - a) : t[i] = s[a + i]
  <2>1. \A i \in 1..(b - a) : (a + 1) + i - 1 = a + i
    OBVIOUS
  <2>. QED
    BY <1>2, <1>3, <1>4, <2>1
<1>. QED
  BY <1>4, <1>5, <1>6 DEF Slice

(* The token at o is all the text of s.                                    *)
OnlyText(s, o) ==
  /\ o \in 1..Len(s) /\ ~IsSpace(s[o])
  /\ \A k \in 1..Len(s) : k # o => IsSpace(s[k])

(* Trimming leaves one token if that is all the text.                      *)
LEMMA TrimSpaceIs ==
  ASSUME NEW s \in Seq(Tokens)
  PROVE  /\ Len(TrimSpace(s)) = 1 <=> \E o \in 1..Len(s) : OnlyText(s, o)
         /\ \A o \in 1..Len(s) : OnlyText(s, o) => TrimSpace(s)[1] = s[o]
<1>. DEFINE kept == {k \in DOMAIN s : ~IsSpace(s[k])}
<1>n. Len(s) \in Nat /\ DOMAIN s = 1..Len(s)
  OBVIOUS
<1>1. CASE kept = {}
  <2>1. TrimSpace(s) = SubSeq(s, 1, 0)
    BY <1>1 DEF TrimSpace
  <2>2. SubSeq(s, 1, 0) = << >>
    BY SubSeqEmpty
  <2>3. Len(TrimSpace(s)) = 0
    BY <2>1, <2>2
  <2>4. \A o \in 1..Len(s) : ~OnlyText(s, o)
    BY <1>n, <1>1 DEF OnlyText
  <2>. QED
    BY <2>3, <2>4
<1>2. CASE kept # {}
  <2>1. kept \in SUBSET (1..Len(s)) /\ kept \in SUBSET Nat
    BY <1>n
  <2>2. TrimSpace(s) = SubSeq(s, Min(kept), Max(kept))
    BY <1>2, Zenon DEF TrimSpace
  <2>3. \A k \in 1..Len(s) : k \in kept <=> ~IsSpace(s[k])
    BY <1>n
  <2>. HIDE DEF kept
  <2>4. PICK a : a = Min(kept)
    OBVIOUS
  <2>5. PICK b : b = Max(kept)
    OBVIOUS
  <2>6. a \in kept /\ \A y \in kept : a <= y
    BY <1>2, <2>1, <2>4, MinIs
  <2>7. b \in kept /\ \A y \in kept : y <= b
    BY <1>n, <1>2, <2>1, <2>5, MaxIs, Zenon
  <2>8. a \in 1..Len(s) /\ b \in 1..Len(s) /\ a <= b
    BY <2>1, <2>6, <2>7
  <2>9. \A i \in a..b : s[i] \in Tokens
    BY <1>n, <2>8
  <2>10. PICK t : t = SubSeq(s, a, b)
    BY Zenon
  <2>11. Len(t) = b - a + 1 /\ t[1] = s[a]
    <3>1. /\ Len(SubSeq(s, a, b)) = IF a <= b THEN b - a + 1 ELSE 0
          /\ \A i \in 1..(b - a + 1) : SubSeq(s, a, b)[i] = s[a + i - 1]
      BY <2>8, <2>9, SubSeqProperties
    <3>2. 1 \in 1..(b - a + 1) /\ a + 1 - 1 = a
      BY <2>8
    <3>. QED
      BY <2>8, <2>10, <3>1, <3>2
  <2>12. t = TrimSpace(s)
    BY <2>2, <2>4, <2>5, <2>10
  <2>13. ASSUME Len(t) = 1 PROVE OnlyText(s, a)
    <3>1. a = b
      <4>1. a \in Int /\ b \in Int
        BY <2>8
      <4>2. b - a + 1 = 1
        BY <2>11, <2>13, Zenon
      <4>. QED
        BY <4>1, <4>2
    <3>2. \A k \in kept : k = a
      BY <2>1, <2>6, <2>7, <2>8, <3>1
    <3>. QED
      BY <2>3, <2>6, <2>8, <3>2 DEF OnlyText
  <2>14. ASSUME NEW o \in 1..Len(s), OnlyText(s, o) PROVE a = o /\ b = o
    BY <2>3, <2>6, <2>7, <2>8, <2>14 DEF OnlyText
  <2>15. ASSUME NEW o \in 1..Len(s), OnlyText(s, o) PROVE Len(t) = 1 /\ t[1] = s[o]
    BY <2>8, <2>11, <2>14, <2>15
  <2>. QED
    BY <2>8, <2>12, <2>13, <2>15
<1>. QED
  BY <1>1, <1>2

(* A line that begins with the fence begins after the newline at k of s.   *)
LineAt(s, fence, k) == k \in 1..(Len(s) - 1) /\ s[k] = NL /\ s[k + 1] = fence

(* Index finds the first one.                                              *)
LEMMA IndexIs ==
  ASSUME NEW s \in Seq(Tokens), NEW fence
  PROVE  /\ Index(s, fence) \in Int
         /\ Index(s, fence) < 0 <=> \A k : ~LineAt(s, fence, k)
         /\ Index(s, fence) >= 0 =>
              /\ LineAt(s, fence, Index(s, fence) + 1)
              /\ \A k : LineAt(s, fence, k) => Index(s, fence) + 1 <= k
<1>. DEFINE found == {k \in 1..Len(s) - 1 : s[k] = NL /\ s[k + 1] = fence}
<1>1. \A k : k \in found <=> LineAt(s, fence, k)
  BY DEF LineAt
<1>2. found \in SUBSET Nat
  OBVIOUS
<1>3. Index(s, fence) = IF found = {} THEN -1 ELSE Min(found) - 1
  BY DEF Index
<1>. HIDE DEF found
<1>4. CASE found = {}
  BY <1>1, <1>3, <1>4
<1>5. CASE found # {}
  <2>1. PICK m : m = Min(found)
    OBVIOUS
  <2>2. m \in found /\ \A y \in found : m <= y
    BY <1>2, <1>5, <2>1, MinIs
  <2>3. m \in 1..(Len(s) - 1) /\ LineAt(s, fence, m)
    BY <1>1, <2>2 DEF LineAt
  <2>4. Index(s, fence) = m - 1 /\ Index(s, fence) >= 0 /\ Index(s, fence) + 1 = m /\ m \in Nat
    BY <1>3, <1>5, <2>1, <2>3
  <2>5. \A k : LineAt(s, fence, k) => m <= k
    BY <1>1, <2>2
  <2>. QED
    BY <2>3, <2>4, <2>5
<1>. QED
  BY <1>4, <1>5

-----------------------------------------------------------------------------
(* What extractFrontMatter finds in the document                           *)

(* The first line with text, without the space around it, and what comes   *)
(* after it.                                                               *)
Line == TrimSpace(Slice(input, FirstLine(input).start, FirstLine(input).end))
Rest == Slice(input, FirstLine(input).end, Len(input))

(* The end of that line as the loop leaves it.                             *)
LEMMA FirstLineIs ==
  ASSUME input \in Seq(Tokens), NEW a, a = FirstLine(input).start, NEW b, b = FirstLine(input).end
  PROVE  /\ b \in 0..Len(input) /\ a \in 0..b /\ Blank(input, a)
         /\ \/ /\ b < Len(input) /\ input[b + 1] = NL
               /\ ~Blank(input, b) /\ NoLineEnds(input, b)
            \/ Blank(input, b) /\ NoLineEnds(input, Len(input))
<1>n. Len(input) \in Nat
  OBVIOUS
<1>1. PICK s : s = FirstLine(input)
  OBVIOUS
<1>2. Scanned(s, input, Len(input))
  BY <1>1, FirstLineScanned
<1>3. a = s.start /\ b = s.end
  BY <1>1
<1>4. b \in 0..Len(input) /\ a \in 0..b /\ Blank(input, a)
  BY <1>n, <1>2, <1>3 DEF Scanned
<1>5. CASE s.stop
  BY <1>2, <1>3, <1>4, <1>5 DEF Scanned
<1>6. CASE ~s.stop
  <2>1. NoLineEnds(input, Len(input)) /\ (b > 0 => b < Len(input) /\ input[b + 1] = NL)
    BY <1>2, <1>3, <1>6 DEF Scanned
  <2>2. Blank(input, b)
    <3>1. CASE b = 0
      BY <3>1 DEF Blank
    <3>2. CASE b > 0
      <4>1. b + 1 \in 1..Len(input) /\ input[b + 1] = NL
        BY <1>n, <1>4, <2>1, <3>2
      <4>2. Blank(input, b + 1)
        BY <2>1, <4>1 DEF NoLineEnds
      <4>. QED
        BY <1>4, <4>2 DEF Blank
    <3>. QED
      BY <1>4, <3>1, <3>2
  <2>. QED
    BY <1>4, <2>1, <2>2
<1>. QED
  BY <1>5, <1>6

(* The fences of supportedFrontMatterTypes: none of them is space.         *)
LEMMA Fences ==
  /\ DOMAIN FenceClose = {"---", "+++", "{"}
  /\ \A f \in DOMAIN FenceClose : ~IsSpace(f)
  /\ \A f \in DOMAIN FenceClose : DOMAIN FenceClose[f] \in SUBSET Nat
<1>1. DOMAIN FenceClose = {"---", "+++", "{"}
  BY DEF FenceClose
<1>2. \A f \in {"---", "+++", "{"} : ~IsSpace(f)
  BY Zenon DEF IsSpace, NL, SP
<1>3. FenceClose["---"] = <<"---", "...">> /\ FenceClose["+++"] = <<"+++">> /\ FenceClose["{"] = <<"}">>
  BY Zenon DEF FenceClose
<1>4. /\ DOMAIN <<"---", "...">> \in SUBSET Nat
      /\ DOMAIN <<"+++">> \in SUBSET Nat
      /\ DOMAIN <<"}">> \in SUBSET Nat
  OBVIOUS
<1>. QED
  BY <1>1, <1>2, <1>3, <1>4, Zenon

(* An opening fence is what the first line with text consists of.          *)
LEMMA OpeningIsLine ==
  ASSUME input \in Seq(Tokens),
         NEW o \in DOMAIN input, NEW e \in DOMAIN input, Opening(o, e)
  PROVE  e = FirstLine(input).end + 1 /\ Len(Line) = 1 /\ Line[1] = input[o]
<1>. DEFINE a == FirstLine(input).start
            b == FirstLine(input).end
            s == Slice(input, a, b)
<1>n. Len(input) \in Nat /\ o \in 1..Len(input) /\ e \in 1..Len(input)
  OBVIOUS
<1>o. /\ o < e /\ input[e] = NL /\ ~IsSpace(input[o])
      /\ \A k \in 1..o - 1 : IsSpace(input[k])
      /\ \A k \in o + 1..e - 1 : input[k] = SP
  BY Fences, Zenon DEF Opening
<1>1. /\ b \in 0..Len(input) /\ a \in 0..b /\ Blank(input, a)
      /\ \/ /\ b < Len(input) /\ input[b + 1] = NL
            /\ ~Blank(input, b) /\ NoLineEnds(input, b)
         \/ Blank(input, b) /\ NoLineEnds(input, Len(input))
  BY FirstLineIs
<1>s. s \in Seq(Tokens) /\ Len(s) = b - a /\ \A i \in 1..(b - a) : s[i] = input[a + i]
  BY <1>1, SliceIs, Zenon
<1>l. Line = TrimSpace(s)
  BY DEF Line
<1>. HIDE DEF a, b, s
<1>2. ~Blank(input, e)
  BY <1>n, <1>o DEF Blank
<1>3. /\ b < Len(input) /\ input[b + 1] = NL
      /\ ~Blank(input, b) /\ NoLineEnds(input, b)
  BY <1>n, <1>o, <1>1, <1>2 DEF NoLineEnds
<1>4. o <= b
  <2>1. PICK j \in 1..b : ~IsSpace(input[j])
    BY <1>3 DEF Blank
  <2>. QED
    BY <1>n, <1>o, <1>1, <2>1
<1>5. e >= b + 1
  <2>1. SUFFICES ASSUME e <= b PROVE FALSE
    BY <1>n, <1>1
  <2>. QED
    BY <1>n, <1>o, <1>2, <1>3, <2>1 DEF NoLineEnds
<1>6. e = b + 1
  <2>1. SUFFICES ASSUME b + 1 < e PROVE FALSE
    BY <1>n, <1>1, <1>5
  <2>2. b + 1 \in o + 1..e - 1
    BY <1>n, <1>1, <1>4, <2>1
  <2>. QED
    BY <1>o, <1>3, <2>2 DEF NL, SP
<1>7. a < o
  <2>1. SUFFICES ASSUME o <= a PROVE FALSE
    BY <1>n, <1>1
  <2>. QED
    BY <1>n, <1>o, <1>1, <2>1 DEF Blank
<1>8. o - a \in 1..Len(s) /\ a + (o - a) = o
  BY <1>n, <1>1, <1>4, <1>7, <1>s
<1>9. OnlyText(s, o - a)
  <2>1. ~IsSpace(s[o - a])
    BY <1>o, <1>8, <1>s
  <2>2. ASSUME NEW k \in 1..Len(s), k # o - a PROVE IsSpace(s[k])
    <3>1. k \in 1..(b - a) /\ s[k] = input[a + k]
      BY <1>s
    <3>2. a \in Nat /\ b \in Nat /\ o \in Nat /\ k \in Nat
      BY <1>n, <1>1, <3>1
    <3>3. 1 <= k /\ k <= b - a /\ k # o - a
      BY <2>2, <3>1, <3>2
    <3>4. a + k \in 1..o - 1 \/ a + k \in o + 1..e - 1
      BY <1>6, <3>2, <3>3
    <3>. QED
      BY <1>o, <3>1, <3>4 DEF IsSpace
  <2>. QED
    BY <1>8, <2>1, <2>2 DEF OnlyText
<1>10. s[o - a] = input[o]
  BY <1>8, <1>s
<1>11. Len(TrimSpace(s)) = 1 /\ TrimSpace(s)[1] = s[o - a]
  BY <1>s, <1>8, <1>9, TrimSpaceIs
<1>. QED
  BY <1>6, <1>l, <1>10, <1>11 DEF b

(* And if it consists of one, that is an opening fence.                    *)
LEMMA LineIsOpening ==
  ASSUME input \in Seq(Tokens), Len(Line) = 1, Line[1] \in DOMAIN FenceClose
  PROVE  /\ FirstLine(input).end \in 0..(Len(input) - 1)
         /\ \E o \in 1..FirstLine(input).end :
              Opening(o, FirstLine(input).end + 1) /\ input[o] = Line[1]
<1>. DEFINE a == FirstLine(input).start
            b == FirstLine(input).end
            s == Slice(input, a, b)
<1>n. Len(input) \in Nat
  OBVIOUS
<1>1. /\ b \in 0..Len(input) /\ a \in 0..b /\ Blank(input, a)
      /\ \/ /\ b < Len(input) /\ input[b + 1] = NL
            /\ ~Blank(input, b) /\ NoLineEnds(input, b)
         \/ Blank(input, b) /\ NoLineEnds(input, Len(input))
  BY FirstLineIs
<1>s. s \in Seq(Tokens) /\ Len(s) = b - a /\ \A i \in 1..(b - a) : s[i] = input[a + i]
  BY <1>1, SliceIs, Zenon
<1>l. Line = TrimSpace(s)
  BY DEF Line
<1>. SUFFICES b \in 0..(Len(input) - 1) /\ \E o \in 1..b : Opening(o, b + 1) /\ input[o] = Line[1]
  OBVIOUS
<1>. HIDE DEF a, b, s
<1>2. PICK m \in 1..Len(s) : OnlyText(s, m) /\ TrimSpace(s)[1] = s[m]
  BY <1>s, <1>l, TrimSpaceIs
<1>3. PICK o \in (a + 1)..b : o = a + m
  BY <1>1, <1>s, <1>2
<1>4. input[o] = s[m] /\ ~IsSpace(input[o]) /\ input[o] = Line[1]
  BY <1>s, <1>l, <1>2, <1>3 DEF OnlyText
<1>5. o \in 1..b /\ ~Blank(input, b)
  BY <1>n, <1>1, <1>3, <1>4 DEF Blank
<1>6. b < Len(input) /\ input[b + 1] = NL /\ NoLineEnds(input, b)
  BY <1>1, <1>5
<1>7. ASSUME NEW k \in 1..o - 1 PROVE IsSpace(input[k])
  <2>1. CASE k <= a
    BY <1>1, <2>1 DEF Blank
  <2>2. CASE a < k
    <3>1. k - a \in 1..Len(s) /\ k - a # m /\ a + (k - a) = k /\ k - a \in 1..(b - a)
      BY <1>1, <1>s, <1>3, <2>2
    <3>. QED
      BY <1>s, <1>2, <3>1 DEF OnlyText
  <2>. QED
    BY <1>1, <2>1, <2>2
<1>8. ASSUME NEW k \in o + 1..(b + 1) - 1 PROVE input[k] = SP
  <2>1. k - a \in 1..Len(s) /\ k - a # m /\ a + (k - a) = k /\ k - a \in 1..(b - a)
    BY <1>1, <1>s, <1>3
  <2>2. IsSpace(input[k])
    BY <1>s, <1>2, <2>1 DEF OnlyText
  <2>3. k \in 1..b /\ o \in 1..k
    BY <1>1, <1>5
  <2>4. input[k] # NL
    BY <1>4, <1>6, <2>3 DEF NoLineEnds, Blank
  <2>. QED
    BY <2>2, <2>4 DEF IsSpace
<1>9. Opening(o, b + 1)
  BY <1>1, <1>4, <1>5, <1>6, <1>7, <1>8 DEF Opening
<1>. QED
  BY <1>n, <1>1, <1>4, <1>5, <1>6, <1>9

(* Places in the document and in what comes after its first b tokens.      *)
LEMMA Shift ==
  ASSUME NEW l \in Nat, NEW b \in Nat, NEW m, m = l - b, NEW k \in b + 1..l - 1
  PROVE  /\ k - b \in 1..(m - 1) /\ k - b \in 1..m /\ (k - b) + 1 \in 1..m
         /\ b + (k - b) = k /\ b + ((k - b) + 1) = k + 1
OBVIOUS

(* A later line closes the front matter if the loop over the closing       *)
(* fences finds one.                                                       *)
LEMMA FencesFoundIs ==
  ASSUME input \in Seq(Tokens), NEW b \in 0..(Len(input) - 1), b = FirstLine(input).end,
         NEW f \in DOMAIN FenceClose
  PROVE  /\ Rest \in Seq(Tokens) /\ Len(Rest) = Len(input) - b
         /\ \A i \in 1..Len(Rest) : Rest[i] = input[b + i]
         /\ FencesFound(Rest, FenceClose[f]) = {} <=> ~Closes(f, b + 1)
<1>n. Len(input) \in Nat /\ Len(input) \in 0..Len(input) /\ b \in 0..Len(input) /\ b \in Nat
  OBVIOUS
<1>1. /\ Rest \in Seq(Tokens) /\ Len(Rest) = Len(input) - b
      /\ \A i \in 1..Len(Rest) : Rest[i] = input[b + i]
  <2>1. Rest = Slice(input, b, Len(input))
    BY DEF Rest
  <2>. QED
    BY <1>n, <2>1, SliceIs, Zenon
<1>2. ASSUME NEW n \in FencesFound(Rest, FenceClose[f]) PROVE Closes(f, b + 1)
  <2>1. n \in DOMAIN FenceClose[f] /\ Index(Rest, FenceClose[f][n]) >= 0
    BY <1>2 DEF FencesFound
  <2>2. PICK k : LineAt(Rest, FenceClose[f][n], k)
    BY <1>1, <2>1, IndexIs
  <2>3. /\ k \in 1..Len(Rest) /\ k + 1 \in 1..Len(Rest)
        /\ Rest[k] = NL /\ Rest[k + 1] = FenceClose[f][n]
    BY <1>n, <1>1, <2>2 DEF LineAt
  <2>4. input[b + k] = NL /\ input[(b + k) + 1] = FenceClose[f][n]
    <3>1. k \in Int /\ b \in Int
      BY <1>n, <2>2 DEF LineAt
    <3>2. b + (k + 1) = (b + k) + 1
      BY <3>1
    <3>. QED
      BY <1>1, <2>3, <3>2, Zenon
  <2>5. b + k \in b + 1..Len(input) - 1
    BY <1>n, <1>1, <2>3
  <2>. QED
    BY <2>1, <2>4, <2>5 DEF Closes
<1>3. ASSUME Closes(f, b + 1) PROVE FencesFound(Rest, FenceClose[f]) # {}
  <2>1. PICK k \in b + 1..Len(input) - 1, n \in DOMAIN FenceClose[f] :
          input[k] = NL /\ input[k + 1] = FenceClose[f][n]
    BY <1>3 DEF Closes
  <2>2. /\ k - b \in 1..(Len(Rest) - 1) /\ k - b \in 1..Len(Rest) /\ (k - b) + 1 \in 1..Len(Rest)
        /\ b + (k - b) = k /\ b + ((k - b) + 1) = k + 1
    BY <1>n, <1>1, <2>1, Shift, Zenon
  <2>3. LineAt(Rest, FenceClose[f][n], k - b)
    BY <1>1, <2>1, <2>2, Zenon DEF LineAt
  <2>4. Index(Rest, FenceClose[f][n]) >= 0
    BY <1>1, <2>3, IndexIs
  <2>. QED
    BY <2>1, <2>4 DEF FencesFound
<1>. QED
  BY <1>1, <1>2, <1>3

-----------------------------------------------------------------------------
(* The result                                                              *)

(* The documents and the result of the call are in the following relation  *)
(* before and after it.                                                    *)
Called ==
  /\ input \in Seq(Tokens)
  /\ out = [kind |-> "none"] \/ \E parses \in BOOLEAN : out = extractFrontMatter(input, parses)

(* extractFrontMatter has four outcomes.                                   *)
LEMMA Outcomes ==
  ASSUME NEW parses \in BOOLEAN,
         NEW r, r = extractFrontMatter(input, parses),
         NEW f, f = Line[1], NEW b, b = FirstLine(input).end
  PROVE  \/ ~(Len(Line) = 1 /\ f \in DOMAIN FenceClose) /\ r = [kind |-> "plain", body |-> input]
         \/ /\ Len(Line) = 1 /\ f \in DOMAIN FenceClose
            /\ \/ FencesFound(Rest, FenceClose[f]) = {} /\ r = [kind |-> "unterminated"]
               \/ FencesFound(Rest, FenceClose[f]) # {} /\ r = [kind |-> "malformed"]
               \/ /\ FencesFound(Rest, FenceClose[f]) # {}
                  /\ \E n, fence, at :
                       /\ n = Min(FencesFound(Rest, FenceClose[f])) /\ fence = FenceClose[f][n]
                       /\ at = Index(Rest, fence) + b + 1
                       /\ r = [kind |-> "split", head |-> b, meta |-> Slice(input, b, at),
                               fence |-> fence, body |-> Body(input, fence, at)]
BY Zenon DEF extractFrontMatter, Line, Rest

(* What the call returns is about the lines of the document.               *)
LEMMA CalledKind == Called => KindIsRight
<1>. SUFFICES ASSUME Called, out.kind # "none" PROVE KindIsRight
  BY DEF KindIsRight
<1>. DEFINE opens == {p \in (DOMAIN input) \X (DOMAIN input) : Opening(p[1], p[2])}
            b == FirstLine(input).end
            f == Line[1]
            fenced == Len(Line) = 1 /\ f \in DOMAIN FenceClose
            found == FencesFound(Rest, FenceClose[f])
<1>i. input \in Seq(Tokens) /\ Len(input) \in Nat /\ DOMAIN input = 1..Len(input)
  BY DEF Called
<1>1. PICK parses \in BOOLEAN : out = extractFrontMatter(input, parses)
  BY DEF Called
<1>2. ASSUME NEW p \in opens
      PROVE  fenced /\ input[p[1]] = f /\ p[2] = b + 1
  <2>1. p[1] \in DOMAIN input /\ p[2] \in DOMAIN input /\ Opening(p[1], p[2])
    OBVIOUS
  <2>2. p[2] = b + 1 /\ Len(Line) = 1 /\ Line[1] = input[p[1]]
    BY <1>i, <2>1, OpeningIsLine
  <2>. QED
    BY <2>1, <2>2 DEF Opening
<1>3. ASSUME fenced
      PROVE  /\ b \in 0..(Len(input) - 1)
             /\ \E p \in opens : input[p[1]] = f /\ p[2] = b + 1
  <2>1. /\ b \in 0..(Len(input) - 1)
        /\ \E o \in 1..b : Opening(o, b + 1) /\ input[o] = f
    BY <1>i, <1>3, LineIsOpening
  <2>2. PICK o \in 1..b : Opening(o, b + 1) /\ input[o] = f
    BY <2>1
  <2>3. o \in DOMAIN input /\ b + 1 \in DOMAIN input
    BY <1>i, <2>1
  <2>4. <<o, b + 1>> \in opens
    BY <2>2, <2>3
  <2>. QED
    BY <2>1, <2>2, <2>4
<1>4. fenced => (found = {} <=> ~Closes(f, b + 1))
  BY <1>i, <1>3, FencesFoundIs, Zenon
<1>5. \/ ~fenced /\ out = [kind |-> "plain", body |-> input]
      \/ fenced /\ found = {} /\ out = [kind |-> "unterminated"]
      \/ fenced /\ found # {} /\ out.kind \in {"malformed", "split"}
  <2>1. \/ ~fenced /\ out = [kind |-> "plain", body |-> input]
        \/ /\ fenced
           /\ \/ found = {} /\ out = [kind |-> "unterminated"]
              \/ found # {} /\ out = [kind |-> "malformed"]
              \/ /\ found # {}
                 /\ \E n, fence, at :
                      /\ n = Min(found) /\ fence = FenceClose[f][n]
                      /\ at = Index(Rest, fence) + b + 1
                      /\ out = [kind |-> "split", head |-> b, meta |-> Slice(input, b, at),
                                fence |-> fence, body |-> Body(input, fence, at)]
    BY <1>1, Outcomes
  <2>. HIDE DEF fenced, found, b, f
  <2>. QED
    BY <2>1
<1>. HIDE DEF fenced, found, b, f, opens
<1>6. /\ out.kind = "plain" <=> ~fenced
      /\ out.kind = "plain" => out.body = input
      /\ out.kind = "unterminated" <=> fenced /\ found = {}
  BY <1>5
<1>7. fenced <=> opens # {}
  BY <1>2, <1>3
<1>8. (\E p \in opens : ~Closes(input[p[1]], p[2])) <=> fenced /\ found = {}
  BY <1>2, <1>3, <1>4
<1>. QED
  BY <1>6, <1>7, <1>8 DEF KindIsRight, opens

(* What it splits is the document.                                         *)
LEMMA CalledSplit == Called => SplitExact
<1>. SUFFICES ASSUME Called, out.kind = "split" PROVE SplitExact
  BY Zenon DEF SplitExact
<1>. DEFINE l == Len(input)
            b == FirstLine(input).end
            f == Line[1]
            found == FencesFound(Rest, FenceClose[f])
<1>i. input \in Seq(Tokens) /\ l \in Nat /\ DOMAIN input = 1..l
  BY DEF Called
<1>1. PICK parses \in BOOLEAN : out = extractFrontMatter(input, parses)
  BY DEF Called
<1>2. /\ Len(Line) = 1 /\ f \in DOMAIN FenceClose /\ found # {}
      /\ \E n, fence, at :
           /\ n = Min(found) /\ fence = FenceClose[f][n]
           /\ at = Index(Rest, fence) + b + 1
           /\ out = [kind |-> "split", head |-> b, meta |-> Slice(input, b, at),
                     fence |-> fence, body |-> Body(input, fence, at)]
  BY <1>1, Outcomes
<1>3. PICK n, fence, at :
        /\ n = Min(found) /\ fence = FenceClose[f][n]
        /\ at = Index(Rest, fence) + b + 1
        /\ out = [kind |-> "split", head |-> b, meta |-> Slice(input, b, at),
                  fence |-> fence, body |-> Body(input, fence, at)]
  BY <1>2, Zenon
<1>4. n \in DOMAIN FenceClose[f] /\ Index(Rest, fence) >= 0
  <2>1. found \in SUBSET Nat /\ \A k \in found : k \in DOMAIN FenceClose[f] /\ Index(Rest, FenceClose[f][k]) >= 0
    BY <1>2, Fences, Zenon DEF FencesFound
  <2>. HIDE DEF found
  <2>2. n \in found
    BY <1>2, <1>3, <2>1, MinIs, Zenon
  <2>. QED
    BY <1>3, <2>1, <2>2
<1>5. /\ b \in 0..(l - 1)
      /\ \E o \in 1..b : Opening(o, b + 1) /\ input[o] = f
  BY <1>i, <1>2, LineIsOpening
<1>6. /\ Rest \in Seq(Tokens) /\ Len(Rest) = l - b
      /\ \A i \in 1..Len(Rest) : Rest[i] = input[b + i]
  BY <1>i, <1>2, <1>5, FencesFoundIs, Zenon
<1>. HIDE DEF l, b, f, found
<1>7. /\ at \in b + 1..l - 1 /\ at - b \in 1..(Len(Rest) - 1)
      /\ LineAt(Rest, fence, at - b)
      /\ \A k : LineAt(Rest, fence, k) => at - b <= k
  <2>1. PICK m : m = Index(Rest, fence) + 1
    OBVIOUS
  <2>2. LineAt(Rest, fence, m) /\ \A k : LineAt(Rest, fence, k) => m <= k
    BY <1>4, <1>6, <2>1, IndexIs
  <2>3. m \in 1..(Len(Rest) - 1)
    BY <2>2 DEF LineAt
  <2>4. Index(Rest, fence) \in Int
    BY <1>6, IndexIs
  <2>5. at = m + b /\ at - b = m /\ at \in b + 1..l - 1
    BY <1>3, <1>5, <1>6, <1>i, <2>1, <2>3, <2>4
  <2>. QED
    BY <2>2, <2>3, <2>5
<1>8. input[at] = NL /\ input[at + 1] = fence /\ input[b + 1] = NL
  <2>1. Rest[at - b] = NL /\ Rest[(at - b) + 1] = fence
    BY <1>7 DEF LineAt
  <2>2. /\ at - b \in 1..Len(Rest) /\ (at - b) + 1 \in 1..Len(Rest)
        /\ b + (at - b) = at /\ b + ((at - b) + 1) = at + 1
    BY <1>i, <1>5, <1>6, <1>7, Shift
  <2>3. input[b + 1] = NL
    BY <1>5 DEF Opening
  <2>. QED
    BY <1>6, <2>1, <2>2, <2>3
<1>m. PICK meta : meta = Slice(input, b, at)
  OBVIOUS
<1>o. out.head = b /\ out.meta = meta /\ out.fence = fence /\ out.body = Slice(input, at + 1, l)
  BY <1>3, <1>m DEF Body, l
<1>9. meta \in Seq(Tokens) /\ Len(meta) = at - b /\ \A i \in 1..(at - b) : meta[i] = input[b + i]
  <2>1. at \in 0..Len(input) /\ b \in 0..at
    BY <1>i, <1>5, <1>7 DEF l
  <2>. QED
    BY <1>i, <1>m, <2>1, SliceIs, Zenon
<1>10. input = SubSeq(input, 1, b) \o meta \o <<fence>> \o out.body
  <2>1. /\ 1 \in 1..Len(input) + 1 /\ 1 \in 1..Len(input)
        /\ b \in 1 - 1..Len(input) /\ at \in b..Len(input)
        /\ at + 1 \in 1..Len(input) /\ (at + 1) - 1 = at
        /\ at + 1 \in 1 - 1..Len(input) /\ Len(input) \in at + 1..Len(input)
    BY <1>i, <1>5, <1>7 DEF l
  <2>2. SubSeq(input, 1, b) \o SubSeq(input, b + 1, at) = SubSeq(input, 1, at)
    BY <1>i, <2>1, ConcatAdjacentSubSeq, Zenon
  <2>3. SubSeq(input, 1, at) \o <<input[at + 1]>> = SubSeq(input, 1, at + 1)
    BY <1>i, <2>1, SubSeqRecursiveSecond
  <2>4. SubSeq(input, 1, at + 1) \o SubSeq(input, (at + 1) + 1, l) = SubSeq(input, 1, l)
    BY <1>i, <2>1, ConcatAdjacentSubSeq, Zenon DEF l
  <2>5. SubSeq(input, 1, l) = input
    BY <1>i, SubSeqFull DEF l
  <2>6. meta = SubSeq(input, b + 1, at) /\ out.body = SubSeq(input, (at + 1) + 1, l)
    BY <1>m, <1>o DEF Slice
  <2>. QED
    BY <1>8, <2>2, <2>3, <2>4, <2>5, <2>6, Zenon
<1>11. Head(meta) = NL /\ meta[Len(meta)] = NL
  <2>1. 1 \in 1..(at - b) /\ at - b \in 1..(at - b) /\ b + (at - b) = at
    BY <1>i, <1>5, <1>7
  <2>2. meta[1] = NL /\ meta[Len(meta)] = NL
    BY <1>8, <1>9, <2>1
  <2>3. meta # << >>
    BY <1>9, <2>1
  <2>. QED
    BY <1>9, <2>2, <2>3
<1>12. Index(meta, fence) < 0
  <2>1. ASSUME NEW k, LineAt(meta, fence, k) PROVE FALSE
    <3>1. k \in 1..((at - b) - 1) /\ meta[k] = NL /\ meta[k + 1] = fence
      BY <1>9, <2>1 DEF LineAt
    <3>2. at \in Nat /\ b \in Nat /\ k \in Nat /\ 1 <= k /\ k < at - b /\ at - b <= Len(Rest) - 1
      BY <1>i, <1>5, <1>6, <1>7, <3>1
    <3>3. /\ k \in 1..(at - b) /\ k + 1 \in 1..(at - b) /\ k \in 1..Len(Rest)
          /\ k + 1 \in 1..Len(Rest) /\ k \in 1..(Len(Rest) - 1)
      BY <1>i, <1>5, <1>6, <3>2
    <3>4. LineAt(Rest, fence, k)
      BY <1>6, <1>9, <3>1, <3>3 DEF LineAt
    <3>5. at - b <= k
      BY <1>7, <3>4
    <3>. QED
      BY <3>2, <3>5
  <2>. QED
    BY <1>9, <2>1, IndexIs
<1>13. \E o \in 1..b : /\ Opening(o, b + 1)
                      /\ \E k \in DOMAIN FenceClose[input[o]] : fence = FenceClose[input[o]][k]
  BY <1>3, <1>4, <1>5, Zenon
<1>. QED
  BY <1>o, <1>10, <1>11, <1>12, <1>13, Zenon DEF SplitExact

-----------------------------------------------------------------------------
(* Theorems                                                                *)

(* Whatever splitFrontMatter returned is what extractFrontMatter returns   *)
(* for the document that it was given.                                     *)
LEMMA CalledAlways == FrontMatterSpec => []Called
<1>1. FrontMatterInit => Called
  <2>1. ASSUME NEW n \in Nat PROVE [1..n -> Tokens] \subseteq Seq(Tokens)
    OBVIOUS
  <2>. QED
    BY <2>1, FrontMatterAssumption DEF FrontMatterInit, Called
<1>2. Called /\ [FrontMatterNext]_frontMatterVars => Called'
  <2>. SUFFICES ASSUME Called, [FrontMatterNext]_frontMatterVars PROVE Called'
    OBVIOUS
  <2>1. input' = input /\ (out' = out \/ \E parses \in BOOLEAN : out' = extractFrontMatter(input, parses))
    BY Zenon DEF FrontMatterNext, FuncSplitFrontMatter, frontMatterVars
  <2>2. \A p : extractFrontMatter(input', p) = extractFrontMatter(input, p)
    BY <2>1, Zenon
  <2>. QED
    BY <2>1, <2>2, Zenon DEF Called
<1>. QED
  BY <1>1, <1>2, PTL DEF FrontMatterSpec

(* extractFrontMatter finds front matter exactly in the documents whose    *)
(* first line with text is an opening fence, and reports an error exactly  *)
(* if no later line closes that, in documents of any length.               *)
THEOREM KindIsRightAlways == FrontMatterSpec => []KindIsRight
BY CalledAlways, CalledKind, PTL

(* What extractFrontMatter splits off is, put together again, the document *)
(* it was given: it loses no text before, between or after the fences,     *)
(* however many empty lines come first and however long the document is.   *)
THEOREM SplitExactAlways == FrontMatterSpec => []SplitExact
BY CalledAlways, CalledSplit, PTL

(* A document has at most one opening fence before the newline at e.       *)
LEMMA OneOpening ==
  ASSUME NEW o \in Nat \ {0}, NEW q \in Nat \ {0}, NEW e, Opening(o, e), Opening(q, e)
  PROVE  o = q
<1>1. \A k \in 1..o - 1 : IsSpace(input[k])
  BY Zenon DEF Opening
<1>2. \A k \in 1..q - 1 : IsSpace(input[k])
  BY Zenon DEF Opening
<1>3. ~IsSpace(input[o]) /\ ~IsSpace(input[q])
  BY Fences, Zenon DEF Opening
<1>. QED
  BY <1>1, <1>2, <1>3

(* TOML and JSON front matter ends at the first line that begins with the  *)
(* closing fence: trying the closing fences one after the other over the   *)
(* whole document goes wrong only for YAML.                                *)
THEOREM FirstFenceClosesOthersAlways == FrontMatterSpec => []FirstFenceClosesOthers
<1>1. SplitExact => FirstFenceClosesOthers
  <2>. SUFFICES ASSUME SplitExact, out.kind = "split", NEW o \in 1..out.head,
                       Opening(o, out.head + 1), input[o] # "---",
                       NEW n \in DOMAIN FenceClose[input[o]]
                PROVE  Index(out.meta, FenceClose[input[o]][n]) < 0
    BY Zenon DEF FirstFenceClosesOthers
  <2>1. PICK q \in 1..out.head :
          /\ Opening(q, out.head + 1)
          /\ \E m \in DOMAIN FenceClose[input[q]] : out.fence = FenceClose[input[q]][m]
    BY Zenon DEF SplitExact
  <2>2. o = q
    <3>1. o \in Nat \ {0} /\ q \in Nat \ {0}
      OBVIOUS
    <3>. QED
      BY <2>1, <3>1, OneOpening, Zenon
  <2>3. PICK m \in DOMAIN FenceClose[input[o]] : out.fence = FenceClose[input[o]][m]
    BY <2>1, <2>2, Zenon
  <2>4. input[o] \in {"+++", "{"}
    <3>1. input[o] \in {"---", "+++", "{"}
      BY Fences, Zenon DEF Opening
    <3>. QED
      BY <3>1, Zenon
  <2>5. DOMAIN FenceClose[input[o]] = {1}
    <3>1. FenceClose["+++"] = <<"+++">> /\ FenceClose["{"] = <<"}">>
      BY Zenon DEF FenceClose
    <3>2. DOMAIN <<"+++">> = {1} /\ DOMAIN <<"}">> = {1}
      OBVIOUS
    <3>. QED
      BY <2>4, <3>1, <3>2, Zenon
  <2>6. m = n
    BY <2>5, Zenon
  <2>. QED
    BY <2>3, <2>6, Zenon DEF SplitExact
<1>. QED
  BY <1>1, SplitExactAlways, PTL
=============================================================================
