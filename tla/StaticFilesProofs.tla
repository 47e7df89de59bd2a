------------------------- MODULE StaticFilesProofs --------------------------
(***************************************************************************)
(* Proofs about static files, for all paths, sizes, modtimes and requests: *)
(* whatever is written, and whenever, an instance's encodings of a file    *)
(* agree and are sorted, and the handler's check notices a response that   *)
(* does not match its Etag, but for the cases CheckNoticesStale names.     *)
(***************************************************************************)
EXTENDS StaticFiles, SequenceTheorems, WellFoundedInduction, TLAPS

-----------------------------------------------------------------------------
(* The invariant                                                           *)

(* Exactly one encoding is the file itself.                                *)
OneIdentity(s) ==
  \E i \in DOMAIN s : \A j \in DOMAIN s : s[j].encoding = "identity" <=> i = j

Sorted(s) == \A i, j \in DOMAIN s : i < j => s[i].size <= s[j].size

(* The modtime m tells that the file at p holds c.                         *)
Tells(p, m, c) == p \notin lagged /\ disk[p].modtime = m => disk[p].content = c

(* An encoding that was read when its content hashed to h.                 *)
Faithful(e, h) ==
  /\ e \in Encodings
  /\ e.content = h
  /\ Tells(e.path, e.modtime, h)

(* A fileInfo.                                                             *)
Consistent(info) ==
  /\ info \in [hash : 1..clock, encodings : Seq(Encodings)]
  /\ \A i \in DOMAIN info.encodings : Faithful(info.encodings[i], info.hash)
  /\ OneIdentity(info.encodings)
  /\ Sorted(info.encodings)

Directory ==
  /\ clock \in Nat /\ clock <= MaxWrites
  /\ disk \in [PathSet -> {Absent} \cup Files]

(* A file that is open is at its path, or is kept as it was there.         *)
Descriptors ==
  /\ fds \in [Openers -> {Closed} \cup [path : PathSet, old : {Absent} \cup Files]]
  /\ \A x \in Openers : fds[x] # Closed /\ fds[x].old = Absent => disk[fds[x].path] # Absent

(* The file that is being loaded.  Once its modtime is read, the file may  *)
(* change under the load; the modtime then no longer is that of the path.  *)
Noted == IF stat = NoStat THEN File("load").modtime ELSE stat.modtime
Loader ==
  /\ fds["load"] # Closed =>
       /\ loading /\ listing # <<>> /\ fds["load"].path = Head(listing)
       /\ Tells(fds["load"].path, Noted, File("load").content)
  /\ stat # NoStat => fds["load"] # Closed /\ stat \in [size : Nat, modtime : 1..clock]

(* The table that is being built is as good as the one that is served.     *)
Infos(t) == {t[p] : p \in DOMAIN t}
Tables == \A info \in Infos(files) \cup Infos(build) : Consistent(info)

(* A request keeps what the instance that it came to knew of the file,     *)
(* however many loads follow.  In its descriptor the modtime tells of the  *)
(* content what it told at the path.                                       *)
Asked(r, q) ==
  /\ q.pc = "open" => \A e \in {q.entry}, h \in {q.hash} : Faithful(e, h)
  /\ q.pc = "stat" =>
       /\ fds[r] # Closed /\ fds[r].path = q.entry.path
       /\ q.entry \in Encodings
       /\ q.entry.path \notin lagged /\ File(r).modtime = q.entry.modtime
            => File(r).content = q.hash
  /\ q.pc = "read" =>
       /\ q.check \in {"failed", "modified", "same"}
       /\ q.check = "same" => q.seen = q.hash \/ q.entry.path \in lagged
Answers ==
  /\ DOMAIN req = Requests
  /\ \A r \in Requests : \A q \in {req[r]} : Asked(r, q)

IInv == Directory /\ Descriptors /\ Loader /\ Tables /\ Answers

-----------------------------------------------------------------------------
(* Insertion                                                               *)

(* A set of numbers that is not empty has a smallest one.                  *)
LEMMA Least ==
  ASSUME NEW T \in SUBSET Nat, T # {}
  PROVE  \E x \in T : \A y \in T : x <= y
<1>. DEFINE R == {ss \in Nat \X Nat : ss[1] < ss[2]}
<1>1. IsWellFoundedOn(R, Nat)
  BY NatLessThanWellFounded DEF OpToRel
<1>. HIDE DEF R
<1>2. PICK x \in T : \A y \in T : ~ (<<y, x>> \in R)
  BY <1>1, WFMin, Zenon
<1>3. ASSUME NEW y \in T PROVE x <= y
  <2>. DEFINE z == <<y, x>>
  <2>1. z \in Nat \X Nat /\ z[1] = y /\ z[2] = x
    OBVIOUS
  <2>2. z \notin R
    BY <1>2
  <2>. HIDE DEF z
  <2>3. ~ (y < x)
    BY <2>1, <2>2 DEF R
  <2>. QED
    BY <2>3
<1>. QED
  BY <1>3

(* There is a place for an encoding in any list.                           *)
LEMMA PlaceExists ==
  ASSUME NEW s \in Seq(Encodings), NEW e \in Encodings
  PROVE  /\ Place(s, e) \in 0..Len(s)
         /\ Place(s, e) # 0 => s[Place(s, e)].size <= e.size
         /\ \A i \in (Place(s, e) + 1)..Len(s) : s[i].size > e.size
<1>. DEFINE T == {k \in 0..Len(s) : \A i \in (k + 1)..Len(s) : s[i].size > e.size}
<1>n. Len(s) \in Nat /\ e.size \in Nat /\ \A i \in 1..Len(s) : s[i].size \in Nat
  <2>1. \A x \in Encodings : x.size \in Nat
    BY DEF Encodings
  <2>2. \A i \in 1..Len(s) : s[i] \in Encodings
    OBVIOUS
  <2>3. Len(s) \in Nat
    OBVIOUS
  <2>. QED
    BY <2>1, <2>2, <2>3, Zenon
<1>1. T \in SUBSET Nat /\ Len(s) \in T
  BY <1>n
<1>. HIDE DEF T
<1>2. PICK k \in T : \A y \in T : k <= y
  BY <1>1, Least
<1>3. k \in 0..Len(s) /\ \A i \in (k + 1)..Len(s) : s[i].size > e.size
  BY <1>2 DEF T
<1>4. k # 0 => s[k].size <= e.size
  <2>1. SUFFICES ASSUME k # 0, s[k].size > e.size PROVE FALSE
    BY <1>n, <1>3
  <2>2. k - 1 \in 0..Len(s) /\ \A i \in ((k - 1) + 1)..Len(s) : s[i].size > e.size
    BY <1>n, <1>3, <2>1
  <2>3. k - 1 \in T
    BY <2>2 DEF T
  <2>4. k <= k - 1
    BY <1>2, <2>3
  <2>5. k \in Nat
    BY <1>n, <1>3
  <2>. QED
    BY <2>4, <2>5
<1>. QED
  BY <1>3, <1>4 DEF Place

(* What Insert returns, place by place.                                    *)
LEMMA InsertIs ==
  ASSUME NEW s \in Seq(Encodings), NEW e \in Encodings
  PROVE  /\ Insert(s, e) \in Seq(Encodings)
         /\ Len(Insert(s, e)) = Len(s) + 1
         /\ \A i \in 1..(Len(s) + 1) :
              Insert(s, e)[i] = IF i <= Place(s, e) THEN s[i]
                                ELSE IF i = Place(s, e) + 1 THEN e ELSE s[i - 1]
<1>. DEFINE k == Place(s, e)
<1>1. Len(s) \in Nat /\ k \in 0..Len(s)
  BY PlaceExists
<1>. HIDE DEF k
<1>2. /\ SubSeq(s, 1, k) \in Seq(Encodings) /\ Len(SubSeq(s, 1, k)) = k
      /\ \A i \in 1..k : SubSeq(s, 1, k)[i] = s[i]
  BY <1>1
<1>3. /\ SubSeq(s, k + 1, Len(s)) \in Seq(Encodings)
      /\ Len(SubSeq(s, k + 1, Len(s))) = Len(s) - k
      /\ \A i \in 1..(Len(s) - k) : SubSeq(s, k + 1, Len(s))[i] = s[k + i]
  BY <1>1
<1>4. PICK a \in Seq(Encodings), b \in Seq(Encodings) :
        a = SubSeq(s, 1, k) /\ b = SubSeq(s, k + 1, Len(s))
  BY <1>2, <1>3, Zenon
<1>e. <<e>> \in Seq(Encodings) /\ Len(<<e>>) = 1 /\ <<e>>[1] = e
  OBVIOUS
<1>6. PICK c \in Seq(Encodings) : c = a \o <<e>>
  BY <1>e, ConcatProperties, Zenon
<1>5. Len(c) = k + 1 /\ \A i \in 1..(k + 1) : c[i] = IF i <= k THEN s[i] ELSE e
  <2>1. Len(a) = k /\ \A i \in 1..k : a[i] = s[i]
    BY <1>2, <1>4
  <2>2. /\ Len(c) = Len(a) + Len(<<e>>)
        /\ \A i \in 1..(Len(a) + Len(<<e>>)) :
             c[i] = IF i <= Len(a) THEN a[i] ELSE <<e>>[i - Len(a)]
    BY <1>e, <1>6, ConcatProperties
  <2>3. \A i \in 1..(k + 1) : c[i] = IF i <= k THEN a[i] ELSE <<e>>[i - k]
    BY <1>e, <2>1, <2>2
  <2>4. \A i \in 1..(k + 1) : ~ (i <= k) => i - k = 1
    BY <1>1
  <2>. QED
    BY <1>1, <1>e, <2>1, <2>2, <2>3, <2>4
<1>7. Insert(s, e) = c \o b
  BY <1>4, <1>6 DEF Insert, k
<1>8. /\ c \o b \in Seq(Encodings) /\ Len(c \o b) = Len(s) + 1
      /\ \A i \in 1..(Len(s) + 1) :
           (c \o b)[i] = IF i <= k + 1 THEN c[i] ELSE b[i - (k + 1)]
  <2>1. Len(b) = Len(s) - k /\ (k + 1) + (Len(s) - k) = Len(s) + 1
    BY <1>1, <1>3, <1>4
  <2>2. /\ c \o b \in Seq(Encodings)
        /\ Len(c \o b) = Len(c) + Len(b)
        /\ \A i \in 1..(Len(c) + Len(b)) :
             (c \o b)[i] = IF i <= Len(c) THEN c[i] ELSE b[i - Len(c)]
    BY ConcatProperties
  <2>. QED
    BY <1>5, <2>1, <2>2
<1>9. ASSUME NEW i \in 1..(Len(s) + 1)
      PROVE  (c \o b)[i] = IF i <= k THEN s[i] ELSE IF i = k + 1 THEN e ELSE s[i - 1]
  <2>1. CASE i <= k + 1
    BY <1>1, <1>5, <1>8, <2>1
  <2>2. CASE i > k + 1
    <3>1. (c \o b)[i] = b[i - (k + 1)]
      BY <1>1, <1>8, <2>2
    <3>2. i - (k + 1) \in 1..(Len(s) - k) /\ k + (i - (k + 1)) = i - 1
      BY <1>1, <2>2
    <3>3. b[i - (k + 1)] = s[k + (i - (k + 1))]
      BY <1>3, <1>4, <3>2, Zenon
    <3>4. ~ (i <= k) /\ i # k + 1
      BY <1>1, <2>2
    <3>. QED
      BY <3>1, <3>2, <3>3, <3>4
  <2>3. i <= k + 1 \/ i > k + 1
    BY <1>1
  <2>. QED
    BY <2>1, <2>2, <2>3, Zenon
<1>. QED
  BY <1>7, <1>8, <1>9 DEF k

(* An encoding that is not the identity is added to a sorted list.         *)
LEMMA InsertKeeps ==
  ASSUME NEW s \in Seq(Encodings), NEW e \in Encodings,
         Sorted(s), OneIdentity(s), e.encoding # "identity"
  PROVE  Sorted(Insert(s, e)) /\ OneIdentity(Insert(s, e))
<1>p. PICK k \in 0..Len(s) : k = Place(s, e)
  BY PlaceExists
<1>i. PICK t \in Seq(Encodings) : t = Insert(s, e)
  BY InsertIs
<1>1. /\ k # 0 => s[k].size <= e.size
      /\ \A i \in (k + 1)..Len(s) : s[i].size > e.size
      /\ Len(t) = Len(s) + 1
      /\ \A i \in 1..(Len(s) + 1) :
           t[i] = IF i <= k THEN s[i] ELSE IF i = k + 1 THEN e ELSE s[i - 1]
  <2>1. /\ Place(s, e) # 0 => s[Place(s, e)].size <= e.size
        /\ \A i \in (Place(s, e) + 1)..Len(s) : s[i].size > e.size
    BY PlaceExists
  <2>2. /\ Len(Insert(s, e)) = Len(s) + 1
        /\ \A i \in 1..(Len(s) + 1) :
             Insert(s, e)[i] = IF i <= Place(s, e) THEN s[i]
                               ELSE IF i = Place(s, e) + 1 THEN e ELSE s[i - 1]
    BY InsertIs
  <2>. QED
    BY <1>p, <1>i, <2>1, <2>2, Zenon
<1>2. PICK n \in Nat : n = Len(s) /\ DOMAIN s = 1..n /\ DOMAIN t = 1..(n + 1)
  <2>1. Len(s) \in Nat /\ DOMAIN s = 1..Len(s) /\ DOMAIN t = 1..Len(t)
    OBVIOUS
  <2>2. Len(t) = Len(s) + 1
    BY <1>1
  <2>. QED
    BY <2>1, <2>2, Zenon
<1>3. e.size \in Nat /\ \A i \in 1..n : s[i].size \in Nat
  <2>1. \A x \in Encodings : x.size \in Nat
    BY DEF Encodings
  <2>2. \A i \in 1..n : s[i] \in Encodings
    BY <1>2
  <2>. QED
    BY <2>1, <2>2, Zenon
<1>k. k \in 0..n
  BY <1>2
<1>4. \A i \in 1..n, j \in 1..n : i < j => s[i].size <= s[j].size
  BY <1>2 DEF Sorted
<1>5. /\ \A i \in 1..k : t[i] = s[i]
      /\ t[k + 1] = e
      /\ \A i \in (k + 2)..(n + 1) : t[i] = s[i - 1]
  BY <1>1, <1>2, <1>k
<1>6. ASSUME NEW i \in 1..(n + 1), NEW j \in 1..(n + 1), i < j
      PROVE  t[i].size <= t[j].size
  <2>1. \A m \in 1..k : s[m].size <= e.size
    BY <1>1, <1>3, <1>4, <1>k
  <2>2. \A m \in (k + 1)..n : e.size <= s[m].size
    BY <1>1, <1>2, <1>3, <1>k
  <2>3. CASE j <= k
    <3>1. i \in 1..k /\ j \in 1..k /\ i \in 1..n /\ j \in 1..n
      BY <1>6, <1>k, <2>3
    <3>2. t[i] = s[i] /\ t[j] = s[j]
      BY <1>5, <3>1
    <3>. QED
      BY <1>4, <1>6, <3>1, <3>2
  <2>4. CASE j = k + 1
    BY <1>5, <1>6, <1>k, <2>1, <2>4
  <2>5. CASE j > k + 1 /\ i <= k
    BY <1>4, <1>5, <1>6, <1>k, <2>5
  <2>6. CASE j > k + 1 /\ i = k + 1
    BY <1>5, <1>6, <1>k, <2>2, <2>6
  <2>7. CASE i > k + 1
    <3>1. i - 1 \in 1..n /\ j - 1 \in 1..n /\ i - 1 < j - 1
      BY <1>6, <1>k, <2>7
    <3>2. t[i] = s[i - 1] /\ t[j] = s[j - 1]
      BY <1>5, <1>6, <1>k, <2>7
    <3>. QED
      BY <1>4, <3>1, <3>2
  <2>. QED
    BY <1>6, <1>k, <2>3, <2>4, <2>5, <2>6, <2>7
<1>m. PICK m \in DOMAIN s : \A j \in DOMAIN s : s[j].encoding = "identity" <=> m = j
  BY DEF OneIdentity
<1>7. m \in 1..n /\ \A j \in 1..n : s[j].encoding = "identity" <=> m = j
  BY <1>2, <1>m
<1>8. PICK l \in 1..(n + 1) : l = IF m <= k THEN m ELSE m + 1
  BY <1>k, <1>7
<1>9. ASSUME NEW j \in 1..(n + 1) PROVE t[j].encoding = "identity" <=> l = j
  <2>1. CASE j <= k
    BY <1>5, <1>7, <1>8, <1>k, <2>1
  <2>2. CASE j = k + 1
    BY <1>5, <1>7, <1>8, <1>k, <2>2
  <2>3. CASE j > k + 1
    BY <1>5, <1>7, <1>8, <1>k, <2>3
  <2>. QED
    BY <1>k, <2>1, <2>2, <2>3
<1>10. DOMAIN t = 1..(n + 1)
  BY <1>2
<1>11. Sorted(t)
  BY <1>6, <1>10, Zenon DEF Sorted
<1>12. OneIdentity(t)
  <2>1. \A j \in DOMAIN t : t[j].encoding = "identity" <=> l = j
    BY <1>9, <1>10
  <2>2. l \in DOMAIN t
    BY <1>10
  <2>. QED
    BY <2>1, <2>2 DEF OneIdentity
<1>. QED
  BY <1>i, <1>11, <1>12

-----------------------------------------------------------------------------
(* The steps                                                               *)

(* A file that is open holds something.                                    *)
LEMMA OpenFileHolds ==
  ASSUME Directory, Descriptors, NEW x \in Openers, fds[x] # Closed
  PROVE  fds[x].path \in PathSet /\ File(x) \in Files
<1>1. fds[x] \in [path : PathSet, old : {Absent} \cup Files]
  BY DEF Descriptors
<1>2. fds[x].path \in PathSet /\ fds[x].old \in {Absent} \cup Files
  BY <1>1
<1>3. fds[x].old = Absent => disk[fds[x].path] \in Files
  BY <1>2 DEF Directory, Descriptors
<1>. QED
  BY <1>2, <1>3 DEF File

(* The steps of loads and requests leave the directory alone.              *)
LEMMA StepKinds ==
  ASSUME [Next]_vars
  PROVE  \/ UNCHANGED diskVars
         \/ \E p \in PathSet : RemoveFile(p)
         \/ \E p \in PathSet, c \in Contents, m \in Modtimes : WriteFile(p, c, m)
<1>1. CASE Load \/ Quiet \/ UNCHANGED vars
  BY <1>1 DEF Load, StartLoad, OpenStatic, StatStatic, WalkFails, AddStaticFile, LoadDone, Quiet, vars
<1>2. ASSUME NEW r \in Requests,
             \/ OpenFile(r) \/ OpenFails(r) \/ StatFile(r) \/ ServeContent(r)
             \/ \E p \in PathSet, x \in 0..clock : Get(r, p, x)
      PROVE  UNCHANGED diskVars
  BY <1>2 DEF OpenFile, OpenFails, StatFile, ServeContent, Get
<1>. QED
  BY <1>1, <1>2 DEF Next

(* What a write puts in the directory.                                     *)
LEMMA Written ==
  ASSUME Directory, NEW p \in PathSet, NEW c \in Contents, NEW m \in Modtimes, WriteFile(p, c, m)
  PROVE  /\ clock' = clock + 1 /\ clock' \in Nat /\ clock' <= MaxWrites
         /\ [content |-> c, modtime |-> m] \in [content : 1..clock', modtime : 1..clock']
         /\ disk' = [disk EXCEPT ![p] = [content |-> c, modtime |-> m]]
         /\ m = clock + 1 \/ p \in lagged'
         /\ lagged \subseteq lagged'
<1>t. clock \in Nat /\ clock <= MaxWrites /\ MaxWrites \in Nat /\ Skews \subseteq Nat
  BY StaticAssumption DEF Directory
<1>1. clock' = clock + 1 /\ clock' \in Nat /\ clock' <= MaxWrites
  BY <1>t DEF WriteFile
<1>2. m \in 1..clock'
  BY <1>t, <1>1 DEF Modtimes
<1>3. \A q \in Present : disk[q].content \in 1..clock
  BY DEF Present, Directory, Files
<1>4. c \in 1..clock'
  BY <1>t, <1>1, <1>3 DEF Contents
<1>5. (m = clock + 1 \/ p \in lagged') /\ lagged \subseteq lagged'
  BY <1>1 DEF WriteFile
<1>. QED
  BY <1>1, <1>2, <1>4, <1>5 DEF WriteFile

(* The directory.                                                          *)
LEMMA DirectoryStep ==
  ASSUME Directory, [Next]_vars
  PROVE  /\ Directory'
         /\ clock' \in {clock, clock + 1}
         /\ lagged \subseteq lagged'
<1>t. clock \in Nat /\ clock <= MaxWrites /\ disk \in [PathSet -> {Absent} \cup Files]
  BY DEF Directory
<1>1. CASE UNCHANGED diskVars
  BY <1>1 DEF Directory, Files, diskVars
<1>2. ASSUME NEW p \in PathSet, NEW c \in Contents, NEW m \in Modtimes, WriteFile(p, c, m)
      PROVE  Directory' /\ clock' \in {clock, clock + 1} /\ lagged \subseteq lagged'
  <2>1. PICK f : f = [content |-> c, modtime |-> m]
    BY Zenon
  <2>2. /\ clock' = clock + 1 /\ clock' \in Nat /\ clock' <= MaxWrites
        /\ f \in Files' /\ disk' = [disk EXCEPT ![p] = f]
        /\ lagged \subseteq lagged'
    BY <1>2, <2>1, Written DEF Files
  <2>3. Files \subseteq Files'
    BY <1>t, <2>2 DEF Files
  <2>. QED
    BY <1>t, <2>2, <2>3 DEF Directory
<1>3. ASSUME NEW p \in PathSet, RemoveFile(p)
      PROVE  Directory' /\ clock' \in {clock, clock + 1} /\ lagged \subseteq lagged'
  BY <1>t, <1>3 DEF RemoveFile, Directory, Files
<1>. QED
  BY <1>1, <1>2, <1>3, StepKinds

(* A modtime keeps telling what it told: a write gives the path a new one, *)
(* or the path is lagged.                                                  *)
LEMMA TellsKept ==
  ASSUME Directory, [Next]_vars, NEW p \in PathSet, NEW n \in 1..clock, NEW h, Tells(p, n, h)
  PROVE  Tells(p, n, h)'
<1>t. clock \in Nat /\ disk \in [PathSet -> {Absent} \cup Files] /\ n # 0 /\ n # clock + 1
  BY DEF Directory
<1>1. CASE UNCHANGED diskVars
  BY <1>1 DEF Tells, diskVars
<1>2. ASSUME NEW a \in PathSet, NEW c \in Contents, NEW m \in Modtimes, WriteFile(a, c, m)
      PROVE  Tells(p, n, h)'
  <2>1. /\ disk' = [disk EXCEPT ![a] = [content |-> c, modtime |-> m]]
        /\ m = clock + 1 \/ a \in lagged'
        /\ lagged \subseteq lagged'
    BY <1>2, Written
  <2>2. CASE a = p
    BY <1>t, <2>1, <2>2 DEF Tells
  <2>3. CASE a # p
    BY <1>t, <2>1, <2>3 DEF Tells
  <2>. QED
    BY <2>2, <2>3
<1>3. ASSUME NEW a \in PathSet, RemoveFile(a) PROVE Tells(p, n, h)'
  <2>1. disk' = [disk EXCEPT ![a] = Absent] /\ lagged' = lagged
    BY <1>3 DEF RemoveFile
  <2>. QED
    BY <1>t, <2>1 DEF Tells, Absent
<1>. QED
  BY <1>1, <1>2, <1>3, StepKinds

(* A write or a removal leaves the file that x has open as it is, or the   *)
(* file is the one at the path that was written to, changed in place.      *)
LEMMA HeldKept ==
  ASSUME Directory, Descriptors, NEW x \in Openers, NEW p \in PathSet,
         \/ RemoveFile(p)
         \/ \E c \in Contents, m \in Modtimes : WriteFile(p, c, m)
  PROVE  /\ fds' \in [Openers -> {Closed} \cup [path : PathSet, old : ({Absent} \cup Files)']]
         /\ fds'[x] # Closed /\ fds'[x].old = Absent => disk'[fds'[x].path] # Absent
         /\ fds[x] = Closed <=> fds'[x] = Closed
         /\ fds[x] # Closed =>
              /\ fds'[x].path = fds[x].path
              /\ \/ File(x)' = File(x)
                 \/ /\ File(x)' = disk'[fds[x].path]
                    /\ File(x)'.modtime = clock + 1 \/ fds[x].path \in lagged'
<1>. DEFINE FD == [path : PathSet, old : {Absent} \cup Files]
<1>t. /\ clock \in Nat /\ disk \in [PathSet -> {Absent} \cup Files]
      /\ fds \in [Openers -> {Closed} \cup FD]
      /\ \A y \in Openers : fds[y] # Closed /\ fds[y].old = Absent => disk[fds[y].path] # Absent
  BY DEF Directory, Descriptors
<1>n. p # <<>> /\ Closed.path = <<>>
  BY StaticAssumption DEF Closed
<1>f. Files \subseteq Files' /\ Absent \notin Files'
  <2>1. 1..clock \subseteq 1..clock'
    BY <1>t DEF RemoveFile, WriteFile
  <2>. QED
    BY <2>1 DEF Files, Absent
<1>1. CASE UNCHANGED fds /\ ~RemoveFile(p)
  <2>1. PICK c \in Contents, m \in Modtimes : WriteFile(p, c, m)
    BY <1>1
  <2>2. PICK f : f = [content |-> c, modtime |-> m]
    BY Zenon
  <2>3. /\ f \in Files' /\ disk' = [disk EXCEPT ![p] = f]
        /\ f.modtime = clock + 1 \/ p \in lagged'
    BY <2>1, <2>2, Written DEF Files
  <2>4. fds' = fds /\ fds' \in [Openers -> {Closed} \cup [path : PathSet, old : ({Absent} \cup Files)']]
    BY <1>1, <1>t, <1>f
  <2>5. ASSUME fds[x] # Closed
        PROVE  /\ fds[x].old = Absent => disk'[fds[x].path] # Absent
               /\ \/ File(x)' = File(x)
                  \/ /\ File(x)' = disk'[fds[x].path]
                     /\ File(x)'.modtime = clock + 1 \/ fds[x].path \in lagged'
    <3>1. fds[x].path \in PathSet
      BY <2>5, OpenFileHolds
    <3>2. CASE fds[x].old # Absent
      BY <2>4, <3>2 DEF File
    <3>3. CASE fds[x].old = Absent
      <4>1. File(x)' = disk'[fds[x].path] /\ File(x) = disk[fds[x].path]
        BY <2>4, <3>3 DEF File
      <4>. QED
        BY <1>t, <1>f, <2>3, <2>5, <3>1, <3>3, <4>1
    <3>. QED
      BY <3>2, <3>3
  <2>. QED
    BY <2>4, <2>5
<1>2. CASE Unlink(p)
  <2>1. fds' = [y \in Openers |->
                  IF fds[y].path = p /\ fds[y].old = Absent THEN [path |-> p, old |-> disk[p]]
                  ELSE fds[y]]
    BY <1>2 DEF Unlink
  <2>2. PICK g : g = [path |-> p, old |-> disk[p]]
    BY Zenon
  <2>3. g.path = p /\ g.old = disk[p] /\ g # Closed
        /\ g \in [path : PathSet, old : ({Absent} \cup Files)']
    BY <1>t, <1>n, <1>f, <2>2
  <2>4. fds' \in [Openers -> {Closed} \cup [path : PathSet, old : ({Absent} \cup Files)']]
    BY <1>t, <1>f, <2>1, <2>2, <2>3
  <2>5. CASE fds[x].path = p /\ fds[x].old = Absent
    <3>1. fds'[x] = g /\ fds[x] # Closed
      BY <1>n, <2>1, <2>2, <2>5
    <3>2. disk[p] # Absent
      BY <1>t, <2>5, <3>1
    <3>3. File(x)' = disk[p] /\ File(x) = disk[p]
      BY <2>3, <2>5, <3>1, <3>2 DEF File, Absent
    <3>. QED
      BY <2>3, <2>4, <2>5, <3>1, <3>2, <3>3
  <2>6. CASE ~(fds[x].path = p /\ fds[x].old = Absent)
    <3>1. fds'[x] = fds[x]
      BY <2>1, <2>6
    <3>2. fds[x] # Closed /\ fds[x].path # p => disk'[fds[x].path] = disk[fds[x].path]
      <4>1. \A q \in PathSet \ {p} : disk'[q] = disk[q]
        BY <1>t DEF RemoveFile, WriteFile
      <4>. QED
        BY <4>1, OpenFileHolds
    <3>3. fds[x] # Closed => File(x)' = File(x)
      BY <2>6, <3>1, <3>2 DEF File, Absent
    <3>. QED
      BY <1>t, <2>4, <2>6, <3>1, <3>2, <3>3
  <2>. QED
    BY <2>5, <2>6
<1>. QED
  BY <1>1, <1>2, Zenon DEF RemoveFile, WriteFile

(* An encoding stays faithful, and so does all that was recorded of a file.*)
LEMMA FaithfulKept ==
  ASSUME Directory, [Next]_vars, NEW e, NEW h, Faithful(e, h)
  PROVE  Faithful(e, h)'
<1>1. /\ e.path \in PathSet /\ e.modtime \in 1..clock /\ clock \in Nat
      /\ e \in [encoding : {"identity", "gzip", "zstd", "br"}, path : PathSet,
                content : 1..clock, size : Nat, modtime : 1..clock]
  BY DEF Faithful, Encodings, Directory
<1>2. clock' \in {clock, clock + 1}
  BY DirectoryStep
<1>3. e \in Encodings'
  BY <1>1, <1>2 DEF Encodings
<1>4. Tells(e.path, e.modtime, h)'
  <2>1. PICK p \in PathSet, n \in 1..clock : p = e.path /\ n = e.modtime
    BY <1>1
  <2>2. Tells(p, n, h)'
    BY <2>1, TellsKept DEF Faithful
  <2>. QED
    BY <2>1, <2>2 DEF Tells
<1>. QED
  BY <1>3, <1>4 DEF Faithful

LEMMA ConsistentKept ==
  ASSUME Directory, [Next]_vars, NEW info, Consistent(info)
  PROVE  Consistent(info)'
<1>1. \A i \in DOMAIN info.encodings : Faithful(info.encodings[i], info.hash)'
  BY FaithfulKept DEF Consistent
<1>2. /\ info \in [hash : 1..clock, encodings : Seq(Encodings)]
      /\ clock \in Nat
  BY DEF Consistent, Directory
<1>3. clock' \in {clock, clock + 1}
  BY DirectoryStep
<1>4. info.hash \in 1..clock'
  BY <1>2, <1>3
<1>5. info.encodings \in Seq(Encodings')
  <2>1. \A i \in DOMAIN info.encodings : info.encodings[i] \in Encodings'
    BY <1>1 DEF Faithful
  <2>2. info.encodings \in Seq(Encodings)
    BY <1>2
  <2>. QED
    BY <2>1, <2>2
<1>6. info \in [hash : 1..clock', encodings : Seq(Encodings')]
  BY <1>2, <1>4, <1>5
<1>. QED
  BY <1>1, <1>6 DEF Consistent

(* The descriptors that a step may have changed.                           *)
LEMMA DescriptorsStep ==
  ASSUME Directory, Descriptors, [Next]_vars
  PROVE  Descriptors'
<1>t. fds \in [Openers -> {Closed} \cup [path : PathSet, old : {Absent} \cup Files]]
  BY DEF Descriptors
<1>1. CASE UNCHANGED <<diskVars, fds>>
  BY <1>1 DEF Descriptors, diskVars, Files
<1>2. ASSUME UNCHANGED diskVars, NEW x \in Openers, Close(x) PROVE Descriptors'
  BY <1>t, <1>2 DEF Close, Descriptors, diskVars, Files
<1>3. ASSUME UNCHANGED diskVars, NEW x \in Openers, NEW p \in Present, Opened(x, p) PROVE Descriptors'
  <2>1. PICK g : g = [path |-> p, old |-> Absent]
    BY Zenon
  <2>2. g \in [path : PathSet, old : {Absent} \cup Files] /\ g.path = p
    BY <2>1 DEF Present
  <2>3. fds' = [fds EXCEPT ![x] = g] /\ disk[p] # Absent /\ disk' = disk /\ Files' = Files
    BY <1>3, <2>1 DEF Opened, Present, diskVars, Files
  <2>. QED
    BY <1>t, <2>2, <2>3 DEF Descriptors
<1>4. ASSUME NEW p \in PathSet,
             \/ RemoveFile(p)
             \/ \E c \in Contents, m \in Modtimes : WriteFile(p, c, m)
      PROVE  Descriptors'
  <2>1. \A x \in Openers :
          /\ fds' \in [Openers -> {Closed} \cup [path : PathSet, old : ({Absent} \cup Files)']]
          /\ fds'[x] # Closed /\ fds'[x].old = Absent => disk'[fds'[x].path] # Absent
    BY <1>4, HeldKept
  <2>2. "load" \in Openers
    BY DEF Openers
  <2>. QED
    BY <2>1, <2>2 DEF Descriptors
<1>5. CASE Load
  <2>1. "load" \in Openers
    BY DEF Openers
  <2>2. CASE StartLoad \/ StatStatic \/ LoadDone
    BY <1>1, <2>2 DEF StartLoad, StatStatic, LoadDone
  <2>3. CASE OpenStatic
    BY <1>3, <2>1, <2>3 DEF OpenStatic
  <2>4. CASE AddStaticFile \/ \E w \in {"io", "vanished", "mismatch", "conflict"} : WalkFails(w)
    BY <1>2, <2>1, <2>4 DEF AddStaticFile, WalkFails
  <2>. QED
    BY <1>5, <2>2, <2>3, <2>4 DEF Load
<1>6. CASE Quiet \/ UNCHANGED vars
  BY <1>1, <1>6 DEF Quiet, vars
<1>7. ASSUME NEW r \in Requests PROVE /\ OpenFile(r) => Descriptors'
                                      /\ ServeContent(r) => Descriptors'
                                      /\ OpenFails(r) \/ StatFile(r) => Descriptors'
                                      /\ (\E p \in PathSet, h \in 0..clock : Get(r, p, h)) => Descriptors'
  <2>1. r \in Openers
    BY DEF Openers
  <2>. QED
    BY <1>1, <1>2, <1>3, <2>1 DEF OpenFile, ServeContent, OpenFails, StatFile, Get
<1>. QED
  BY <1>4, <1>5, <1>6, <1>7 DEF Next

(* The load and the file it has open.                                      *)
LEMMA LoaderStep ==
  ASSUME Directory, Descriptors, Loader, [Next]_vars
  PROVE  Loader'
<1>l. "load" \in Openers /\ "load" \notin Requests
  BY StaticAssumption DEF Openers
<1>t. /\ fds \in [Openers -> {Closed} \cup [path : PathSet, old : {Absent} \cup Files]]
      /\ clock \in Nat /\ clock <= MaxWrites
  BY DEF Descriptors, Directory
<1>1. CASE UNCHANGED <<diskVars, loading, listing, stat>> /\ fds'["load"] = fds["load"]
  <2>1. Noted' = Noted /\ File("load")' = File("load")
    BY <1>1 DEF Noted, File, diskVars
  <2>. QED
    BY <1>1, <2>1 DEF Loader, Tells, diskVars
<1>2. CASE fds'["load"] = Closed /\ stat' = NoStat
  BY <1>2 DEF Loader
<1>3. CASE StartLoad \/ LoadDone
  <2>1. fds["load"] = Closed /\ stat = NoStat
    BY <1>3 DEF StartLoad, LoadDone, Loader
  <2>. QED
    BY <1>2, <1>3, <2>1 DEF StartLoad, LoadDone
<1>4. CASE OpenStatic
  <2>1. PICK p \in Present : p = Head(listing)
    BY <1>4 DEF OpenStatic
  <2>2. fds'["load"] = [path |-> p, old |-> Absent]
    BY <1>l, <1>t, <1>4, <2>1 DEF OpenStatic, Opened
  <2>3. fds'["load"].path = p /\ fds'["load"].old = Absent
    BY <2>2
  <2>4. stat' = NoStat /\ loading' /\ listing' = listing /\ listing # <<>> /\ disk' = disk
    BY <1>4 DEF OpenStatic, Loader, loadVars, diskVars
  <2>5. Noted' = disk'[p].modtime /\ File("load")' = disk'[p]
    BY <2>3, <2>4 DEF Noted, File
  <2>. QED
    BY <2>1, <2>3, <2>4, <2>5 DEF Loader, Tells
<1>5. CASE StatStatic
  <2>1. PICK f : f = File("load")
    OBVIOUS
  <2>2. PICK p : p = Head(listing)
    OBVIOUS
  <2>3. fds["load"] # Closed /\ stat = NoStat /\ stat' = StatOf(p, f)
        /\ UNCHANGED <<diskVars, fds, loading, listing>>
    BY <1>5, <2>1, <2>2 DEF StatStatic
  <2>4. p \in PathSet /\ f \in Files /\ fds["load"].path = p
    BY <1>l, <2>1, <2>2, <2>3, OpenFileHolds DEF Loader
  <2>5. Size[p][f.content] \in Nat
    <3>1. f.content \in 1..MaxWrites
      BY <1>t, <2>4, StaticAssumption DEF Files
    <3>. QED
      BY <2>4, <3>1, StaticAssumption
  <2>6. stat' \in [size : Nat, modtime : 1..clock] /\ stat'.modtime = f.modtime
    BY <2>3, <2>4, <2>5 DEF StatOf, Files
  <2>7. File("load")' = f
    BY <2>1, <2>3 DEF File, diskVars
  <2>8. Noted' = Noted
    BY <2>1, <2>3, <2>6, <2>7 DEF Noted
  <2>. QED
    BY <2>1, <2>3, <2>6, <2>7, <2>8 DEF Loader, Tells, diskVars
<1>6. CASE AddStaticFile \/ \E w \in {"io", "vanished", "mismatch", "conflict"} : WalkFails(w)
  BY <1>l, <1>t, <1>2, <1>6 DEF AddStaticFile, WalkFails, Close
<1>7. ASSUME NEW p \in PathSet,
             \/ RemoveFile(p)
             \/ \E c \in Contents, m \in Modtimes : WriteFile(p, c, m)
      PROVE  Loader'
  <2>1. UNCHANGED <<loading, listing, stat>>
    BY <1>7 DEF RemoveFile, WriteFile, loadVars
  <2>2. clock' \in {clock, clock + 1}
    BY DirectoryStep
  <2>3. /\ fds["load"] = Closed <=> fds'["load"] = Closed
        /\ fds["load"] # Closed =>
             /\ fds'["load"].path = fds["load"].path
             /\ \/ File("load")' = File("load")
                \/ File("load")' = disk'[fds["load"].path]
    BY <1>l, <1>7, HeldKept
  <2>4. stat' # NoStat => stat' \in [size : Nat, modtime : 1..clock']
    BY <1>t, <2>1, <2>2 DEF Loader
  <2>5. CASE fds["load"] = Closed
    BY <2>1, <2>3, <2>5 DEF Loader
  <2>6. CASE fds["load"] # Closed
    <3>1. PICK a : a = fds["load"].path
      OBVIOUS
    <3>2. PICK f : f = File("load")
      OBVIOUS
    <3>3. a \in PathSet /\ f \in Files
      BY <1>l, <2>6, <3>1, <3>2, OpenFileHolds
    <3>4. PICK n \in 1..clock : n = Noted
      <4>1. stat # NoStat => stat.modtime \in 1..clock
        BY DEF Loader
      <4>. QED
        BY <3>2, <3>3, <4>1 DEF Noted, Files
    <3>5. Tells(a, Noted, File("load").content)'
      <4>1. CASE File("load")' = f
        <5>1. Noted' = n
          BY <2>1, <3>2, <3>4, <4>1 DEF Noted
        <5>2. Tells(a, n, f.content)
          BY <2>6, <3>1, <3>2, <3>4 DEF Loader, Tells
        <5>3. Tells(a, n, f.content)'
          BY <3>3, <5>2, TellsKept
        <5>. QED
          BY <4>1, <5>1, <5>3 DEF Tells
      <4>2. CASE File("load")' = disk'[a]
        BY <4>2 DEF Tells
      <4>. QED
        BY <2>3, <2>6, <3>1, <3>2, <4>1, <4>2
    <3>6. fds'["load"].path = a
      BY <2>3, <2>6, <3>1
    <3>7. loading' /\ listing' # <<>> /\ a = Head(listing')
      BY <2>1, <2>6, <3>1 DEF Loader
    <3>. QED
      BY <2>3, <2>4, <2>6, <3>5, <3>6, <3>7 DEF Loader, Tells
  <2>. QED
    BY <2>5, <2>6
<1>8. ASSUME NEW r \in Requests,
             \/ OpenFile(r) \/ OpenFails(r) \/ StatFile(r) \/ ServeContent(r)
             \/ \E p \in PathSet, x \in 0..clock : Get(r, p, x)
      PROVE  Loader'
  <2>1. r # "load"
    BY <1>l
  <2>. QED
    BY <1>l, <1>t, <1>1, <1>8, <2>1
    DEF OpenFile, OpenFails, StatFile, ServeContent, Get, Opened, Close, loadVars
<1>9. CASE Quiet \/ UNCHANGED vars
  BY <1>1, <1>9 DEF Quiet, vars, loadVars
<1>. QED
  BY <1>3, <1>4, <1>5, <1>6, <1>7, <1>8, <1>9 DEF Next, Load

(* What is recorded of a file is faithful to what was hashed.              *)
LEMMA EntryFaithful ==
  ASSUME Directory, Descriptors, Loader, stat # NoStat, NEW p, p = Head(listing)
  PROVE  /\ Faithful(Entry(p), File("load").content)
         /\ Entry(p).encoding = EncodingOf(p)
         /\ File("load").content \in 1..clock
<1>1. PICK f : f = File("load")
  OBVIOUS
<1>2. /\ fds["load"] # Closed /\ fds["load"].path = p
      /\ stat \in [size : Nat, modtime : 1..clock]
      /\ Tells(p, stat.modtime, f.content)
  BY <1>1 DEF Loader, Noted
<1>3. p \in PathSet /\ f \in Files
  BY <1>1, <1>2, OpenFileHolds DEF Openers
<1>4. EncodingOf(p) \in {"identity", "gzip", "zstd", "br"}
  BY DEF EncodingOf, Codec
<1>5. PICK e : e = Entry(p)
  OBVIOUS
<1>6. e = [encoding |-> EncodingOf(p), path |-> p, content |-> f.content,
           size |-> stat.size, modtime |-> stat.modtime]
  BY <1>1, <1>5 DEF Entry
<1>7. /\ e \in Encodings /\ e.content = f.content /\ e.encoding = EncodingOf(p)
      /\ e.path = p /\ e.modtime = stat.modtime /\ f.content \in 1..clock
  BY <1>2, <1>3, <1>4, <1>6 DEF Encodings, Files
<1>. QED
  BY <1>1, <1>2, <1>5, <1>7 DEF Faithful, Tells

(* addStaticFileHandler keeps the table consistent: a new file has one     *)
(* encoding, and a copy is added to those of the same content.             *)
LEMMA AddConsistent ==
  ASSUME Directory, Descriptors, Loader, Tables, AddStaticFile
  PROVE  \A info \in Infos(build') : Consistent(info)
<1>. DEFINE p == Head(listing)
<1>1. ~Mismatch(p) /\ stat # NoStat
  BY DEF AddStaticFile
<1>2. PICK e, c : e = Entry(p) /\ c = File("load").content
  OBVIOUS
<1>3. Faithful(e, c) /\ e.encoding = EncodingOf(p) /\ c \in 1..clock
  BY <1>1, <1>2, EntryFaithful
<1>4. e \in Encodings
  BY <1>3 DEF Faithful
<1>5. CASE EncodingOf(p) = "identity"
  <2>1. PICK info : info = [hash |-> c, encodings |-> <<e>>]
    BY Zenon
  <2>2. /\ info \in [hash : 1..clock, encodings : Seq(Encodings)]
        /\ info.hash = c
        /\ DOMAIN info.encodings = {1} /\ info.encodings[1] = e
    BY <1>3, <1>4, <2>1
  <2>3. Consistent(info)
    BY <1>3, <1>5, <2>2 DEF Consistent, OneIdentity, Sorted
  <2>4. \A q \in DOMAIN build' : build'[q] = info \/ (q \in DOMAIN build /\ build'[q] = build[q])
    BY <1>2, <1>5, <2>1 DEF AddStaticFile
  <2>. QED
    BY <2>3, <2>4 DEF Tables, Infos
<1>6. CASE EncodingOf(p) # "identity"
  <2>1. Stem(p) \in DOMAIN build /\ build[Stem(p)].hash = c
    BY <1>1, <1>2, <1>6 DEF EncodingOf, Exists, Mismatch
  <2>2. PICK old : old = build[Stem(p)]
    OBVIOUS
  <2>3. Consistent(old) /\ old.hash = c
    BY <2>1, <2>2 DEF Tables, Infos
  <2>4. old \in [hash : 1..clock, encodings : Seq(Encodings)]
    BY <2>3 DEF Consistent
  <2>5. PICK s \in Seq(Encodings) : s = old.encodings
    BY <2>4
  <2>6. PICK t : t = Insert(s, e)
    OBVIOUS
  <2>7. /\ t \in Seq(Encodings) /\ Len(t) = Len(s) + 1
        /\ \A i \in 1..(Len(s) + 1) :
             t[i] = IF i <= Place(s, e) THEN s[i] ELSE IF i = Place(s, e) + 1 THEN e ELSE s[i - 1]
    BY <1>4, <2>6, InsertIs, Zenon
  <2>8. Sorted(t) /\ OneIdentity(t)
    BY <1>3, <1>4, <1>6, <2>3, <2>5, <2>6, InsertKeeps DEF Consistent
  <2>9. \A i \in DOMAIN t : Faithful(t[i], old.hash)
    <3>1. \A i \in DOMAIN s : Faithful(s[i], old.hash)
      BY <2>3, <2>5 DEF Consistent
    <3>2. Faithful(e, old.hash)
      BY <1>3, <2>3
    <3>3. \A i \in DOMAIN t : t[i] = e \/ \E j \in DOMAIN s : t[i] = s[j]
      <4>1. Place(s, e) \in 0..Len(s)
        BY <1>4, PlaceExists
      <4>2. PICK k \in 0..Len(s) : k = Place(s, e)
        BY <4>1
      <4>3. \A i \in 1..(Len(s) + 1) :
              t[i] = IF i <= k THEN s[i] ELSE IF i = k + 1 THEN e ELSE s[i - 1]
        BY <2>7, <4>2
      <4>4. Len(s) \in Nat /\ DOMAIN s = 1..Len(s) /\ DOMAIN t = 1..(Len(s) + 1)
        BY <2>7
      <4>5. ASSUME NEW i \in 1..(Len(s) + 1) PROVE t[i] = e \/ \E j \in 1..Len(s) : t[i] = s[j]
        <5>1. CASE i <= k
          BY <4>3, <4>4, <5>1
        <5>2. CASE i > k
          <6>1. i = k + 1 \/ i - 1 \in 1..Len(s)
            BY <4>4, <5>2
          <6>2. t[i] = IF i = k + 1 THEN e ELSE s[i - 1]
            BY <4>3, <4>4, <5>2
          <6>. QED
            BY <6>1, <6>2
        <5>. QED
          BY <4>4, <5>1, <5>2
      <4>. QED
        BY <4>4, <4>5
    <3>. QED
      BY <3>1, <3>2, <3>3
  <2>10. PICK info : info = [old EXCEPT !.encodings = t]
    BY Zenon
  <2>11. /\ info \in [hash : 1..clock, encodings : Seq(Encodings)]
         /\ info.hash = old.hash /\ info.encodings = t
    BY <2>4, <2>7, <2>10
  <2>12. Consistent(info)
    BY <2>8, <2>9, <2>11 DEF Consistent
  <2>13. build' = [build EXCEPT ![Stem(p)] = info]
    BY <1>2, <1>6, <2>2, <2>5, <2>6, <2>10 DEF AddStaticFile
  <2>. QED
    BY <2>12, <2>13 DEF Tables, Infos
<1>. QED
  BY <1>5, <1>6

(* No step makes an inconsistent table.                                    *)
LEMMA TablesStep ==
  ASSUME Directory, Descriptors, Loader, Tables, [Next]_vars
  PROVE  Tables'
<1>k. \A info \in Infos(files) \cup Infos(build) : Consistent(info)'
  BY ConsistentKept DEF Tables
<1>0. Infos(NoFiles) = {}
  BY DEF Infos, NoFiles
<1>1. CASE UNCHANGED <<files, build>>
  BY <1>1, <1>k DEF Tables, Infos
<1>2. CASE StartLoad \/ \E w \in {"io", "vanished", "mismatch", "conflict"} : WalkFails(w)
  <2>1. files' = files /\ build' = NoFiles
    BY <1>2 DEF StartLoad, WalkFails
  <2>. QED
    BY <1>0, <1>k, <2>1 DEF Tables, Infos
<1>3. CASE LoadDone
  <2>1. files' = build /\ build' = NoFiles
    BY <1>3 DEF LoadDone
  <2>. QED
    BY <1>0, <1>k, <2>1 DEF Tables, Infos
<1>4. CASE AddStaticFile
  <2>1. files' = files
    BY <1>4 DEF AddStaticFile
  <2>2. \A info \in Infos(build') : Consistent(info)
    BY <1>4, AddConsistent
  <2>3. \A info : Consistent(info) => Consistent(info)'
    BY ConsistentKept
  <2>. QED
    BY <1>k, <2>1, <2>2, <2>3 DEF Tables, Infos
<1>5. CASE OpenStatic \/ StatStatic \/ Quiet \/ UNCHANGED vars
  BY <1>1, <1>5 DEF OpenStatic, StatStatic, Quiet, vars, loadVars
<1>6. ASSUME NEW r \in Requests,
             \/ OpenFile(r) \/ OpenFails(r) \/ StatFile(r) \/ ServeContent(r)
             \/ \E p \in PathSet, x \in 0..clock : Get(r, p, x)
      PROVE  Tables'
  BY <1>1, <1>6 DEF OpenFile, OpenFails, StatFile, ServeContent, Get, loadVars
<1>7. ASSUME NEW p \in PathSet, RemoveFile(p) \/ \E c, m : WriteFile(p, c, m) PROVE Tables'
  BY <1>1, <1>7 DEF RemoveFile, WriteFile, loadVars
<1>. QED
  BY <1>2, <1>3, <1>4, <1>5, <1>6, <1>7 DEF Next, Load

(* What a request knows of its file stays true, whatever becomes of it.    *)
LEMMA AskedKept ==
  ASSUME Directory, Descriptors, [Next]_vars, NEW r \in Requests, NEW q, Asked(r, q),
         \/ UNCHANGED diskVars /\ fds'[r] = fds[r]
         \/ \E p \in PathSet :
              \/ RemoveFile(p)
              \/ \E c \in Contents, m \in Modtimes : WriteFile(p, c, m)
  PROVE  Asked(r, q)'
<1>0. r \in Openers
  BY DEF Openers
<1>1. /\ lagged \subseteq lagged'
      /\ clock \in Nat /\ clock' \in {clock, clock + 1}
  BY DirectoryStep DEF Directory
<1>2. q.pc = "open" => \A e \in {q.entry}, h \in {q.hash} : Faithful(e, h)'
  BY FaithfulKept DEF Asked
<1>3. ASSUME q.pc = "stat"
      PROVE  /\ fds'[r] # Closed /\ fds'[r].path = q.entry.path
             /\ q.entry \in Encodings'
             /\ q.entry.path \notin lagged' /\ File(r)'.modtime = q.entry.modtime
                  => File(r)'.content = q.hash
  <2>1. PICK e : e = q.entry
    OBVIOUS
  <2>2. /\ fds[r] # Closed /\ fds[r].path = e.path
        /\ e \in Encodings
        /\ e.path \notin lagged /\ File(r).modtime = e.modtime => File(r).content = q.hash
    BY <1>3, <2>1 DEF Asked
  <2>3. e \in Encodings' /\ e.modtime \in 1..clock /\ e.modtime # clock + 1
    BY <1>1, <2>2 DEF Encodings
  <2>4. CASE UNCHANGED diskVars /\ fds'[r] = fds[r]
    <3>1. File(r)' = File(r)
      BY <2>4 DEF File, diskVars
    <3>. QED
      BY <1>1, <2>1, <2>2, <2>3, <2>4, <3>1
  <2>5. ASSUME NEW p \in PathSet,
               \/ RemoveFile(p)
               \/ \E c \in Contents, m \in Modtimes : WriteFile(p, c, m)
        PROVE  /\ fds'[r] # Closed /\ fds'[r].path = e.path
               /\ \/ File(r)' = File(r)
                  \/ File(r)'.modtime = clock + 1 \/ e.path \in lagged'
    BY <1>0, <2>2, <2>5, HeldKept
  <2>6. CASE /\ fds'[r] # Closed /\ fds'[r].path = e.path
             /\ \/ File(r)' = File(r)
                \/ File(r)'.modtime = clock + 1 \/ e.path \in lagged'
    BY <1>1, <2>1, <2>2, <2>3, <2>6
  <2>. QED
    BY <2>4, <2>5, <2>6
<1>4. q.pc = "read" =>
        /\ q.check \in {"failed", "modified", "same"}
        /\ q.check = "same" => q.seen = q.hash \/ q.entry.path \in lagged'
  BY <1>1 DEF Asked
<1>. QED
  BY <1>2, <1>3, <1>4 DEF Asked

(* The requests.                                                           *)
LEMMA AnswersStep ==
  ASSUME Directory, Descriptors, Tables, Answers, [Next]_vars
  PROVE  Answers'
<1>t. fds \in [Openers -> {Closed} \cup [path : PathSet, old : {Absent} \cup Files]]
  BY DEF Descriptors
<1>o. Requests \subseteq Openers /\ "load" \notin Requests
  BY StaticAssumption DEF Openers
<1>1. CASE UNCHANGED <<diskVars, req>> /\ \A r \in Requests : fds'[r] = fds[r]
  BY <1>1, AskedKept, Zenon DEF Answers
<1>2. CASE Load
  <2>1. UNCHANGED <<diskVars, req>>
    BY <1>2 DEF Load, StartLoad, OpenStatic, StatStatic, WalkFails, AddStaticFile, LoadDone
  <2>2. \A r \in Requests : fds'[r] = fds[r]
    BY <1>o, <1>t, <1>2
    DEF Load, StartLoad, OpenStatic, StatStatic, WalkFails, AddStaticFile, LoadDone, Opened, Close
  <2>. QED
    BY <1>1, <2>1, <2>2
<1>3. CASE Quiet \/ UNCHANGED vars
  BY <1>1, <1>3 DEF Quiet, vars
<1>4. ASSUME NEW p \in PathSet,
             \/ RemoveFile(p)
             \/ \E c \in Contents, m \in Modtimes : WriteFile(p, c, m)
      PROVE  Answers'
  <2>1. req' = req
    BY <1>4 DEF RemoveFile, WriteFile
  <2>2. \A r \in Requests : \A q \in {req[r]} : Asked(r, q)'
    BY <1>4, AskedKept DEF Answers
  <2>. QED
    BY <2>1, <2>2 DEF Answers
<1>5. ASSUME NEW r \in Requests, NEW q, req' = [req EXCEPT ![r] = q], Asked(r, q)',
             UNCHANGED diskVars, \A x \in Requests \ {r} : fds'[x] = fds[x]
      PROVE  Answers'
  <2>1. DOMAIN req' = Requests /\ req'[r] = q /\ \A x \in Requests \ {r} : req'[x] = req[x]
    BY <1>5 DEF Answers
  <2>2. \A x \in Requests \ {r} : \A a \in {req[x]} : Asked(x, a)'
    BY <1>5, AskedKept DEF Answers
  <2>. QED
    BY <1>5, <2>1, <2>2 DEF Answers
<1>6. ASSUME NEW r \in Requests, NEW n, req' = [req EXCEPT ![r] = Answer(n)],
             UNCHANGED diskVars, \A x \in Requests \ {r} : fds'[x] = fds[x]
      PROVE  Answers'
  <2>1. PICK q : q = Answer(n)
    OBVIOUS
  <2>2. q.pc = "done"
    BY <2>1 DEF Answer
  <2>3. Asked(r, q)'
    BY <2>2 DEF Asked
  <2>. QED
    BY <1>5, <1>6, <2>1, <2>3, Zenon
<1>7. ASSUME NEW r \in Requests, NEW p \in PathSet, NEW x \in 0..clock, Get(r, p, x)
      PROVE  Answers'
  <2>1. UNCHANGED <<diskVars, fds>>
    BY <1>7 DEF Get
  <2>2. ASSUME NEW i \in DOMAIN files[p].encodings, p \in DOMAIN files,
               req' = [req EXCEPT ![r] = [pc |-> "open", hash |-> files[p].hash,
                                          entry |-> files[p].encodings[i]]]
        PROVE  Answers'
    <3>1. PICK info : info = files[p]
      OBVIOUS
    <3>2. Faithful(info.encodings[i], info.hash)'
      BY <2>2, <3>1, FaithfulKept DEF Tables, Infos, Consistent
    <3>3. PICK q : q = [pc |-> "open", hash |-> info.hash, entry |-> info.encodings[i]]
      BY Zenon
    <3>4. q.pc = "open" /\ q.hash = info.hash /\ q.entry = info.encodings[i]
      BY <3>3
    <3>5. Asked(r, q)'
      BY <3>2, <3>4 DEF Asked
    <3>. QED
      BY <1>5, <2>1, <2>2, <3>1, <3>3, <3>5, Zenon
  <2>. QED
    BY <1>6, <1>7, <2>1, <2>2 DEF Get
<1>8. ASSUME NEW r \in Requests, OpenFails(r) \/ ServeContent(r) PROVE Answers'
  BY <1>o, <1>t, <1>6, <1>8 DEF OpenFails, ServeContent, Close
<1>9. ASSUME NEW r \in Requests, OpenFile(r) PROVE Answers'
  <2>1. PICK q, e, h : /\ q = [pc |-> "stat", hash |-> req[r].hash, entry |-> req[r].entry]
                       /\ e = req[r].entry /\ h = req[r].hash
    BY Zenon
  <2>2. /\ req[r].pc = "open" /\ e.path \in Present /\ UNCHANGED diskVars
        /\ req' = [req EXCEPT ![r] = q]
        /\ fds' = [fds EXCEPT ![r] = [path |-> e.path, old |-> Absent]]
    BY <1>9, <2>1 DEF OpenFile, Opened
  <2>3. Faithful(e, h)'
    BY <2>1, <2>2, FaithfulKept DEF Answers, Asked
  <2>4. fds'[r].path = e.path /\ fds'[r].old = Absent
    BY <1>o, <1>t, <2>2
  <2>5. fds'[r] # Closed
    BY <2>2, <2>4, StaticAssumption DEF Closed, Present
  <2>6. File(r)' = disk'[e.path]
    BY <2>4 DEF File
  <2>7. q.pc = "stat" /\ q.hash = h /\ q.entry = e
    BY <2>1
  <2>8. Asked(r, q)'
    BY <2>3, <2>4, <2>5, <2>6, <2>7 DEF Asked, Faithful, Tells
  <2>9. \A x \in Requests \ {r} : fds'[x] = fds[x]
    BY <1>o, <1>t, <2>2
  <2>. QED
    BY <1>5, <2>2, <2>8, <2>9, Zenon
<1>10. ASSUME NEW r \in Requests, StatFile(r) PROVE Answers'
  <2>1. PICK e, h, f : e = req[r].entry /\ h = req[r].hash /\ f = File(r)
    OBVIOUS
  <2>2. PICK c \in {"failed", IF Modified(r) THEN "modified" ELSE "same"} :
          req' = [req EXCEPT ![r] = [pc |-> "read", hash |-> @.hash, entry |-> @.entry,
                                     check |-> c, seen |-> File(r).content]]
    BY <1>10, Zenon DEF StatFile
  <2>3. PICK q : q = [pc |-> "read", hash |-> h, entry |-> e, check |-> c, seen |-> f.content]
    BY Zenon
  <2>4. req[r].pc = "stat" /\ UNCHANGED <<diskVars, fds>> /\ req' = [req EXCEPT ![r] = q]
    BY <1>10, <2>1, <2>2, <2>3, Zenon DEF StatFile
  <2>5. q.pc = "read" /\ q.hash = h /\ q.entry = e /\ q.check = c /\ q.seen = f.content
    BY <2>3
  <2>6. c = "same" => f.content = h \/ e.path \in lagged
    BY <2>1, <2>2, <2>4 DEF Answers, Asked, Modified
  <2>7. c \in {"failed", "modified", "same"}
    BY <2>2
  <2>8. Asked(r, q)'
    BY <2>4, <2>5, <2>6, <2>7 DEF Asked, diskVars
  <2>. QED
    BY <1>5, <2>4, <2>8, Zenon
<1>. QED
  BY <1>2, <1>3, <1>4, <1>7, <1>8, <1>9, <1>10 DEF Next

-----------------------------------------------------------------------------
(* Theorems                                                                *)

(* The directory is empty, and so is the table.                            *)
LEMMA InitIInv == Init => IInv
<1>. SUFFICES ASSUME Init PROVE IInv
  OBVIOUS
<1>1. Directory
  BY StaticAssumption DEF Init, Directory
<1>d. Descriptors /\ Loader
  BY StaticAssumption DEF Init, Descriptors, Loader, Openers
<1>2. Infos(files) = {} /\ Infos(build) = {}
  BY DEF Init, Infos, NoFiles
<1>3. Tables
  BY <1>2 DEF Tables
<1>4. \A r \in Requests : req[r].pc = "idle"
  BY DEF Init, NoRequest
<1>5. Answers
  BY <1>4 DEF Answers, Asked, Init
<1>. QED
  BY <1>1, <1>d, <1>3, <1>5 DEF IInv

(* The invariant is inductive.                                             *)
THEOREM Invariance == Spec => []IInv
<1>1. IInv /\ [Next]_vars => IInv'
  BY DirectoryStep, DescriptorsStep, LoaderStep, TablesStep, AnswersStep DEF IInv
<1>. QED
  BY <1>1, InitIInv, PTL DEF Spec

(* Whatever is written while a load walks the directory, the encodings of  *)
(* a file in a loaded instance hold the same content, the one its hash     *)
(* says, and exactly one of them is the file itself.                       *)
THEOREM EncodingsAgreeAlways == Spec => []EncodingsAgree
<1>1. IInv => EncodingsAgree
  <2>. SUFFICES ASSUME IInv, NEW p \in DOMAIN files
                PROVE  /\ \A i \in DOMAIN files[p].encodings :
                            files[p].encodings[i].content = files[p].hash
                       /\ OneIdentity(files[p].encodings)
    BY DEF EncodingsAgree, OneIdentity
  <2>1. Consistent(files[p])
    BY DEF IInv, Tables, Infos
  <2>. QED
    BY <2>1 DEF Consistent, Faithful
<1>. QED
  BY <1>1, Invariance, PTL

(* The encodings are listed by size: the insertions of one load keep each  *)
(* list sorted.                                                            *)
THEOREM SmallestFirstAlways == Spec => []SmallestFirst
<1>1. IInv => SmallestFirst
  BY DEF IInv, Tables, Infos, Consistent, Sorted, SmallestFirst
<1>. QED
  BY <1>1, Invariance, PTL

(* The handler's warning can be relied on: content that is not that of its *)
(* Etag is sent without one only if the file was changed in place between  *)
(* the Stat and the read, the Stat failed, or the path was given a modtime *)
(* that was not new.  A replacement is always noticed, also one between    *)
(* the Get and the open, and one between the load's Stat and its hash.     *)
THEOREM CheckNoticesStaleAlways == Spec => CheckNoticesStale
<1>1. IInv /\ [Next]_vars =>
        [\A r \in Requests :
           ServeContent(r) /\ File(r).content # req[r].hash =>
             \/ req[r].check = "modified"
             \/ req[r].check = "failed"
             \/ req[r].seen # File(r).content
             \/ req[r].entry.path \in lagged]_vars
  <2>. SUFFICES ASSUME IInv, NEW r \in Requests, ServeContent(r), File(r).content # req[r].hash
                PROVE  \/ req[r].check = "modified"
                       \/ req[r].check = "failed"
                       \/ req[r].seen # File(r).content
                       \/ req[r].entry.path \in lagged
    OBVIOUS
  <2>1. req[r].pc = "read" /\ Asked(r, req[r])
    BY DEF IInv, Answers, ServeContent
  <2>. QED
    BY <2>1, Zenon DEF Asked
<1>. QED
  BY <1>1, Invariance, PTL DEF Spec, CheckNoticesStale
=============================================================================
