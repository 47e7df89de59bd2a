---------------------------- MODULE BuildProofs -----------------------------
(***************************************************************************)
(* Proofs about the construction of an instance, for any number of files   *)
(* and any definitions in them, in every order in which Go's maps may      *)
(* yield these, and however many loads failed before.                      *)
(***************************************************************************)
EXTENDS Build, TLAPS

Defs == Names \cup {Own}

(* Which instance is published and which one Server.cancel cancels: they   *)
(* differ only between the swap of the pointer and the cancellation.       *)
Published ==
  /\ phase \in {"scan", "init", "run"} => current < loads /\ loads \notin cancelled
  /\ phase = "finish" => current = loads /\ cancel < loads
  /\ phase # "finish" => cancel = current

(* The definition of n in file f was added.                                *)
Added(f, n) == f \in Defining(n) /\ (f < file \/ (f = file /\ n \notin toAdd))

(* What the builder holds while it adds the files: the last definition of  *)
(* each name that was added, and the routes of all of them, which differ.  *)
Scanned ==
  phase # "idle" =>
    /\ \A n \in toAdd : file \in Defining(n)
    /\ DOMAIN defs = {n \in Defs : \E f \in Files : Added(f, n)}
    /\ \A f \in Files, n \in DOMAIN defs : defs[n] = f => Added(f, n)
    /\ \A f \in Files, n \in Defs : Added(f, n) => f <= defs[n]
    /\ phase # "scan" => file = NumFiles /\ toAdd = {}

Routed ==
  phase # "idle" =>
    /\ \A f \in Files, n \in Defs :
         Added(f, n) /\ Pattern(f, n) # None => Pattern(f, n) \in routes
    /\ \A p \in routes :
         p # None /\ \E f \in Files, n \in Defs : Added(f, n) /\ p = Pattern(f, n)
    /\ \A f, g \in Files, n, m \in Defs :
         /\ Added(f, n) /\ Added(g, m)
         /\ Pattern(f, n) # None /\ Pattern(f, n) = Pattern(g, m)
         => f = g /\ n = m

(* Every INIT template of the instance is waiting, running or done.        *)
Ran(n) == \E x \in ran : x[1] = loads /\ x[2] = n

Inits ==
  /\ phase # "run" => running = None
  /\ phase \in {"scan", "init"} => \A x \in ran : x[1] # loads
  /\ phase \in {"run", "finish"} =>
       \A n \in InitNames : n \in DOMAIN defs <=> (n \in toRun \/ n = running \/ Ran(n))
  /\ phase = "finish" => toRun = {}

IInv == TypeOK /\ Published /\ Scanned /\ Routed /\ Inits /\ LastDefinitionRuns

-----------------------------------------------------------------------------
(* Types                                                                   *)

(* The parts of the type invariant that one kind of step touches.          *)
InstanceTypes ==
  /\ loads \in 1..MaxLoads + 1
  /\ current \in 1..loads /\ cancel \in 1..loads
  /\ cancelled \subseteq (1..loads) \ {current}
  /\ ran \subseteq (1..loads) \X InitNames \X Files
  /\ nats \subseteq (1..loads) \X (1..NumNats)
  /\ inst \in [Requests -> 0..loads]

BuilderTypes ==
  /\ phase \in {"idle", "scan", "init", "run", "finish"}
  /\ content \in Contents
  /\ file \in 0..NumFiles
  /\ toAdd \subseteq Names \cup {Own}
  /\ DOMAIN defs \subseteq Names \cup {Own} /\ \A n \in DOMAIN defs : defs[n] \in Files
  /\ inited \in 0..NumNats
  /\ toRun \subseteq InitNames /\ running \in InitNames \cup {None}
  /\ rpc \in [Requests -> {"idle", "waiting", "done"}]

(* They are all of it.                                                     *)
LEMMA TypeParts == TypeOK <=> InstanceTypes /\ BuilderTypes
BY DEF TypeOK, InstanceTypes, BuilderTypes

(* A failed load cancels the instance that it was to become, which is not  *)
(* the current one.                                                        *)
LEMMA FailTypes ==
  ASSUME InstanceTypes, BuilderTypes, Published, phase \notin {"idle", "finish"}, Fail
  PROVE  /\ BuilderTypes'
         /\ loads' = loads /\ current' = current /\ cancel' = cancel /\ ran' = ran /\ inst' = inst
         /\ cancelled' \subseteq (1..loads) \ {current}
<1>1. loads \in Nat /\ current \in Nat /\ loads \in 1..loads /\ current < loads
  BY BuildAssumption DEF InstanceTypes, BuilderTypes, Published
<1>2. cancelled' = cancelled \cup {loads}
  BY DEF Fail
<1>3. cancelled' \subseteq (1..loads) \ {current}
  BY <1>1, <1>2 DEF InstanceTypes
<1>4. BuilderTypes'
  BY DEF Fail, BuilderTypes, reqVars
<1>. QED
  BY <1>3, <1>4 DEF Fail, reqVars

(* What an INIT template runs is recorded with the file that defines it.   *)
LEMMA RunningDefined ==
  ASSUME BuilderTypes, Inits, phase = "run", running # None
  PROVE  running \in InitNames /\ running \in DOMAIN defs /\ defs[running] \in Files
BY DEF BuilderTypes, Inits

(* The variables keep their types, and the current instance is never one   *)
(* that was cancelled.                                                     *)
LEMMA TypeStep ==
  ASSUME TypeOK, Published, Scanned, Inits, [Next]_vars
  PROVE  TypeOK'
<1>. USE BuildAssumption DEF buildVars, reqVars
<1>t. InstanceTypes /\ BuilderTypes
  BY TypeParts
<1>. SUFFICES InstanceTypes' /\ BuilderTypes'
  BY DEF TypeOK, InstanceTypes, BuilderTypes
<1>1. CASE Reload
  <2>1. InstanceTypes'
    <3>1. loads \in Nat /\ loads' = loads + 1 /\ loads <= MaxLoads
      BY <1>t, <1>1 DEF Reload, InstanceTypes
    <3>2. 1..loads \subseteq 1..loads' /\ 0..loads \subseteq 0..loads' /\ loads' \in 1..MaxLoads + 1
      BY <3>1
    <3>3. UNCHANGED <<current, cancel, cancelled, ran, nats, inst>>
      BY <1>1 DEF Reload
    <3>. QED
      BY <1>t, <3>2, <3>3 DEF InstanceTypes
  <2>2. BuilderTypes'
    BY <1>t, <1>1 DEF Reload, BuilderTypes, NoDefs
  <2>. QED
    BY <2>1, <2>2
<1>2. CASE Fail /\ UNCHANGED nats /\ phase \notin {"idle", "finish"}
  BY <1>t, <1>2, FailTypes DEF InstanceTypes
<1>3. CASE ReadFile /\ ~Fail
  <2>1. InstanceTypes'
    BY <1>t, <1>3, Zenon DEF ReadFile, InstanceTypes
  <2>2. file' \in Files /\ file' \in 0..NumFiles
    BY <1>t, <1>3 DEF ReadFile, BuilderTypes, Files
  <2>3. content[file'] \subseteq Names
    BY <1>t, <2>2 DEF BuilderTypes, Files
  <2>4. BuilderTypes'
    BY <1>t, <1>3, <2>2, <2>3 DEF ReadFile, BuilderTypes
  <2>. QED
    BY <2>1, <2>4
<1>4. ASSUME NEW n \in toAdd, AddTemplate(n) PROVE InstanceTypes' /\ BuilderTypes'
  <2>1. InstanceTypes'
    BY <1>t, <1>4 DEF AddTemplate, InstanceTypes
  <2>2. file \in Files
    BY <1>4 DEF AddTemplate, Scanned, Defining
  <2>3. BuilderTypes'
    BY <1>t, <1>4, <2>2 DEF AddTemplate, Define, BuilderTypes
  <2>. QED
    BY <2>1, <2>3
<1>5. CASE (ScanDone /\ ~Fail) \/ InitDone \/ (\E n \in toRun : BeginInit(n))
  <2>1. UNCHANGED <<loads, current, cancel, cancelled, ran, nats, inst>>
    BY <1>5 DEF ScanDone, InitDone, BeginInit
  <2>2. BuilderTypes'
    BY <1>t, <1>5 DEF ScanDone, InitDone, BeginInit, BuilderTypes
  <2>. QED
    BY <1>t, <2>1, <2>2 DEF InstanceTypes
<1>6. CASE InitNats
  <2>1. /\ loads \in Nat /\ loads \in 1..loads
        /\ inited + 1 \in 1..NumNats /\ inited + 1 \in 0..NumNats
        /\ phase = "init"
    BY <1>t, <1>6 DEF InitNats, InstanceTypes, BuilderTypes
  <2>2. nats' \subseteq (1..loads) \X (1..NumNats)
    BY <1>t, <1>6, <2>1 DEF InitNats, InstanceTypes
  <2>3. CASE Fail
    BY <1>t, <2>1, <2>2, <2>3, FailTypes DEF InstanceTypes
  <2>4. CASE ~Fail
    <3>1. InstanceTypes'
      BY <1>t, <1>6, <2>2, <2>4, Zenon DEF InitNats, InstanceTypes
    <3>2. BuilderTypes'
      BY <1>t, <1>6, <2>1, <2>4 DEF InitNats, BuilderTypes
    <3>. QED
      BY <3>1, <3>2
  <2>. QED
    BY <2>3, <2>4
<1>7. CASE EndInit /\ ~Fail
  <2>1. /\ running \in InitNames /\ defs[running] \in Files
        /\ loads \in Nat /\ loads \in 1..loads
    BY <1>t, <1>7, RunningDefined DEF EndInit, InstanceTypes
  <2>2. ran' \subseteq (1..loads) \X InitNames \X Files
    BY <1>t, <1>7, <2>1 DEF EndInit, InstanceTypes
  <2>3. InstanceTypes'
    BY <1>t, <1>7, <2>2, Zenon DEF EndInit, InstanceTypes
  <2>4. BuilderTypes'
    BY <1>t, <1>7 DEF EndInit, BuilderTypes
  <2>. QED
    BY <2>3, <2>4
<1>8. CASE Publish
  <2>1. loads \in Nat /\ loads \in 1..loads /\ current < loads /\ cancelled \subseteq 1..loads
    BY <1>t, <1>8 DEF Publish, Published, InstanceTypes
  <2>2. loads \notin cancelled
    BY <1>8 DEF Publish, Published
  <2>3. InstanceTypes'
    BY <1>t, <1>8, <2>1, <2>2 DEF Publish, InstanceTypes
  <2>4. BuilderTypes'
    BY <1>t, <1>8 DEF Publish, BuilderTypes
  <2>. QED
    BY <2>3, <2>4
<1>9. CASE CancelOld
  <2>1. loads \in Nat /\ loads \in 1..loads /\ cancel \in Nat /\ cancel \in 1..loads
        /\ cancel < loads /\ current = loads
    BY <1>t, <1>9 DEF CancelOld, Published, InstanceTypes
  <2>2. InstanceTypes'
    BY <1>t, <1>9, <2>1 DEF CancelOld, InstanceTypes
  <2>3. BuilderTypes'
    BY <1>t, <1>9 DEF CancelOld, BuilderTypes
  <2>. QED
    BY <2>2, <2>3
<1>10. ASSUME NEW i \in 1..loads, NEW k \in 1..NumNats, Shutdown(i, k)
       PROVE  InstanceTypes' /\ BuilderTypes'
  BY <1>t, <1>10 DEF Shutdown, InstanceTypes, BuilderTypes
<1>11. ASSUME NEW r \in Requests, Query(r) \/ StopSeen(r) \/ ClientGone(r)
       PROVE  InstanceTypes' /\ BuilderTypes'
  <2>1. current \in 0..loads
    BY <1>t DEF InstanceTypes
  <2>2. InstanceTypes'
    BY <1>t, <1>11, <2>1, Zenon DEF Query, StopSeen, ClientGone, InstanceTypes
  <2>3. BuilderTypes'
    BY <1>t, <1>11 DEF Query, StopSeen, ClientGone, BuilderTypes
  <2>. QED
    BY <2>2, <2>3
<1>12. CASE UNCHANGED vars
  BY <1>t, <1>12 DEF vars, InstanceTypes, BuilderTypes
<1>. QED
  BY <1>1, <1>2, <1>3, <1>4, <1>5, <1>6, <1>7, <1>8, <1>9, <1>10, <1>11, <1>12
  DEF Next, Instance, ReadFile, RouteConflict, ScanDone, EndInit, Quiet

-----------------------------------------------------------------------------
(* The other conjuncts                                                     *)

(* The pointer is swapped before the old instance is cancelled, and no     *)
(* other step changes either.                                              *)
LEMMA PublishedStep ==
  ASSUME TypeOK, Published, [Next]_vars
  PROVE  Published'
<1>. USE DEF buildVars, reqVars
<1>t. /\ phase \in {"idle", "scan", "init", "run", "finish"}
      /\ loads \in Nat /\ current \in 1..loads /\ cancel \in 1..loads
      /\ cancelled \subseteq (1..loads) \ {current}
  BY BuildAssumption DEF TypeOK
<1>1. CASE Reload
  <2>1. loads + 1 \notin cancelled /\ current < loads + 1
    BY <1>t
  <2>. QED
    BY <1>1, <2>1 DEF Reload, Published
<1>2. CASE Fail /\ phase # "finish"
  BY <1>2 DEF Fail, Published
<1>3. CASE \/ ~Fail /\ (ReadFile \/ ScanDone \/ InitNats \/ EndInit)
           \/ InitDone \/ \E n \in toRun : BeginInit(n)
  BY <1>3 DEF ReadFile, ScanDone, InitNats, InitDone, EndInit, BeginInit, Published
<1>4. CASE Publish
  BY <1>t, <1>4 DEF Publish, Published
<1>5. CASE CancelOld
  BY <1>t, <1>5 DEF CancelOld, Published
<1>6. ASSUME NEW n \in toAdd, AddTemplate(n) PROVE Published'
  BY <1>6 DEF AddTemplate, Published
<1>7. ASSUME NEW i \in 1..loads, NEW k \in 1..NumNats, Shutdown(i, k) PROVE Published'
  BY <1>7 DEF Shutdown, Published
<1>8. ASSUME NEW r \in Requests, Query(r) \/ StopSeen(r) \/ ClientGone(r) PROVE Published'
  BY <1>8 DEF Query, StopSeen, ClientGone, Published
<1>9. CASE UNCHANGED vars
  BY <1>9 DEF vars, Published
<1>10. CASE Fail /\ (ReadFile \/ ScanDone \/ InitNats \/ EndInit \/
                     \E n \in toAdd : RouteConflict(n))
  BY <1>2, <1>10 DEF ReadFile, ScanDone, InitNats, EndInit, RouteConflict, Published
<1>11. ASSUME NEW n \in toAdd, RouteConflict(n) PROVE Fail
  BY <1>11 DEF RouteConflict
<1>. QED
  BY <1>1, <1>3, <1>4, <1>5, <1>6, <1>7, <1>8, <1>9, <1>10, <1>11 DEF Next, Instance, Quiet

(* Nothing that was added is added again by the next file.                 *)
LEMMA ReadFileAdded ==
  ASSUME TypeOK, Scanned, ReadFile, ~Fail
  PROVE  /\ \A f \in Files, n \in Defs : Added(f, n)' <=> Added(f, n)
         /\ \A n \in toAdd' : (file \in Defining(n))'
<1>1. /\ phase = "scan" /\ toAdd = {} /\ file \in Nat /\ file' = file + 1 /\ file' \in Files
      /\ toAdd' = content[file'] \cup {Own}
      /\ content' = content
  BY BuildAssumption DEF ReadFile, TypeOK, Files
<1>2. \A n : Defining(n)' = Defining(n)
  BY <1>1 DEF Defining
<1>3. \A n : n \in toAdd' <=> file' \in Defining(n)
  BY <1>1 DEF Defining
<1>4. \A f \in Files : f \in Nat
  BY BuildAssumption DEF Files
<1>5. ASSUME NEW f \in Files, NEW n \in Defs PROVE Added(f, n)' <=> Added(f, n)
  <2>1. Added(f, n) <=> f \in Defining(n) /\ (f < file \/ f = file)
    BY <1>1 DEF Added
  <2>2. Added(f, n)' <=> f \in Defining(n) /\ (f < file' \/ (f = file' /\ n \notin toAdd'))
    BY <1>2 DEF Added
  <2>3. f < file' <=> f < file \/ f = file
    BY <1>1, <1>4
  <2>. QED
    BY <1>3, <2>1, <2>2, <2>3
<1>. QED
  BY <1>2, <1>3, <1>5

(* One more definition was added.                                          *)
LEMMA AddTemplateAdded ==
  ASSUME TypeOK, Scanned, NEW m \in toAdd, AddTemplate(m)
  PROVE  /\ file \in Files /\ m \in Defs /\ ~Added(file, m) /\ phase = "scan"
         /\ \A f \in Files, n \in Defs : Added(f, n)' <=> (Added(f, n) \/ (f = file /\ n = m))
         /\ \A f \in Files, n \in Defs : Added(f, n) => f <= file
         /\ \A n \in toAdd' : (file \in Defining(n))'
<1>1. phase = "scan" /\ UNCHANGED <<content, file>> /\ toAdd' = toAdd \ {m} /\ m \in Defs
  BY DEF AddTemplate, TypeOK, Defs
<1>2. file \in Defining(m) /\ file \in Files /\ file \in Nat
  BY <1>1, BuildAssumption DEF Scanned, Defining, TypeOK
<1>3. \A n : Defining(n)' = Defining(n)
  BY <1>1 DEF Defining
<1>4. \A f \in Files : f \in Nat
  BY BuildAssumption DEF Files
<1>5. \A f \in Files, n \in Defs : Added(f, n)' <=> (Added(f, n) \/ (f = file /\ n = m))
  BY <1>1, <1>2, <1>3, <1>4 DEF Added
<1>6. \A n \in toAdd' : (file \in Defining(n))'
  BY <1>1, <1>3 DEF Scanned
<1>. QED
  BY <1>1, <1>2, <1>4, <1>5, <1>6 DEF Added

(* The other steps of a load leave what was added.                         *)
LEMMA SameAdded ==
  ASSUME UNCHANGED <<content, file, toAdd>>
  PROVE  /\ \A f \in Files, n \in Defs : Added(f, n)' <=> Added(f, n)
         /\ \A n : Defining(n)' = Defining(n)
BY DEF Added, Defining

(* A definition that is added replaces those of earlier files.             *)
LEMMA ScannedStep ==
  ASSUME TypeOK, Scanned, [Next]_vars
  PROVE  Scanned'
<1>. USE DEF buildVars, reqVars
<1>t. /\ file \in Nat /\ (\A f \in Files : f \in Nat)
      /\ DOMAIN defs \subseteq Defs /\ \A n \in DOMAIN defs : defs[n] \in Files
  BY BuildAssumption DEF TypeOK, Files, Defs
<1>1. CASE Reload
  <2>1. file' = 0 /\ toAdd' = {} /\ DOMAIN defs' = {} /\ phase' = "scan"
    BY <1>1 DEF Reload, NoDefs
  <2>2. \A f \in Files, n \in Defs : ~Added(f, n)'
    BY <2>1 DEF Added, Defining, Files
  <2>. QED
    BY <2>1, <2>2 DEF Scanned
<1>2. CASE phase' = "idle"
  BY <1>2 DEF Scanned
<1>3. CASE ReadFile /\ ~Fail
  <2>1. phase = "scan" /\ phase' = "scan" /\ defs' = defs
    BY <1>3 DEF ReadFile
  <2>2. /\ \A f \in Files, n \in Defs : Added(f, n)' <=> Added(f, n)
        /\ \A n \in toAdd' : (file \in Defining(n))'
    BY <1>3, ReadFileAdded
  <2>. QED
    BY <1>t, <2>1, <2>2 DEF Scanned
<1>4. ASSUME NEW m \in toAdd, AddTemplate(m) PROVE Scanned'
  <2>1. /\ file \in Files /\ m \in Defs /\ phase = "scan"
        /\ \A f \in Files, n \in Defs : Added(f, n)' <=> (Added(f, n) \/ (f = file /\ n = m))
        /\ \A f \in Files, n \in Defs : Added(f, n) => f <= file
        /\ \A n \in toAdd' : (file \in Defining(n))'
    BY <1>4, AddTemplateAdded
  <2>2. phase' = "scan" /\ DOMAIN defs' = DOMAIN defs \cup {m} /\ defs'[m] = file
        /\ \A n \in DOMAIN defs \ {m} : defs'[n] = defs[n]
    BY <1>4 DEF AddTemplate, Define
  <2>3. DOMAIN defs' = {n \in Defs : \E f \in Files : Added(f, n)'}
    BY <1>t, <2>1, <2>2 DEF Scanned
  <2>4. \A f \in Files, n \in DOMAIN defs' : defs'[n] = f => Added(f, n)'
    BY <1>t, <2>1, <2>2 DEF Scanned
  <2>5. \A f \in Files, n \in Defs : Added(f, n)' => f <= defs'[n]
    <3>1. \A f \in Files : Added(f, m)' => f <= file
      BY <1>t, <2>1
    <3>2. \A f \in Files, n \in Defs \ {m} : Added(f, n)' => n \in DOMAIN defs /\ f <= defs[n]
      BY <2>1 DEF Scanned
    <3>. QED
      BY <2>2, <3>1, <3>2
  <2>. QED
    BY <2>1, <2>2, <2>3, <2>4, <2>5 DEF Scanned
<1>5. CASE /\ UNCHANGED <<content, file, toAdd, defs>>
           /\ phase' # "idle" /\ phase # "idle"
           /\ phase' = phase \/ phase # "scan" \/ (file = NumFiles /\ toAdd = {})
           /\ phase' = "scan" => phase = "scan"
  <2>1. /\ \A f \in Files, n \in Defs : Added(f, n)' <=> Added(f, n)
        /\ \A n : Defining(n)' = Defining(n)
    BY <1>5, SameAdded
  <2>. QED
    BY <1>t, <1>5, <2>1 DEF Scanned
<1>6. CASE Fail
  BY <1>2, <1>6 DEF Fail
<1>7. CASE ~Fail /\ (ScanDone \/ InitNats \/ InitDone \/ EndInit \/ Publish \/
                     \E n \in toRun : BeginInit(n))
  BY <1>5, <1>7 DEF ScanDone, InitNats, InitDone, EndInit, Publish, BeginInit
<1>8. CASE CancelOld
  BY <1>2, <1>8 DEF CancelOld
<1>9. CASE UNCHANGED <<phase, content, file, toAdd, defs>>
  BY <1>2, <1>5, <1>9
<1>10. ASSUME NEW i \in 1..loads, NEW k \in 1..NumNats, Shutdown(i, k) PROVE Scanned'
  BY <1>9, <1>10 DEF Shutdown
<1>11. ASSUME NEW r \in Requests, Query(r) \/ StopSeen(r) \/ ClientGone(r) PROVE Scanned'
  BY <1>9, <1>11 DEF Query, StopSeen, ClientGone
<1>12. CASE UNCHANGED vars
  BY <1>9, <1>12 DEF vars
<1>13. ASSUME NEW n \in toAdd, RouteConflict(n) PROVE Fail
  BY <1>13 DEF RouteConflict
<1>. QED
  BY <1>1, <1>3, <1>4, <1>6, <1>7, <1>8, <1>10, <1>11, <1>12, <1>13 DEF Next, Instance, Quiet

(* A route is registered with its definition, or else the load fails.      *)
LEMMA RoutedStep ==
  ASSUME TypeOK, Scanned, Routed, [Next]_vars
  PROVE  Routed'
<1>. USE DEF buildVars, reqVars
<1>1. CASE Reload
  <2>1. file' = 0 /\ toAdd' = {} /\ routes' = {}
    BY <1>1 DEF Reload
  <2>2. \A f \in Files, n \in Defs : ~Added(f, n)'
    BY <2>1, BuildAssumption DEF Added, Defining, Files
  <2>. QED
    BY <2>1, <2>2 DEF Routed
<1>2. CASE phase' = "idle"
  BY <1>2 DEF Routed
<1>3. CASE ReadFile /\ ~Fail
  <2>1. phase # "idle" /\ routes' = routes
    BY <1>3 DEF ReadFile
  <2>2. \A f \in Files, n \in Defs : Added(f, n)' <=> Added(f, n)
    BY <1>3, ReadFileAdded
  <2>. QED
    BY <2>1, <2>2 DEF Routed
<1>4. ASSUME NEW m \in toAdd, AddTemplate(m) PROVE Routed'
  <2>1. /\ file \in Files /\ m \in Defs /\ phase # "idle"
        /\ \A f \in Files, n \in Defs : Added(f, n)' <=> (Added(f, n) \/ (f = file /\ n = m))
    BY <1>4, AddTemplateAdded
  <2>. DEFINE new == Pattern(file, m)
  <2>2. /\ new # None => new \notin routes
        /\ \A p : p \in routes' <=> (p \in routes \/ (p = new /\ new # None))
    BY <1>4 DEF AddTemplate, RouteIsFree, Route
  <2>. HIDE DEF new
  <2>3. \A f \in Files, n \in Defs : (Added(f, n) /\ Pattern(f, n) # None) => Pattern(f, n) # new
    BY <2>1, <2>2 DEF Routed
  <2>4. \A f \in Files, n \in Defs :
          Added(f, n)' /\ Pattern(f, n) # None => Pattern(f, n) \in routes'
    BY <2>1, <2>2 DEF Routed, new
  <2>5. \A p \in routes' :
          p # None /\ \E f \in Files, n \in Defs : Added(f, n)' /\ p = Pattern(f, n)
    BY <2>1, <2>2 DEF Routed, new
  <2>6. \A f, g \in Files, n, k \in Defs :
          /\ Added(f, n)' /\ Added(g, k)'
          /\ Pattern(f, n) # None /\ Pattern(f, n) = Pattern(g, k)
          => f = g /\ n = k
    BY <2>1, <2>3 DEF Routed, new
  <2>. QED
    BY <2>4, <2>5, <2>6 DEF Routed
<1>5. CASE UNCHANGED <<content, file, toAdd, routes>> /\ phase # "idle"
  <2>1. \A f \in Files, n \in Defs : Added(f, n)' <=> Added(f, n)
    BY <1>5, SameAdded
  <2>. QED
    BY <1>5, <2>1 DEF Routed
<1>6. CASE Fail
  BY <1>2, <1>6 DEF Fail
<1>7. CASE ~Fail /\ (ScanDone \/ InitNats \/ InitDone \/ EndInit \/ Publish \/
                     \E n \in toRun : BeginInit(n))
  BY <1>5, <1>7 DEF ScanDone, InitNats, InitDone, EndInit, Publish, BeginInit
<1>8. CASE CancelOld
  BY <1>2, <1>8 DEF CancelOld
<1>9. CASE UNCHANGED <<phase, content, file, toAdd, routes>>
  BY <1>2, <1>5, <1>9
<1>10. ASSUME NEW i \in 1..loads, NEW k \in 1..NumNats, Shutdown(i, k) PROVE Routed'
  BY <1>9, <1>10 DEF Shutdown
<1>11. ASSUME NEW r \in Requests, Query(r) \/ StopSeen(r) \/ ClientGone(r) PROVE Routed'
  BY <1>9, <1>11 DEF Query, StopSeen, ClientGone
<1>12. CASE UNCHANGED vars
  BY <1>9, <1>12 DEF vars
<1>13. ASSUME NEW n \in toAdd, RouteConflict(n) PROVE Fail
  BY <1>13 DEF RouteConflict
<1>. QED
  BY <1>1, <1>3, <1>4, <1>6, <1>7, <1>8, <1>10, <1>11, <1>12, <1>13 DEF Next, Instance, Quiet

(* Every INIT template leaves the list when it begins and is recorded when *)
(* it ends; if it fails the load is over.                                  *)
LEMMA InitsStep ==
  ASSUME TypeOK, Inits, [Next]_vars
  PROVE  Inits'
<1>. USE DEF buildVars, reqVars
<1>t. /\ phase \in {"idle", "scan", "init", "run", "finish"}
      /\ toRun \subseteq InitNames /\ running \in InitNames \cup {None} /\ None \notin InitNames
      /\ loads \in Nat /\ \A x \in ran : x[1] \in 1..loads
  BY BuildAssumption DEF TypeOK
<1>1. CASE Reload
  <2>1. phase = "idle" /\ phase' = "scan" /\ UNCHANGED <<running, ran>> /\ loads' = loads + 1
    BY <1>1 DEF Reload
  <2>2. \A x \in ran : x[1] # loads + 1
    BY <1>t
  <2>. QED
    BY <2>1, <2>2 DEF Inits
<1>2. CASE Fail
  BY <1>2 DEF Fail, Inits
<1>3. CASE ~Fail /\ (ReadFile \/ ScanDone \/ InitNats)
  BY <1>3 DEF ReadFile, ScanDone, InitNats, Inits
<1>4. ASSUME NEW n \in toAdd, AddTemplate(n) PROVE Inits'
  BY <1>4 DEF AddTemplate, Inits
<1>5. CASE InitDone
  <2>1. /\ phase = "init" /\ phase' = "run" /\ toRun' = InitNames \cap DOMAIN defs
        /\ UNCHANGED <<loads, defs, running, ran>>
    BY <1>5 DEF InitDone
  <2>2. \A n : ~Ran(n)'
    BY <2>1 DEF Inits, Ran
  <2>. QED
    BY <1>t, <2>1, <2>2 DEF Inits
<1>6. ASSUME NEW n \in toRun, BeginInit(n) PROVE Inits'
  <2>1. /\ phase = "run" /\ phase' = "run" /\ running = None /\ running' = n
        /\ toRun' = toRun \ {n}
        /\ UNCHANGED <<loads, defs, ran>>
    BY <1>6 DEF BeginInit
  <2>2. \A k : Ran(k)' <=> Ran(k)
    BY <2>1 DEF Ran
  <2>. QED
    BY <1>t, <2>1, <2>2 DEF Inits
<1>7. CASE EndInit /\ ~Fail
  <2>1. /\ phase = "run" /\ phase' = "run" /\ running # None /\ running' = None
        /\ ran' = ran \cup {<<loads, running, defs[running]>>}
        /\ UNCHANGED <<loads, defs, toRun>>
    BY <1>7 DEF EndInit
  <2>2. \A k : Ran(k)' <=> (Ran(k) \/ k = running)
    <3>. DEFINE y == <<loads, running, defs[running]>>
    <3>1. y[1] = loads /\ y[2] = running /\ ran' = ran \cup {y} /\ loads' = loads
      BY <2>1
    <3>. HIDE DEF y
    <3>. QED
      BY <3>1 DEF Ran
  <2>. QED
    BY <1>t, <2>1, <2>2 DEF Inits
<1>8. CASE Publish
  <2>1. /\ phase = "run" /\ phase' = "finish" /\ running = None /\ toRun = {}
        /\ UNCHANGED <<loads, defs, toRun, running, ran>>
    BY <1>8 DEF Publish
  <2>2. \A k : Ran(k)' <=> Ran(k)
    BY <2>1 DEF Ran
  <2>. QED
    BY <2>1, <2>2 DEF Inits
<1>9. CASE CancelOld
  BY <1>9 DEF CancelOld, Inits
<1>10. CASE UNCHANGED <<phase, loads, defs, toRun, running, ran>>
  <2>1. \A k : Ran(k)' <=> Ran(k)
    BY <1>10 DEF Ran
  <2>. QED
    BY <1>10, <2>1 DEF Inits
<1>11. ASSUME NEW i \in 1..loads, NEW k \in 1..NumNats, Shutdown(i, k) PROVE Inits'
  BY <1>10, <1>11 DEF Shutdown
<1>12. ASSUME NEW r \in Requests, Query(r) \/ StopSeen(r) \/ ClientGone(r) PROVE Inits'
  BY <1>10, <1>12 DEF Query, StopSeen, ClientGone
<1>13. CASE UNCHANGED vars
  BY <1>10, <1>13 DEF vars
<1>14. ASSUME NEW n \in toAdd, RouteConflict(n) PROVE Fail
  BY <1>14 DEF RouteConflict
<1>. QED
  BY <1>1, <1>2, <1>3, <1>4, <1>5, <1>6, <1>7, <1>8, <1>9, <1>11, <1>12, <1>13, <1>14
  DEF Next, Instance, Quiet

(* What an INIT template's record says stays true of its load, and the     *)
(* next load begins without records.                                       *)
LEMMA LastStep ==
  ASSUME TypeOK, Scanned, Inits, LastDefinitionRuns, [Next]_vars
  PROVE  LastDefinitionRuns'
<1>. USE DEF buildVars, reqVars
<1>t. loads \in Nat /\ \A x \in ran : x[1] \in 1..loads
  BY BuildAssumption DEF TypeOK
<1>1. CASE \A x \in ran' : x[1] # loads'
  BY <1>1 DEF LastDefinitionRuns
<1>2. CASE Reload
  <2>1. ran' = ran /\ loads' = loads + 1
    BY <1>2 DEF Reload
  <2>. QED
    BY <1>t, <1>1, <2>1
<1>3. CASE phase \in {"scan", "init"} /\ UNCHANGED <<loads, ran>>
  BY <1>1, <1>3 DEF Inits
<1>4. CASE UNCHANGED <<loads, content, file, toAdd, ran>>
  <2>1. \A n : Defining(n)' = Defining(n)
    BY <1>4 DEF Defining
  <2>. QED
    BY <1>4, <2>1 DEF LastDefinitionRuns
<1>5. CASE EndInit /\ ~Fail
  <2>. DEFINE y == <<loads, running, defs[running]>>
  <2>1. y[1] = loads /\ y[2] = running /\ y[3] = defs[running] /\ ran' = ran \cup {y}
    BY <1>5 DEF EndInit
  <2>2. phase = "run" /\ UNCHANGED <<loads, content, file, toAdd>>
    BY <1>5 DEF EndInit
  <2>3. \A n : Defining(n)' = Defining(n)
    BY <2>2 DEF Defining
  <2>4. running \in InitNames /\ running \in DOMAIN defs /\ running \in Defs /\ defs[running] \in Files
    BY <1>5, BuildAssumption, TypeParts, RunningDefined DEF EndInit, Defs
  <2>5. file = NumFiles /\ toAdd = {}
    BY <2>2 DEF Scanned
  <2>6. Added(defs[running], running) /\ defs[running] \in Defining(running)
    BY <2>2, <2>4 DEF Scanned, Added
  <2>7. \A f \in Defining(running) : f \in Files /\ Added(f, running)
    BY <2>5, BuildAssumption DEF Added, Defining, Files
  <2>8. \A f \in Defining(running) : f <= defs[running]
    BY <2>2, <2>4, <2>7 DEF Scanned
  <2>. HIDE DEF y
  <2>. QED
    BY <2>1, <2>2, <2>3, <2>5, <2>6, <2>8 DEF LastDefinitionRuns
<1>6. CASE Fail
  BY <1>4, <1>6 DEF Fail
<1>7. CASE ~Fail /\ ReadFile
  BY <1>3, <1>7 DEF ReadFile
<1>8. ASSUME NEW n \in toAdd, AddTemplate(n) PROVE LastDefinitionRuns'
  BY <1>3, <1>8 DEF AddTemplate
<1>9. CASE ~Fail /\ (ScanDone \/ InitNats \/ InitDone \/ Publish \/ CancelOld \/
                     \E n \in toRun : BeginInit(n))
  BY <1>4, <1>9 DEF ScanDone, InitNats, InitDone, Publish, CancelOld, BeginInit
<1>10. ASSUME NEW i \in 1..loads, NEW k \in 1..NumNats, Shutdown(i, k) PROVE LastDefinitionRuns'
  BY <1>4, <1>10 DEF Shutdown
<1>11. ASSUME NEW r \in Requests, Query(r) \/ StopSeen(r) \/ ClientGone(r)
       PROVE  LastDefinitionRuns'
  BY <1>4, <1>11 DEF Query, StopSeen, ClientGone
<1>12. CASE UNCHANGED vars
  BY <1>4, <1>12 DEF vars
<1>13. ASSUME NEW n \in toAdd, RouteConflict(n) PROVE Fail
  BY <1>13 DEF RouteConflict
<1>. QED
  BY <1>2, <1>5, <1>6, <1>7, <1>8, <1>9, <1>10, <1>11, <1>12, <1>13 DEF Next, Instance, Quiet

-----------------------------------------------------------------------------
(* Theorems                                                                *)

(* The first instance was loaded, and no INIT template is recorded.        *)
LEMMA InitIInv == Init => IInv
<1>. SUFFICES ASSUME Init PROVE IInv
  OBVIOUS
<1>1. 1 \in 1..MaxLoads + 1 /\ 1 \in 1..1 /\ 0 \in 0..1 /\ NumFiles \in 0..NumFiles /\ 0 \in 0..NumNats
  BY BuildAssumption
<1>2. InstanceTypes
  BY <1>1 DEF Init, InstanceTypes
<1>3. BuilderTypes
  BY <1>1 DEF Init, BuilderTypes, NoDefs
<1>4. TypeOK
  BY <1>2, <1>3, TypeParts
<1>5. Published /\ Scanned /\ Routed /\ Inits /\ LastDefinitionRuns
  BY DEF Init, Published, Scanned, Routed, Inits, LastDefinitionRuns
<1>. QED
  BY <1>4, <1>5 DEF IInv

(* Every step preserves it.                                                *)
LEMMA NextIInv == IInv /\ [Next]_vars => IInv'
BY TypeStep, PublishedStep, ScannedStep, RoutedStep, InitsStep, LastStep DEF IInv

(* The conjuncts together are inductive.                                   *)
THEOREM Invariance == Spec => []IInv
BY InitIInv, NextIInv, PTL DEF Spec

(* Types; and Server.cancel never ends the instance that serves requests.  *)
THEOREM TypeCorrect == Spec => []TypeOK
<1>1. IInv => TypeOK
  BY DEF IInv
<1>. QED
  BY <1>1, Invariance, PTL

(* An INIT template that took effect is the one of the last file that      *)
(* defines it, in a load that added all files.                             *)
THEOREM LastDefinitionRunsAlways == Spec => []LastDefinitionRuns
<1>1. IInv => LastDefinitionRuns
  BY DEF IInv
<1>. QED
  BY <1>1, Invariance, PTL

(* No instance is published before the work of each of its INIT templates  *)
(* was committed.                                                          *)
THEOREM InitsBeforePublishAlways == Spec => []InitsBeforePublish
<1>1. ASSUME IInv PROVE InitsBeforePublish
  <2>. SUFFICES ASSUME phase = "finish"
                PROVE  {x[2] : x \in {y \in ran : y[1] = loads}} =
                         InitNames \cap UNION {content[f] : f \in Files}
    BY DEF InitsBeforePublish
  <2>1. \A x \in ran : x[2] \in InitNames
    BY <1>1 DEF IInv, TypeOK
  <2>2. running = None /\ toRun = {} /\ None \notin InitNames
    BY <1>1, BuildAssumption DEF IInv, Inits
  <2>3. \A n \in InitNames : n \in DOMAIN defs <=> Ran(n)
    BY <1>1, <2>2 DEF IInv, Inits
  <2>4. \A f \in Files, n \in Defs : Added(f, n) <=> f \in Defining(n)
    BY <1>1, BuildAssumption DEF IInv, Scanned, Added, Files
  <2>5. \A n \in InitNames : n \in Defs /\ n # Own
    BY BuildAssumption DEF Defs
  <2>6. \A n \in InitNames : n \in DOMAIN defs <=> \E f \in Files : n \in content[f]
    BY <1>1, <2>4, <2>5 DEF IInv, Scanned, Defining
  <2>7. \A n : n \in {x[2] : x \in {y \in ran : y[1] = loads}} <=> Ran(n)
    BY DEF Ran
  <2>8. \A n : n \in UNION {content[f] : f \in Files} <=> \E f \in Files : n \in content[f]
    OBVIOUS
  <2>9. \A n : Ran(n) => n \in InitNames
    BY <2>1 DEF Ran
  <2>. QED
    BY <2>3, <2>6, <2>7, <2>8, <2>9
<1>. QED
  BY <1>1, Invariance, PTL

(* No instance is published with two definitions of one route, or without  *)
(* one of its routes.                                                      *)
THEOREM RoutesCompleteAlways == Spec => []RoutesComplete
<1>1. ASSUME IInv PROVE RoutesComplete
  <2>. DEFINE routed == {x \in Files \X (Names \cup {Own}) :
                           x[1] \in Defining(x[2]) /\ Pattern(x[1], x[2]) # None}
  <2>. SUFFICES ASSUME phase = "finish"
                PROVE  /\ routes = {Pattern(x[1], x[2]) : x \in routed}
                       /\ \A x, y \in routed : Pattern(x[1], x[2]) = Pattern(y[1], y[2]) => x = y
    BY DEF RoutesComplete
  <2>1. \A f \in Files, n \in Defs : Added(f, n) <=> f \in Defining(n)
    BY <1>1, BuildAssumption DEF IInv, Scanned, Added, Files
  <2>2. \A x \in routed : /\ x = <<x[1], x[2]>> /\ x[1] \in Files /\ x[2] \in Defs
                          /\ Added(x[1], x[2]) /\ Pattern(x[1], x[2]) # None
    BY <2>1 DEF Defs
  <2>3. \A f \in Files, n \in Defs : Added(f, n) /\ Pattern(f, n) # None => <<f, n>> \in routed
    BY <2>1 DEF Defs
  <2>4. \A x, y \in routed : Pattern(x[1], x[2]) = Pattern(y[1], y[2]) => x = y
    <3>. SUFFICES ASSUME NEW x \in routed, NEW y \in routed, Pattern(x[1], x[2]) = Pattern(y[1], y[2])
                  PROVE  x = y
      OBVIOUS
    <3>1. x[1] = y[1] /\ x[2] = y[2]
      BY <1>1, <2>2 DEF IInv, Routed
    <3>. QED
      BY <2>2, <3>1
  <2>5. \A p \in routes : \E x \in routed : p = Pattern(x[1], x[2])
    <3>. SUFFICES ASSUME NEW p \in routes PROVE \E x \in routed : p = Pattern(x[1], x[2])
      OBVIOUS
    <3>1. PICK f \in Files, n \in Defs : Added(f, n) /\ p = Pattern(f, n) /\ p # None
      BY <1>1 DEF IInv, Routed
    <3>2. <<f, n>> \in routed /\ <<f, n>>[1] = f /\ <<f, n>>[2] = n
      BY <2>3, <3>1
    <3>. QED
      BY <3>1, <3>2
  <2>6. \A x \in routed : Pattern(x[1], x[2]) \in routes
    BY <1>1, <2>2 DEF IInv, Routed
  <2>. HIDE DEF routed
  <2>. QED
    BY <2>4, <2>5, <2>6
<1>. QED
  BY <1>1, Invariance, PTL
-----------------------------------------------------------------------------
(* What is left of instances                                               *)

(* Every NATS server belongs to an instance that is current, is being      *)
(* built, or whose context is or will be cancelled; likewise every waiting *)
(* request.  A request that has not begun has no instance.                 *)
Accounted ==
  /\ \A x \in nats :
       \/ x[1] \in cancelled \cup {current, cancel}
       \/ x[1] = loads /\ phase \in {"init", "run"}
  /\ \A r \in Requests : rpc[r] = "waiting" => inst[r] \in cancelled \cup {current, cancel}
  /\ \A r \in Requests : rpc[r] = "idle" => inst[r] = 0

(* A load that fails cancels its instance, with the servers it started, at *)
(* whatever step it fails.                                                 *)
LEMMA FailAccounted ==
  ASSUME TypeOK, Accounted, Fail, phase \notin {"idle", "finish"},
         \A x \in nats' : x \in nats \/ x[1] = loads
  PROVE  Accounted'
BY DEF TypeOK, Fail, Accounted, reqVars

(* Every step keeps it.                                                    *)
LEMMA AccountedStep ==
  ASSUME TypeOK, Published, Accounted, [Next]_vars
  PROVE  Accounted'
<1>. USE DEF buildVars, reqVars
<1>t. /\ rpc \in [Requests -> {"idle", "waiting", "done"}]
      /\ inst \in [Requests -> 0..loads]
      /\ phase \in {"idle", "scan", "init", "run", "finish"}
  BY DEF TypeOK
<1>1. CASE Reload
  BY <1>1 DEF Reload, Accounted
<1>2. CASE ReadFile \/ ScanDone \/ EndInit
  BY <1>2, FailAccounted DEF ReadFile, ScanDone, EndInit, Accounted
<1>3. ASSUME NEW n \in toAdd, AddTemplate(n) \/ RouteConflict(n) PROVE Accounted'
  BY <1>3, FailAccounted DEF AddTemplate, RouteConflict, Accounted
<1>4. CASE InitNats
  <2>1. CASE nats' = nats \cup {<<loads, inited'>>} /\ UNCHANGED <<phase, loads, current, cancel, cancelled, reqVars>>
    BY <1>4, <2>1 DEF InitNats, Accounted
  <2>2. CASE Fail /\ nats' \in {nats, nats \cup {<<loads, inited + 1>>}}
    <3>1. \A x \in nats' : x \in nats \/ x[1] = loads
      BY <2>2
    <3>. QED
      BY <1>4, <2>2, <3>1, FailAccounted DEF InitNats
  <2>. QED
    BY <1>4, <2>1, <2>2 DEF InitNats
<1>5. CASE InitDone \/ \E n \in toRun : BeginInit(n)
  BY <1>5 DEF InitDone, BeginInit, Accounted
<1>6. CASE Publish
  BY <1>6 DEF Publish, Published, Accounted
<1>7. CASE CancelOld
  BY <1>7 DEF CancelOld, Published, Accounted
<1>8. ASSUME NEW i \in 1..loads, NEW k \in 1..NumNats, Shutdown(i, k) PROVE Accounted'
  BY <1>8 DEF Shutdown, Accounted
<1>9. ASSUME NEW r \in Requests, Query(r) \/ StopSeen(r) \/ ClientGone(r) PROVE Accounted'
  BY <1>t, <1>9 DEF Query, StopSeen, ClientGone, Accounted
<1>10. CASE UNCHANGED vars
  BY <1>10 DEF vars, Accounted
<1>. QED
  BY <1>1, <1>2, <1>3, <1>4, <1>5, <1>6, <1>7, <1>8, <1>9, <1>10 DEF Next, Instance, Quiet

(* With the invariant it is inductive.                                     *)
LEMMA AccountedAlways == Spec => []Accounted
<1>1. Init => Accounted
  BY DEF Init, Accounted
<1>2. IInv /\ Accounted /\ [Next]_vars => Accounted'
  BY AccountedStep DEF IInv
<1>. QED
  BY <1>1, <1>2, Invariance, PTL DEF Spec

(* When a Reload has returned, whether it failed or not and at whatever    *)
(* step, each NATS server and each waiting request is one of the current   *)
(* instance or has been told to end.                                       *)
THEOREM NothingLeftOverAlways == Spec => []NothingLeftOver
<1>1. IInv /\ Accounted => NothingLeftOver
  BY DEF IInv, Published, Accounted, NothingLeftOver
<1>. QED
  BY <1>1, Invariance, AccountedAlways, PTL

-----------------------------------------------------------------------------
(* The refinement of HotSwap                                               *)

(* The first instance is current, and no other has been.                   *)
LEMMA InitPromise == Init => Promise!HSInit
BY DEF Init, Promise!HSInit, Leaving

(* A load that fails is the discarding of an instance nobody has seen.     *)
LEMMA FailPromise ==
  ASSUME IInv, Fail, phase \notin {"idle", "finish"}
  PROVE  Promise!HSNext
<1>1. loads \in 1..MaxLoads + 1 /\ current # loads /\ Leaving = 0 /\ Leaving' = 0 /\ loads # 0
  BY BuildAssumption DEF IInv, TypeOK, Published, Fail, Leaving
<1>2. Promise!Discard(loads)
  BY <1>1 DEF Promise!Discard, Fail, reqVars
<1>. QED
  BY <1>1, <1>2 DEF Promise!HSNext

(* Publishing is the swap.                                                 *)
LEMMA PublishPromise ==
  ASSUME IInv, Publish
  PROVE  Promise!HSNext
<1>1. /\ loads \in 1..MaxLoads + 1 /\ current # loads /\ cancel = current /\ current # 0
      /\ loads \notin cancelled
  BY BuildAssumption DEF IInv, TypeOK, Published, Publish
<1>2. Leaving = 0 /\ Leaving' = current
  BY <1>1 DEF Leaving, Publish
<1>3. Promise!Swap(loads)
  BY <1>1, <1>2 DEF Promise!Swap, Publish, reqVars
<1>. QED
  BY <1>1, <1>3 DEF Promise!HSNext

(* Cancelling the instance before ends the one that is leaving.            *)
LEMMA CancelPromise ==
  ASSUME IInv, CancelOld
  PROVE  Promise!HSNext
<1>1. cancel # current /\ current = loads /\ cancel # 0
  BY BuildAssumption DEF IInv, TypeOK, Published, CancelOld
<1>2. Leaving = cancel /\ Leaving' = 0
  BY <1>1 DEF Leaving, CancelOld
<1>3. Promise!EndLeaving
  BY <1>1, <1>2 DEF Promise!EndLeaving, CancelOld, reqVars
<1>. QED
  BY <1>3 DEF Promise!HSNext

(* A request is admitted by the current instance.                          *)
LEMMA QueryPromise ==
  ASSUME IInv, Accounted, NEW r \in Requests, Query(r)
  PROVE  Promise!HSNext
<1>1. current \in 1..MaxLoads + 1 /\ current # 0 /\ inst[r] = 0
  BY BuildAssumption DEF IInv, TypeOK, Accounted, Query
<1>2. Promise!AdmitBy(r, current)
  BY <1>1 DEF Promise!AdmitBy, Query, Leaving
<1>. QED
  BY <1>1, <1>2 DEF Promise!HSNext

(* A Reload that walks the files, initialises providers, runs INIT         *)
(* templates and may fail at each step swaps instances as HotSwap          *)
(* promises: nothing of it shows before Publish.                           *)
THEOREM Refinement == Spec => ImplementsHotSwap
<1>. DEFINE hv == <<current, Leaving, cancelled, inst>>
<1>1. IInv /\ Accounted /\ [Next]_vars => Promise!HSNext \/ UNCHANGED hv
  <2>. SUFFICES ASSUME IInv, Accounted, [Next]_vars PROVE Promise!HSNext \/ UNCHANGED hv
    OBVIOUS
  <2>. USE DEF buildVars, reqVars
  <2>1. CASE UNCHANGED <<current, cancel, cancelled, inst>>
    BY <2>1 DEF Leaving
  <2>2. CASE Reload \/ InitDone \/ \E n \in toRun : BeginInit(n)
    BY <2>1, <2>2 DEF Reload, InitDone, BeginInit
  <2>3. CASE ReadFile \/ ScanDone \/ InitNats \/ EndInit
    BY <2>1, <2>3, FailPromise DEF ReadFile, ScanDone, InitNats, EndInit
  <2>4. ASSUME NEW n \in toAdd, AddTemplate(n) \/ RouteConflict(n)
        PROVE  Promise!HSNext \/ UNCHANGED hv
    BY <2>1, <2>4, FailPromise DEF AddTemplate, RouteConflict
  <2>5. CASE Publish \/ CancelOld
    BY <2>5, PublishPromise, CancelPromise
  <2>6. ASSUME NEW i \in 1..loads, NEW k \in 1..NumNats, Shutdown(i, k)
        PROVE  Promise!HSNext \/ UNCHANGED hv
    BY <2>1, <2>6 DEF Shutdown
  <2>7. ASSUME NEW r \in Requests, Query(r) \/ StopSeen(r) \/ ClientGone(r)
        PROVE  Promise!HSNext \/ UNCHANGED hv
    BY <2>1, <2>7, QueryPromise DEF StopSeen, ClientGone
  <2>8. CASE UNCHANGED vars
    BY <2>1, <2>8 DEF vars
  <2>. QED
    BY <2>2, <2>3, <2>4, <2>5, <2>6, <2>7, <2>8 DEF Next, Instance, Quiet
<1>2. IInv /\ Accounted /\ [Next]_vars => [Promise!HSNext]_(Promise!hsVars)
  BY <1>1 DEF Promise!hsVars
<1>. QED
  BY <1>2, InitPromise, Invariance, AccountedAlways, PTL DEF Spec, ImplementsHotSwap, Promise!HSSpec
=============================================================================
