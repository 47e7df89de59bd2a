------------------------------- MODULE Build --------------------------------
(***************************************************************************)
(* How a Reload builds an Instance (Config.Instance in instance.go and the *)
(* builder of build.go), while requests use the current one: the template  *)
(* files are walked in order and each file's definitions are added in the  *)
(* random order of a Go map; the dot providers are initialised; the INIT   *)
(* templates run, in random order again, each in a transaction of its own; *)
(* only then is the instance published and the old one cancelled.  Module  *)
(* Server shows that one Reload runs at a time.                            *)
(*                                                                         *)
(* One provider is a *sql.DB given with WithDB, which all instances share: *)
(* INIT templates and requests wait for its connections.  Another starts   *)
(* an in-process NATS server for every instance.                           *)
(***************************************************************************)
EXTENDS Naturals, FiniteSets

CONSTANTS
  NumFiles,      \* template files, in the order of fs.WalkDir
  Names,         \* names that templates may be defined with in a file
  InitNames,     \* those that start with "INIT "
  Own, None,     \* a file's own template; no route
  Pattern(_, _), \* the route of a name in a file, or None
  Contents,      \* what the files may define: sets of names, per file
  NumNats,       \* NATS providers
  Requests,
  MaxOpenConns,  \* of the shared database; 0 is no limit
  MaxLoads       \* bound on the instances built

ASSUME BuildAssumption ==
  /\ NumFiles \in Nat /\ NumNats \in Nat /\ MaxOpenConns \in Nat /\ MaxLoads \in Nat
  /\ InitNames \subseteq Names /\ Own \notin Names /\ None \notin Names
  /\ Contents \subseteq [1..NumFiles -> SUBSET Names]

VARIABLES
  phase,      \* of Config.Instance and Reload
  loads,      \* id of the latest instance
  content,    \* what its files define
  file,       \* the file being added
  toAdd,      \* its definitions that are still to be added
  defs,       \* builder.templates: the file each name was defined in last
  routes,     \* patterns registered with builder.router
  inited,     \* dot providers initialised so far
  toRun,      \* INIT templates that have not run
  running,    \* the one that runs and holds a connection, or None
  ran,        \* history: INIT templates whose work was committed
  current,    \* the published instance
  cancel,     \* Server.cancel: the instance that it cancels
  cancelled,  \* instances whose context was cancelled
  nats,       \* in-process servers that run: instance and provider
  rpc, inst   \* the requests, and the instance that serves each

buildVars == <<content, file, toAdd, defs, routes, inited, toRun, running, ran>>
reqVars == <<rpc, inst>>
vars == <<phase, loads, buildVars, current, cancel, cancelled, nats, reqVars>>

Files == 1..NumFiles
Route(n) == IF Pattern(file, n) = None THEN {} ELSE {Pattern(file, n)}
Holders == {r \in Requests : rpc[r] = "waiting"} \cup {n \in {running} : n # None}
ConnFree == MaxOpenConns = 0 \/ Cardinality(Holders) < MaxOpenConns
NoDefs == [n \in {} |-> 0]

TypeOK ==
  /\ phase \in {"idle", "scan", "init", "run", "finish"}
  /\ loads \in 1..MaxLoads + 1
  /\ content \in Contents
  /\ file \in 0..NumFiles
  /\ toAdd \subseteq Names \cup {Own}
  /\ DOMAIN defs \subseteq Names \cup {Own} /\ \A n \in DOMAIN defs : defs[n] \in Files
  /\ inited \in 0..NumNats
  /\ toRun \subseteq InitNames /\ running \in InitNames \cup {None}
  /\ ran \subseteq (1..loads) \X InitNames \X Files
  /\ current \in 1..loads /\ cancel \in 1..loads
  /\ cancelled \subseteq (1..loads) \ {current}
  /\ nats \subseteq (1..loads) \X (1..NumNats)
  /\ rpc \in [Requests -> {"idle", "waiting", "done"}]
  /\ inst \in [Requests -> 0..loads]

(* A first instance was loaded.                                            *)
Init ==
  /\ phase = "idle"
  /\ loads = 1
  /\ content \in Contents
  /\ file = NumFiles
  /\ toAdd = {} /\ defs = NoDefs /\ routes = {}
  /\ inited = 0 /\ toRun = {} /\ running = None /\ ran = {}
  /\ current = 1
  /\ cancel = 1
  /\ cancelled = {}
  /\ nats = {1} \X (1..NumNats)
  /\ rpc = [r \in Requests |-> "idle"]
  /\ inst = [r \in Requests |-> 0]

(* Mutant: a failed Reload does not cancel the new context.                *)
FailNoCancel ==
  /\ phase' = "idle"
  /\ running' = None
  /\ UNCHANGED <<loads, content, file, toAdd, defs, routes, inited, toRun, ran,
                 current, cancel, cancelled, reqVars>>

(* Mutant: Reload starts over until it succeeds.                           *)
FailRetries ==
  /\ phase' = "scan"
  /\ running' = None
  /\ file' = 0
  /\ toAdd' = {}
  /\ defs' = NoDefs
  /\ routes' = {}
  /\ inited' = 0
  /\ UNCHANGED <<loads, content, toRun, ran, current, cancel, cancelled, reqVars>>

(* Config.Instance returns an error and Reload cancels the new context.    *)
Fail ==
  /\ phase' = "idle"
  /\ running' = None
  /\ cancelled' = cancelled \cup {loads}
  /\ UNCHANGED <<loads, content, file, toAdd, defs, routes, inited, toRun, ran,
                 current, cancel, reqVars>>

-----------------------------------------------------------------------------
(* Scanning                                                                *)

(* Reload begins: the files may have been edited since the last time.      *)
Reload ==
  /\ phase = "idle"
  /\ loads <= MaxLoads
  /\ phase' = "scan"
  /\ loads' = loads + 1
  /\ content' \in Contents
  /\ file' = 0
  /\ toAdd' = {}
  /\ defs' = NoDefs
  /\ routes' = {}
  /\ inited' = 0
  /\ UNCHANGED <<toRun, running, ran, current, cancel, cancelled, nats, reqVars>>

(* addTemplateHandler reads and parses the next file, or cannot.           *)
ReadFile ==
  /\ phase = "scan"
  /\ toAdd = {}
  /\ file < NumFiles
  /\ \/ /\ file' = file + 1
        /\ toAdd' = content[file'] \cup {Own}
        /\ UNCHANGED <<phase, loads, content, defs, routes, inited, toRun, running, ran,
                       current, cancel, cancelled, reqVars>>
     \/ Fail
  /\ UNCHANGED nats

(* Mutant: the first definition of a name is kept.                         *)
DefineFirst(n) ==
  defs' = [m \in DOMAIN defs \cup {n} |-> IF m \in DOMAIN defs THEN defs[m] ELSE file]

(* AddParseTree: a definition overrides those of earlier files.            *)
Define(n) == defs' = [m \in DOMAIN defs \cup {n} |-> IF m = n THEN file ELSE defs[m]]

(* Mutant: the ServeMux is not asked whether it has the pattern.           *)
RouteIsFreeAlways(n) == TRUE

RouteIsFree(n) == routes \cap Route(n) = {}

(* One definition of the file is added and its route registered.           *)
AddTemplate(n) ==
  /\ phase = "scan"
  /\ n \in toAdd
  /\ RouteIsFree(n)
  /\ Define(n)
  /\ routes' = routes \cup Route(n)
  /\ toAdd' = toAdd \ {n}
  /\ UNCHANGED <<phase, loads, content, file, inited, toRun, running, ran,
                 current, cancel, cancelled, nats, reqVars>>

(* The ServeMux panics on a pattern it has; catch makes it an error.       *)
RouteConflict(n) ==
  /\ phase = "scan"
  /\ n \in toAdd
  /\ ~RouteIsFree(n)
  /\ Fail
  /\ UNCHANGED nats

(* Or the walk fails, two dot fields have one name, or a provider other    *)
(* than NATS cannot be initialised.                                        *)
ScanDone ==
  /\ phase = "scan"
  /\ toAdd = {}
  /\ file = NumFiles
  /\ \/ /\ phase' = "init"
        /\ UNCHANGED <<loads, buildVars, current, cancel, cancelled, reqVars>>
     \/ Fail
  /\ UNCHANGED nats

-----------------------------------------------------------------------------
(* Dot providers and INIT templates                                        *)

(* DotNatsConfig.Init starts a server, then connects to it.  Either may    *)
(* fail, the second with the server running.                               *)
InitNats ==
  /\ phase = "init"
  /\ inited < NumNats
  /\ \/ /\ inited' = inited + 1
        /\ nats' = nats \cup {<<loads, inited'>>}
        /\ UNCHANGED <<phase, loads, content, file, toAdd, defs, routes, toRun, running, ran,
                       current, cancel, cancelled, reqVars>>
     \/ Fail /\ nats' \in {nats, nats \cup {<<loads, inited + 1>>}}

InitDone ==
  /\ phase = "init"
  /\ inited = NumNats
  /\ phase' = "run"
  /\ toRun' = InitNames \cap DOMAIN defs
  /\ UNCHANGED <<loads, content, file, toAdd, defs, routes, inited, running, ran,
                 current, cancel, cancelled, nats, reqVars>>

(* An INIT template's first statement waits for a connection.  Its request *)
(* is httptest's, whose context never ends.                                *)
BeginInit(n) ==
  /\ phase = "run"
  /\ running = None
  /\ n \in toRun
  /\ ConnFree
  /\ running' = n
  /\ toRun' = toRun \ {n}
  /\ UNCHANGED <<phase, loads, content, file, toAdd, defs, routes, inited, ran,
                 current, cancel, cancelled, nats, reqVars>>

(* Mutant: an INIT template that fails is rolled back and the next one run. *)
EndInitGoesOn ==
  /\ phase = "run"
  /\ running # None
  /\ ran' \in {ran, ran \cup {<<loads, running, defs[running]>>}}
  /\ running' = None
  /\ UNCHANGED <<phase, loads, content, file, toAdd, defs, routes, inited, toRun,
                 current, cancel, cancelled, nats, reqVars>>

(* It ends, and its cleanup commits; or fails, and is rolled back.         *)
EndInit ==
  /\ phase = "run"
  /\ running # None
  /\ \/ /\ ran' = ran \cup {<<loads, running, defs[running]>>}
        /\ running' = None
        /\ UNCHANGED <<phase, loads, content, file, toAdd, defs, routes, inited, toRun,
                       current, cancel, cancelled, reqVars>>
     \/ Fail
  /\ UNCHANGED nats

(* The instance is returned, and Reload swaps the pointer.                 *)
Publish ==
  /\ phase = "run"
  /\ running = None
  /\ toRun = {}
  /\ phase' = "finish"
  /\ current' = loads
  /\ UNCHANGED <<loads, buildVars, cancel, cancelled, nats, reqVars>>

(* Reload cancels the instance before and keeps the new cancel function.   *)
CancelOld ==
  /\ phase = "finish"
  /\ phase' = "idle"
  /\ cancelled' = cancelled \cup {cancel}
  /\ cancel' = loads
  /\ UNCHANGED <<loads, buildVars, current, nats, reqVars>>

(* The goroutine of DotNatsConfig.Init shuts its server down.              *)
Shutdown(i, k) ==
  /\ <<i, k>> \in nats
  /\ i \in cancelled
  /\ nats' = nats \ {<<i, k>>}
  /\ UNCHANGED <<phase, loads, buildVars, current, cancel, cancelled, reqVars>>

-----------------------------------------------------------------------------
(* Requests: a flushing template queries the shared database and then      *)
(* calls WaitForServerStop with its transaction open.                      *)

Query(r) ==
  /\ rpc[r] = "idle"
  /\ ConnFree
  /\ rpc' = [rpc EXCEPT ![r] = "waiting"]
  /\ inst' = [inst EXCEPT ![r] = current]
  /\ UNCHANGED <<phase, loads, buildVars, current, cancel, cancelled, nats>>

StopSeen(r) ==
  /\ rpc[r] = "waiting"
  /\ inst[r] \in cancelled
  /\ rpc' = [rpc EXCEPT ![r] = "done"]
  /\ UNCHANGED <<phase, loads, buildVars, current, cancel, cancelled, nats, inst>>

(* The client leaves: the request's context ends, and its transaction.     *)
ClientGone(r) ==
  /\ rpc[r] = "waiting"
  /\ rpc' = [rpc EXCEPT ![r] = "done"]
  /\ UNCHANGED <<phase, loads, buildVars, current, cancel, cancelled, nats, inst>>

Quiet == phase = "idle" /\ UNCHANGED vars

Instance ==
  \/ ReadFile \/ (\E n \in toAdd : AddTemplate(n) \/ RouteConflict(n)) \/ ScanDone
  \/ InitNats \/ InitDone
  \/ (\E n \in toRun : BeginInit(n)) \/ EndInit \/ Publish \/ CancelOld

Next ==
  \/ Reload \/ Instance
  \/ \E i \in 1..loads, k \in 1..NumNats : Shutdown(i, k)
  \/ \E r \in Requests : Query(r) \/ StopSeen(r) \/ ClientGone(r)
  \/ Quiet

Spec == Init /\ [][Next]_vars

(* The goroutines are scheduled and database/sql serves waiters in order.  *)
(* Nothing makes a client send a request or go away.                       *)
FairSpec ==
  /\ Spec
  /\ WF_vars(Instance)
  /\ SF_vars(\E n \in toRun : BeginInit(n))
  /\ \A i \in 1..MaxLoads + 1, k \in 1..NumNats : WF_vars(Shutdown(i, k))
  /\ \A r \in Requests : WF_vars(StopSeen(r))

-----------------------------------------------------------------------------
(* Properties                                                              *)

Defining(n) == {f \in Files : n = Own \/ n \in content[f]}

(* Whatever order Go's maps yield, an INIT template has effects only if    *)
(* all files were added without a conflict, and what ran is the definition *)
(* of the last file that has one.                                          *)
LastDefinitionRuns ==
  \A x \in ran :
    x[1] = loads =>
      /\ x[3] \in Defining(x[2])
      /\ \A f \in Defining(x[2]) : f <= x[3]
      /\ file = NumFiles /\ toAdd = {}

(* An instance is published only after each INIT template that its files   *)
(* define has committed its work, whichever of them failed in other loads  *)
(* and in whatever order they were taken from the map.                     *)
InitsBeforePublish ==
  phase = "finish" =>
    {x[2] : x \in {y \in ran : y[1] = loads}} = InitNames \cap UNION {content[f] : f \in Files}

(* An instance is published only if no two of its definitions had the same *)
(* route, and then each route is registered.                               *)
RoutesComplete ==
  phase = "finish" =>
    LET routed == {x \in Files \X (Names \cup {Own}) :
                     x[1] \in Defining(x[2]) /\ Pattern(x[1], x[2]) # None}
    IN  /\ routes = {Pattern(x[1], x[2]) : x \in routed}
        /\ \A x, y \in routed : Pattern(x[1], x[2]) = Pattern(y[1], y[2]) => x = y

(* The NATS server of an instance that failed to load, at whatever step,   *)
(* or was replaced is shut down.                                           *)
NatsStopped ==
  \A i \in 1..MaxLoads + 1, k \in 1..NumNats :
    (<<i, k>> \in nats /\ i # current /\ phase = "idle") ~> <<i, k>> \notin nats

(* Between Reloads nothing is left over that nobody will end: every NATS   *)
(* server that runs, and every request that waits for the server to stop,  *)
(* belongs to the current instance or to one whose context is cancelled.   *)
NothingLeftOver ==
  phase = "idle" =>
    /\ \A x \in nats : x[1] \in cancelled \cup {current}
    /\ \A r \in Requests : rpc[r] = "waiting" => inst[r] \in cancelled \cup {current}

(* How this shows the state of HotSwap: a new instance is invisible until  *)
(* Publish, and the one before is leaving from then until CancelOld.       *)
Leaving == IF cancel = current THEN 0 ELSE cancel

Promise ==
  INSTANCE HotSwap WITH
    MaxInstances <- MaxLoads + 1, leaving <- Leaving, ended <- cancelled, admitted <- inst

(* Building an instance in many steps, any of which may fail, implements   *)
(* the atomic swap of HotSwap.                                             *)
ImplementsHotSwap == Promise!HSSpec

(* A Reload returns: the files are loaded milliseconds after they were     *)
(* modified (README.md:65-66), while requests use the old instance.        *)
ReloadReturns == (phase # "idle") ~> (phase = "idle")
=============================================================================
