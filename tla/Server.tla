------------------------------- MODULE Server -------------------------------
(***************************************************************************)
(* The hot-reloading Server of server.go.  Goroutines call Reload and Stop *)
(* while net/http goroutines run Handler's closure: load the instance      *)
(* pointer, then call ServeHTTP on what was loaded.  Only Reload and Stop  *)
(* hold the mutex; a request never does, so it can be overtaken between    *)
(* its load and the context check at the top of ServeHTTP.                 *)
(*                                                                         *)
(* An Instance is its id (nextInstanceIdentity), 0 is the nil pointer, and *)
(* the cancel function of an instance's context is that instance's id.     *)
(* Loading the template files is abstracted to reading the version `disk`. *)
(***************************************************************************)
EXTENDS Naturals, FiniteSets

CONSTANTS
  Threads,       \* goroutines that may call Reload or Stop
  NoThread,      \* the mutex is free
  Requests,      \* http requests
  MaxInstances,  \* bound on the instance ids handed out
  MaxDisk        \* bound on the edits of the template directory

ASSUME ServerAssumption ==
  /\ NoThread \notin Threads
  /\ MaxInstances \in Nat \ {0}
  /\ MaxDisk \in Nat

VARIABLES
  mutex,       \* Server.mutex: its holder
  instance,    \* Server.instance, the atomic pointer
  cancel,      \* Server.cancel: the instance whose context it cancels, or 0
  cancelled,   \* instances whose own context has been cancelled
  parentDone,  \* Config.Ctx, the parent of every instance's context, is done
  lastId,      \* nextInstanceIdentity
  built,       \* the version of the files each instance was loaded from
  disk,        \* version of the template files
  halted,      \* history: Stop was called and has cancelled an instance
  pc,          \* where each goroutine is in Reload or Stop
  old, new,    \* Reload's locals old and new_
  rpc,         \* where each request is
  target,      \* the pointer each request has loaded
  floor,       \* history: the newest instance published when r arrived
  answer       \* how each request was answered

threadVars == <<mutex, instance, cancel, cancelled, lastId, built, halted, pc, old, new>>
reqVars == <<rpc, target, floor, answer>>
vars == <<threadVars, parentDone, disk, reqVars>>

Ids == 1..MaxInstances

(* The context of instance i is done: cancelled, or through its parent.    *)
Done(i) == parentDone \/ i \in cancelled

Critical == {"build", "publish", "finish", "clear"}

TypeOK ==
  /\ mutex \in Threads \cup {NoThread}
  /\ lastId \in Ids
  /\ instance \in 0..lastId
  /\ cancel \in 0..lastId
  /\ cancelled \in SUBSET (1..lastId)
  /\ parentDone \in BOOLEAN
  /\ disk \in 0..MaxDisk
  /\ built \in [Ids -> 0..disk]
  /\ halted \in BOOLEAN
  /\ pc \in [Threads -> {"idle", "reload", "stop"} \cup Critical]
  /\ old \in [Threads -> 0..lastId]
  /\ new \in [Threads -> 0..lastId]
  /\ rpc \in [Requests -> {"idle", "arrived", "loaded", "serving", "waiting", "done"}]
  /\ target \in [Requests -> 0..lastId]
  /\ floor \in [Requests -> 0..lastId]
  /\ answer \in [Requests -> {"none", "stopped", "panic", "served"}]

(* Config.Server returns a Server only after its first Reload succeeded.   *)
Init ==
  /\ mutex = NoThread
  /\ instance = 1
  /\ cancel = 1
  /\ cancelled = {}
  /\ parentDone = FALSE
  /\ lastId = 1
  /\ disk = 0
  /\ built = [i \in Ids |-> 0]
  /\ halted = FALSE
  /\ pc = [t \in Threads |-> "idle"]
  /\ old = [t \in Threads |-> 0]
  /\ new = [t \in Threads |-> 0]
  /\ rpc = [r \in Requests |-> "idle"]
  /\ target = [r \in Requests |-> 0]
  /\ floor = [r \in Requests |-> 0]
  /\ answer = [r \in Requests |-> "none"]

(* The deferred Unlock; the locals of the call are gone.                   *)
Unlock(t) ==
  /\ mutex' = NoThread
  /\ pc' = [pc EXCEPT ![t] = "idle"]
  /\ old' = [old EXCEPT ![t] = 0]
  /\ new' = [new EXCEPT ![t] = 0]

-----------------------------------------------------------------------------
(* Mutants: plausible mistakes in the operations below.  They are no part  *)
(* of the specification; each one violates a property it must violate.     *)

(* Mutant: x.mutex is not locked.                                          *)
ReloadLockNoMutex(t) ==
  /\ pc[t] = "reload"
  /\ mutex' = t
  /\ old' = [old EXCEPT ![t] = instance]
  /\ pc' = [pc EXCEPT ![t] = "build"]
  /\ UNCHANGED <<instance, cancel, cancelled, lastId, built, halted, new,
                 parentDone, disk, reqVars>>

(* Mutant: the old instance is cancelled before the new one is built.      *)
ReloadLockCancelsFirst(t) ==
  /\ pc[t] = "reload"
  /\ mutex = NoThread
  /\ mutex' = t
  /\ old' = [old EXCEPT ![t] = instance]
  /\ pc' = [pc EXCEPT ![t] = "build"]
  /\ cancelled' = cancelled \cup ({cancel} \ {0})
  /\ UNCHANGED <<instance, cancel, lastId, built, halted, new,
                 parentDone, disk, reqVars>>

(* Mutant: newcancel is not called on an error.                            *)
ReloadFailNoCancel(t) ==
  /\ pc[t] = "publish"
  /\ UNCHANGED cancelled
  /\ Unlock(t)
  /\ UNCHANGED <<instance, cancel, lastId, built, halted, parentDone, disk, reqVars>>

(* Mutant: Reload tries again until it succeeds.                           *)
ReloadFailRetries(t) ==
  /\ pc[t] = "publish"
  /\ mutex' = NoThread
  /\ pc' = [pc EXCEPT ![t] = "reload"]
  /\ lastId' = lastId - 1
  /\ UNCHANGED <<old, new, instance, cancel, cancelled, built, halted, parentDone, disk, reqVars>>

(* Mutant: the pointer is compared with the new instance, not the old one. *)
ReloadSwapLost(t) ==
  /\ pc[t] = "publish"
  /\ instance' = IF instance = new[t] THEN new[t] ELSE instance
  /\ pc' = [pc EXCEPT ![t] = "finish"]
  /\ UNCHANGED <<mutex, cancel, cancelled, lastId, built, halted, old, new,
                 parentDone, disk, reqVars>>

(* Mutant: the old instance is not cancelled.                              *)
ReloadFinishNoCancel(t) ==
  /\ pc[t] = "finish"
  /\ UNCHANGED cancelled
  /\ cancel' = new[t]
  /\ Unlock(t)
  /\ UNCHANGED <<instance, lastId, built, halted, parentDone, disk, reqVars>>

(* Mutant: ServeHTTP does not look at the context.                         *)
AdmitUnchecked(r) ==
  /\ rpc[r] = "loaded"
  /\ target[r] # 0
  /\ \E where \in {"serving", "waiting"} : rpc' = [rpc EXCEPT ![r] = where]
  /\ UNCHANGED <<threadVars, parentDone, disk, target, floor, answer>>

-----------------------------------------------------------------------------
(* Reload                                                                  *)

(* Bound: every call in progress will need one more id.                    *)
ReloadCall(t) ==
  /\ pc[t] = "idle"
  /\ lastId + Cardinality({u \in Threads : pc[u] \in {"reload", "build"}}) < MaxInstances
  /\ pc' = [pc EXCEPT ![t] = "reload"]
  /\ UNCHANGED <<mutex, instance, cancel, cancelled, lastId, built, halted, old, new,
                 parentDone, disk, reqVars>>

(* Lock the mutex and load the pointer that will be replaced.              *)
ReloadLock(t) ==
  /\ pc[t] = "reload"
  /\ mutex = NoThread
  /\ mutex' = t
  /\ old' = [old EXCEPT ![t] = instance]
  /\ pc' = [pc EXCEPT ![t] = "build"]
  /\ UNCHANGED <<instance, cancel, cancelled, lastId, built, halted, new,
                 parentDone, disk, reqVars>>

(* Derive the new context and take the next id; read the template files.   *)
ReloadInstance(t) ==
  /\ pc[t] = "build"
  /\ lastId < MaxInstances
  /\ lastId' = lastId + 1
  /\ new' = [new EXCEPT ![t] = lastId + 1]
  /\ built' = [built EXCEPT ![lastId + 1] = disk]
  /\ pc' = [pc EXCEPT ![t] = "publish"]
  /\ UNCHANGED <<mutex, instance, cancel, cancelled, halted, old,
                 parentDone, disk, reqVars>>

(* config.Instance returned an error: cancel the new context and unlock.   *)
ReloadFail(t) ==
  /\ pc[t] = "publish"
  /\ cancelled' = cancelled \cup {new[t]}
  /\ Unlock(t)
  /\ UNCHANGED <<instance, cancel, lastId, built, halted, parentDone, disk, reqVars>>

(* config.Instance succeeded: CompareAndSwap, whose result is ignored.     *)
ReloadSwap(t) ==
  /\ pc[t] = "publish"
  /\ instance' = IF instance = old[t] THEN new[t] ELSE instance
  /\ pc' = [pc EXCEPT ![t] = "finish"]
  /\ UNCHANGED <<mutex, cancel, cancelled, lastId, built, halted, old, new,
                 parentDone, disk, reqVars>>

(* Cancel the previous instance, remember the new cancel, unlock.          *)
ReloadFinish(t) ==
  /\ pc[t] = "finish"
  /\ cancelled' = IF cancel # 0 THEN cancelled \cup {cancel} ELSE cancelled
  /\ cancel' = new[t]
  /\ Unlock(t)
  /\ UNCHANGED <<instance, lastId, built, halted, parentDone, disk, reqVars>>

-----------------------------------------------------------------------------
(* Stop                                                                    *)

StopCall(t) ==
  /\ pc[t] = "idle"
  /\ pc' = [pc EXCEPT ![t] = "stop"]
  /\ UNCHANGED <<mutex, instance, cancel, cancelled, lastId, built, halted, old, new,
                 parentDone, disk, reqVars>>

(* Lock, then cancel the current instance's context.                       *)
StopCancel(t) ==
  /\ pc[t] = "stop"
  /\ mutex = NoThread
  /\ mutex' = t
  /\ cancelled' = IF cancel # 0 THEN cancelled \cup {cancel} ELSE cancelled
  /\ cancel' = 0
  /\ halted' = TRUE
  /\ pc' = [pc EXCEPT ![t] = "clear"]
  /\ UNCHANGED <<instance, lastId, built, old, new, parentDone, disk, reqVars>>

(* Store(nil) and unlock.                                                  *)
StopClear(t) ==
  /\ pc[t] = "clear"
  /\ instance' = 0
  /\ Unlock(t)
  /\ UNCHANGED <<cancel, cancelled, lastId, built, halted, parentDone, disk, reqVars>>

-----------------------------------------------------------------------------
(* Requests                                                                *)

(* Server.cancel names the instance of the last Reload that returned, so   *)
(* it is what a request arriving now may rely on.                          *)
Arrive(r) ==
  /\ rpc[r] = "idle"
  /\ rpc' = [rpc EXCEPT ![r] = "arrived"]
  /\ floor' = [floor EXCEPT ![r] = cancel]
  /\ UNCHANGED <<threadVars, parentDone, disk, target, answer>>

(* Handler: x.Instance() loads the pointer.                                *)
LoadInstance(r) ==
  /\ rpc[r] = "arrived"
  /\ rpc' = [rpc EXCEPT ![r] = "loaded"]
  /\ target' = [target EXCEPT ![r] = instance]
  /\ UNCHANGED <<threadVars, parentDone, disk, floor, answer>>

(* ServeHTTP on the nil *Instance left by Stop dereferences it.            *)
ServeNil(r) ==
  /\ rpc[r] = "loaded"
  /\ target[r] = 0
  /\ rpc' = [rpc EXCEPT ![r] = "done"]
  /\ answer' = [answer EXCEPT ![r] = "panic"]
  /\ UNCHANGED <<threadVars, parentDone, disk, target, floor>>

(* ServeHTTP finds the instance's context done: 500 "server stopped".      *)
Refuse(r) ==
  /\ rpc[r] = "loaded"
  /\ target[r] # 0
  /\ Done(target[r])
  /\ rpc' = [rpc EXCEPT ![r] = "done"]
  /\ answer' = [answer EXCEPT ![r] = "stopped"]
  /\ UNCHANGED <<threadVars, parentDone, disk, target, floor>>

(* ServeHTTP goes on to the router; a flushing template may end up in      *)
(* DotFlush.WaitForServerStop.                                             *)
Admit(r) ==
  /\ rpc[r] = "loaded"
  /\ target[r] # 0
  /\ ~Done(target[r])
  /\ \E where \in {"serving", "waiting"} : rpc' = [rpc EXCEPT ![r] = where]
  /\ UNCHANGED <<threadVars, parentDone, disk, target, floor, answer>>

(* The handler returns; a waiting one only when its server context is done.*)
Return(r) ==
  /\ \/ rpc[r] = "serving"
     \/ rpc[r] = "waiting" /\ Done(target[r])
  /\ rpc' = [rpc EXCEPT ![r] = "done"]
  /\ answer' = [answer EXCEPT ![r] = "served"]
  /\ UNCHANGED <<threadVars, parentDone, disk, target, floor>>

(* WaitForServerStop also returns when the client goes away.               *)
ClientGone(r) ==
  /\ rpc[r] = "waiting"
  /\ rpc' = [rpc EXCEPT ![r] = "done"]
  /\ answer' = [answer EXCEPT ![r] = "served"]
  /\ UNCHANGED <<threadVars, parentDone, disk, target, floor>>

-----------------------------------------------------------------------------
(* Environment                                                             *)

EditFiles ==
  /\ disk < MaxDisk
  /\ disk' = disk + 1
  /\ UNCHANGED <<threadVars, parentDone, reqVars>>

(* The embedding program cancels the context it put into Config.Ctx.       *)
ParentCancel ==
  /\ ~parentDone
  /\ parentDone' = TRUE
  /\ UNCHANGED <<threadVars, disk, reqVars>>

(* Nothing is in progress: the program waits for the next call.            *)
Quiet ==
  /\ \A t \in Threads : pc[t] = "idle"
  /\ \A r \in Requests : rpc[r] \in {"idle", "waiting", "done"}
  /\ UNCHANGED vars

ThreadStep(t) ==
  \/ ReloadLock(t) \/ ReloadInstance(t) \/ ReloadFail(t) \/ ReloadSwap(t) \/ ReloadFinish(t)
  \/ StopCancel(t) \/ StopClear(t)

RequestStep(r) ==
  LoadInstance(r) \/ ServeNil(r) \/ Refuse(r) \/ Admit(r) \/ Return(r)

Next ==
  \/ \E t \in Threads : ReloadCall(t) \/ StopCall(t) \/ ThreadStep(t)
  \/ \E r \in Requests : Arrive(r) \/ RequestStep(r) \/ ClientGone(r)
  \/ EditFiles \/ ParentCancel \/ Quiet

Spec == Init /\ [][Next]_vars

(* A goroutine inside Reload or Stop is scheduled until it returns, which  *)
(* assumes that config.Instance terminates; sync.Mutex hands the lock to a *)
(* starving waiter; a request's goroutine runs until its handler returns.  *)
(* Nobody is obliged to call Reload or Stop, to edit a file, or to send a  *)
(* request or give it up.                                                  *)
Fairness ==
  /\ \A t \in Threads : WF_vars(ThreadStep(t)) /\ SF_vars(ReloadLock(t) \/ StopCancel(t))
  /\ \A r \in Requests : WF_vars(RequestStep(r))

FairSpec == Spec /\ Fairness

-----------------------------------------------------------------------------
(* Properties                                                              *)

(* Whenever no Reload or Stop holds the mutex, the instances whose context *)
(* was not cancelled are exactly the current one, and Server.cancel        *)
(* belongs to it.  Neither a failed Reload, nor concurrent Reloads and     *)
(* Stops, leave a discarded instance running or the current one cancelled, *)
(* although Reload ignores the result of its CompareAndSwap.               *)
OnlyCurrentLive ==
  mutex = NoThread =>
    /\ cancel = instance
    /\ \A i \in 1..lastId : i \notin cancelled <=> i = instance

(* The current instance is cancelled only inside Stop.  Reload swaps the   *)
(* pointer before it cancels the old instance, so a page told by           *)
(* WaitForServerStop to load again finds the new instance.                 *)
SignalAfterSwap ==
  instance \in cancelled => \E t \in Threads : mutex = t /\ pc[t] = "clear"

(* A request that arrives after a Reload returned is never served by an    *)
(* older instance than the one that Reload published ("so subsequent       *)
(* requests are handled by the new instance"), unless Stop removed it.     *)
ServedByNewest ==
  \A r \in Requests :
    rpc[r] \in {"loaded", "serving", "waiting"} => target[r] = 0 \/ target[r] >= floor[r]

(* The handler pointer never goes back: whatever Reload publishes is newer *)
(* than every instance before it, and was loaded from files at least as    *)
(* recent, because the files are read while the mutex is held.             *)
NeverBackwards ==
  [][instance' # instance /\ instance' # 0 =>
       \A i \in 1..lastId :
         i # instance' => i < instance' /\ built[i] <= built[instance']]_vars

(* A request answered "server stopped" was sent to a server whose Stop was *)
(* called or whose Config.Ctx is done: requests still being served by the  *)
(* old Instance of a Reload can continue to completion (server.go:16-18).  *)
RefusedOnlyWhenStopped ==
  \A r \in Requests : answer[r] = "stopped" => halted \/ parentDone

(* Otherwise it was overtaken by a Reload between its load of the pointer  *)
(* and the context check: a newer instance, which is live, has replaced    *)
(* the one it loaded.                                                      *)
RefusedOnlyWhenReplaced ==
  \A r \in Requests :
    answer[r] = "stopped" =>
      halted \/ parentDone \/ (target[r] < instance /\ instance \notin cancelled)

(* Handler always routes new requests to an Instance (server.go:61-62).    *)
AlwaysRouted ==
  \A r \in Requests : answer[r] # "panic"

(* It does until Stop is called, whatever Reloads fail or overlap.         *)
RoutedUntilStop ==
  \A r \in Requests : answer[r] = "panic" => halted

(* How the Server's state shows the state of HotSwap.  Stop ends the       *)
(* current instance when it cancels it, before it stores nil; the replaced *)
(* instance is leaving between the swap and its cancellation.              *)
Current == IF Done(instance) THEN 0 ELSE instance
Leaving == IF parentDone \/ cancel = instance THEN 0 ELSE cancel
Ended == IF parentDone THEN Ids ELSE cancelled
Admitted ==
  [r \in Requests |->
     IF rpc[r] \in {"serving", "waiting"} \/ answer[r] = "served" THEN target[r] ELSE 0]

Promise ==
  INSTANCE HotSwap WITH
    current <- Current, leaving <- Leaving, ended <- Ended, admitted <- Admitted

(* Reload, Stop and the request path, each of several steps that           *)
(* interleave, implement the atomic swap that server.go:12-19 describes.   *)
ImplementsHotSwap == Promise!HSSpec

(* Every call of Reload or Stop returns.                                   *)
CallsReturn ==
  \A t \in Threads : pc[t] # "idle" ~> pc[t] = "idle"

(* A request waiting in WaitForServerStop is released once its instance is *)
(* no longer the current one, whatever else is reloaded or stopped.        *)
WaitersReleased ==
  \A r \in Requests : rpc[r] = "waiting" /\ target[r] # instance ~> rpc[r] = "done"
=============================================================================
