---------------------------- MODULE ServerProofs ----------------------------
(***************************************************************************)
(* Proofs about Server for any number of goroutines, requests, reloads and *)
(* edits: the type invariant, the safety invariants that the model checker *)
(* explores on a small instance, that the pointer never goes backwards,    *)
(* and that Server implements HotSwap.                                     *)
(*                                                                         *)
(* Then the same about App, the command: it uses the Server as module      *)
(* Server allows, so that everything proved there holds of it; its watcher *)
(* loses no edit that it saw; and since it never calls Stop, the handler   *)
(* is never asked for an instance that is not there.                       *)
(***************************************************************************)
EXTENDS App, TLAPS

-----------------------------------------------------------------------------
(* The inductive invariant of Server                                       *)

(* A goroutine is inside Reload or Stop exactly when it holds the mutex.   *)
LockHeld == \A t \in Threads : pc[t] \in Critical <=> mutex = t

(* What the holder's locals say about the shared state.  A new instance is *)
(* known to nobody before the swap.                                        *)
Locals ==
  \A t \in Threads :
    /\ pc[t] \in {"build", "publish"} => old[t] = instance
    /\ pc[t] \in {"publish", "finish"} => new[t] = lastId /\ lastId \notin cancelled
    /\ pc[t] = "publish" => instance # lastId /\ \A r \in Requests : target[r] # lastId
    /\ pc[t] = "finish" => instance = lastId /\ cancel # lastId

(* Server.cancel belongs to the current instance, except after the swap of *)
(* Reload and inside Stop; it was never called.                            *)
Ownership ==
  /\ cancel \notin cancelled
  /\ cancel # instance => \E t \in Threads : pc[t] \in {"finish", "clear"}
  /\ \A t \in Threads : pc[t] = "clear" => cancel = 0 /\ instance \in cancelled \cup {0}
  /\ instance \in cancelled => \E t \in Threads : pc[t] = "clear"

(* Every other instance has been cancelled, except one being built.        *)
OthersCancelled ==
  \A i \in 1..lastId :
    i \in cancelled \/ i = instance \/ i = cancel
      \/ (i = lastId /\ \E t \in Threads : pc[t] = "publish")

(* The newest instance was loaded from the most recent files read so far.  *)
NewestFiles == \A i \in 1..lastId : built[i] <= built[lastId]

(* A request that has not loaded the pointer yet cannot find it outdated.  *)
FloorReached ==
  \A r \in Requests : rpc[r] = "arrived" => instance = 0 \/ instance >= floor[r]

(* Only a request that is over has been answered.                          *)
Unanswered == \A r \in Requests : rpc[r] # "done" => answer[r] = "none"

IInv ==
  /\ TypeOK
  /\ LockHeld
  /\ Locals
  /\ Ownership
  /\ OthersCancelled
  /\ NewestFiles
  /\ FloorReached
  /\ ServedByNewest
  /\ Unanswered
-----------------------------------------------------------------------------
(* A goroutine that has only called Reload disturbs nothing.               *)
LEMMA ReloadCallStep ==
  ASSUME NEW t \in Threads, IInv, ReloadCall(t)
  PROVE  IInv'
<1>. USE ServerAssumption DEF IInv, ReloadCall
<1>1. TypeOK'
  BY DEF TypeOK, Ids, Critical, reqVars
<1>2. LockHeld'
  BY DEF TypeOK, LockHeld, Critical, reqVars
<1>3. Locals'
  BY DEF TypeOK, LockHeld, Locals, Ownership, Critical, reqVars
<1>4. Ownership'
  BY DEF TypeOK, LockHeld, Locals, Ownership, Critical, reqVars
<1>5. OthersCancelled'
  BY DEF TypeOK, LockHeld, Locals, Ownership, OthersCancelled, Critical, reqVars
<1>6. NewestFiles' /\ FloorReached' /\ ServedByNewest' /\ Unanswered'
  BY DEF NewestFiles, FloorReached, ServedByNewest, Unanswered, TypeOK, reqVars
<1>. QED
  BY <1>1, <1>2, <1>3, <1>4, <1>5, <1>6

(* Taking the free mutex makes the loaded pointer and the current one agree. *)
LEMMA ReloadLockStep ==
  ASSUME NEW t \in Threads, IInv, ReloadLock(t)
  PROVE  IInv'
<1>. USE ServerAssumption DEF IInv, ReloadLock
<1>1. TypeOK'
  BY DEF TypeOK, Ids, Critical, reqVars
<1>2. LockHeld'
  BY DEF TypeOK, LockHeld, Critical, reqVars
<1>3. Locals'
  BY DEF TypeOK, LockHeld, Locals, Ownership, Critical, reqVars
<1>4. Ownership'
  BY DEF TypeOK, LockHeld, Locals, Ownership, Critical, reqVars
<1>5. OthersCancelled'
  BY DEF TypeOK, LockHeld, Locals, Ownership, OthersCancelled, Critical, reqVars
<1>6. NewestFiles' /\ FloorReached' /\ ServedByNewest' /\ Unanswered'
  BY DEF NewestFiles, FloorReached, ServedByNewest, Unanswered, TypeOK, reqVars
<1>. QED
  BY <1>1, <1>2, <1>3, <1>4, <1>5, <1>6

(* The fresh id exceeds every id in use and its files are the newest read. *)
LEMMA ReloadInstanceStep ==
  ASSUME NEW t \in Threads, IInv, ReloadInstance(t)
  PROVE  IInv'
<1>. USE ServerAssumption DEF IInv, ReloadInstance
<1>n. lastId \in Nat
  BY DEF TypeOK, Ids
<1>1. TypeOK'
  <2>1. lastId' \in Ids /\ 0..lastId \subseteq 0..lastId' /\ 1..lastId \subseteq 1..lastId'
    BY <1>n DEF Ids
  <2>2. mutex' \in Threads \cup {NoThread} /\ parentDone' \in BOOLEAN /\ halted' \in BOOLEAN
    BY DEF TypeOK
  <2>3. instance' \in 0..lastId' /\ cancel' \in 0..lastId'
    BY <2>1 DEF TypeOK
  <2>4. cancelled' \in SUBSET (1..lastId')
    BY <2>1 DEF TypeOK
  <2>5. disk' \in 0..MaxDisk /\ disk \in 0..disk
    BY DEF TypeOK
  <2>6. built' \in [Ids -> 0..disk']
    BY <2>5, Zenon DEF TypeOK
  <2>7. pc' \in [Threads -> {"idle", "reload", "stop"} \cup Critical]
    BY DEF TypeOK, Critical
  <2>8. old' \in [Threads -> 0..lastId']
    BY <2>1 DEF TypeOK
  <2>9. lastId + 1 \in 0..lastId'
    BY <1>n
  <2>10. new' \in [Threads -> 0..lastId']
    BY <2>1, <2>9 DEF TypeOK
  <2>11. target' \in [Requests -> 0..lastId'] /\ floor' \in [Requests -> 0..lastId']
    BY <2>1 DEF TypeOK, reqVars
  <2>12. /\ rpc' \in [Requests -> {"idle", "arrived", "loaded", "serving", "waiting", "done"}]
         /\ answer' \in [Requests -> {"none", "stopped", "panic", "served"}]
    BY DEF TypeOK, reqVars
  <2>. QED
    BY <2>1, <2>2, <2>3, <2>4, <2>5, <2>6, <2>7, <2>8, <2>10, <2>11, <2>12 DEF TypeOK
<1>2. LockHeld'
  BY DEF TypeOK, LockHeld, Critical, reqVars
<1>f. /\ lastId + 1 \notin cancelled
      /\ lastId + 1 # instance
      /\ \A r \in Requests : target[r] # lastId + 1
  <2>1. lastId + 1 \notin 0..lastId
    BY <1>n
  <2>2. lastId + 1 \notin cancelled
    BY <1>n DEF TypeOK
  <2>3. \A r \in Requests : target[r] \in 0..lastId
    BY DEF TypeOK
  <2>. QED
    BY <2>1, <2>2, <2>3 DEF TypeOK
<1>o. \A u \in Threads \ {t} : pc'[u] \notin Critical
  BY DEF TypeOK, LockHeld, Critical
<1>3. Locals'
  BY <1>f, <1>o DEF TypeOK, Locals, Critical, reqVars
<1>4. Ownership'
  BY DEF TypeOK, LockHeld, Locals, Ownership, Critical, reqVars
<1>5. OthersCancelled'
  <2>1. \A i \in 1..lastId : i \in cancelled \/ i = instance \/ i = cancel
    BY DEF TypeOK, LockHeld, OthersCancelled, Critical
  <2>2. pc'[t] = "publish"
    BY DEF TypeOK
  <2>3. \A i \in 1..lastId' : i \in 1..lastId \/ i = lastId'
    BY <1>n
  <2>. QED
    BY <2>1, <2>2, <2>3 DEF OthersCancelled
<1>6. NewestFiles'
  BY DEF TypeOK, NewestFiles, Ids, reqVars
<1>7. FloorReached' /\ ServedByNewest' /\ Unanswered'
  BY DEF FloorReached, ServedByNewest, Unanswered, TypeOK, reqVars
<1>. QED
  BY <1>1, <1>2, <1>3, <1>4, <1>5, <1>6, <1>7

(* A failed load cancels the only instance that nobody else knows.         *)
LEMMA ReloadFailStep ==
  ASSUME NEW t \in Threads, IInv, ReloadFail(t)
  PROVE  IInv'
<1>. USE ServerAssumption DEF IInv, ReloadFail, Unlock
<1>f. new[t] \in 1..lastId
  BY DEF TypeOK, Locals, Ids
<1>1. TypeOK'
  <2>1. cancelled' \in SUBSET (1..lastId')
    BY <1>f, Zenon DEF TypeOK
  <2>2. pc' \in [Threads -> {"idle", "reload", "stop"} \cup Critical]
    BY DEF TypeOK, Critical
  <2>3. mutex' \in Threads \cup {NoThread}
    OBVIOUS
  <2>4. old' \in [Threads -> 0..lastId'] /\ new' \in [Threads -> 0..lastId']
    BY DEF TypeOK, Ids
  <2>. QED
    BY <2>1, <2>2, <2>3, <2>4 DEF TypeOK, reqVars
<1>2. LockHeld'
  BY DEF TypeOK, LockHeld, Critical, reqVars
<1>3. Locals'
  BY DEF TypeOK, LockHeld, Locals, Ownership, Critical, reqVars
<1>4. Ownership'
  BY DEF TypeOK, LockHeld, Locals, Ownership, Critical, reqVars
<1>5. OthersCancelled'
  BY DEF TypeOK, LockHeld, Locals, Ownership, OthersCancelled, Critical, reqVars
<1>6. NewestFiles' /\ FloorReached' /\ ServedByNewest' /\ Unanswered'
  BY DEF NewestFiles, FloorReached, ServedByNewest, Unanswered, TypeOK, reqVars
<1>. QED
  BY <1>1, <1>2, <1>3, <1>4, <1>5, <1>6

(* The swap succeeds because the mutex kept the pointer as it was loaded.  *)
LEMMA ReloadSwapStep ==
  ASSUME NEW t \in Threads, IInv, ReloadSwap(t)
  PROVE  IInv'
<1>. USE ServerAssumption DEF IInv, ReloadSwap
<1>1. TypeOK'
  BY DEF TypeOK, Ids, Critical, reqVars
<1>2. LockHeld'
  BY DEF TypeOK, LockHeld, Critical, reqVars
<1>3. Locals'
  BY DEF TypeOK, LockHeld, Locals, Ownership, Critical, reqVars
<1>4. Ownership'
  BY DEF TypeOK, LockHeld, Locals, Ownership, Critical, reqVars
<1>5. OthersCancelled'
  BY DEF TypeOK, LockHeld, Locals, Ownership, OthersCancelled, Critical, reqVars
<1>6. FloorReached'
  BY DEF TypeOK, Locals, FloorReached, reqVars
<1>7. NewestFiles' /\ ServedByNewest' /\ Unanswered'
  BY DEF NewestFiles, ServedByNewest, Unanswered, TypeOK, reqVars
<1>. QED
  BY <1>1, <1>2, <1>3, <1>4, <1>5, <1>6, <1>7

(* Cancelling the replaced instance leaves the new one as the only live one. *)
LEMMA ReloadFinishStep ==
  ASSUME NEW t \in Threads, IInv, ReloadFinish(t)
  PROVE  IInv'
<1>. USE ServerAssumption DEF IInv, ReloadFinish, Unlock
<1>1. TypeOK'
  <2>1. cancel # 0 => cancel \in 1..lastId
    BY DEF TypeOK, Ids
  <2>2. cancelled' \in SUBSET (1..lastId)
    BY <2>1 DEF TypeOK
  <2>3. cancel' \in 0..lastId
    BY DEF TypeOK
  <2>4. pc' \in [Threads -> {"idle", "reload", "stop"} \cup Critical]
    BY DEF TypeOK, Critical
  <2>5. old' \in [Threads -> 0..lastId] /\ new' \in [Threads -> 0..lastId]
    BY DEF TypeOK, Ids
  <2>6. mutex' \in Threads \cup {NoThread} /\ UNCHANGED <<lastId, instance, parentDone, disk, built,
          halted, rpc, target, floor, answer>>
    BY DEF reqVars
  <2>. QED
    BY <2>2, <2>3, <2>4, <2>5, <2>6 DEF TypeOK
<1>2. LockHeld'
  BY DEF TypeOK, LockHeld, Critical, reqVars
<1>3. Locals'
  BY DEF TypeOK, LockHeld, Locals, Ownership, Critical, reqVars
<1>4. Ownership'
  BY DEF TypeOK, LockHeld, Locals, Ownership, Critical, reqVars
<1>5. OthersCancelled'
  BY DEF TypeOK, LockHeld, Locals, Ownership, OthersCancelled, Critical, reqVars
<1>6. NewestFiles' /\ FloorReached' /\ ServedByNewest' /\ Unanswered'
  BY DEF NewestFiles, FloorReached, ServedByNewest, Unanswered, TypeOK, reqVars
<1>. QED
  BY <1>1, <1>2, <1>3, <1>4, <1>5, <1>6

(* A goroutine that has only called Stop disturbs nothing.                 *)
LEMMA StopCallStep ==
  ASSUME NEW t \in Threads, IInv, StopCall(t)
  PROVE  IInv'
<1>. USE ServerAssumption DEF IInv, StopCall
<1>1. TypeOK'
  BY DEF TypeOK, Ids, Critical, reqVars
<1>2. LockHeld'
  BY DEF TypeOK, LockHeld, Critical, reqVars
<1>3. Locals'
  BY DEF TypeOK, LockHeld, Locals, Ownership, Critical, reqVars
<1>4. Ownership'
  BY DEF TypeOK, LockHeld, Locals, Ownership, Critical, reqVars
<1>5. OthersCancelled'
  BY DEF TypeOK, LockHeld, Locals, Ownership, OthersCancelled, Critical, reqVars
<1>6. NewestFiles' /\ FloorReached' /\ ServedByNewest' /\ Unanswered'
  BY DEF NewestFiles, FloorReached, ServedByNewest, Unanswered, TypeOK, reqVars
<1>. QED
  BY <1>1, <1>2, <1>3, <1>4, <1>5, <1>6

(* Stop cancels the current instance, the only live one.                   *)
LEMMA StopCancelStep ==
  ASSUME NEW t \in Threads, IInv, StopCancel(t)
  PROVE  IInv'
<1>. USE ServerAssumption DEF IInv, StopCancel
<1>1. TypeOK'
  BY DEF TypeOK, Ids, Critical, reqVars
<1>2. LockHeld'
  BY DEF TypeOK, LockHeld, Critical, reqVars
<1>3. Locals'
  BY DEF TypeOK, LockHeld, Locals, Ownership, Critical, reqVars
<1>4. Ownership'
  BY DEF TypeOK, LockHeld, Locals, Ownership, Critical, reqVars
<1>5. OthersCancelled'
  BY DEF TypeOK, LockHeld, Locals, Ownership, OthersCancelled, Critical, reqVars
<1>6. NewestFiles' /\ FloorReached' /\ ServedByNewest' /\ Unanswered'
  BY DEF NewestFiles, FloorReached, ServedByNewest, Unanswered, TypeOK, reqVars
<1>. QED
  BY <1>1, <1>2, <1>3, <1>4, <1>5, <1>6

(* Storing nil forgets an instance that has been cancelled.                *)
LEMMA StopClearStep ==
  ASSUME NEW t \in Threads, IInv, StopClear(t)
  PROVE  IInv'
<1>. USE ServerAssumption DEF IInv, StopClear, Unlock
<1>1. TypeOK'
  BY DEF TypeOK, Ids, Critical, reqVars
<1>2. LockHeld'
  BY DEF TypeOK, LockHeld, Critical, reqVars
<1>3. Locals'
  BY DEF TypeOK, LockHeld, Locals, Ownership, Critical, reqVars
<1>4. Ownership'
  BY DEF TypeOK, LockHeld, Locals, Ownership, Critical, reqVars
<1>5. OthersCancelled'
  BY DEF TypeOK, LockHeld, Locals, Ownership, OthersCancelled, Critical, reqVars
<1>6. FloorReached'
  BY DEF TypeOK, Locals, FloorReached, reqVars
<1>7. NewestFiles' /\ ServedByNewest' /\ Unanswered'
  BY DEF NewestFiles, ServedByNewest, Unanswered, TypeOK, reqVars
<1>. QED
  BY <1>1, <1>2, <1>3, <1>4, <1>5, <1>6, <1>7

(* Server.cancel is never newer than the current instance.                 *)
LEMMA ArriveStep ==
  ASSUME NEW r \in Requests, IInv, Arrive(r)
  PROVE  IInv'
<1>. USE ServerAssumption DEF IInv, Arrive
<1>1. TypeOK'
  BY DEF TypeOK, Ids, Critical, threadVars
<1>2. FloorReached'
  BY DEF TypeOK, LockHeld, Locals, Ownership, FloorReached, Critical, threadVars
<1>3. ServedByNewest' /\ Unanswered'
  BY DEF TypeOK, FloorReached, ServedByNewest, Unanswered, threadVars
<1>4. LockHeld' /\ Locals' /\ Ownership' /\ OthersCancelled' /\ NewestFiles'
  BY DEF LockHeld, Locals, Ownership, OthersCancelled, NewestFiles, TypeOK, threadVars, reqVars
<1>. QED
  BY <1>1, <1>2, <1>3, <1>4

(* The loaded pointer was published, and is not older than the floor.      *)
LEMMA LoadInstanceStep ==
  ASSUME NEW r \in Requests, IInv, LoadInstance(r)
  PROVE  IInv'
<1>. USE ServerAssumption DEF IInv, LoadInstance
<1>1. TypeOK'
  BY DEF TypeOK, Ids, Critical, threadVars
<1>2. Locals'
  BY DEF TypeOK, LockHeld, Locals, Ownership, Critical, threadVars
<1>3. FloorReached'
  BY DEF TypeOK, Locals, FloorReached, threadVars
<1>4. ServedByNewest' /\ Unanswered'
  BY DEF TypeOK, FloorReached, ServedByNewest, Unanswered, threadVars
<1>5. LockHeld' /\ Ownership' /\ OthersCancelled' /\ NewestFiles'
  BY DEF LockHeld, Ownership, OthersCancelled, NewestFiles, TypeOK, threadVars, reqVars
<1>. QED
  BY <1>1, <1>2, <1>3, <1>4, <1>5

(* Answering a request leaves the instances alone.                         *)
LEMMA ServeNilStep ==
  ASSUME NEW r \in Requests, IInv, ServeNil(r)
  PROVE  IInv'
<1>. USE ServerAssumption DEF IInv, ServeNil
<1>1. TypeOK'
  BY DEF TypeOK, Ids, Critical, threadVars
<1>2. FloorReached'
  BY DEF TypeOK, Locals, FloorReached, threadVars
<1>3. ServedByNewest' /\ Unanswered'
  BY DEF TypeOK, FloorReached, ServedByNewest, Unanswered, threadVars
<1>4. LockHeld' /\ Locals' /\ Ownership' /\ OthersCancelled' /\ NewestFiles'
  BY DEF LockHeld, Locals, Ownership, OthersCancelled, NewestFiles, TypeOK, threadVars, reqVars
<1>. QED
  BY <1>1, <1>2, <1>3, <1>4

(* Answering a request leaves the instances alone.                         *)
LEMMA RefuseStep ==
  ASSUME NEW r \in Requests, IInv, Refuse(r)
  PROVE  IInv'
<1>. USE ServerAssumption DEF IInv, Refuse
<1>1. TypeOK'
  BY DEF TypeOK, Ids, Critical, threadVars
<1>2. FloorReached'
  BY DEF TypeOK, Locals, FloorReached, threadVars
<1>3. ServedByNewest' /\ Unanswered'
  BY DEF TypeOK, FloorReached, ServedByNewest, Unanswered, threadVars
<1>4. LockHeld' /\ Locals' /\ Ownership' /\ OthersCancelled' /\ NewestFiles'
  BY DEF LockHeld, Locals, Ownership, OthersCancelled, NewestFiles, TypeOK, threadVars, reqVars
<1>. QED
  BY <1>1, <1>2, <1>3, <1>4

(* Admitting a request leaves the instances alone.                         *)
LEMMA AdmitStep ==
  ASSUME NEW r \in Requests, IInv, Admit(r)
  PROVE  IInv'
<1>. USE ServerAssumption DEF IInv, Admit
<1>1. TypeOK'
  BY DEF TypeOK, Ids, Critical, threadVars
<1>2. FloorReached'
  BY DEF TypeOK, Locals, FloorReached, threadVars
<1>3. ServedByNewest' /\ Unanswered'
  BY DEF TypeOK, FloorReached, ServedByNewest, Unanswered, threadVars
<1>4. LockHeld' /\ Locals' /\ Ownership' /\ OthersCancelled' /\ NewestFiles'
  BY DEF LockHeld, Locals, Ownership, OthersCancelled, NewestFiles, TypeOK, threadVars, reqVars
<1>. QED
  BY <1>1, <1>2, <1>3, <1>4

(* Answering a request leaves the instances alone.                         *)
LEMMA ReturnStep ==
  ASSUME NEW r \in Requests, IInv, Return(r)
  PROVE  IInv'
<1>. USE ServerAssumption DEF IInv, Return
<1>1. TypeOK'
  BY DEF TypeOK, Ids, Critical, threadVars
<1>2. FloorReached'
  BY DEF TypeOK, Locals, FloorReached, threadVars
<1>3. ServedByNewest' /\ Unanswered'
  BY DEF TypeOK, FloorReached, ServedByNewest, Unanswered, threadVars
<1>4. LockHeld' /\ Locals' /\ Ownership' /\ OthersCancelled' /\ NewestFiles'
  BY DEF LockHeld, Locals, Ownership, OthersCancelled, NewestFiles, TypeOK, threadVars, reqVars
<1>. QED
  BY <1>1, <1>2, <1>3, <1>4

(* A client that goes away leaves the instances alone.                     *)
LEMMA ClientGoneStep ==
  ASSUME NEW r \in Requests, IInv, ClientGone(r)
  PROVE  IInv'
<1>. USE ServerAssumption DEF IInv, ClientGone
<1>1. TypeOK'
  BY DEF TypeOK, Ids, Critical, threadVars
<1>2. FloorReached'
  BY DEF TypeOK, Locals, FloorReached, threadVars
<1>3. ServedByNewest' /\ Unanswered'
  BY DEF TypeOK, FloorReached, ServedByNewest, Unanswered, threadVars
<1>4. LockHeld' /\ Locals' /\ Ownership' /\ OthersCancelled' /\ NewestFiles'
  BY DEF LockHeld, Locals, Ownership, OthersCancelled, NewestFiles, TypeOK, threadVars, reqVars
<1>. QED
  BY <1>1, <1>2, <1>3, <1>4

(* An edit of the files changes neither an instance nor a request.         *)
LEMMA EditFilesStep ==
  ASSUME IInv, EditFiles
  PROVE  IInv'
<1>1. TypeOK'
  <2>1. disk' \in 0..MaxDisk /\ 0..disk \subseteq 0..disk'
    BY ServerAssumption DEF IInv, TypeOK, EditFiles
  <2>2. built' \in [Ids -> 0..disk']
    BY <2>1 DEF IInv, TypeOK, EditFiles, threadVars
  <2>. QED
    BY <2>1, <2>2 DEF IInv, TypeOK, EditFiles, threadVars, reqVars
<1>. QED
  BY <1>1 DEF IInv, EditFiles, LockHeld, Locals, Ownership, OthersCancelled, NewestFiles,
              FloorReached, ServedByNewest, Unanswered, threadVars, reqVars

(* The parent context is no part of the bookkeeping of cancelled contexts. *)
LEMMA ParentCancelStep ==
  ASSUME IInv, ParentCancel
  PROVE  IInv'
BY DEF IInv, ParentCancel, TypeOK, LockHeld, Locals, Ownership, OthersCancelled, NewestFiles,
       FloorReached, ServedByNewest, Unanswered, threadVars, reqVars

(* A step that changes no variable keeps the invariant.                    *)
LEMMA StutterStep ==
  ASSUME IInv, UNCHANGED vars
  PROVE  IInv'
BY DEF IInv, vars, TypeOK, LockHeld, Locals, Ownership, OthersCancelled, NewestFiles,
       FloorReached, ServedByNewest, Unanswered, threadVars, reqVars

(* The Server that Config.Server returns satisfies the invariant.          *)
LEMMA InitIInv == Init => IInv
<1>. SUFFICES ASSUME Init PROVE IInv
  OBVIOUS
<1>1. TypeOK
  <2>1. lastId \in Ids /\ cancelled \in SUBSET (1..lastId) /\ disk \in 0..MaxDisk
    BY ServerAssumption DEF Init, Ids
  <2>2. built \in [Ids -> 0..disk]
    BY DEF Init
  <2>3. /\ old \in [Threads -> 0..lastId] /\ new \in [Threads -> 0..lastId]
        /\ target \in [Requests -> 0..lastId] /\ floor \in [Requests -> 0..lastId]
    BY DEF Init
  <2>4. /\ pc \in [Threads -> {"idle", "reload", "stop"} \cup Critical]
        /\ rpc \in [Requests -> {"idle", "arrived", "loaded", "serving", "waiting", "done"}]
        /\ answer \in [Requests -> {"none", "stopped", "panic", "served"}]
    BY DEF Init
  <2>5. instance \in 0..lastId /\ cancel \in 0..lastId /\ mutex \in Threads \cup {NoThread}
    BY DEF Init
  <2>6. parentDone \in BOOLEAN /\ halted \in BOOLEAN
    BY Zenon DEF Init
  <2>. QED
    BY <2>1, <2>2, <2>3, <2>4, <2>5, <2>6 DEF TypeOK
<1>2. LockHeld /\ Locals
  BY ServerAssumption DEF Init, LockHeld, Locals, Critical
<1>3. Ownership /\ OthersCancelled
  BY DEF Init, Ownership, OthersCancelled
<1>4. NewestFiles /\ FloorReached /\ ServedByNewest /\ Unanswered
  BY ServerAssumption DEF Init, NewestFiles, FloorReached, ServedByNewest, Unanswered, Ids
<1>. QED
  BY <1>1, <1>2, <1>3, <1>4 DEF IInv

(* Every step of the goroutines, the requests and the environment keeps    *)
(* the invariant.                                                          *)
LEMMA NextIInv == IInv /\ [Next]_vars => IInv'
<1>. SUFFICES ASSUME IInv, [Next]_vars PROVE IInv'
  OBVIOUS
<1>1. ASSUME NEW t \in Threads, ReloadCall(t) \/ StopCall(t) \/ ThreadStep(t)
      PROVE  IInv'
  BY <1>1, ReloadCallStep, ReloadLockStep, ReloadInstanceStep, ReloadFailStep, ReloadSwapStep,
     ReloadFinishStep, StopCallStep, StopCancelStep, StopClearStep DEF ThreadStep
<1>2. ASSUME NEW r \in Requests, Arrive(r) \/ RequestStep(r) \/ ClientGone(r)
      PROVE  IInv'
  BY <1>2, ArriveStep, LoadInstanceStep, ServeNilStep, RefuseStep, AdmitStep, ReturnStep,
     ClientGoneStep DEF RequestStep
<1>3. CASE EditFiles
  BY <1>3, EditFilesStep
<1>4. CASE ParentCancel
  BY <1>4, ParentCancelStep
<1>5. CASE UNCHANGED vars
  BY <1>5, StutterStep
<1>. QED
  BY <1>1, <1>2, <1>3, <1>4, <1>5 DEF Next, Quiet

(* The inductive invariant holds in every reachable state.                 *)
THEOREM Invariance == Spec => []IInv
BY InitIInv, NextIInv, PTL DEF Spec

(* Every reachable state of the Server is well typed.                      *)
THEOREM TypeCorrect == Spec => []TypeOK
<1>1. IInv => TypeOK
  BY DEF IInv
<1>. QED
  BY <1>1, Invariance, PTL

(* Whenever no Reload or Stop is inside its critical section, exactly the  *)
(* current instance is live, whatever calls failed or raced before.        *)
THEOREM OnlyCurrentLiveAlways == Spec => []OnlyCurrentLive
<1>1. IInv => OnlyCurrentLive
  <2>. SUFFICES ASSUME IInv, mutex = NoThread PROVE OnlyCurrentLive!2
    BY DEF OnlyCurrentLive
  <2>1. \A t \in Threads : pc[t] \notin Critical
    BY ServerAssumption DEF IInv, LockHeld
  <2>. QED
    BY <2>1 DEF IInv, Ownership, OthersCancelled, Critical
<1>. QED
  BY <1>1, Invariance, PTL

(* Only Stop cancels an instance that is still the current one.            *)
THEOREM SignalAfterSwapAlways == Spec => []SignalAfterSwap
<1>1. IInv => SignalAfterSwap
  BY DEF IInv, Ownership, LockHeld, SignalAfterSwap, Critical
<1>. QED
  BY <1>1, Invariance, PTL

(* After a Reload has returned, no request is served by an older instance. *)
THEOREM ServedByNewestAlways == Spec => []ServedByNewest
<1>1. IInv => ServedByNewest
  BY DEF IInv
<1>. QED
  BY <1>1, Invariance, PTL

(* The pointer only ever moves to a newer instance with newer files.       *)
THEOREM NeverBackwardsAlways == Spec => NeverBackwards
<1>. DEFINE Forward ==
       instance' # instance /\ instance' # 0 =>
         \A i \in 1..lastId : i # instance' => i < instance' /\ built[i] <= built[instance']
<1>1. IInv /\ [Next]_vars => [Forward]_vars
  <2>. SUFFICES ASSUME IInv, Next, instance' # instance, instance' # 0
                PROVE  \A i \in 1..lastId : i # instance' => i < instance' /\ built[i] <= built[instance']
    OBVIOUS
  <2>1. PICK t \in Threads : ReloadSwap(t)
    BY Zenon DEF Next, ThreadStep, RequestStep, ReloadCall, ReloadLock, ReloadInstance, ReloadFail,
           ReloadFinish, StopCall, StopCancel, StopClear, Arrive, LoadInstance, ServeNil, Refuse,
           Admit, Return, ClientGone, EditFiles, ParentCancel, Quiet, vars, threadVars
  <2>2. instance' = lastId
    BY <2>1 DEF ReloadSwap, IInv, Locals
  <2>. QED
    BY <2>2 DEF IInv, NewestFiles, TypeOK, Ids
<1>. QED
  BY <1>1, Invariance, PTL DEF Spec, NeverBackwards

-----------------------------------------------------------------------------
(* Requests that get no answer from a template                             *)

(* Until Stop is called there is an instance, and none that a request has  *)
(* loaded is newer.  A refused request's instance was cancelled.           *)
Overtaken ==
  /\ \A t \in Threads : pc[t] = "clear" => halted
  /\ instance = 0 => halted
  /\ \A r \in Requests :
       /\ ~halted => target[r] <= instance /\ (rpc[r] = "loaded" => target[r] # 0)
       /\ answer[r] = "stopped" => parentDone \/ target[r] \in cancelled
       /\ answer[r] = "panic" => halted

(* A goroutine inside Reload or Stop keeps it: the swap moves the pointer  *)
(* to the newest instance, and only Stop clears it.                        *)
LEMMA OvertakenThread ==
  ASSUME NEW t \in Threads, IInv, Overtaken, ReloadCall(t) \/ StopCall(t) \/ ThreadStep(t)
  PROVE  Overtaken'
<1>. USE DEF reqVars
<1>t. /\ pc \in [Threads -> {"idle", "reload", "stop"} \cup Critical]
      /\ instance \in 0..lastId /\ lastId \in Nat \ {0}
      /\ halted \in BOOLEAN
      /\ target \in [Requests -> 0..lastId]
  BY ServerAssumption DEF IInv, TypeOK, Ids
<1>1. CASE ReloadCall(t)
  BY <1>t, <1>1 DEF ReloadCall, Overtaken
<1>2. CASE StopCall(t)
  BY <1>t, <1>2 DEF StopCall, Overtaken
<1>3. CASE ReloadLock(t)
  BY <1>t, <1>3 DEF ReloadLock, Overtaken
<1>4. CASE ReloadInstance(t)
  BY <1>t, <1>4 DEF ReloadInstance, Overtaken
<1>5. CASE ReloadFail(t)
  BY <1>t, <1>5 DEF ReloadFail, Unlock, Overtaken
<1>6. CASE ReloadSwap(t)
  <2>1. instance' = lastId
    BY <1>6 DEF ReloadSwap, IInv, Locals
  <2>2. \A r \in Requests : target[r] <= lastId
    BY <1>t
  <2>. QED
    BY <1>t, <1>6, <2>1, <2>2 DEF ReloadSwap, Overtaken
<1>7. CASE ReloadFinish(t)
  BY <1>t, <1>7 DEF ReloadFinish, Unlock, Overtaken
<1>8. CASE StopCancel(t)
  BY <1>t, <1>8 DEF StopCancel, Overtaken
<1>9. CASE StopClear(t)
  BY <1>t, <1>9 DEF StopClear, Unlock, Overtaken
<1>. QED
  BY <1>1, <1>2, <1>3, <1>4, <1>5, <1>6, <1>7, <1>8, <1>9 DEF ThreadStep

(* So does a request: it loads the current pointer, and is refused only by *)
(* an instance that is done.                                               *)
LEMMA OvertakenRequest ==
  ASSUME NEW r \in Requests, IInv, Overtaken, Arrive(r) \/ RequestStep(r) \/ ClientGone(r)
  PROVE  Overtaken'
<1>. USE DEF threadVars
<1>t. /\ rpc \in [Requests -> {"idle", "arrived", "loaded", "serving", "waiting", "done"}]
      /\ answer \in [Requests -> {"none", "stopped", "panic", "served"}]
      /\ target \in [Requests -> 0..lastId]
      /\ instance \in 0..lastId /\ lastId \in Nat
  BY ServerAssumption DEF IInv, TypeOK, Ids
<1>1. CASE Arrive(r)
  BY <1>t, <1>1 DEF Arrive, Overtaken
<1>2. CASE LoadInstance(r)
  <2>1. answer[r] = "none"
    BY <1>2 DEF LoadInstance, IInv, Unanswered
  <2>2. instance <= instance
    BY <1>t
  <2>. QED
    BY <1>t, <1>2, <2>1, <2>2 DEF LoadInstance, Overtaken
<1>3. CASE ServeNil(r)
  BY <1>t, <1>3 DEF ServeNil, Overtaken
<1>4. CASE Refuse(r)
  BY <1>t, <1>4 DEF Refuse, Done, Overtaken
<1>5. CASE Admit(r)
  BY <1>t, <1>5 DEF Admit, Overtaken
<1>6. CASE Return(r)
  BY <1>t, <1>6 DEF Return, Overtaken
<1>7. CASE ClientGone(r)
  BY <1>t, <1>7 DEF ClientGone, Overtaken
<1>. QED
  BY <1>1, <1>2, <1>3, <1>4, <1>5, <1>6, <1>7 DEF RequestStep

(* With the invariant of the Server it is inductive.                       *)
LEMMA OvertakenAlways == Spec => []Overtaken
<1>1. Init => Overtaken
  BY DEF Init, Overtaken
<1>2. IInv /\ Overtaken /\ [Next]_vars => Overtaken'
  <2>. SUFFICES ASSUME IInv, Overtaken, [Next]_vars PROVE Overtaken'
    OBVIOUS
  <2>1. CASE EditFiles \/ ParentCancel
    BY <2>1 DEF EditFiles, ParentCancel, Overtaken, threadVars, reqVars
  <2>2. CASE UNCHANGED vars
    BY <2>2 DEF Overtaken, vars, threadVars, reqVars
  <2>. QED
    BY <2>1, <2>2, OvertakenThread, OvertakenRequest DEF Next, Quiet
<1>. QED
  BY <1>1, <1>2, Invariance, PTL DEF Spec

(* A server that was not stopped refuses a request only because a newer    *)
(* instance, which is live, has replaced the one that the request loaded.  *)
THEOREM RefusedOnlyWhenReplacedAlways == Spec => []RefusedOnlyWhenReplaced
<1>1. IInv /\ Overtaken => RefusedOnlyWhenReplaced
  <2>. SUFFICES ASSUME IInv, Overtaken, NEW r \in Requests,
                       answer[r] = "stopped", ~halted, ~parentDone
                PROVE  target[r] < instance /\ instance \notin cancelled
    BY DEF RefusedOnlyWhenReplaced
  <2>1. instance \notin cancelled
    BY DEF IInv, Ownership, Overtaken
  <2>2. target[r] <= instance /\ target[r] # instance
    BY <2>1 DEF Overtaken
  <2>3. target[r] \in Nat /\ instance \in Nat
    BY DEF IInv, TypeOK
  <2>. QED
    BY <2>1, <2>2, <2>3
<1>. QED
  BY <1>1, Invariance, OvertakenAlways, PTL

(* No request meets the nil pointer before Stop was called, however many   *)
(* Reloads failed or overlapped.                                           *)
THEOREM RoutedUntilStopAlways == Spec => []RoutedUntilStop
<1>1. Overtaken => RoutedUntilStop
  BY DEF Overtaken, RoutedUntilStop
<1>. QED
  BY <1>1, OvertakenAlways, PTL

-----------------------------------------------------------------------------
(* The refinement of HotSwap: the swap, the two kinds of cancellation,     *)
(* Stop's cancellation, the parent's, and an admission are its steps; the  *)
(* rest of the code stutters.                                              *)

(* The initial Server is an initial state of HotSwap.                      *)
LEMMA InitPromise == Init => Promise!HSInit
BY DEF Init, Promise!HSInit, Current, Leaving, Ended, Admitted, Done

(* Reload's swap is HotSwap's: the replaced instance is now leaving.       *)
LEMMA SwapPromise ==
  ASSUME NEW t \in Threads, IInv, ReloadSwap(t)
  PROVE  Promise!HSNext \/ UNCHANGED <<Current, Leaving, Ended, Admitted>>
<1>. USE DEF Current, Leaving, Ended, Admitted, Done
<1>0. cancel = instance /\ instance \notin cancelled
  BY DEF IInv, LockHeld, Ownership, ReloadSwap, Critical
<1>1. instance' = lastId /\ lastId # instance /\ lastId \notin cancelled /\ lastId \in Ids
  BY DEF IInv, Locals, TypeOK, ReloadSwap
<1>2. UNCHANGED <<cancel, cancelled, parentDone, rpc, answer, target>>
  BY DEF ReloadSwap, reqVars
<1>3. CASE parentDone
  BY <1>2, <1>3
<1>4. CASE ~parentDone
  <2>1. Promise!Swap(lastId)
    BY <1>0, <1>1, <1>2, <1>4 DEF Promise!Swap
  <2>. QED
    BY <2>1, <1>1, Zenon DEF Promise!HSNext, Ids
<1>. QED
  BY <1>3, <1>4

(* A failed Reload discards an instance that never was current.            *)
LEMMA FailPromise ==
  ASSUME NEW t \in Threads, IInv, ReloadFail(t)
  PROVE  Promise!HSNext \/ UNCHANGED <<Current, Leaving, Ended, Admitted>>
<1>. USE DEF Current, Leaving, Ended, Admitted, Done
<1>0. cancel = instance /\ instance \notin cancelled
  BY DEF IInv, LockHeld, Ownership, ReloadFail, Critical
<1>1. new[t] = lastId /\ lastId # instance /\ lastId \in Ids /\ lastId # 0
  BY DEF IInv, Locals, TypeOK, ReloadFail, Ids
<1>2. UNCHANGED <<cancel, instance, parentDone, rpc, answer, target>> /\ cancelled' = cancelled \cup {new[t]}
  BY DEF ReloadFail, reqVars
<1>3. CASE parentDone
  BY <1>2, <1>3
<1>4. CASE ~parentDone
  <2>1. Promise!Discard(lastId)
    BY <1>0, <1>1, <1>2, <1>4 DEF Promise!Discard
  <2>. QED
    BY <2>1, <1>1 DEF Promise!HSNext, Ids
<1>. QED
  BY <1>3, <1>4

(* Reload's cancellation of the replaced instance ends the leaving one.    *)
LEMMA FinishPromise ==
  ASSUME NEW t \in Threads, IInv, ReloadFinish(t)
  PROVE  Promise!HSNext \/ UNCHANGED <<Current, Leaving, Ended, Admitted>>
<1>. USE DEF Current, Leaving, Ended, Admitted, Done
<1>1. /\ new[t] = lastId /\ instance = lastId /\ lastId \notin cancelled /\ lastId # cancel
  BY DEF IInv, Locals, ReloadFinish
<1>2. /\ UNCHANGED <<instance, parentDone, rpc, answer, target>>
      /\ cancel' = new[t]
      /\ cancelled' = IF cancel # 0 THEN cancelled \cup {cancel} ELSE cancelled
  BY DEF ReloadFinish, reqVars
<1>3. CASE parentDone \/ cancel = 0
  BY <1>1, <1>2, <1>3
<1>4. CASE ~parentDone /\ cancel # 0
  <2>1. Promise!EndLeaving
    BY <1>1, <1>2, <1>4 DEF Promise!EndLeaving
  <2>. QED
    BY <2>1 DEF Promise!HSNext
<1>. QED
  BY <1>3, <1>4

(* Stop shuts the current instance when it cancels it.                     *)
LEMMA StopPromise ==
  ASSUME NEW t \in Threads, IInv, StopCancel(t)
  PROVE  Promise!HSNext \/ UNCHANGED <<Current, Leaving, Ended, Admitted>>
<1>. USE DEF Current, Leaving, Ended, Admitted, Done
<1>1. cancel = instance /\ instance \notin cancelled
  BY ServerAssumption DEF IInv, LockHeld, Ownership, StopCancel, Critical
<1>2. /\ UNCHANGED <<instance, parentDone, rpc, answer, target>>
      /\ cancel' = 0
      /\ cancelled' = IF cancel # 0 THEN cancelled \cup {cancel} ELSE cancelled
  BY DEF StopCancel, reqVars
<1>3. CASE parentDone \/ cancel = 0
  BY <1>1, <1>2, <1>3
<1>4. CASE ~parentDone /\ cancel # 0
  <2>1. Promise!Shut
    BY <1>1, <1>2, <1>4 DEF Promise!Shut
  <2>. QED
    BY <2>1 DEF Promise!HSNext
<1>. QED
  BY <1>3, <1>4

(* ServeHTTP admits a request only to the current or the leaving instance. *)
LEMMA AdmitPromise ==
  ASSUME NEW r \in Requests, IInv, Admit(r)
  PROVE  Promise!HSNext
<1>. USE DEF Current, Leaving, Ended, Admitted, Done
<1>1. target[r] \in 1..lastId /\ target[r] \in Ids /\ target[r] # 0
  <2>1. target[r] \in 0..lastId /\ target[r] # 0
    BY DEF IInv, TypeOK, Admit
  <2>2. lastId \in Nat /\ lastId <= MaxInstances
    BY ServerAssumption DEF IInv, TypeOK, Ids
  <2>. QED
    BY <2>1, <2>2, ServerAssumption DEF Ids
<1>2. ~parentDone /\ target[r] \notin cancelled
  BY DEF Admit
<1>3. target[r] = instance \/ target[r] = cancel
  BY <1>1, <1>2 DEF IInv, OthersCancelled, Locals
<1>4. target[r] \in {Current, Leaving} \ {0}
  BY <1>1, <1>2, <1>3
<1>5. Admitted[r] = 0
  BY DEF Admit, IInv, Unanswered
<1>6. Admitted' = [Admitted EXCEPT ![r] = target[r]]
  BY Zenon DEF Admit, IInv, TypeOK, threadVars
<1>7. UNCHANGED <<Current, Leaving, Ended>>
  BY DEF Admit, threadVars
<1>8. PICK i \in 1..MaxInstances : i = target[r]
  BY <1>1 DEF Ids
<1>9. Promise!AdmitBy(r, i)
  BY <1>4, <1>5, <1>6, <1>7, <1>8 DEF Promise!AdmitBy
<1>. QED
  BY <1>9 DEF Promise!HSNext

(* Cancelling the parent context ends every instance.                      *)
LEMMA ParentPromise ==
  ASSUME ParentCancel
  PROVE  Promise!HSNext
<1>1. Promise!Halt
  BY Zenon DEF ParentCancel, Promise!Halt, Current, Leaving, Ended, Admitted, Done, Ids, threadVars, reqVars
<1>. QED
  BY <1>1 DEF Promise!HSNext

(* The other steps of Reload and Stop are invisible.  Storing nil is one:  *)
(* the instance it removes has already been cancelled.                     *)
LEMMA ThreadStutter ==
  ASSUME NEW t \in Threads, IInv,
         ReloadCall(t) \/ ReloadLock(t) \/ ReloadInstance(t) \/ StopCall(t) \/ StopClear(t)
  PROVE  UNCHANGED <<Current, Leaving, Ended, Admitted>>
<1>. USE DEF Current, Leaving, Ended, Admitted, Done
<1>1. CASE ReloadCall(t) \/ ReloadLock(t) \/ ReloadInstance(t) \/ StopCall(t)
  <2>1. UNCHANGED <<instance, cancel, cancelled, parentDone, rpc, answer, target>>
    BY <1>1 DEF ReloadCall, ReloadLock, ReloadInstance, StopCall, reqVars
  <2>. QED
    BY <2>1
<1>2. CASE StopClear(t)
  <2>1. cancel = 0 /\ instance \in cancelled \cup {0}
    BY <1>2 DEF StopClear, IInv, Ownership
  <2>2. instance' = 0 /\ UNCHANGED <<cancel, cancelled, parentDone, rpc, answer, target>>
    BY <1>2 DEF StopClear, reqVars
  <2>3. 0 \notin cancelled
    BY DEF IInv, TypeOK
  <2>. QED
    BY <2>1, <2>2, <2>3, Zenon
<1>. QED
  BY <1>1, <1>2, Zenon

(* The other steps of a request are invisible: it is admitted once.        *)
LEMMA RequestStutter ==
  ASSUME NEW r \in Requests, IInv,
         Arrive(r) \/ LoadInstance(r) \/ ServeNil(r) \/ Refuse(r) \/ Return(r)
           \/ ClientGone(r)
  PROVE  UNCHANGED <<Current, Leaving, Ended, Admitted>>
<1>1. UNCHANGED <<instance, cancel, cancelled, parentDone>>
  BY DEF Arrive, LoadInstance, ServeNil, Refuse, Return, ClientGone, threadVars
<1>2. UNCHANGED <<Current, Leaving, Ended>>
  BY <1>1 DEF Current, Leaving, Ended, Done
<1>3. Admitted' = Admitted
  BY DEF Arrive, LoadInstance, ServeNil, Refuse, Return, ClientGone, Admitted, IInv, TypeOK, Unanswered
<1>. QED
  BY <1>2, <1>3

(* Server implements HotSwap: the interleaved steps of Reload, Stop and    *)
(* requests amount to atomic swaps of the handler.                         *)
THEOREM Refinement == Spec => ImplementsHotSwap
<1>. DEFINE hv == <<Current, Leaving, Ended, Admitted>>
<1>1. IInv /\ [Next]_vars => Promise!HSNext \/ UNCHANGED hv
  <2>. SUFFICES ASSUME IInv, [Next]_vars PROVE Promise!HSNext \/ UNCHANGED hv
    OBVIOUS
  <2>1. ASSUME NEW t \in Threads, ReloadCall(t) \/ StopCall(t) \/ ThreadStep(t)
        PROVE  Promise!HSNext \/ UNCHANGED hv
    BY <2>1, SwapPromise, FailPromise, FinishPromise, StopPromise, ThreadStutter DEF ThreadStep
  <2>2. ASSUME NEW r \in Requests, Arrive(r) \/ RequestStep(r) \/ ClientGone(r)
        PROVE  Promise!HSNext \/ UNCHANGED hv
    BY <2>2, AdmitPromise, RequestStutter DEF RequestStep
  <2>3. CASE EditFiles \/ UNCHANGED vars
    <3>1. UNCHANGED <<instance, cancel, cancelled, parentDone, rpc, answer, target>>
      BY <2>3 DEF EditFiles, vars, threadVars, reqVars
    <3>. QED
      BY <3>1 DEF Current, Leaving, Ended, Admitted, Done
  <2>. QED
    BY <2>1, <2>2, <2>3, ParentPromise DEF Next, Quiet
<1>2. IInv /\ [Next]_vars => [Promise!HSNext]_(Promise!hsVars)
  BY <1>1 DEF Promise!hsVars
<1>. QED
  BY <1>2, InitPromise, Invariance, PTL DEF Spec, ImplementsHotSwap, Promise!HSSpec

-----------------------------------------------------------------------------
(* The invariant of the command                                            *)

(* The variables of Main and of the watcher.                               *)
AppTypeOK ==
  /\ phase \in {"config", "load", "watch", "serve", "exit"}
  /\ config \in [watch : SUBSET Dirs, watchTemplates : BOOLEAN, fs : BOOLEAN]
  /\ fs \in BOOLEAN
  /\ edits \in 0..MaxEdits
  /\ pending \in BOOLEAN
  /\ seen \in 0..disk

(* A Reload that has read the files, or the one before it, has read every  *)
(* edit that no callback is owed for.                                      *)
CaughtUp ==
  ~pending /\ pc[Watcher] \notin {"reload", "build"} => built[lastId] >= seen

(* Nobody stops the server.                                                *)
NeverStopped == ~halted /\ ~parentDone /\ \A t \in Threads : pc[t] # "stop"

AppIInv == AppTypeOK /\ CaughtUp /\ NeverStopped

-----------------------------------------------------------------------------
(* The command uses the Server                                             *)

(* A step of the command is one of the Server, or none: the watcher is one *)
(* of the goroutines that call Reload.                                     *)
LEMMA AppStep ==
  ASSUME [AppNext]_appVars
  PROVE  [Next]_vars
<1>1. CASE Main
  BY <1>1, Zenon DEF Main, Configure, NewServer, StartWatch, Exit
<1>2. ASSUME NEW d \in Dirs, Edit(d) PROVE [Next]_vars
  BY <1>2 DEF Edit, Next
<1>3. CASE WatchCallback
  BY <1>3, WatcherAssumption DEF WatchCallback, Next
<1>4. CASE ServerStep
  BY <1>4, WatcherAssumption DEF ServerStep, Next
<1>5. CASE ServeFails
  BY <1>5 DEF ServeFails, Exit
<1>6. CASE UNCHANGED appVars
  BY <1>6 DEF appVars
<1>. QED
  BY <1>1, <1>2, <1>3, <1>4, <1>5, <1>6 DEF AppNext, AppQuiet

(* The command implements the specification of the Server, whatever Main   *)
(* and the watcher do: what holds of every Server holds of this one.       *)
THEOREM ImplementsServer == AppSpec => Spec
<1>1. AppInit => Init
  BY DEF AppInit
<1>. QED
  BY <1>1, AppStep, PTL DEF AppSpec, Spec

-----------------------------------------------------------------------------
(* The invariant                                                           *)

(* Nothing was edited or seen yet.                                         *)
LEMMA AppInitIInv == AppInit => AppIInv
<1>. SUFFICES ASSUME AppInit PROVE AppIInv
  OBVIOUS
<1>1. AppTypeOK
  <2>1. 0 \in 0..MaxEdits /\ 0 \in 0..0
    BY WatcherAssumption
  <2>2. config \in [watch : SUBSET Dirs, watchTemplates : BOOLEAN, fs : BOOLEAN]
    BY DEF AppInit
  <2>. QED
    BY <2>1, <2>2, Zenon DEF AppInit, Init, AppTypeOK
<1>2. CaughtUp
  BY ServerAssumption DEF AppInit, Init, CaughtUp, Ids
<1>3. NeverStopped
  BY DEF AppInit, Init, NeverStopped
<1>. QED
  BY <1>1, <1>2, <1>3 DEF AppIInv

(* Main's configuration and the count of the edits.                        *)
LEMMA AppTypeStep ==
  ASSUME IInv, AppTypeOK, [AppNext]_appVars
  PROVE  AppTypeOK'
<1>. USE WatcherAssumption DEF mainVars
<1>t. /\ phase \in {"config", "load", "watch", "serve", "exit"}
      /\ config \in [watch : SUBSET Dirs, watchTemplates : BOOLEAN, fs : BOOLEAN]
      /\ fs \in BOOLEAN
      /\ edits \in 0..MaxEdits
      /\ pending \in BOOLEAN
      /\ seen \in 0..disk
      /\ disk \in Nat
  BY ServerAssumption DEF AppTypeOK, IInv, TypeOK
<1>1. CASE Main \/ ServeFails
  <2>1. UNCHANGED <<disk, edits, pending, seen>>
    BY <1>1, Zenon DEF Main, Configure, NewServer, StartWatch, ServeFails, Exit, vars
  <2>2. phase' \in {"config", "load", "watch", "serve", "exit"} /\ fs' \in BOOLEAN
    BY <1>t, <1>1, Zenon DEF Main, Configure, NewServer, Options, StartWatch, ServeFails, Exit
  <2>3. config' \in [watch : SUBSET Dirs, watchTemplates : BOOLEAN, fs : BOOLEAN]
    <3>1. {"other"} \subseteq Dirs /\ WatchList \subseteq Dirs
      BY <1>t DEF WatchList, Dirs
    <3>2. \/ config' = config
          \/ config' = [config EXCEPT !.watch = WatchList]
          \/ \E w \in SUBSET {"other"}, b \in BOOLEAN :
               config' = [config EXCEPT !.watch = w, !.watchTemplates = b]
      BY <1>1, Zenon DEF Main, Configure, NewServer, StartWatch, ServeFails, Exit
    <3>3. CASE config' = [config EXCEPT !.watch = WatchList]
      BY <1>t, <3>1, <3>3
    <3>4. ASSUME NEW w \in SUBSET {"other"}, NEW b \in BOOLEAN,
                 config' = [config EXCEPT !.watch = w, !.watchTemplates = b]
          PROVE  config' \in [watch : SUBSET Dirs, watchTemplates : BOOLEAN, fs : BOOLEAN]
      <4>1. w \subseteq Dirs
        BY <3>1
      <4>2. [config EXCEPT !.watch = w] \in [watch : SUBSET Dirs, watchTemplates : BOOLEAN, fs : BOOLEAN]
        BY <1>t, <4>1
      <4>. QED
        BY <1>t, <3>4, <4>2, Zenon
    <3>. QED
      BY <1>t, <3>2, <3>3, <3>4, Zenon
  <2>. QED
    BY <1>t, <2>1, <2>2, <2>3 DEF AppTypeOK
<1>2. ASSUME NEW d \in Dirs, Edit(d) PROVE AppTypeOK'
  <2>1. edits' \in 0..MaxEdits /\ pending' \in BOOLEAN /\ UNCHANGED mainVars
    BY <1>t, <1>2 DEF Edit
  <2>2. disk' = disk \/ disk' = disk + 1
    BY <1>2 DEF Edit, EditFiles, vars
  <2>3. seen' = disk' \/ seen' = seen
    BY <1>2 DEF Edit
  <2>4. seen' \in 0..disk'
    BY <1>t, <2>2, <2>3
  <2>. QED
    BY <1>t, <2>1, <2>4 DEF AppTypeOK
<1>3. CASE WatchCallback
  BY <1>t, <1>3, Zenon DEF WatchCallback, ReloadCall, AppTypeOK
<1>4. CASE ServerStep
  <2>1. disk' = disk
    BY <1>4, Zenon
    DEF ServerStep, ThreadStep, ReloadLock, ReloadInstance, ReloadFail, ReloadSwap, ReloadFinish,
        StopCancel, StopClear, Arrive, RequestStep, LoadInstance, ServeNil, Refuse, Admit,
        Return, ClientGone
  <2>. QED
    BY <1>t, <1>4, <2>1 DEF ServerStep, AppTypeOK
<1>5. CASE UNCHANGED appVars
  BY <1>t, <1>5 DEF appVars, vars, AppTypeOK
<1>. QED
  BY <1>1, <1>2, <1>3, <1>4, <1>5 DEF AppNext, AppQuiet

(* Reading the files satisfies all edits so far, and an edit that is seen  *)
(* afterwards is owed a callback.                                          *)
LEMMA CaughtUpStep ==
  ASSUME IInv, AppTypeOK, CaughtUp, [AppNext]_appVars
  PROVE  CaughtUp'
<1>. USE WatcherAssumption DEF mainVars, threadVars, reqVars
<1>t. /\ pc \in [Threads -> {"idle", "reload", "stop"} \cup Critical]
      /\ lastId \in Ids /\ built \in [Ids -> 0..disk] /\ disk \in Nat /\ seen \in 0..disk
      /\ pending \in BOOLEAN
  BY ServerAssumption DEF AppTypeOK, IInv, TypeOK
<1>1. CASE UNCHANGED <<pc, built, lastId, pending, seen>>
  BY <1>1 DEF CaughtUp
<1>2. CASE Main \/ ServeFails
  BY <1>1, <1>2, Zenon DEF Main, Configure, NewServer, StartWatch, ServeFails, Exit, vars
<1>3. ASSUME NEW d \in Dirs, Edit(d) PROVE CaughtUp'
  <2>1. UNCHANGED <<pc, built, lastId>>
    BY <1>3 DEF Edit, EditFiles, vars
  <2>2. pending' \/ (pending' = pending /\ seen' = seen)
    BY <1>t, <1>3, Zenon DEF Edit
  <2>. QED
    BY <2>1, <2>2 DEF CaughtUp
<1>4. CASE WatchCallback
  BY <1>t, <1>4 DEF WatchCallback, ReloadCall, CaughtUp
<1>5. CASE ServerStep
  <2>1. UNCHANGED <<pending, seen>>
    BY <1>5 DEF ServerStep
  <2>2. CASE ReloadInstance(Watcher)
    <3>1. lastId' \in Ids /\ built' = [built EXCEPT ![lastId'] = disk]
      BY <1>t, <2>2, ServerAssumption DEF ReloadInstance, Ids
    <3>2. built'[lastId'] = disk
      BY <1>t, <3>1
    <3>. QED
      BY <1>t, <2>1, <3>2 DEF CaughtUp
  <2>3. CASE ReloadLock(Watcher)
    BY <1>t, <2>3 DEF ReloadLock, CaughtUp
  <2>4. CASE ReloadFail(Watcher) \/ ReloadSwap(Watcher) \/ ReloadFinish(Watcher) \/
               StopCancel(Watcher) \/ StopClear(Watcher)
    <3>1. pc[Watcher] \notin {"reload", "build"} /\ UNCHANGED <<built, lastId>>
      BY <2>4 DEF ReloadFail, ReloadSwap, ReloadFinish, StopCancel, StopClear
    <3>. QED
      BY <2>1, <3>1 DEF CaughtUp
  <2>5. ASSUME NEW r \in Requests, Arrive(r) \/ RequestStep(r) \/ ClientGone(r) PROVE CaughtUp'
    <3>1. UNCHANGED threadVars
      BY <2>5
      DEF Arrive, RequestStep, LoadInstance, ServeNil, Refuse, Admit, Return, ClientGone
    <3>. QED
      BY <1>1, <2>1, <3>1
  <2>. QED
    BY <1>5, <2>2, <2>3, <2>4, <2>5 DEF ServerStep, ThreadStep
<1>6. CASE UNCHANGED appVars
  BY <1>1, <1>6 DEF appVars, vars
<1>. QED
  BY <1>2, <1>3, <1>4, <1>5, <1>6 DEF AppNext, AppQuiet

(* The watcher only calls Reload.                                          *)
LEMMA NeverStoppedStep ==
  ASSUME IInv, NeverStopped, [AppNext]_appVars
  PROVE  NeverStopped'
<1>. USE WatcherAssumption DEF NeverStopped
<1>t. pc \in [Threads -> {"idle", "reload", "stop"} \cup Critical]
  BY DEF IInv, TypeOK
<1>1. CASE UNCHANGED <<halted, parentDone, pc>>
  BY <1>1
<1>2. CASE Main \/ ServeFails
  BY <1>1, <1>2, Zenon DEF Main, Configure, NewServer, StartWatch, ServeFails, Exit, vars, threadVars
<1>3. ASSUME NEW d \in Dirs, Edit(d) PROVE NeverStopped'
  BY <1>1, <1>3 DEF Edit, EditFiles, vars, threadVars
<1>4. CASE WatchCallback
  BY <1>t, <1>4 DEF WatchCallback, ReloadCall
<1>5. CASE ThreadStep(Watcher)
  <2>1. CASE ReloadLock(Watcher) \/ ReloadInstance(Watcher) \/ ReloadSwap(Watcher)
    BY <1>t, <2>1 DEF ReloadLock, ReloadInstance, ReloadSwap
  <2>2. CASE ReloadFail(Watcher) \/ ReloadFinish(Watcher) \/ StopClear(Watcher)
    BY <1>t, <2>2 DEF ReloadFail, ReloadFinish, StopClear, Unlock
  <2>. QED
    BY <1>5, <2>1, <2>2, Zenon DEF ThreadStep, StopCancel
<1>6. ASSUME NEW r \in Requests, Arrive(r) \/ RequestStep(r) \/ ClientGone(r) PROVE NeverStopped'
  BY <1>1, <1>6
  DEF Arrive, RequestStep, LoadInstance, ServeNil, Refuse, Admit, Return, ClientGone, threadVars
<1>7. CASE UNCHANGED appVars
  BY <1>1, <1>7, Zenon DEF appVars, vars, threadVars
<1>. QED
  BY <1>2, <1>3, <1>4, <1>5, <1>6, <1>7, Zenon DEF AppNext, AppQuiet, ServerStep

-----------------------------------------------------------------------------
(* Theorems                                                                *)

(* With the invariant of the Server, that of the command is inductive.     *)
THEOREM AppInvariance == AppSpec => []AppIInv
<1>1. IInv /\ AppIInv /\ [AppNext]_appVars => AppIInv'
  BY AppTypeStep, CaughtUpStep, NeverStoppedStep DEF AppIInv
<1>2. AppSpec => []IInv
  BY ImplementsServer, Invariance, PTL
<1>. QED
  BY <1>1, <1>2, AppInitIInv, PTL DEF AppSpec

(* A watcher at rest owes nothing: the last load has read every edit that  *)
(* it saw, however edits, callbacks and Reloads interleaved.               *)
THEOREM AtRestCaughtUpAlways == AppSpec => []AtRestCaughtUp
<1>1. AppIInv => AtRestCaughtUp
  BY DEF AppIInv, CaughtUp, AtRestCaughtUp
<1>. QED
  BY <1>1, AppInvariance, PTL

(* Every request of the command is given an instance.                      *)
THEOREM AppAlwaysRouted == AppSpec => []AlwaysRouted
<1>1. AppIInv /\ RoutedUntilStop => AlwaysRouted
  BY DEF AppIInv, NeverStopped, RoutedUntilStop, AlwaysRouted
<1>. QED
  BY <1>1, AppInvariance, ImplementsServer, RoutedUntilStopAlways, PTL

(* The command answers "server stopped" only to a request that was         *)
(* overtaken by a Reload: by then a newer instance, which is live, is the  *)
(* current one.                                                            *)
THEOREM AppRefusesOnlyReplaced ==
  AppSpec =>
    [](\A r \in Requests :
         answer[r] = "stopped" => target[r] < instance /\ instance \notin cancelled)
<1>. DEFINE Replaced ==
       \A r \in Requests :
         answer[r] = "stopped" => target[r] < instance /\ instance \notin cancelled
<1>1. AppIInv /\ RefusedOnlyWhenReplaced => Replaced
  BY DEF AppIInv, NeverStopped, RefusedOnlyWhenReplaced
<1>. QED
  BY <1>1, AppInvariance, ImplementsServer, RefusedOnlyWhenReplacedAlways, PTL

(* The command, with its watcher, swaps instances as HotSwap promises.     *)
THEOREM AppRefinement == AppSpec => ImplementsHotSwap
BY ImplementsServer, Refinement, PTL
=============================================================================
