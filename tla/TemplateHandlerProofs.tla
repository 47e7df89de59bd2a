----------------------- MODULE TemplateHandlerProofs ------------------------
(***************************************************************************)
(* Proofs about module TemplateHandler, for any number of requests,        *)
(* databases, connections and pooled structs.                              *)
(*                                                                         *)
(* The inductive invariant has a part for each concern of the handler: the *)
(* ownership of the pooled dot structs (Pooled), the life of transactions  *)
(* (Transactions), the error as it passes through the cleanups (ErrorFlow),*)
(* what the cleanups leave of the work (Outcome), when a page is written   *)
(* (Pages), and the response of a buffering handler (Response).  All but   *)
(* Pooled are about one request at a time.                                 *)
(***************************************************************************)
EXTENDS TemplateHandlerSteps

-----------------------------------------------------------------------------
(* The inductive invariant                                                 *)

Before == {"idle", "value", "exec", "conn", "wait"}

(* A request has a struct exactly from pool.Get to pool.Put; a struct has  *)
(* one user or is in the pool once.                                        *)
Pooled ==
  /\ \A r \in Requests : dot[r] # NoDot <=> pc[r] \in {"value", "exec", "conn", "wait", "cleanup"}
  /\ \A r, q \in Requests : dot[r] = dot[q] /\ dot[r] # NoDot => r = q
  /\ \A o \in Dots : pool[o] \in {0, 1}
  /\ \A r \in Requests, o \in Dots : dot[r] = o => pool[o] = 0

(* There is no transaction before the template runs; DotDB.tx is nil when  *)
(* BeginTx is called and once the database is cleaned up; what is active   *)
(* without a DotDB has lost its context; unfinished work has a DotDB.      *)
Transactions(r) ==
  /\ pc[r] = "conn" => at[r] \in DBs /\ ~handle[r][at[r]]
  /\ \A d \in DBs :
       /\ pc[r] \in {"idle", "value"} => ~handle[r][d] /\ ~live[r][d] /\ work[r][d] = "none"
       /\ pc[r] = "cleanup" /\ d < at[r] => ~handle[r][d]
       /\ pc[r] \in {"respond", "done"} => ~handle[r][d]
       /\ live[r][d] => handle[r][d] \/ gone[r]
       /\ work[r][d] = "dirty" => handle[r][d]

(* The cleanups start with the error that ended the template.  After X's   *)
(* it is no ReturnError, it is nil only if the template ended normally,    *)
(* and a status stays a status.                                            *)
ErrorFlow(r) ==
  /\ pc[r] \in Before => ended[r] = "running"
  /\ pc[r] \in {"cleanup", "respond"} => ended[r] # "running"
  /\ pc[r] = "cleanup" /\ at[r] = 0 => err[r] = ended[r]
  /\ pc[r] = "respond" \/ (pc[r] = "cleanup" /\ at[r] # 0) =>
       /\ err[r] # "return"
       /\ err[r] = "nil" => ended[r] \in {"nil", "return"}
       /\ err[r] = "status" <=> ended[r] = "status"

(* Only cleanups keep or lose work, of the databases before the one they   *)
(* are at; work that was lost has left an error, and work is kept only if  *)
(* the template ended normally and no database before has lost its own.    *)
Outcome(r) ==
  \A d \in DBs :
    /\ work[r][d] \in {"kept", "lost"} =>
         /\ pc[r] \notin Before
         /\ pc[r] = "cleanup" => d < at[r]
    /\ work[r][d] = "lost" => err[r] # "nil"
    /\ work[r][d] = "kept" =>
         /\ ended[r] \in {"nil", "return"}
         /\ \A c \in DBs : c < d => work[r][c] # "lost"

(* The page is written by the last step, and only without an error.        *)
Pages(r) == HasPage(body[r]) => pc[r] = "done" /\ err[r] = "nil"

(* Until its last step a buffering handler has written nothing, unless it  *)
(* served content, which a template that returned does.  Before that step  *)
(* there is a status line if there is no error, and if there is an         *)
(* ErrorStatus.  The headers are copied together with the status line of a *)
(* page or of content.                                                     *)
Response(r) ==
  kind[r] = "buffer" =>
    /\ pc[r] \in Before => sent[r] = "none"
    /\ pc[r] = "cleanup" => sent[r] \in {"none", "content"}
    /\ sent[r] = "content" => ended[r] = "return"
    /\ pc[r] # "done" => body[r] = (IF sent[r] = "content" THEN <<"content">> ELSE <<>>)
    /\ pc[r] \in Before => ~fixed[r]
    /\ fixed[r] => sent[r] = "content"
    /\ pc[r] = "respond" => sent[r] \in
         IF err[r] = "nil" THEN {"chosen", "content"} ELSE {"none", "status", "content"}
    /\ pc[r] = "done" => FitsStatus(r)
    /\ pc[r] \in {"respond", "done"} /\ ended[r] = "status" => sent[r] = "status"
    /\ sent[r] = "none" => header[r] # "copied"
    /\ sent[r] # "none" /\ header[r] # "none" =>
         (header[r] = "copied" <=> sent[r] \in {"chosen", "content"})

Own(r) == Transactions(r) /\ ErrorFlow(r) /\ Outcome(r) /\ Pages(r) /\ Response(r)

IInv ==
  /\ TypeOK
  /\ Pooled
  /\ \A r \in Requests : Own(r)

-----------------------------------------------------------------------------
(* The parts of the invariant                                              *)

(* pool.Put gives up the struct that the request owned.                    *)
LEMMA PutPooled ==
  ASSUME Pooled, NEW r \in Requests, NEW l \in {"respond", "done"}, Put(r),
         pc \in [Requests -> Labels], pc[r] \in {"value", "cleanup"}, pc' = [pc EXCEPT ![r] = l],
         dot \in [Requests -> Dots \cup {NoDot}], pool \in [Dots -> Nat]
  PROVE  Pooled'
<1>. USE HandlerAssumption
<1>1. dot[r] \in Dots /\ pool[dot[r]] = 0
  BY Zenon DEF Pooled
<1>2. pool'[dot[r]] = 1 /\ \A o \in Dots \ {dot[r]} : pool'[o] = pool[o]
  BY <1>1 DEF Put
<1>3. dot'[r] = NoDot /\ \A q \in Requests \ {r} : dot'[q] = dot[q] /\ dot[q] # dot[r]
  BY <1>1 DEF Put, Pooled
<1>4. pc'[r] = l /\ \A q \in Requests \ {r} : pc'[q] = pc[q]
  OBVIOUS
<1>5. (\A q \in Requests : dot[q] # NoDot <=> pc[q] \in {"value", "exec", "conn", "wait", "cleanup"})'
  BY <1>3, <1>4 DEF Pooled
<1>6. (\A q, p \in Requests : dot[q] = dot[p] /\ dot[q] # NoDot => q = p)'
  BY <1>3 DEF Pooled
<1>7. (\A o \in Dots : pool[o] \in {0, 1})'
  BY <1>2 DEF Pooled
<1>8. (\A q \in Requests, o \in Dots : dot[q] = o => pool[o] = 0)'
  BY <1>2, <1>3 DEF Pooled
<1>. QED
  BY <1>5, <1>6, <1>7, <1>8 DEF Pooled

(* Only pool.Get and pool.Put change the owner of a struct.                *)
LEMMA PooledStep ==
  ASSUME TypeOK, Pooled, NEW r \in Requests, Act(r)
  PROVE  Pooled'
<1>. USE DEF Pooled
<1>t. pc \in [Requests -> Labels] /\ dot \in [Requests -> Dots \cup {NoDot}] /\ pool \in [Dots -> Nat]
  BY DEF TypeOK, Labels
<1>k. \A q \in Requests \ {r} : pc'[q] = pc[q]
  BY OthersKept DEF Kept
<1>1. CASE NotAcceptable(r) \/ ValueOk(r) \/ CleanupX(r) \/ CleanupDB(r) \/ Respond(r) \/ ClientGone(r)
  BY <1>t, <1>1 DEF NotAcceptable, ValueOk, CleanupX, CleanupDB, Respond, ClientGone, Goto
<1>2. CASE Get(r)
  <2>1. PICK o \in Dots :
          /\ \/ pool[o] > 0 /\ pool' = [pool EXCEPT ![o] = @ - 1]
             \/ pool[o] = 0 /\ (\A q \in Requests : dot[q] # o) /\ UNCHANGED pool
          /\ dot' = [dot EXCEPT ![r] = o]
    BY <1>2, Zenon DEF Get
  <2>2. \A q \in Requests : dot[q] # o
    BY <1>t, <2>1
  <2>3. pool'[o] = 0
    <3>1. pool[o] \in {0, 1}
      OBVIOUS
    <3>2. CASE pool[o] > 0 /\ pool' = [pool EXCEPT ![o] = @ - 1]
      BY <1>t, <3>1, <3>2
    <3>. QED
      BY <2>1, <3>2
  <2>4. \A p \in Dots \ {o} : pool'[p] = pool[p]
    BY <1>t, <2>1
  <2>5. pc[r] = "idle" /\ pc'[r] = "value"
    BY <1>t, <1>2 DEF Get, Goto
  <2>6. dot'[r] = o /\ \A q \in Requests \ {r} : dot'[q] = dot[q]
    BY <1>t, <2>1
  <2>7. (\A q \in Requests : dot[q] # NoDot <=> pc[q] \in {"value", "exec", "conn", "wait", "cleanup"})'
    BY <1>k, <2>5, <2>6, HandlerAssumption
  <2>8. (\A q, p \in Requests : dot[q] = dot[p] /\ dot[q] # NoDot => q = p)'
    BY <2>2, <2>6
  <2>9. (\A p \in Dots : pool[p] \in {0, 1})'
    BY <2>3, <2>4
  <2>10. (\A q \in Requests, p \in Dots : dot[q] = p => pool[p] = 0)'
    BY <2>3, <2>4, <2>6
  <2>. QED
    BY <2>7, <2>8, <2>9, <2>10
<1>3. CASE ValueFails(r)
  <2>1. pc[r] = "value" /\ pc' = [pc EXCEPT ![r] = "done"] /\ Put(r)
    BY <1>3 DEF ValueFails, Goto
  <2>. QED
    BY <1>t, <2>1, PutPooled, Zenon
<1>4. CASE CleanupOut(r)
  <2>1. pc[r] = "cleanup" /\ pc' = [pc EXCEPT ![r] = "respond"] /\ Put(r)
    BY <1>4 DEF CleanupOut, Goto
  <2>. QED
    BY <1>t, <2>1, PutPooled, Zenon
<1>5. CASE Template(r)
  <2>1. /\ pc[r] \in {"exec", "conn", "wait"} /\ pc'[r] \in {"exec", "conn", "wait", "cleanup"}
        /\ UNCHANGED <<dot, pool>>
    BY <1>5, TemplateStep DEF GoesOnOrEnds
  <2>. QED
    BY <1>k, <2>1
<1>6. ASSUME NEW d \in DBs, AutoRollback(r, d) PROVE Pooled'
  BY <1>6 DEF AutoRollback
<1>. QED
  BY <1>1, <1>2, <1>3, <1>4, <1>5, <1>6 DEF Act, Step, Template

(* The end of a transaction, in the template or in a clean-up.             *)
LEMMA EndTx ==
  ASSUME TypeOK, NEW r \in Requests, NEW d \in DBs,
         NEW w1 \in Works \ {"dirty"}, NEW w2 \in Works \ {"dirty"},
         \/ RollbackTx(r, d, w2)
         \/ CommitTx(r, d, w1, w2, TRUE)
         \/ CommitTx(r, d, w1, w2, FALSE)
  PROVE  /\ \A c \in DBs \ {d} :
              handle'[r][c] = handle[r][c] /\ live'[r][c] = live[r][c] /\ work'[r][c] = work[r][c]
         /\ ~handle'[r][d] /\ (live'[r][d] => gone[r]) /\ work'[r][d] # "dirty"
<1>t. /\ handle \in [Requests -> [DBs -> BOOLEAN]] /\ live \in [Requests -> [DBs -> BOOLEAN]]
      /\ work \in [Requests -> [DBs -> Works]]
  BY DEF TypeOK, Works
<1>1. CASE RollbackTx(r, d, w2)
  BY <1>t, <1>1 DEF RollbackTx
<1>2. CASE CommitTx(r, d, w1, w2, TRUE)
  BY <1>t, <1>2, Zenon DEF CommitTx
<1>3. CASE CommitTx(r, d, w1, w2, FALSE)
  BY <1>t, <1>3, Zenon DEF CommitTx
<1>. QED
  BY <1>1, <1>2, <1>3, Zenon

(* BeginTx, the commits and the rollbacks, and the walk of the cleanups    *)
(* over the databases.                                                     *)
LEMMA TransactionsStep ==
  ASSUME TypeOK, NEW r \in Requests, Transactions(r), Act(r)
  PROVE  Transactions(r)'
<1>. USE DEF Transactions, dbVars
<1>t. /\ pc \in [Requests -> Labels] /\ at \in [Requests -> Nat] /\ gone \in [Requests -> BOOLEAN]
      /\ handle \in [Requests -> [DBs -> BOOLEAN]] /\ live \in [Requests -> [DBs -> BOOLEAN]]
      /\ work \in [Requests -> [DBs -> Works]]
  BY HandlerAssumption DEF TypeOK, Labels, Works, Out
<1>d. \A c \in DBs : ~ (c < 0) /\ ~ (c < 1) /\ c < Out
  BY Numbers
<1>w. {"saved", "undone", "kept", "lost"} \subseteq Works \ {"dirty"}
  BY DEF Works
<1>1. CASE NotAcceptable(r) \/ Get(r) \/ ValueFails(r) \/ ValueOk(r)
  BY <1>t, <1>1 DEF NotAcceptable, Get, ValueFails, ValueOk, Goto
<1>2. CASE Output(r) \/ SetHeader(r)
  BY <1>2 DEF Output, SetHeader
<1>15. CASE Wait(r)
  BY <1>t, <1>15 DEF Wait, Op, Goto
<1>3. ASSUME NEW d \in DBs, MakeTx(r, d) PROVE Transactions(r)'
  BY <1>t, <1>3 DEF MakeTx, Op, Goto
<1>e. ASSUME pc[r] \in {"exec", "conn", "wait"}, Resume(r) \/ Failed(r) \/ (\E e \in Errors : End(r, e)),
             UNCHANGED <<dbVars, gone>>
      PROVE  Transactions(r)'
  <2>1. pc'[r] \in {"exec", "cleanup"} /\ at'[r] = 0
    BY <1>e, OperationOver
  <2>. QED
    BY <1>d, <1>e, <2>1
<1>4. CASE BeginTx(r)
  <2>1. pc[r] = "conn" /\ at[r] \in DBs /\ UNCHANGED gone
    BY <1>4 DEF BeginTx
  <2>2. CASE UNCHANGED dbVars
    BY <1>4, <1>e, <2>1, <2>2 DEF BeginTx
  <2>3. CASE /\ handle' = [handle EXCEPT ![r][at[r]] = TRUE]
             /\ live' = [live EXCEPT ![r][at[r]] = TRUE]
             /\ \E w \in {"dirty", "none"} : work' = [work EXCEPT ![r][at[r]] = w]
    <3>1. \A c \in DBs \ {at[r]} : UNCHANGED <<handle[r][c], live[r][c], work[r][c]>>
      BY <1>t, <2>3
    <3>2. handle'[r][at[r]] = TRUE /\ live'[r][at[r]] = TRUE
      BY <1>t, <2>1, <2>3
    <3>3. pc'[r] \in {"exec", "cleanup"} /\ at'[r] = 0 /\ gone'[r] = gone[r]
      BY <1>4, <2>1, OperationOver DEF BeginTx
    <3>. QED
      BY <1>d, <2>1, <3>1, <3>2, <3>3
  <2>. QED
    BY <1>4, <2>2, <2>3 DEF BeginTx
<1>5. CASE BeginFails(r) \/ Finish(r)
  BY <1>5, <1>e DEF BeginFails, Finish
<1>16. CASE WaitOver(r) \/ Wake(r)
  <2>1. "return" \in Errors
    BY DEF Errors
  <2>. QED
    BY <1>16, <1>e, <2>1 DEF WaitOver, Wake
<1>6. CASE ServeContent(r)
  <2>1. pc[r] = "exec" /\ End(r, "return") /\ "return" \in Errors /\ UNCHANGED <<dbVars, gone>>
    BY <1>6 DEF ServeContent, Op, Errors
  <2>. QED
    BY <1>e, <2>1
<1>7. ASSUME NEW d \in DBs, Statement(r, d) PROVE Transactions(r)'
  <2>1. pc'[r] \in {"exec", "cleanup"} /\ at'[r] = 0
    BY <1>7, OperationOver DEF Statement
  <2>2. pc[r] = "exec" /\ handle[r][d] /\ UNCHANGED <<handle, live, gone>>
    BY <1>7 DEF Statement, Op
  <2>3. \A c \in DBs : work'[r][c] = work[r][c] \/ c = d
    BY <1>t, <1>7 DEF Statement
  <2>. QED
    BY <1>d, <2>1, <2>2, <2>3
<1>8. ASSUME NEW d \in DBs, Commit(r, d) \/ Rollback(r, d) PROVE Transactions(r)'
  <2>1. pc'[r] \in {"exec", "cleanup"} /\ at'[r] = 0
    BY <1>8, OperationOver DEF Commit, Rollback
  <2>2. pc[r] = "exec" /\ UNCHANGED gone
    BY <1>8 DEF Commit, Rollback, Op
  <2>3. \/ RollbackTx(r, d, "undone")
        \/ CommitTx(r, d, "saved", "undone", TRUE)
        \/ CommitTx(r, d, "saved", "undone", FALSE)
    BY <1>8, Zenon DEF Commit, Rollback
  <2>4. /\ \A c \in DBs \ {d} :
             handle'[r][c] = handle[r][c] /\ live'[r][c] = live[r][c] /\ work'[r][c] = work[r][c]
        /\ ~handle'[r][d] /\ (live'[r][d] => gone[r]) /\ work'[r][d] # "dirty"
    BY <1>w, <2>3, EndTx, Zenon
  <2>. QED
    BY <1>d, <2>1, <2>2, <2>4
<1>9. CASE CleanupX(r)
  <2>1. pc[r] = "cleanup" /\ at'[r] = 1 /\ UNCHANGED <<pc, dbVars, gone>>
    BY <1>t, <1>9 DEF CleanupX
  <2>. QED
    BY <1>d, <2>1
<1>10. CASE CleanupDB(r)
  <2>1. pc[r] = "cleanup" /\ at[r] \in DBs /\ at'[r] = at[r] + 1 /\ UNCHANGED <<pc, gone>>
    BY <1>t, <1>10 DEF CleanupDB
  <2>2. \A c \in DBs : c < at[r] + 1 => c < at[r] \/ c = at[r]
    BY <2>1, Numbers
  <2>3. CASE ~handle[r][at[r]] /\ UNCHANGED dbVars
    BY <2>1, <2>2, <2>3
  <2>4. CASE \/ RollbackTx(r, at[r], "lost")
             \/ CommitTx(r, at[r], "kept", "lost", TRUE)
             \/ CommitTx(r, at[r], "kept", "lost", FALSE)
    <3>1. /\ \A c \in DBs \ {at[r]} :
               handle'[r][c] = handle[r][c] /\ live'[r][c] = live[r][c] /\ work'[r][c] = work[r][c]
          /\ ~handle'[r][at[r]] /\ (live'[r][at[r]] => gone[r]) /\ work'[r][at[r]] # "dirty"
      BY <1>w, <2>1, <2>4, EndTx, Zenon
    <3>. QED
      BY <2>1, <2>2, <3>1
  <2>. QED
    BY <1>10, <2>3, <2>4, Zenon DEF CleanupDB
<1>11. CASE CleanupOut(r)
  <2>1. pc[r] = "cleanup" /\ at[r] = Out /\ pc'[r] = "respond" /\ UNCHANGED <<dbVars, gone>>
    BY <1>t, <1>11 DEF CleanupOut, Goto
  <2>. QED
    BY <1>d, <2>1
<1>12. CASE Respond(r)
  BY <1>t, <1>12 DEF Respond, Goto
<1>13. CASE ClientGone(r)
  BY <1>t, <1>13 DEF ClientGone
<1>14. ASSUME NEW d \in DBs, AutoRollback(r, d) PROVE Transactions(r)'
  BY <1>t, <1>14 DEF AutoRollback
<1>. QED
  BY <1>1, <1>2, <1>3, <1>4, <1>5, <1>6, <1>7, <1>8, <1>9, <1>10, <1>11, <1>12, <1>13, <1>14,
     <1>15, <1>16, Zenon
  DEF Act, Step

(* The error changes hands at the end of the template, in X's clean-up and *)
(* when a commit fails.                                                    *)
LEMMA ErrorFlowStep ==
  ASSUME TypeOK, NEW r \in Requests, ErrorFlow(r), Act(r)
  PROVE  ErrorFlow(r)'
<1>. USE DEF ErrorFlow, Before
<1>t. /\ pc \in [Requests -> Labels] /\ at \in [Requests -> Nat]
      /\ err \in [Requests -> Errors] /\ ended \in [Requests -> Errors \cup {"running"}]
  BY HandlerAssumption DEF TypeOK, Labels, Out
<1>1. CASE NotAcceptable(r) \/ Get(r) \/ ValueFails(r) \/ ValueOk(r)
  BY <1>t, <1>1 DEF NotAcceptable, Get, ValueFails, ValueOk, Goto
<1>2. CASE Template(r)
  <2>1. pc[r] \in {"exec", "conn", "wait"} /\ GoesOnOrEnds(r)
    BY <1>2, TemplateStep, Zenon
  <2>2. ended[r] = "running" /\ "running" \notin Errors
    BY <2>1 DEF Errors
  <2>. QED
    BY <2>1, <2>2 DEF GoesOnOrEnds
<1>3. CASE CleanupX(r)
  <2>1. pc[r] = "cleanup" /\ at'[r] # 0 /\ UNCHANGED <<pc, ended>> /\ err[r] = ended[r]
    BY <1>t, <1>3 DEF CleanupX
  <2>2. err'[r] = IF err[r] = "return" THEN "nil" ELSE err[r]
    BY <1>t, <1>3 DEF CleanupX
  <2>. QED
    BY <2>1, <2>2
<1>4. CASE CleanupDB(r)
  <2>1. pc[r] = "cleanup" /\ at[r] # 0 /\ at'[r] # 0 /\ UNCHANGED <<pc, ended>>
    BY <1>t, <1>4, Numbers DEF CleanupDB
  <2>2. err'[r] = err[r] \/ (err[r] = "nil" /\ err'[r] = "error")
    BY <1>t, <1>4 DEF CleanupDB
  <2>. QED
    BY <2>1, <2>2
<1>5. CASE CleanupOut(r)
  <2>1. pc[r] = "cleanup" /\ at[r] # 0 /\ pc'[r] = "respond" /\ UNCHANGED <<at, err, ended>>
    BY <1>t, <1>5, Numbers DEF CleanupOut, Goto
  <2>. QED
    BY <2>1
<1>6. CASE Respond(r)
  BY <1>t, <1>6 DEF Respond, Goto
<1>7. CASE ClientGone(r)
  BY <1>7 DEF ClientGone
<1>8. ASSUME NEW d \in DBs, AutoRollback(r, d) PROVE ErrorFlow(r)'
  BY <1>8 DEF AutoRollback
<1>. QED
  BY <1>1, <1>2, <1>3, <1>4, <1>5, <1>6, <1>7, <1>8, Zenon DEF Act, Step, Template

(* Work is kept or lost by the clean-up of its database, which looks at    *)
(* the error left by X and by the databases before it.                     *)
LEMMA OutcomeStep ==
  ASSUME TypeOK, NEW r \in Requests, Transactions(r), ErrorFlow(r), Outcome(r), Act(r)
  PROVE  Outcome(r)'
<1>. USE DEF Outcome, Before, dbVars
<1>t. /\ pc \in [Requests -> Labels] /\ at \in [Requests -> Nat]
      /\ err \in [Requests -> Errors] /\ work \in [Requests -> [DBs -> Works]]
  BY HandlerAssumption DEF TypeOK, Labels, Out, Works
<1>1. CASE NotAcceptable(r) \/ Get(r) \/ ValueFails(r) \/ ValueOk(r)
  BY <1>t, <1>1 DEF NotAcceptable, Get, ValueFails, ValueOk, Goto
<1>2. CASE Template(r)
  <2>1. pc[r] \in {"exec", "conn", "wait"}
    BY <1>2, TemplateStep
  <2>2. \A c \in DBs : work'[r][c] \in {work[r][c], "none", "dirty", "saved", "undone"}
    BY <1>2, TemplateStep
  <2>3. \A c \in DBs : work'[r][c] \notin {"kept", "lost"}
    BY <2>1, <2>2
  <2>. QED
    BY <2>3
<1>3. CASE CleanupX(r)
  <2>1. pc[r] = "cleanup" /\ at[r] = 0 /\ UNCHANGED <<pc, ended, work>>
    BY <1>3 DEF CleanupX
  <2>2. \A c \in DBs : ~ (c < 0)
    BY Numbers
  <2>3. \A c \in DBs : work[r][c] \notin {"kept", "lost"}
    BY <2>1, <2>2
  <2>. QED
    BY <2>1, <2>3
<1>4. CASE CleanupDB(r)
  <2>. DEFINE d == at[r]
  <2>1. pc[r] = "cleanup" /\ d \in DBs /\ at'[r] = d + 1 /\ UNCHANGED <<pc, ended>>
    BY <1>t, <1>4 DEF CleanupDB
  <2>2. ~ (d < d) /\ d # 0 /\ \A c \in DBs : (c < d + 1 <=> c < d \/ c = d) /\ ~ (c < d /\ d < c)
    BY <2>1, Numbers
  <2>3. work[r][d] \notin {"kept", "lost"}
    BY <2>1, <2>2
  <2>4. \A c \in DBs \ {d} : work'[r][c] = work[r][c]
    BY <1>t, <1>4 DEF CleanupDB, RollbackTx, CommitTx
  <2>5. CASE err[r] # "nil"
    <3>1. err'[r] # "nil" /\ work'[r][d] # "kept"
      BY <1>t, <1>4, <2>1, <2>3, <2>5 DEF CleanupDB, RollbackTx
    <3>2. \A c \in DBs : work[r][c] = "kept" => c < d
      BY <2>1
    <3>. QED
      BY <2>1, <2>2, <2>4, <3>1, <3>2
  <2>6. CASE err[r] = "nil"
    <3>1. ended[r] \in {"nil", "return"}
      BY <2>1, <2>2, <2>6 DEF ErrorFlow
    <3>2. \A c \in DBs : work[r][c] # "lost"
      BY <2>6
    <3>3. work'[r][d] = "lost" => err'[r] # "nil"
      BY <1>t, <1>4, <2>1, <2>6, <3>2 DEF CleanupDB, CommitTx
    <3>4. \A c, e \in DBs : c < e /\ work'[r][e] = "kept" => work'[r][c] # "lost"
      <4>1. \A e \in DBs : work'[r][e] = "kept" => e = d \/ e < d
        BY <2>1, <2>4
      <4>. QED
        BY <2>1, <2>2, <2>4, <3>2, <4>1
    <3>. QED
      BY <2>1, <2>2, <2>4, <3>1, <3>2, <3>3, <3>4
  <2>. QED
    BY <2>5, <2>6
<1>5. CASE CleanupOut(r) \/ Respond(r)
  <2>1. /\ pc[r] \in {"cleanup", "respond"} /\ pc'[r] \in {"respond", "done"}
        /\ UNCHANGED <<err, ended, work>>
    BY <1>t, <1>5 DEF CleanupOut, Respond, Goto
  <2>. QED
    BY <2>1
<1>6. CASE ClientGone(r)
  BY <1>6, Zenon DEF ClientGone
<1>7. ASSUME NEW d \in DBs, AutoRollback(r, d) PROVE Outcome(r)'
  BY <1>7 DEF AutoRollback
<1>. QED
  BY <1>1, <1>2, <1>3, <1>4, <1>5, <1>6, <1>7, Zenon DEF Act, Step, Template

(* Every other write than that of Respond without an error adds something  *)
(* else.                                                                   *)
LEMMA PagesStep ==
  ASSUME TypeOK, NEW r \in Requests, Pages(r), Act(r)
  PROVE  Pages(r)'
<1>. USE DEF Pages, respVars
<1>t. pc \in [Requests -> Labels] /\ "error" \in Parts
  BY DEF TypeOK, Labels, Parts
<1>1. CASE NotAcceptable(r) \/ ValueFails(r)
  <2>1. pc[r] # "done" /\ Write(r, "error")
    BY <1>1 DEF NotAcceptable, ValueFails, HttpError
  <2>. QED
    BY <1>t, <2>1, WriteOther
<1>2. CASE Get(r) \/ ValueOk(r) \/ CleanupX(r) \/ CleanupDB(r) \/ CleanupOut(r)
  <2>1. pc[r] # "done" /\ UNCHANGED body
    BY <1>2, Zenon DEF Get, ValueOk, CleanupX, CleanupDB, CleanupOut
  <2>. QED
    BY <2>1
<1>3. CASE Template(r)
  <2>1. pc[r] # "done" /\ (HasPage(body'[r]) => HasPage(body[r]))
    BY <1>3, TemplateStep
  <2>. QED
    BY <2>1
<1>4. CASE Respond(r)
  <2>1. pc[r] = "respond" /\ pc'[r] = "done" /\ UNCHANGED err
    BY <1>t, <1>4 DEF Respond, Goto
  <2>2. err[r] # "nil" => Write(r, "error")
    BY <1>4 DEF Respond, HttpError
  <2>. QED
    BY <1>t, <2>1, <2>2, WriteOther
<1>5. CASE ClientGone(r)
  BY <1>5 DEF ClientGone
<1>6. ASSUME NEW d \in DBs, AutoRollback(r, d) PROVE Pages(r)'
  BY <1>6 DEF AutoRollback
<1>. QED
  BY <1>1, <1>2, <1>3, <1>4, <1>5, <1>6, Zenon DEF Act, Step, Template

(* The response of a buffering handler is written by ServeContent, by      *)
(* Resp's clean-up and by the last step.                                   *)
LEMMA ResponseStep ==
  ASSUME TypeOK, NEW r \in Requests, ErrorFlow(r), Response(r), Act(r)
  PROVE  Response(r)'
<1>. USE DEF Before
<1>t. /\ pc \in [Requests -> Labels] /\ sent \in [Requests -> Statuses]
      /\ header \in [Requests -> {"none", "set", "copied"}]
  BY DEF TypeOK, Labels, Statuses
<1>p. {"error", "page"} \subseteq Parts
  BY DEF Parts
<1>1. CASE NotAcceptable(r)
  BY <1>1 DEF NotAcceptable, Response
<1>2. CASE Get(r) \/ ValueOk(r)
  BY <1>t, <1>2 DEF Get, ValueOk, Goto, Response, respVars
<1>3. CASE ValueFails(r)
  <2>1. pc[r] = "value" /\ pc'[r] = "done" /\ Write(r, "error") /\ UNCHANGED <<kind, ended, header>>
    BY <1>t, <1>3 DEF ValueFails, HttpError, Goto
  <2>2. sent'[r] = IF sent[r] = "none" THEN "500" ELSE sent[r]
    BY <1>t, <1>3 DEF ValueFails, HttpError, WriteHeader
  <2>3. kind[r] = "buffer" => /\ sent[r] = "none" /\ body[r] = <<>> /\ ended[r] = "running"
                              /\ ~fixed[r] /\ header[r] # "copied"
    BY <2>1 DEF Response, ErrorFlow
  <2>4. kind[r] = "buffer" => body'[r] = <<"error">> /\ ~fixed'[r]
    BY <1>3, <1>p, <2>1, <2>3, WriteAdds, Zenon DEF ValueFails, HttpError
  <2>. QED
    BY <2>1, <2>2, <2>3, <2>4, Zenon DEF Response, FitsStatus
<1>4. CASE Template(r)
  <2>1. pc[r] \in {"exec", "conn", "wait"} /\ GoesOnOrEnds(r) /\ UNCHANGED kind /\ Answers(r)
    BY <1>4, TemplateStep
  <2>2. pc'[r] \in {"exec", "conn", "wait", "cleanup"}
    BY <2>1 DEF GoesOnOrEnds
  <2>. SUFFICES ASSUME kind'[r] = "buffer" PROVE Response(r)'
    BY DEF Response
  <2>3. kind[r] = "buffer" /\ sent[r] = "none" /\ body[r] = <<>> /\ header[r] # "copied" /\ ~fixed[r]
    BY <2>1 DEF Response
  <2>4. CASE /\ sent'[r] = sent[r] /\ body'[r] = body[r] /\ fixed'[r] = fixed[r]
             /\ header'[r] \in {header[r], "none", "set"}
    BY <2>1, <2>2, <2>3, <2>4, Zenon DEF Response
  <2>5. CASE /\ sent'[r] = "content" /\ body'[r] = <<"content">>
             /\ header'[r] # "set" /\ ended'[r] = "return" /\ pc'[r] = "cleanup"
    <3>1. header' \in [Requests -> {"none", "set", "copied"}]
      BY TypeStep, <1>4 DEF TypeOK, Next, Template, Step
    <3>. QED
      BY <2>5, <3>1 DEF Response
  <2>6. Append(<<>>, "content") = <<"content">>
    OBVIOUS
  <2>. QED
    BY <2>1, <2>3, <2>4, <2>5, <2>6, Zenon DEF Answers
<1>5. CASE CleanupX(r) \/ CleanupDB(r)
  BY <1>5, Zenon DEF CleanupX, CleanupDB, Response, respVars
<1>6. CASE CleanupOut(r)
  <2>1. pc[r] = "cleanup" /\ pc'[r] = "respond" /\ UNCHANGED <<kind, err, ended, fixed, body>>
    BY <1>t, <1>6 DEF CleanupOut, Goto
  <2>2. err[r] = "status" <=> ended[r] = "status"
    BY <1>6, Numbers DEF CleanupOut, ErrorFlow
  <2>3. kind[r] = "buffer" => sent[r] \in {"none", "content"}
    BY <2>1 DEF Response
  <2>4. CASE err[r] = "nil"
    <3>1. /\ header'[r] \in {"none", "copied"}
          /\ sent'[r] = IF sent[r] = "none" THEN "chosen" ELSE sent[r]
      BY <1>t, <1>6, <2>4, Zenon DEF CleanupOut, WriteHeader, CopyHeader
    <3>. QED
      BY <2>1, <2>2, <2>3, <2>4, <3>1 DEF Response
  <2>5. CASE err[r] = "status"
    <3>1. UNCHANGED header /\ (kind[r] = "buffer" => sent'[r] = IF sent[r] = "none" THEN "status" ELSE sent[r])
      BY <1>t, <1>6, <2>5, Zenon DEF CleanupOut, WriteHeader
    <3>. QED
      BY <2>1, <2>2, <2>3, <2>5, <3>1 DEF Response
  <2>6. CASE err[r] = "error"
    <3>1. UNCHANGED <<header, sent>>
      BY <1>6, <2>6, Zenon DEF CleanupOut
    <3>. QED
      BY <2>1, <2>2, <2>3, <2>6, <3>1 DEF Response
  <2>. QED
    BY <1>6, <2>4, <2>5, <2>6, Zenon DEF CleanupOut
<1>7. CASE Respond(r)
  <2>1. pc[r] = "respond" /\ pc'[r] = "done" /\ UNCHANGED <<kind, ended, out, fixed, header>>
    BY <1>t, <1>7 DEF Respond, HttpError, Goto, respVars
  <2>. SUFFICES ASSUME kind'[r] = "buffer" PROVE Response(r)'
    BY DEF Response
  <2>2. /\ body[r] = (IF sent[r] = "content" THEN <<"content">> ELSE <<>>)
        /\ fixed[r] => sent[r] = "content"
        /\ ended[r] = "status" => sent[r] = "status"
    BY <2>1 DEF Response
  <2>3. CASE err[r] # "nil"
    <3>1. sent[r] \in {"none", "status", "content"}
      BY <2>1, <2>3 DEF Response
    <3>2. Write(r, "error") /\ sent'[r] = IF sent[r] = "none" THEN "500" ELSE sent[r]
      BY <1>t, <1>7, <2>3 DEF Respond, HttpError, WriteHeader
    <3>3. sent[r] # "content" => body'[r] = <<"error">>
      BY <1>p, <2>2, <3>2, WriteAdds, Zenon
    <3>4. sent[r] = "content" => body'[r] = IF fixed[r] THEN <<"content">> ELSE Append(<<"content">>, "error")
      BY <1>p, <2>2, <3>2, WriteAdds, Zenon
    <3>5. FitsStatus(r)'
      BY <2>1, <3>1, <3>2, <3>3, <3>4, Zenon DEF FitsStatus
    <3>. QED
      BY <2>1, <2>2, <3>1, <3>2, <3>5 DEF Response
  <2>4. CASE err[r] = "nil"
    <3>1. sent[r] \in {"chosen", "content"} /\ UNCHANGED sent
      BY <1>7, <2>1, <2>4 DEF Response, Respond, respVars
    <3>2. IF out[r] THEN Write(r, "page") ELSE UNCHANGED body
      BY <1>7, <2>1, <2>4 DEF Respond, respVars
    <3>3. sent[r] = "chosen" => body'[r] = IF out[r] THEN <<"page">> ELSE <<>>
      BY <1>p, <2>2, <3>2, WriteAdds, Zenon
    <3>4. sent[r] = "content" =>
            body'[r] = IF fixed[r] \/ ~out[r] THEN <<"content">> ELSE Append(<<"content">>, "page")
      BY <1>p, <2>2, <3>2, WriteAdds, Zenon
    <3>5. FitsStatus(r)'
      BY <2>1, <3>1, <3>3, <3>4, Zenon DEF FitsStatus
    <3>. QED
      BY <2>1, <2>2, <3>1, <3>5 DEF Response
  <2>. QED
    BY <2>3, <2>4
<1>8. CASE ClientGone(r)
  BY <1>8 DEF ClientGone, Response, FitsStatus, respVars
<1>9. ASSUME NEW d \in DBs, AutoRollback(r, d) PROVE Response(r)'
  BY <1>9 DEF AutoRollback, Response, FitsStatus, respVars
<1>. QED
  BY <1>1, <1>2, <1>3, <1>4, <1>5, <1>6, <1>7, <1>8, <1>9 DEF Act, Step, Template

(* What is kept of a request keeps what holds of it.                       *)
LEMMA OwnKept ==
  ASSUME NEW q \in Requests, Own(q), Kept(q)
  PROVE  Own(q)'
<1>1. Transactions(q)'
  BY Zenon DEF Own, Kept, Transactions
<1>2. ErrorFlow(q)'
  BY Zenon DEF Own, Kept, ErrorFlow
<1>3. Outcome(q)'
  BY Zenon DEF Own, Kept, Outcome
<1>4. Pages(q)'
  BY Zenon DEF Own, Kept, Pages
<1>5. Response(q)'
  BY DEF Own, Kept, Response, FitsStatus
<1>. QED
  BY <1>1, <1>2, <1>3, <1>4, <1>5 DEF Own

-----------------------------------------------------------------------------
(* Initially no request has begun.                                         *)
LEMMA InitIInv == Init => IInv
<1>. SUFFICES ASSUME Init PROVE IInv
  OBVIOUS
<1>. USE HandlerAssumption DEF Init
<1>1. TypeOK
  <2>1. body \in [Requests -> Seq({"page", "event", "content", "error"})]
    OBVIOUS
  <2>. QED
    BY <2>1 DEF TypeOK, Errors, Out, DBs
<1>2. Pooled
  BY DEF Pooled
<1>3. ASSUME NEW r \in Requests PROVE Own(r)
  <2>1. Transactions(r) /\ Outcome(r)
    BY DEF Transactions, Outcome
  <2>2. ErrorFlow(r) /\ Pages(r)
    BY DEF ErrorFlow, Pages, HasPage, Before
  <2>3. Response(r)
    BY DEF Response
  <2>. QED
    BY <2>1, <2>2, <2>3 DEF Own
<1>. QED
  BY <1>1, <1>2, <1>3 DEF IInv

(* Every step of every request preserves the invariant.                    *)
LEMMA NextIInv == IInv /\ [Next]_vars => IInv'
<1>. SUFFICES ASSUME IInv, [Next]_vars PROVE IInv'
  OBVIOUS
<1>1. TypeOK'
  BY TypeStep DEF IInv
<1>2. ASSUME NEW r \in Requests, Act(r) PROVE IInv'
  <2>1. Pooled'
    BY <1>2, PooledStep DEF IInv
  <2>2. Own(r)'
    BY <1>2, TransactionsStep, ErrorFlowStep, OutcomeStep, PagesStep, ResponseStep DEF IInv, Own
  <2>3. \A q \in Requests \ {r} : Own(q)'
    BY <1>2, OthersKept, OwnKept DEF IInv
  <2>. QED
    BY <1>1, <2>1, <2>2, <2>3 DEF IInv
<1>3. CASE UNCHANGED vars
  <2>1. Pooled'
    BY <1>3 DEF IInv, Pooled, vars
  <2>2. \A q \in Requests : Kept(q)
    BY <1>3 DEF vars, dbVars, respVars, Kept
  <2>3. \A q \in Requests : Own(q)'
    BY <2>2, OwnKept DEF IInv
  <2>. QED
    BY <1>1, <2>1, <2>3 DEF IInv
<1>. QED
  BY <1>2, <1>3 DEF Next, Quiet, Act

(* It holds in every reachable state.                                      *)
LEMMA Invariance == Spec => []IInv
  BY InitIInv, NextIInv, PTL DEF Spec

-----------------------------------------------------------------------------
(* Theorems                                                                *)

(* Every variable keeps its type: in particular the clean-up index stays   *)
(* within the cleanups of makeDot and no pool count goes below zero.       *)
THEOREM TypeCorrect == Spec => []TypeOK
<1>1. IInv => TypeOK
  BY DEF IInv
<1>. QED
  BY <1>1, Invariance, PTL

(* pool.Get and pool.Put: whatever requests do, a pooled dot struct has at *)
(* most one user, and none while it is in the pool, where it is once.      *)
THEOREM DotExclusiveAlways == Spec => []DotExclusive
<1>1. IInv => DotExclusive
  <2>1. \A o \in Dots : pool[o] \in {0, 1} => pool[o] <= 1
    OBVIOUS
  <2>. QED
    BY <2>1, HandlerAssumption DEF IInv, Pooled, DotExclusive
<1>. QED
  BY <1>1, Invariance, PTL

(* DotDBConfig.Cleanup and database/sql: a request that is over, or has    *)
(* not begun, holds no transaction, and none is active in its name whose   *)
(* context has not ended.                                                  *)
THEOREM NoLeakedTxAlways == Spec => []NoLeakedTx
<1>1. IInv => NoLeakedTx
  BY DEF IInv, Own, Transactions, NoLeakedTx
<1>. QED
  BY <1>1, Invariance, PTL

(* The cleanups and the handlers' last step: a page is sent only if the    *)
(* commits of all databases went well.                                     *)
THEOREM PageMeansSavedAlways == Spec => []PageMeansSaved
<1>1. IInv => PageMeansSaved
  BY DEF IInv, Own, Transactions, Outcome, Pages, HasPage, PageMeansSaved
<1>. QED
  BY <1>1, Invariance, PTL

(* DotDBConfig.Cleanup, as the chain of cleanups calls it: nothing of a    *)
(* template that failed is committed, nor anything after a failed commit.  *)
THEOREM FailureKeepsNothingAlways == Spec => []FailureKeepsNothing
<1>1. IInv => FailureKeepsNothing
  BY DEF IInv, Own, Outcome, FailureKeepsNothing
<1>. QED
  BY <1>1, Invariance, PTL

(* bufferingTemplateHandler, whose status line a clean-up has written: the *)
(* body is what the status promises.                                       *)
THEOREM BodyFitsStatusAlways == Spec => []BodyFitsStatus
<1>1. IInv => BodyFitsStatus
  BY Zenon DEF IInv, Own, Response, BodyFitsStatus
<1>. QED
  BY <1>1, Invariance, PTL

(* dotRespProvider.Cleanup: the status of an ErrorStatus is what the       *)
(* client gets, the handler's own 500 comes too late.                      *)
THEOREM StatusReachesClientAlways == Spec => []StatusReachesClient
<1>1. IInv => StatusReachesClient
  BY DEF IInv, Own, Response, StatusReachesClient
<1>. QED
  BY <1>1, Invariance, PTL

(* dotRespProvider.Cleanup and ServeContent: the template's headers reach  *)
(* the client with its page or its content only.                           *)
THEOREM HeadersWithPageAlways == Spec => []HeadersWithPage
<1>1. IInv => HeadersWithPage
  BY DEF IInv, Own, Response, HeadersWithPage
<1>. QED
  BY <1>1, Invariance, PTL
-----------------------------------------------------------------------------
(* Served content                                                          *)

Alone(r) == fixed[r] => sent[r] = "content" /\ body[r] = <<"content">>

(* A response that is fixed stays as it is, and only ServeContent fixes    *)
(* one: it finds nothing sent, since it is the first to send anything.     *)
LEMMA AloneStep ==
  ASSUME IInv, \A r \in Requests : Alone(r), NEW q \in Requests, Act(q),
         NEW r \in Requests
  PROVE  Alone(r)'
<1>t. /\ fixed \in [Requests -> BOOLEAN]
      /\ sent \in [Requests -> Statuses] /\ body \in [Requests -> Seq(Parts)]
  BY DEF IInv, TypeOK, Statuses, Parts
<1>1. ASSUME fixed' = fixed,
             \A p \in Requests : fixed[p] => body'[p] = body[p]
                                         /\ (sent[p] = "content" => sent'[p] = "content")
      PROVE  Alone(r)'
  BY <1>1 DEF Alone
<1>2. ASSUME UNCHANGED respVars PROVE Alone(r)'
  BY <1>2 DEF Alone, respVars
<1>3. CASE ServeContent(q)
  <2>1. CASE r = q
    <3>1. pc[r] = "exec" /\ kind[r] = "buffer" /\ sent[r] = "none" /\ body[r] = <<>>
      BY <1>3, <2>1 DEF ServeContent, Op, IInv, Own, Response, Before
    <3>2. ~fixed[r]
      BY <3>1 DEF Alone
    <3>3. sent'[r] = "content" /\ body'[r] = Append(<<>>, "content")
      BY <1>t, <1>3, <2>1, <3>1, <3>2 DEF ServeContent, WriteHeader, Write
    <3>4. Append(<<>>, "content") = <<"content">>
      OBVIOUS
    <3>. QED
      BY <3>3, <3>4 DEF Alone
  <2>2. CASE r # q
    BY <1>t, <1>3, <2>2 DEF ServeContent, WriteHeader, Write, Alone
  <2>. QED
    BY <2>1, <2>2
<1>4. CASE Output(q)
  BY <1>t, <1>1, <1>4 DEF Output, WriteHeader, Write
<1>5. CASE SetHeader(q)
  BY <1>1, <1>5 DEF SetHeader
<1>6. CASE NotAcceptable(q) \/ ValueFails(q) \/ Respond(q)
  <2>1. HttpError(q) \/ UNCHANGED respVars \/ (Write(q, "page") /\ UNCHANGED <<sent, fixed, header>>)
         \/ NotAcceptable(q)
    BY <1>6 DEF ValueFails, Respond
  <2>2. CASE HttpError(q)
    BY <1>t, <1>1, <2>2 DEF HttpError, WriteHeader, Write
  <2>3. CASE Write(q, "page") /\ UNCHANGED <<sent, fixed, header>>
    BY <1>t, <1>1, <2>3 DEF Write
  <2>4. CASE NotAcceptable(q)
    BY <1>t, <1>1, <2>4 DEF NotAcceptable, WriteHeader, Write, HttpError
  <2>. QED
    BY <1>2, <2>1, <2>2, <2>3, <2>4
<1>7. CASE CleanupOut(q)
  BY <1>t, <1>1, <1>7 DEF CleanupOut, WriteHeader
<1>8. CASE Get(q) \/ ValueOk(q) \/ CleanupX(q) \/ CleanupDB(q) \/ ClientGone(q)
  BY <1>2, <1>8, Zenon DEF Get, ValueOk, CleanupX, CleanupDB, ClientGone
<1>9. CASE BeginTx(q) \/ BeginFails(q) \/ Finish(q) \/ Wait(q) \/ WaitOver(q) \/ Wake(q)
  BY <1>2, <1>9 DEF BeginTx, BeginFails, Finish, Wait, WaitOver, Wake
<1>10. ASSUME NEW d \in DBs,
              Statement(q, d) \/ MakeTx(q, d) \/ Commit(q, d) \/ Rollback(q, d) \/ AutoRollback(q, d)
       PROVE  Alone(r)'
  BY <1>2, <1>10 DEF Statement, MakeTx, Commit, Rollback, AutoRollback
<1>. QED
  BY <1>3, <1>4, <1>5, <1>6, <1>7, <1>8, <1>9, <1>10, Zenon DEF Act, Step

(* DotResp.ServeContent, then the cleanups and bufferingTemplateHandler:   *)
(* content of a declared length is all the client gets, even if a commit   *)
(* fails after it and the handler adds its error page.                     *)
THEOREM ContentAloneAlways == Spec => []ContentAlone
<1>1. Init => ContentAlone
  BY DEF Init, ContentAlone
<1>2. IInv /\ ContentAlone /\ [Next]_vars => ContentAlone'
  <2>. SUFFICES ASSUME IInv, ContentAlone, [Next]_vars, NEW r \in Requests
                PROVE  Alone(r)'
    BY DEF ContentAlone, Alone
  <2>1. \A p \in Requests : Alone(p)
    BY DEF ContentAlone, Alone
  <2>2. ASSUME NEW q \in Requests, Act(q) PROVE Alone(r)'
    BY <2>1, <2>2, AloneStep
  <2>3. CASE UNCHANGED vars
    BY <2>1, <2>3 DEF Alone, vars, respVars
  <2>. QED
    BY <2>2, <2>3 DEF Next, Quiet, Act
<1>. QED
  BY <1>1, <1>2, Invariance, PTL DEF Spec

-----------------------------------------------------------------------------
(* What the requests do to the connections                                 *)

(* Every step of a handler, its client or its transactions is a step of    *)
(* Connections, which leaves out what it computes and answers.             *)
LEMMA ConnsStep ==
  ASSUME NEW r \in Requests, Act(r)
  PROVE  Conns!Next \/ UNCHANGED Conns!vars
<1>. USE DEF Conns!Goto, Conns!Op, Conns!GoesOnOrEnds, Conns!DBs,
             Goto, Op, Resume, Failed, End, DBs, dbVars
<1>1. ASSUME NotAcceptable(r) \/ ValueFails(r) PROVE Conns!Refuse(r)
  BY <1>1 DEF NotAcceptable, ValueFails, Conns!Refuse
<1>2. ASSUME Get(r) \/ ValueOk(r) PROVE Conns!Start(r)
  BY <1>2 DEF Get, ValueOk, Conns!Start
<1>3. ASSUME Output(r) \/ SetHeader(r) \/ ServeContent(r) PROVE Conns!Compute(r)
  BY <1>3 DEF Output, SetHeader, ServeContent, Conns!Compute
<1>4. ASSUME BeginTx(r) PROVE Conns!BeginTx(r)
  <2>1. Holders(at[r]) = Conns!Holders(at[r])
    BY DEF Holders, Conns!Holders
  <2>2. \/ /\ handle' = [handle EXCEPT ![r][at[r]] = TRUE]
           /\ live' = [live EXCEPT ![r][at[r]] = TRUE]
        \/ UNCHANGED <<handle, live>>
    BY <1>4 DEF BeginTx
  <2>3. Conns!GoesOnOrEnds(r) /\ UNCHANGED <<ops, gone>>
    BY <1>4 DEF BeginTx
  <2>4. Conns!Cardinality(Holders(at[r])) = Cardinality(Holders(at[r]))
    BY DEF Cardinality, Conns!Cardinality
  <2>5. /\ pc[r] = "conn" /\ ~gone[r]
        /\ MaxOpenConns = 0 \/ Conns!Cardinality(Conns!Holders(at[r])) < MaxOpenConns
    BY <1>4, <2>1, <2>4 DEF BeginTx
  <2>. QED
    BY <2>2, <2>3, <2>5 DEF Conns!BeginTx
<1>5. ASSUME BeginFails(r) PROVE Conns!BeginFails(r)
  BY <1>5 DEF BeginFails, Conns!BeginFails
<1>6. ASSUME Finish(r) PROVE Conns!Finish(r)
  BY <1>6 DEF Finish, Conns!Finish
<1>7. ASSUME Wait(r) PROVE Conns!Wait(r)
  BY <1>7 DEF Wait, Conns!Wait
<1>8. ASSUME WaitOver(r) PROVE Conns!WaitOver(r)
  BY <1>8 DEF WaitOver, Conns!WaitOver
<1>9. ASSUME Wake(r) PROVE Conns!Wake(r)
  BY <1>9 DEF Wake, Conns!Wake
<1>10. ASSUME NEW d \in DBs, Statement(r, d) PROVE Conns!Compute(r)
  BY <1>10 DEF Statement, Conns!Compute
<1>11. ASSUME NEW d \in DBs, MakeTx(r, d) PROVE Conns!MakeTx(r, d)
  BY <1>11 DEF MakeTx, Conns!MakeTx
<1>12. ASSUME NEW d \in DBs, Commit(r, d) PROVE Conns!CommitOrRollback(r, d)
  BY <1>12, Zenon DEF Commit, CommitTx, Conns!CommitOrRollback, Conns!EndTx
<1>13. ASSUME NEW d \in DBs, Rollback(r, d) PROVE Conns!CommitOrRollback(r, d)
  BY <1>13, Zenon DEF Rollback, RollbackTx, Conns!CommitOrRollback, Conns!EndTx
<1>14. ASSUME CleanupX(r) PROVE Conns!Cleanup(r)
  BY <1>14, HandlerAssumption DEF CleanupX, Conns!Cleanup
<1>15. ASSUME CleanupDB(r) PROVE Conns!Cleanup(r)
  <2>1. /\ pc[r] = "cleanup" /\ at[r] \in Conns!DBs /\ at[r] \in 0..NumDB
        /\ at' = [at EXCEPT ![r] = at[r] + 1] /\ UNCHANGED <<pc, ops, gone>>
    BY <1>15, HandlerAssumption DEF CleanupDB
  <2>2. CASE ~handle[r][at[r]] /\ UNCHANGED dbVars
    BY <2>1, <2>2 DEF Conns!Cleanup
  <2>3. ASSUME RollbackTx(r, at[r], "lost") \/ \E ok \in BOOLEAN : CommitTx(r, at[r], "kept", "lost", ok)
        PROVE  Conns!EndTx(r, at[r])
    BY <2>3, Zenon DEF RollbackTx, CommitTx, Conns!EndTx
  <2>4. handle[r][at[r]] \/ (~handle[r][at[r]] /\ UNCHANGED dbVars)
    BY <1>15, Zenon DEF CleanupDB
  <2>5. handle[r][at[r]] => Conns!EndTx(r, at[r])
    BY <1>15, <2>3, Zenon DEF CleanupDB
  <2>. QED
    BY <2>1, <2>2, <2>4, <2>5, Zenon DEF Conns!Cleanup
<1>16. ASSUME CleanupOut(r) PROVE Conns!CleanupOut(r)
  BY <1>16 DEF CleanupOut, Out, Conns!CleanupOut
<1>17. ASSUME Respond(r) PROVE Conns!Respond(r)
  BY <1>17 DEF Respond, Conns!Respond
<1>18. ASSUME ClientGone(r) PROVE Conns!ClientGone(r)
  BY <1>18 DEF ClientGone, Conns!ClientGone
<1>19. ASSUME NEW d \in DBs, AutoRollback(r, d) PROVE Conns!AutoRollback(r, d)
  BY <1>19 DEF AutoRollback, Conns!AutoRollback
<1>. QED
  BY <1>1, <1>2, <1>3, <1>4, <1>5, <1>6, <1>7, <1>8, <1>9, <1>10, <1>11, <1>12, <1>13, <1>14,
     <1>15, <1>16, <1>17, <1>18, <1>19, Zenon DEF Act, Step, Conns!Next, Conns!Step

(* The handlers implement Connections: what is shown of its waits holds of *)
(* the requests of this module.                                            *)
THEOREM Refinement == Spec => ImplementsConnections
<1>1. Init => Conns!Init
  BY DEF Init, Conns!Init, DBs, Conns!DBs
<1>2. [Next]_vars => [Conns!Next]_Conns!vars
  <2>. SUFFICES ASSUME [Next]_vars PROVE Conns!Next \/ UNCHANGED Conns!vars
    OBVIOUS
  <2>1. ASSUME NEW r \in Requests, Act(r) PROVE Conns!Next \/ UNCHANGED Conns!vars
    BY <2>1, ConnsStep
  <2>2. CASE UNCHANGED vars
    BY <2>2 DEF vars, dbVars, Conns!vars
  <2>. QED
    BY <2>1, <2>2 DEF Next, Quiet, Act
<1>. QED
  BY <1>1, <1>2, PTL DEF Spec, ImplementsConnections, Conns!Spec
=============================================================================
