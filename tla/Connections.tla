---------------------------- MODULE Connections -----------------------------
(***************************************************************************)
(* Who waits for whom: the requests of TemplateHandler seen from the pools *)
(* of database connections.  Each database has a limited number of them; a *)
(* template takes one with its first statement and keeps it until it       *)
(* commits, rolls back, or ends.  A flushing template may also block in    *)
(* WaitForServerStop, or in a range over a subscription (module Streams).  *)
(*                                                                         *)
(* What a handler computes and answers is left out; TemplateHandler has    *)
(* it, and implements this module (ImplementsConnections there).           *)
(***************************************************************************)
EXTENDS Naturals, FiniteSets

CONSTANTS
  Requests,
  NumDB,         \* databases, numbered in the order of the dot fields
  MaxOpenConns,  \* connections per database; 0 is no limit
  MaxOps         \* bound on what the templates do, all together

ASSUME ConnAssumption == NumDB \in Nat /\ MaxOpenConns \in Nat /\ MaxOps \in Nat

VARIABLES
  pc,      \* where the handler is
  ops,     \* how much the templates have done
  at,      \* the database it waits for, or the next one to clean up
  handle,  \* DotDB.tx is not nil
  live,    \* the sql transaction is active and occupies a connection
  gone     \* the request's context is done

vars == <<pc, ops, at, handle, live, gone>>

DBs == 1..NumDB
Holders(d) == {q \in Requests : live[q][d]}

Init ==
  /\ pc = [r \in Requests |-> "idle"]
  /\ ops = 0
  /\ at = [r \in Requests |-> 0]
  /\ handle = [r \in Requests |-> [d \in DBs |-> FALSE]]
  /\ live = [r \in Requests |-> [d \in DBs |-> FALSE]]
  /\ gone = [r \in Requests |-> FALSE]

Goto(r, l) == pc' = [pc EXCEPT ![r] = l]

Op(r) ==
  /\ pc[r] = "exec"
  /\ ops < MaxOps
  /\ ops' = ops + 1

(* The template goes on, or it ends and the cleanups begin.                *)
GoesOnOrEnds(r) ==
  /\ Goto(r, "exec") \/ Goto(r, "cleanup")
  /\ at' = [at EXCEPT ![r] = 0]

(* The handler takes a request and fills its dot; it may refuse it, before *)
(* or after.                                                               *)
Start(r) ==
  /\ \/ pc[r] = "idle" /\ Goto(r, "value")
     \/ pc[r] = "value" /\ Goto(r, "exec")
  /\ UNCHANGED <<ops, at, handle, live, gone>>

Refuse(r) ==
  /\ pc[r] \in {"idle", "value"}
  /\ Goto(r, "done")
  /\ UNCHANGED <<ops, at, handle, live, gone>>

(* Output, or a statement in the transaction that there is: no connection  *)
(* is taken or returned.                                                   *)
Compute(r) ==
  /\ Op(r)
  /\ GoesOnOrEnds(r) \/ UNCHANGED <<pc, at>>
  /\ UNCHANGED <<handle, live, gone>>

(* Mutant: makeTx does not look whether there is a transaction.            *)
MakeTxAlways(r, d) ==
  /\ Op(r)
  /\ at' = [at EXCEPT ![r] = d]
  /\ Goto(r, "conn")
  /\ UNCHANGED <<handle, live, gone>>

(* makeTx without one: BeginTx waits for a connection.                     *)
MakeTx(r, d) ==
  /\ Op(r)
  /\ ~handle[r][d]
  /\ at' = [at EXCEPT ![r] = d]
  /\ Goto(r, "conn")
  /\ UNCHANGED <<handle, live, gone>>

(* It got one, and there is a transaction unless the driver could not      *)
(* begin it.                                                               *)
BeginTx(r) ==
  LET d == at[r] IN
  /\ pc[r] = "conn"
  /\ ~gone[r]
  /\ MaxOpenConns = 0 \/ Cardinality(Holders(d)) < MaxOpenConns
  /\ \/ handle' = [handle EXCEPT ![r][d] = TRUE] /\ live' = [live EXCEPT ![r][d] = TRUE]
     \/ UNCHANGED <<handle, live>>
  /\ GoesOnOrEnds(r)
  /\ UNCHANGED <<ops, gone>>

(* Mutant: the wait does not watch the request's context.                  *)
BeginFailsNever(r) == pc[r] = "conn" /\ gone[r] /\ UNCHANGED vars

(* The request's context ended while it waited.                            *)
BeginFails(r) ==
  /\ pc[r] = "conn"
  /\ gone[r]
  /\ GoesOnOrEnds(r)
  /\ UNCHANGED <<ops, handle, live, gone>>

(* The template blocks; its wait is over when the request's context ends.  *)
Wait(r) ==
  /\ Op(r)
  /\ Goto(r, "wait")
  /\ UNCHANGED <<at, handle, live, gone>>

WaitOver(r) ==
  /\ pc[r] = "wait"
  /\ gone[r]
  /\ GoesOnOrEnds(r)
  /\ UNCHANGED <<ops, handle, live, gone>>

(* The transaction on d ends.  A Commit after the context ended leaves the *)
(* rollback, and with it the connection, to database/sql.                  *)
EndTx(r, d) ==
  /\ handle' = [handle EXCEPT ![r][d] = FALSE]
  /\ \E later \in BOOLEAN : live' = [live EXCEPT ![r][d] = @ /\ gone[r] /\ later]

(* The template's own .Commit and .Rollback.                               *)
CommitOrRollback(r, d) ==
  /\ Op(r)
  /\ handle[r][d]
  /\ EndTx(r, d)
  /\ GoesOnOrEnds(r)
  /\ UNCHANGED gone

Finish(r) ==
  /\ pc[r] = "exec"
  /\ Goto(r, "cleanup")
  /\ at' = [at EXCEPT ![r] = 0]
  /\ UNCHANGED <<ops, handle, live, gone>>

(* One cleanup after the other; a database's ends its transaction.         *)
Cleanup(r) ==
  LET d == at[r] IN
  /\ pc[r] = "cleanup"
  /\ d \in 0..NumDB
  /\ at' = [at EXCEPT ![r] = d + 1]
  /\ IF d \in DBs /\ handle[r][d] THEN EndTx(r, d) ELSE UNCHANGED <<handle, live>>
  /\ UNCHANGED <<pc, ops, gone>>

(* The last one is Resp's or Flush's; then the handler responds and        *)
(* returns, which ends the request's context.                              *)
CleanupOut(r) ==
  /\ pc[r] = "cleanup"
  /\ at[r] = NumDB + 1
  /\ Goto(r, "respond")
  /\ UNCHANGED <<ops, at, handle, live, gone>>

Respond(r) ==
  /\ pc[r] = "respond"
  /\ Goto(r, "done")
  /\ gone' = [gone EXCEPT ![r] = TRUE]
  /\ UNCHANGED <<ops, at, handle, live>>

(* The client disconnects.                                                 *)
ClientGone(r) ==
  /\ pc[r] \notin {"idle", "done"}
  /\ ~gone[r]
  /\ gone' = [gone EXCEPT ![r] = TRUE]
  /\ UNCHANGED <<pc, ops, at, handle, live>>

(* What a template waits for happens: the instance's context is over, or a *)
(* message arrives.                                                        *)
Wake(r) ==
  /\ pc[r] = "wait"
  /\ Goto(r, "exec")
  /\ at' = [at EXCEPT ![r] = 0]
  /\ UNCHANGED <<ops, handle, live, gone>>

(* database/sql rolls a transaction back once its context is done.         *)
AutoRollback(r, d) ==
  /\ live[r][d]
  /\ gone[r]
  /\ live' = [live EXCEPT ![r][d] = FALSE]
  /\ UNCHANGED <<pc, ops, at, handle, gone>>

Quiet ==
  /\ \A r \in Requests : pc[r] = "done" /\ \A d \in DBs : ~live[r][d]
  /\ UNCHANGED vars

(* What the goroutine of a handler that has started does by itself.        *)
Step(r) ==
  \/ pc[r] = "value" /\ (Start(r) \/ Refuse(r))
  \/ Compute(r) \/ BeginTx(r) \/ BeginFails(r) \/ Wait(r) \/ WaitOver(r) \/ Finish(r)
  \/ \E d \in DBs : MakeTx(r, d) \/ CommitOrRollback(r, d)
  \/ Cleanup(r) \/ CleanupOut(r) \/ Respond(r)

Next ==
  \/ \E r \in Requests : Start(r) \/ Refuse(r) \/ Step(r) \/ ClientGone(r) \/ Wake(r)
  \/ \E r \in Requests, d \in DBs : AutoRollback(r, d)
  \/ Quiet

Spec == Init /\ [][Next]_vars

(* A handler's goroutine is scheduled; database/sql serves those who wait  *)
(* in order and watches the contexts.  Nothing makes a client go away, and *)
(* nothing makes that happen for which a template waits.                   *)
Fairness ==
  /\ \A r \in Requests : WF_vars(Step(r)) /\ SF_vars(BeginTx(r))
  /\ \A r \in Requests, d \in DBs : WF_vars(AutoRollback(r, d))

FairSpec == Spec /\ Fairness

-----------------------------------------------------------------------------
(* Properties                                                              *)

(* The requests of S keep each other from going on: none has lost its      *)
(* client, and each blocks in its template or waits for a connection of a  *)
(* database whose connections the others of S hold.                        *)
InKnot(S, q) ==
  /\ ~gone[q]
  /\ \/ pc[q] = "wait"
     \/ /\ pc[q] = "conn"
        /\ MaxOpenConns # 0 /\ Cardinality(Holders(at[q])) >= MaxOpenConns
        /\ Holders(at[q]) \subseteq S \ {q}
Stuck(r) == \E S \in SUBSET Requests : r \in S /\ \A q \in S : InKnot(S, q)

(* Every request that started is answered, without its client giving up,   *)
(* unless it is and remains stuck: its template blocks, or it waits for    *)
(* connections that others hold who are stuck themselves, as two requests  *)
(* are that use two databases in opposite order.  It is never kept waiting *)
(* by itself, by a request that is over, or by one whose client left.      *)
RequestsFinish ==
  \A r \in Requests : pc[r] # "idle" ~> (pc[r] = "done" \/ []Stuck(r))

(* Every connection goes back to its database's pool, unless the request   *)
(* that has it is and remains stuck.                                       *)
ConnsReturned ==
  \A r \in Requests, d \in DBs : live[r][d] ~> (~live[r][d] \/ []Stuck(r))
=============================================================================
