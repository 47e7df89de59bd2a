-------------------------- MODULE TemplateHandler ---------------------------
(***************************************************************************)
(* One request through bufferingTemplateHandler or flushingTemplateHandler *)
(* (handlers.go): the dot value is taken from a pool and filled, the       *)
(* template runs, and the cleanups of the dot providers run in order, each *)
(* given the error the one before returned: X first, which turns a         *)
(* ReturnError into success, then the databases, which commit or roll      *)
(* back, and last Resp or Flush, which write the response header.          *)
(*                                                                         *)
(* Several requests run at once.  They share the dot pool and, per         *)
(* database, a limited number of connections.  A client may go away at any *)
(* time, which ends the request's context.  Who waits for whom is studied  *)
(* in module Connections, which this one implements.                       *)
(***************************************************************************)
EXTENDS Naturals, Sequences, FiniteSets

CONSTANTS
  Requests,
  Kinds,         \* the handlers that are routed to: "buffer", "flush"
  NumDB,         \* databases, numbered in the order of the dot fields
  MaxOpenConns,  \* connections per database; 0 is no limit
  MaxOps,        \* bound on what the templates do, all together
  Dots           \* dot structs that pool.Get can hand out

NoDot == "no dot"

ASSUME HandlerAssumption ==
  /\ Kinds \subseteq {"buffer", "flush"}
  /\ NumDB \in Nat
  /\ MaxOpenConns \in Nat
  /\ MaxOps \in Nat
  /\ NoDot \notin Dots

VARIABLES
  pc,      \* where the handler is
  kind,    \* "buffer" or "flush"
  ops,     \* how much the templates have done (bounded by MaxOps)
  at,      \* the database it waits for, or the next one to clean up
  err,     \* the error value the handler holds
  ended,   \* history: the error the execution of the template ended with
  handle,  \* DotDB.tx is not nil
  live,    \* the sql transaction is active and occupies a connection
  work,    \* what became of the statements of the latest transaction
  gone,    \* the request's context is done
  out,     \* the template has produced output
  fixed,   \* the response's Content-Length is declared and exhausted
  header,  \* DotResp.Header: "none", "set", or "copied" into the response
  sent,    \* the status line written, by whom
  body,    \* what was written to the body
  dot,     \* the pooled struct the request uses
  pool     \* how many times each struct is in the pool

dbVars == <<handle, live, work>>
respVars == <<fixed, header, sent, body>>
vars == <<pc, kind, ops, at, err, ended, dbVars, gone, out, respVars, dot, pool>>

DBs == 1..NumDB

(* makeDot: the cleanups are X's, those of the databases, Resp's or Flush's. *)
Out == NumDB + 1
Errors == {"nil", "return", "status", "error"}

TypeOK ==
  /\ pc \in [Requests -> {"idle", "value", "exec", "conn", "wait", "cleanup", "respond", "done"}]
  /\ kind \in [Requests -> Kinds]
  /\ ops \in 0..MaxOps
  /\ at \in [Requests -> 0..Out]
  /\ err \in [Requests -> Errors]
  /\ ended \in [Requests -> Errors \cup {"running"}]
  /\ handle \in [Requests -> [DBs -> BOOLEAN]]
  /\ live \in [Requests -> [DBs -> BOOLEAN]]
  /\ work \in [Requests -> [DBs -> {"none", "dirty", "saved", "undone", "kept", "lost"}]]
  /\ gone \in [Requests -> BOOLEAN]
  /\ out \in [Requests -> BOOLEAN]
  /\ fixed \in [Requests -> BOOLEAN]
  /\ header \in [Requests -> {"none", "set", "copied"}]
  /\ sent \in [Requests -> {"none", "chosen", "content", "status", "500", "406"}]
  /\ body \in [Requests -> Seq({"page", "event", "content", "error"})]
  /\ dot \in [Requests -> Dots \cup {NoDot}]
  /\ pool \in [Dots -> Nat]

Init ==
  /\ pc = [r \in Requests |-> "idle"]
  /\ kind \in [Requests -> Kinds]
  /\ ops = 0
  /\ at = [r \in Requests |-> 0]
  /\ err = [r \in Requests |-> "nil"]
  /\ ended = [r \in Requests |-> "running"]
  /\ handle = [r \in Requests |-> [d \in DBs |-> FALSE]]
  /\ live = [r \in Requests |-> [d \in DBs |-> FALSE]]
  /\ work = [r \in Requests |-> [d \in DBs |-> "none"]]
  /\ gone = [r \in Requests |-> FALSE]
  /\ out = [r \in Requests |-> FALSE]
  /\ fixed = [r \in Requests |-> FALSE]
  /\ header = [r \in Requests |-> "none"]
  /\ sent = [r \in Requests |-> "none"]
  /\ body = [r \in Requests |-> <<>>]
  /\ dot = [r \in Requests |-> NoDot]
  /\ pool = [o \in Dots |-> 0]

Goto(r, l) == pc' = [pc EXCEPT ![r] = l]

(* net/http: only the first WriteHeader counts, and bytes beyond a declared *)
(* Content-Length are dropped.                                              *)
WriteHeader(r, st) == sent' = [sent EXCEPT ![r] = IF @ = "none" THEN st ELSE @]
Write(r, part) == body' = [body EXCEPT ![r] = IF fixed[r] THEN @ ELSE Append(@, part)]

(* http.Error(w, "internal server error", 500)                             *)
HttpError(r) == WriteHeader(r, "500") /\ Write(r, "error") /\ UNCHANGED <<fixed, header>>

(* maps.Copy(d.w.Header(), d.Header)                                       *)
CopyHeader(r) == header' = [header EXCEPT ![r] = IF @ = "set" THEN "copied" ELSE @]

(* Mutant: the struct is put back twice.                                   *)
PutTwice(r) ==
  /\ pool' = [pool EXCEPT ![dot[r]] = @ + 2]
  /\ dot' = [dot EXCEPT ![r] = NoDot]

(* pool.Put, the value's last use by this request.                         *)
Put(r) ==
  /\ pool' = [pool EXCEPT ![dot[r]] = @ + 1]
  /\ dot' = [dot EXCEPT ![r] = NoDot]

-----------------------------------------------------------------------------
(* dot.value                                                               *)

(* An SSE route refuses a client that does not accept an event stream.     *)
NotAcceptable(r) ==
  /\ pc[r] = "idle"
  /\ kind[r] = "flush"
  /\ WriteHeader(r, "406")
  /\ Write(r, "error")
  /\ Goto(r, "done")
  /\ UNCHANGED <<kind, ops, at, err, ended, dbVars, gone, out, fixed, header, dot, pool>>

(* pool.Get takes a struct from the pool or makes a new one.               *)
Get(r) ==
  /\ pc[r] = "idle"
  /\ \E o \in Dots :
       /\ \/ pool[o] > 0 /\ pool' = [pool EXCEPT ![o] = @ - 1]
          \/ pool[o] = 0 /\ (\A q \in Requests : dot[q] # o) /\ UNCHANGED pool
       /\ dot' = [dot EXCEPT ![r] = o]
  /\ Goto(r, "value")
  /\ UNCHANGED <<kind, ops, at, err, ended, dbVars, gone, out, respVars>>

(* A provider's Value fails, as Flush does on a writer that cannot flush:  *)
(* the struct goes back to the pool and no cleanup runs.                   *)
ValueFails(r) ==
  /\ pc[r] = "value"
  /\ Put(r)
  /\ HttpError(r)
  /\ Goto(r, "done")
  /\ UNCHANGED <<kind, ops, at, err, ended, dbVars, gone, out>>

ValueOk(r) ==
  /\ pc[r] = "value"
  /\ Goto(r, "exec")
  /\ UNCHANGED <<kind, ops, at, err, ended, dbVars, gone, out, respVars, dot, pool>>

-----------------------------------------------------------------------------
(* tmpl.Execute                                                            *)

(* The template does one more thing.                                       *)
Op(r) ==
  /\ pc[r] = "exec"
  /\ ops < MaxOps
  /\ ops' = ops + 1

(* Execution ends with error e and the cleanups begin.                     *)
End(r, e) ==
  /\ Goto(r, "cleanup")
  /\ err' = [err EXCEPT ![r] = e]
  /\ ended' = [ended EXCEPT ![r] = e]
  /\ at' = [at EXCEPT ![r] = 0]

Resume(r) ==
  /\ Goto(r, "exec")
  /\ at' = [at EXCEPT ![r] = 0]
  /\ UNCHANGED <<err, ended>>

(* An operation failed: the template ends, or caught the error with try.   *)
Failed(r) == End(r, "error") \/ Resume(r)

(* DotDB.commit with a transaction: it leaves w1 of the work, or w2 and an *)
(* error.  A Commit after the context ended does not reach the database.   *)
CommitTx(r, d, w1, w2, ok) ==
  /\ handle' = [handle EXCEPT ![r][d] = FALSE]
  /\ live' = [live EXCEPT ![r][d] = @ /\ gone[r]]
  /\ IF ok THEN ~gone[r] /\ live[r][d] ELSE TRUE
  /\ work' = [work EXCEPT ![r][d] =
                IF @ # "dirty" THEN @ ELSE IF ok THEN w1 ELSE w2]

(* DotDB.rollback with a transaction; it fails if that is over already.    *)
RollbackTx(r, d, w) ==
  /\ handle' = [handle EXCEPT ![r][d] = FALSE]
  /\ live' = [live EXCEPT ![r][d] = FALSE]
  /\ work' = [work EXCEPT ![r][d] = IF @ = "dirty" THEN w ELSE @]

-----------------------------------------------------------------------------
(* Mutants: plausible mistakes, used to see that the properties notice.    *)

(* Mutant: makeTx does not look whether there is a transaction.            *)
MakeTxAlways(r, d) ==
  /\ Op(r)
  /\ at' = [at EXCEPT ![r] = d]
  /\ Goto(r, "conn")
  /\ UNCHANGED <<kind, err, ended, dbVars, gone, out, respVars, dot, pool>>

(* Mutant: every error is taken for a normal exit.                         *)
CleanupXAll(r) ==
  /\ pc[r] = "cleanup"
  /\ at[r] = 0
  /\ err' = [err EXCEPT ![r] = "nil"]
  /\ at' = [at EXCEPT ![r] = 1]
  /\ UNCHANGED <<pc, kind, ops, ended, dbVars, gone, out, respVars, dot, pool>>

(* Mutant: the error of the commit is dropped.                             *)
CleanupDBIgnoresError(r) ==
  LET d == at[r] IN
  /\ pc[r] = "cleanup"
  /\ d \in DBs
  /\ at' = [at EXCEPT ![r] = d + 1]
  /\ \/ ~handle[r][d] /\ UNCHANGED <<err, dbVars>>
     \/ handle[r][d] /\ err[r] # "nil" /\ RollbackTx(r, d, "lost") /\ UNCHANGED err
     \/ handle[r][d] /\ err[r] = "nil" /\ \E ok \in BOOLEAN :
          /\ CommitTx(r, d, "kept", "lost", ok)
          /\ UNCHANGED err
  /\ UNCHANGED <<pc, kind, ops, ended, gone, out, respVars, dot, pool>>

(* Mutant: nothing is rolled back after an error.                          *)
CleanupDBNoRollback(r) ==
  LET d == at[r] IN
  /\ pc[r] = "cleanup"
  /\ d \in DBs
  /\ at' = [at EXCEPT ![r] = d + 1]
  /\ \/ ~handle[r][d] /\ UNCHANGED <<err, dbVars>>
     \/ handle[r][d] /\ err[r] # "nil" /\ UNCHANGED <<err, dbVars>>
     \/ handle[r][d] /\ err[r] = "nil" /\ \E ok \in BOOLEAN :
          /\ CommitTx(r, d, "kept", "lost", ok)
          /\ err' = [err EXCEPT ![r] = IF ok THEN "nil" ELSE "error"]
  /\ UNCHANGED <<pc, kind, ops, ended, gone, out, respVars, dot, pool>>

(* Mutant: Resp does not look for an ErrorStatus.                          *)
CleanupOutNoStatus(r) ==
  /\ pc[r] = "cleanup"
  /\ at[r] = Out
  /\ \/ err[r] = "nil" /\ WriteHeader(r, "chosen") /\ CopyHeader(r)
     \/ err[r] # "nil" /\ UNCHANGED <<sent, header>>
  /\ Put(r)
  /\ Goto(r, "respond")
  /\ UNCHANGED <<kind, ops, at, err, ended, dbVars, gone, out, fixed, body>>

(* Mutant: the headers are copied before the error is looked at.           *)
CleanupOutHeadersFirst(r) ==
  /\ pc[r] = "cleanup"
  /\ at[r] = Out
  /\ CopyHeader(r)
  /\ \/ err[r] = "nil" /\ WriteHeader(r, "chosen")
     \/ err[r] = "status" /\ kind[r] = "buffer" /\ WriteHeader(r, "status")
     \/ err[r] = "status" /\ kind[r] = "flush" /\ UNCHANGED sent
     \/ err[r] = "error" /\ UNCHANGED sent
  /\ Put(r)
  /\ Goto(r, "respond")
  /\ UNCHANGED <<kind, ops, at, err, ended, dbVars, gone, out, fixed, body>>

(* Mutant: the status is written whether or not there is an error.         *)
CleanupOutAnyway(r) ==
  /\ pc[r] = "cleanup"
  /\ at[r] = Out
  /\ WriteHeader(r, "chosen")
  /\ \/ err[r] = "nil" /\ CopyHeader(r)
     \/ err[r] # "nil" /\ UNCHANGED header
  /\ Put(r)
  /\ Goto(r, "respond")
  /\ UNCHANGED <<kind, ops, at, err, ended, dbVars, gone, out, fixed, body>>

-----------------------------------------------------------------------------
(* What a template does                                                    *)

(* Output goes to the buffer, or directly to a flushing response.          *)
Output(r) ==
  /\ Op(r)
  /\ ~out[r]
  /\ out' = [out EXCEPT ![r] = TRUE]
  /\ IF kind[r] = "flush" THEN WriteHeader(r, "chosen") /\ Write(r, "event")
                          ELSE UNCHANGED <<sent, body>>
  /\ UNCHANGED <<pc, kind, at, err, ended, dbVars, gone, fixed, header, dot, pool>>

(* Exec or QueryRows in the transaction the DotDB already has.             *)
Statement(r, d) ==
  /\ Op(r)
  /\ handle[r][d]
  /\ \/ /\ live[r][d]
        /\ work' = [work EXCEPT ![r][d] = "dirty"]
        /\ Resume(r)
     \/ Failed(r) /\ UNCHANGED work
  /\ UNCHANGED <<kind, handle, live, gone, out, respVars, dot, pool>>

(* Exec or QueryRows without one: BeginTx waits for a connection.          *)
MakeTx(r, d) ==
  /\ Op(r)
  /\ ~handle[r][d]
  /\ at' = [at EXCEPT ![r] = d]
  /\ Goto(r, "conn")
  /\ UNCHANGED <<kind, err, ended, dbVars, gone, out, respVars, dot, pool>>

Holders(d) == {q \in Requests : live[q][d]}

(* BeginTx got a connection, and the statement ran in the new transaction, *)
(* or failed there, or the driver could not begin one.                     *)
BeginTx(r) ==
  LET d == at[r] IN
  /\ pc[r] = "conn"
  /\ ~gone[r]
  /\ MaxOpenConns = 0 \/ Cardinality(Holders(d)) < MaxOpenConns
  /\ \/ /\ handle' = [handle EXCEPT ![r][d] = TRUE]
        /\ live' = [live EXCEPT ![r][d] = TRUE]
        /\ \/ work' = [work EXCEPT ![r][d] = "dirty"] /\ Resume(r)
           \/ work' = [work EXCEPT ![r][d] = "none"] /\ Failed(r)
     \/ Failed(r) /\ UNCHANGED dbVars
  /\ UNCHANGED <<kind, ops, gone, out, respVars, dot, pool>>

(* BeginTx fails when the request's context ends: DotDB.tx stays nil.      *)
BeginFails(r) ==
  /\ pc[r] = "conn"
  /\ gone[r]
  /\ Failed(r)
  /\ UNCHANGED <<kind, ops, dbVars, gone, out, respVars, dot, pool>>

(* A flushing template blocks: in WaitForServerStop, or in a range over a  *)
(* subscription (module Streams).                                          *)
Wait(r) ==
  /\ Op(r)
  /\ kind[r] = "flush"
  /\ Goto(r, "wait")
  /\ UNCHANGED <<kind, at, err, ended, dbVars, gone, out, respVars, dot, pool>>

(* The request's context ended: WaitForServerStop returns a ReturnError,   *)
(* which the template may have caught with try; a range just ends.         *)
WaitOver(r) ==
  /\ pc[r] = "wait"
  /\ gone[r]
  /\ End(r, "return") \/ Resume(r)
  /\ UNCHANGED <<kind, ops, dbVars, gone, out, respVars, dot, pool>>

(* The template's own .Commit and .Rollback: it knows what becomes of it.  *)
Commit(r, d) ==
  /\ Op(r)
  /\ handle[r][d]
  /\ \E ok \in BOOLEAN :
       /\ CommitTx(r, d, "saved", "undone", ok)
       /\ IF ok THEN Resume(r) ELSE Failed(r)
  /\ UNCHANGED <<kind, gone, out, respVars, dot, pool>>

Rollback(r, d) ==
  /\ Op(r)
  /\ handle[r][d]
  /\ RollbackTx(r, d, "undone")
  /\ (live[r][d] /\ Resume(r)) \/ Failed(r)
  /\ UNCHANGED <<kind, gone, out, respVars, dot, pool>>

(* .Resp.AddHeader, SetHeader or DelHeader; the response does not change.  *)
(* SetStatus changes only which status "chosen" stands for.                *)
SetHeader(r) ==
  /\ Op(r)
  /\ kind[r] = "buffer"
  /\ \E h \in {"none", "set"} \ {header[r]} : header' = [header EXCEPT ![r] = h]
  /\ UNCHANGED <<pc, kind, at, err, ended, dbVars, gone, out, fixed, sent, body, dot, pool>>

(* .Resp.ServeContent responds at once and returns a ReturnError.          *)
(* http.ServeContent declares the Content-Length unless the template has   *)
(* set a Content-Encoding header.                                          *)
ServeContent(r) ==
  /\ Op(r)
  /\ kind[r] = "buffer"
  /\ WriteHeader(r, "content")
  /\ Write(r, "content")
  /\ CopyHeader(r)
  /\ \E encoded \in BOOLEAN : fixed' = [fixed EXCEPT ![r] = ~encoded]
  /\ End(r, "return")
  /\ UNCHANGED <<kind, dbVars, gone, out, dot, pool>>

(* The template ends, returns early, or stops with an error or a status.   *)
Finish(r) ==
  /\ pc[r] = "exec"
  /\ \E e \in Errors : End(r, e)
  /\ UNCHANGED <<kind, ops, dbVars, gone, out, respVars, dot, pool>>

-----------------------------------------------------------------------------
(* dot.cleanup                                                             *)

(* dotXProvider.Cleanup: a ReturnError is a normal exit.                   *)
CleanupX(r) ==
  /\ pc[r] = "cleanup"
  /\ at[r] = 0
  /\ err' = [err EXCEPT ![r] = IF @ = "return" THEN "nil" ELSE @]
  /\ at' = [at EXCEPT ![r] = 1]
  /\ UNCHANGED <<pc, kind, ops, ended, dbVars, gone, out, respVars, dot, pool>>

(* DotDBConfig.Cleanup: commit if there is no error so far, else roll back.*)
CleanupDB(r) ==
  LET d == at[r] IN
  /\ pc[r] = "cleanup"
  /\ d \in DBs
  /\ at' = [at EXCEPT ![r] = d + 1]
  /\ \/ ~handle[r][d] /\ UNCHANGED <<err, dbVars>>
     \/ handle[r][d] /\ err[r] # "nil" /\ RollbackTx(r, d, "lost") /\ UNCHANGED err
     \/ handle[r][d] /\ err[r] = "nil" /\ \E ok \in BOOLEAN :
          /\ CommitTx(r, d, "kept", "lost", ok)
          /\ err' = [err EXCEPT ![r] = IF ok THEN "nil" ELSE "error"]
  /\ UNCHANGED <<pc, kind, ops, ended, gone, out, respVars, dot, pool>>

(* dotRespProvider.Cleanup or dotFlushProvider.Cleanup, the last one; then *)
(* the struct goes back to the pool.                                       *)
CleanupOut(r) ==
  /\ pc[r] = "cleanup"
  /\ at[r] = Out
  /\ \/ err[r] = "nil" /\ WriteHeader(r, "chosen") /\ CopyHeader(r)
     \/ err[r] = "status" /\ kind[r] = "buffer" /\ WriteHeader(r, "status") /\ UNCHANGED header
     \/ err[r] = "status" /\ kind[r] = "flush" /\ UNCHANGED <<sent, header>>
     \/ err[r] = "error" /\ UNCHANGED <<sent, header>>
  /\ Put(r)
  /\ Goto(r, "respond")
  /\ UNCHANGED <<kind, ops, at, err, ended, dbVars, gone, out, fixed, body>>

(* The handler's last step: an error page, or the buffer.  net/http ends   *)
(* the request's context when the handler returns.                         *)
Respond(r) ==
  /\ pc[r] = "respond"
  /\ \/ err[r] # "nil" /\ HttpError(r)
     \/ err[r] = "nil" /\ kind[r] = "buffer" /\ out[r] /\ Write(r, "page") /\ UNCHANGED <<sent, fixed, header>>
     \/ err[r] = "nil" /\ (kind[r] = "flush" \/ ~out[r]) /\ UNCHANGED respVars
  /\ gone' = [gone EXCEPT ![r] = TRUE]
  /\ Goto(r, "done")
  /\ UNCHANGED <<kind, ops, at, err, ended, dbVars, out, dot, pool>>

-----------------------------------------------------------------------------
(* Environment                                                             *)

(* The client disconnects.                                                 *)
ClientGone(r) ==
  /\ pc[r] \notin {"idle", "done"}
  /\ ~gone[r]
  /\ gone' = [gone EXCEPT ![r] = TRUE]
  /\ UNCHANGED <<pc, kind, ops, at, err, ended, dbVars, out, respVars, dot, pool>>

(* What the template waits for happens: the instance's context is over, or *)
(* a message arrives.                                                      *)
Wake(r) ==
  /\ pc[r] = "wait"
  /\ Resume(r)
  /\ UNCHANGED <<kind, ops, dbVars, gone, out, respVars, dot, pool>>

(* database/sql rolls a transaction back once its context is done.         *)
AutoRollback(r, d) ==
  /\ live[r][d]
  /\ gone[r]
  /\ live' = [live EXCEPT ![r][d] = FALSE]
  /\ UNCHANGED <<pc, kind, ops, at, err, ended, handle, work, gone, out, respVars, dot, pool>>

Quiet ==
  /\ \A r \in Requests : pc[r] = "done" /\ \A d \in DBs : ~live[r][d]
  /\ UNCHANGED vars

Step(r) ==
  \/ ValueFails(r) \/ ValueOk(r)
  \/ Output(r) \/ SetHeader(r) \/ BeginTx(r) \/ BeginFails(r) \/ Wait(r) \/ WaitOver(r)
  \/ ServeContent(r) \/ Finish(r)
  \/ \E d \in DBs : Statement(r, d) \/ MakeTx(r, d) \/ Commit(r, d) \/ Rollback(r, d)
  \/ CleanupX(r) \/ CleanupDB(r) \/ CleanupOut(r) \/ Respond(r)

Next ==
  \/ \E r \in Requests : NotAcceptable(r) \/ Get(r) \/ Step(r) \/ ClientGone(r) \/ Wake(r)
  \/ \E r \in Requests, d \in DBs : AutoRollback(r, d)
  \/ Quiet

Spec == Init /\ [][Next]_vars

-----------------------------------------------------------------------------
(* Properties                                                              *)

(* A client that receives a rendered page can rely on its effects: when a  *)
(* buffering handler writes the page, whatever the template did in any     *)
(* database and did not itself commit or roll back has been committed.     *)
PageMeansSaved ==
  \A r \in Requests, d \in DBs :
    kind[r] = "buffer" /\ (\E i \in DOMAIN body[r] : body[r][i] = "page")
      => work[r][d] \notin {"dirty", "lost"}

(* If there were errors the transactions are rolled back (dot_db.go:15):   *)
(* the cleanup commits nothing of a template that failed, and once one     *)
(* database's commit fails, no database after it is committed.             *)
FailureKeepsNothing ==
  \A r \in Requests, d \in DBs :
    work[r][d] = "kept" =>
      /\ ended[r] \in {"nil", "return"}
      /\ \A c \in DBs : c < d => work[r][c] # "lost"

(* A request that is over holds no transaction: each one was committed,    *)
(* rolled back, or is about to be rolled back because its context ended.   *)
NoLeakedTx ==
  \A r \in Requests, d \in DBs :
    pc[r] \in {"idle", "done"} => ~handle[r][d] /\ (live[r][d] => gone[r])

(* No pooled dot struct is used by two requests, or is used while it is in *)
(* the pool, or is in the pool twice.                                      *)
DotExclusive ==
  \A o \in Dots :
    /\ pool[o] <= 1
    /\ \A r \in Requests : dot[r] = o => pool[o] = 0
    /\ \A r, q \in Requests : dot[r] = o /\ dot[q] = o => r = q

(* The status that a client of a buffering handler gets tells what is in   *)
(* the body, although the cleanups write the one and the handler, later,   *)
(* the other: with the status the template chose, all of its output; with  *)
(* an ErrorStatus or a 500, the error page and nothing of the output; with *)
(* served content, the content, which only if no length was declared is    *)
(* followed by the output or by the error page of a commit that failed.    *)
FitsStatus(r) ==
  \/ sent[r] = "chosen" /\ body[r] = (IF out[r] THEN <<"page">> ELSE <<>>)
  \/ sent[r] \in {"status", "500"} /\ body[r] = <<"error">>
  \/ sent[r] = "content" /\ body[r] = <<"content">>
  \/ sent[r] = "content" /\ ~fixed[r] /\ \E more \in {"page", "error"} :
       body[r] = Append(<<"content">>, more)
BodyFitsStatus ==
  \A r \in Requests : pc[r] = "done" /\ kind[r] = "buffer" => FitsStatus(r)

(* ServeContent aborts execution of the template and instead responds with *)
(* content (dot_resp.go:52-54): nothing else is in the body.               *)
ContentInstead ==
  \A r \in Requests : sent[r] = "content" => body[r] = <<"content">>

(* How far the code keeps that: the content whose length http.ServeContent *)
(* declared is all of the response, whatever the cleanups and the handler  *)
(* write after it.                                                         *)
ContentAlone ==
  \A r \in Requests : fixed[r] => sent[r] = "content" /\ body[r] = <<"content">>

(* A template stopped by an ErrorStatus is answered with that status, also *)
(* when rolling back fails and although the handler then reports a 500.    *)
StatusReachesClient ==
  \A r \in Requests :
    pc[r] = "done" /\ kind[r] = "buffer" /\ ended[r] = "status" => sent[r] = "status"

(* The headers a template sets go with the page or with served content and *)
(* with nothing else: not with an error page, although the template had    *)
(* set them before the error or before the commit that failed.             *)
HeadersWithPage ==
  \A r \in Requests :
    kind[r] = "buffer" /\ sent[r] # "none" /\ header[r] # "none" =>
      (header[r] = "copied" <=> sent[r] \in {"chosen", "content"})

(* What becomes of the connections, and who waits for whom, is what module *)
(* Connections says, where the waiting is studied.                         *)
Conns == INSTANCE Connections
ImplementsConnections == Conns!Spec
=============================================================================
