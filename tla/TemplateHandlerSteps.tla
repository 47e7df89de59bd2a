----------------------- MODULE TemplateHandlerSteps -------------------------
(***************************************************************************)
(* Lemmas about the steps of module TemplateHandler, on which the proofs   *)
(* of its invariants rest: every step keeps the types; a step of one       *)
(* request leaves what the others own alone; and while a template runs it  *)
(* writes no page and settles no work that is left to the cleanups.        *)
(***************************************************************************)
EXTENDS TemplateHandler, TLAPS

-----------------------------------------------------------------------------
(* Type correctness                                                        *)

Labels == {"idle", "value", "exec", "conn", "wait", "cleanup", "respond", "done"}
Works == {"none", "dirty", "saved", "undone", "kept", "lost"}
Statuses == {"none", "chosen", "content", "status", "500", "406"}
Parts == {"page", "event", "content", "error"}

(* The update of one database of one request keeps a table's type.         *)
LEMMA TableType ==
  ASSUME NEW S, NEW T, NEW V, NEW f \in [S -> [T -> V]], NEW r \in S, NEW d, NEW v \in V
  PROVE  [f EXCEPT ![r][d] = v] \in [S -> [T -> V]]
<1>1. [f[r] EXCEPT ![d] = v] \in [T -> V]
  BY Zenon
<1>. QED
  BY <1>1

(* After an operation the template goes on or its clean-up begins.         *)
LEMMA ResumeOrEndType ==
  ASSUME TypeOK, NEW r \in Requests,
         Resume(r) \/ Failed(r) \/ (\E e \in Errors : End(r, e))
  PROVE  /\ pc' \in [Requests -> Labels]
         /\ at' \in [Requests -> 0..Out]
         /\ err' \in [Requests -> Errors]
         /\ ended' \in [Requests -> Errors \cup {"running"}]
         /\ at' = [at EXCEPT ![r] = 0]
         /\ \E l \in {"exec", "cleanup"} : pc' = [pc EXCEPT ![r] = l]
<1>. USE HandlerAssumption DEF TypeOK, Goto, Labels, Errors, Out
<1>1. CASE Resume(r)
  BY <1>1 DEF Resume
<1>2. ASSUME NEW e \in Errors, End(r, e)
      PROVE  /\ pc' \in [Requests -> Labels]
             /\ at' \in [Requests -> 0..Out]
             /\ err' \in [Requests -> Errors]
             /\ ended' \in [Requests -> Errors \cup {"running"}]
             /\ at' = [at EXCEPT ![r] = 0]
             /\ \E l \in {"exec", "cleanup"} : pc' = [pc EXCEPT ![r] = l]
  BY <1>2 DEF End
<1>. QED
  BY <1>1, <1>2, Zenon DEF Failed

(* A write leaves a sequence of parts.                                     *)
LEMMA WriteType ==
  ASSUME TypeOK, NEW r \in Requests, NEW part \in Parts, Write(r, part)
  PROVE  body' \in [Requests -> Seq(Parts)]
<1>1. body[r] \in Seq(Parts)
  BY DEF TypeOK, Parts
<1>2. Append(body[r], part) \in Seq(Parts)
  BY <1>1
<1>. QED
  BY <1>1, <1>2 DEF TypeOK, Write, Parts

(* The end of a transaction, committed or rolled back.                     *)
LEMMA EndTxType ==
  ASSUME TypeOK, NEW r \in Requests, NEW d \in DBs, NEW w1 \in Works, NEW w2 \in Works,
         RollbackTx(r, d, w1) \/ (\E ok \in BOOLEAN : CommitTx(r, d, w1, w2, ok))
  PROVE  /\ handle' \in [Requests -> [DBs -> BOOLEAN]]
         /\ live' \in [Requests -> [DBs -> BOOLEAN]]
         /\ work' \in [Requests -> [DBs -> Works]]
<1>1. CASE RollbackTx(r, d, w1)
  BY <1>1 DEF TypeOK, RollbackTx, Works
<1>2. ASSUME NEW ok \in BOOLEAN, CommitTx(r, d, w1, w2, ok)
      PROVE  /\ handle' \in [Requests -> [DBs -> BOOLEAN]]
             /\ live' \in [Requests -> [DBs -> BOOLEAN]]
             /\ work' \in [Requests -> [DBs -> Works]]
  <2>1. handle' \in [Requests -> [DBs -> BOOLEAN]]
    BY <1>2 DEF TypeOK, CommitTx
  <2>2. live' \in [Requests -> [DBs -> BOOLEAN]]
    BY <1>2 DEF TypeOK, CommitTx
  <2>3. work' \in [Requests -> [DBs -> Works]]
    BY <1>2 DEF TypeOK, CommitTx, Works
  <2>. QED
    BY <2>1, <2>2, <2>3
<1>. QED
  BY <1>1, <1>2

(* Only the first status line counts.                                      *)
LEMMA WriteHeaderType ==
  ASSUME TypeOK, NEW r \in Requests, NEW st \in Statuses, WriteHeader(r, st)
  PROVE  sent' \in [Requests -> Statuses]
<1>1. sent \in [Requests -> Statuses]
  BY DEF TypeOK, Statuses
<1>. QED
  BY <1>1 DEF WriteHeader

(* pool.Put of a struct.                                                   *)
LEMMA PutType ==
  ASSUME TypeOK, NEW r \in Requests, Put(r)
  PROVE  /\ dot' \in [Requests -> Dots \cup {NoDot}]
         /\ pool' \in [Dots -> Nat]
<1>1. dot \in [Requests -> Dots \cup {NoDot}] /\ pool \in [Dots -> Nat]
  BY DEF TypeOK
<1>2. dot' \in [Requests -> Dots \cup {NoDot}]
  BY <1>1 DEF Put
<1>3. CASE dot[r] \in Dots
  <2>1. pool[dot[r]] + 1 \in Nat
    BY <1>1, <1>3
  <2>. QED
    BY <1>1, <1>2, <2>1, Zenon DEF Put
<1>4. CASE dot[r] \notin Dots
  BY <1>1, <1>2, <1>4, Zenon DEF Put
<1>. QED
  BY <1>3, <1>4

(* A rendered page is in the body s.                                       *)
HasPage(s) == \E i \in DOMAIN s : s[i] = "page"

(* Another part than the page makes no page of a body.                     *)
LEMMA AppendOther ==
  ASSUME NEW s \in Seq(Parts), NEW part \in Parts, part # "page", HasPage(Append(s, part))
  PROVE  HasPage(s)
<1>1. PICK i \in 1..Len(s) + 1 : Append(s, part)[i] = "page"
  BY DEF HasPage
<1>2. i # Len(s) + 1
  BY <1>1
<1>3. i \in 1..Len(s) /\ s[i] = "page"
  BY <1>1, <1>2
<1>. QED
  BY <1>3 DEF HasPage

(* Every step keeps the types.                                             *)
LEMMA TypeStep ==
  ASSUME TypeOK, [Next]_vars
  PROVE  TypeOK'
<1>. USE HandlerAssumption DEF Errors, Out, DBs, Goto, dbVars, respVars
<1>1. ASSUME NEW r \in Requests, NotAcceptable(r) PROVE TypeOK'
  BY <1>1 DEF NotAcceptable, WriteHeader, Write, TypeOK
<1>2. ASSUME NEW r \in Requests, Get(r) PROVE TypeOK'
  <2>1. PICK o \in Dots :
          /\ \/ pool[o] > 0 /\ pool' = [pool EXCEPT ![o] = @ - 1]
             \/ UNCHANGED pool
          /\ dot' = [dot EXCEPT ![r] = o]
    BY <1>2, Zenon DEF Get
  <2>2. pool' \in [Dots -> Nat]
    <3>1. pool \in [Dots -> Nat] /\ pool[o] \in Nat
      BY DEF TypeOK
    <3>2. pool[o] > 0 => pool[o] - 1 \in Nat
      BY <3>1
    <3>. QED
      BY <2>1, <3>1, <3>2
  <2>3. dot' \in [Requests -> Dots \cup {NoDot}]
    BY <2>1 DEF TypeOK
  <2>4. pc' \in [Requests -> Labels]
    BY <1>2 DEF Get, Labels, TypeOK
  <2>5. UNCHANGED <<kind, ops, at, err, ended, handle, live, work, gone, out, fixed, header, sent, body>>
    BY <1>2 DEF Get
  <2>. QED
    BY <2>2, <2>3, <2>4, <2>5 DEF TypeOK, Labels
<1>3. ASSUME NEW r \in Requests, ValueFails(r) PROVE TypeOK'
  <2>1. body' \in [Requests -> Seq(Parts)]
    BY <1>3, WriteType, Zenon DEF ValueFails, HttpError, Parts
  <2>2. dot' \in [Requests -> Dots \cup {NoDot}] /\ pool' \in [Dots -> Nat]
    BY <1>3, PutType DEF ValueFails
  <2>3. pc' \in [Requests -> Labels]
    BY <1>3 DEF ValueFails, Labels, TypeOK
  <2>4. sent' \in [Requests -> Statuses]
    BY <1>3, WriteHeaderType, Zenon DEF ValueFails, HttpError, Statuses
  <2>5. UNCHANGED <<kind, ops, at, err, ended, handle, live, work, gone, out, fixed, header>>
    BY <1>3 DEF ValueFails, HttpError
  <2>. QED
    BY <2>1, <2>2, <2>3, <2>4, <2>5 DEF TypeOK, Labels, Parts, Statuses
<1>4. ASSUME NEW r \in Requests, ValueOk(r) PROVE TypeOK'
  BY <1>4 DEF ValueOk, TypeOK
<1>5. ASSUME NEW r \in Requests, Output(r) PROVE TypeOK'
  <2>1. body' \in [Requests -> Seq(Parts)]
    <3>1. CASE kind[r] = "flush"
      BY <1>5, <3>1, WriteType, Zenon DEF Output, Parts
    <3>2. CASE kind[r] # "flush"
      BY <1>5, <3>2 DEF Output, Parts, TypeOK
    <3>. QED
      BY <3>1, <3>2
  <2>2. sent' \in [Requests -> Statuses]
    BY <1>5, WriteHeaderType, Zenon DEF Output, Statuses, TypeOK
  <2>3. ops' \in 0..MaxOps /\ out' \in [Requests -> BOOLEAN]
    BY <1>5 DEF Output, Op, TypeOK
  <2>4. UNCHANGED <<pc, kind, at, err, ended, handle, live, work, gone, fixed, header, dot, pool>>
    BY <1>5 DEF Output
  <2>. QED
    BY <2>1, <2>2, <2>3, <2>4 DEF TypeOK, Parts, Statuses
<1>6. ASSUME NEW r \in Requests, SetHeader(r) PROVE TypeOK'
  BY <1>6 DEF SetHeader, Op, TypeOK
<1>7. ASSUME NEW r \in Requests, BeginTx(r) PROVE TypeOK'
  <2>1. /\ pc' \in [Requests -> Labels]
        /\ at' \in [Requests -> 0..Out]
        /\ err' \in [Requests -> Errors]
        /\ ended' \in [Requests -> Errors \cup {"running"}]
    BY <1>7, ResumeOrEndType DEF BeginTx
  <2>2. handle' \in [Requests -> [DBs -> BOOLEAN]]
    <3>1. handle \in [Requests -> [DBs -> BOOLEAN]]
      BY DEF TypeOK
    <3>2. UNCHANGED handle \/ handle' = [handle EXCEPT ![r][at[r]] = TRUE]
      BY <1>7 DEF BeginTx
    <3>3. [handle EXCEPT ![r][at[r]] = TRUE] \in [Requests -> [DBs -> BOOLEAN]]
      BY <3>1, TableType, Zenon
    <3>. QED
      BY <3>1, <3>2, <3>3, Zenon
  <2>3. live' \in [Requests -> [DBs -> BOOLEAN]]
    <3>1. live \in [Requests -> [DBs -> BOOLEAN]]
      BY DEF TypeOK
    <3>2. UNCHANGED live \/ live' = [live EXCEPT ![r][at[r]] = TRUE]
      BY <1>7 DEF BeginTx
    <3>3. [live EXCEPT ![r][at[r]] = TRUE] \in [Requests -> [DBs -> BOOLEAN]]
      BY <3>1, TableType, Zenon
    <3>. QED
      BY <3>1, <3>2, <3>3, Zenon
  <2>5. work' \in [Requests -> [DBs -> Works]]
    <3>1. work \in [Requests -> [DBs -> Works]]
      BY DEF Works, TypeOK
    <3>2. \/ UNCHANGED work
          \/ \E w \in Works : work' = [work EXCEPT ![r][at[r]] = w]
      BY <1>7 DEF BeginTx, Works
    <3>3. \A w \in Works : [work EXCEPT ![r][at[r]] = w] \in [Requests -> [DBs -> Works]]
      BY <3>1, TableType, Zenon
    <3>. QED
      BY <3>1, <3>2, <3>3, Zenon
  <2>4. UNCHANGED <<kind, ops, gone, out, fixed, header, sent, body, dot, pool>>
    BY <1>7 DEF BeginTx
  <2>. QED
    BY <2>1, <2>2, <2>3, <2>4, <2>5 DEF TypeOK, Labels, Works
<1>8. ASSUME NEW r \in Requests, BeginFails(r) PROVE TypeOK'
  <2>1. /\ pc' \in [Requests -> Labels]
        /\ at' \in [Requests -> 0..Out]
        /\ err' \in [Requests -> Errors]
        /\ ended' \in [Requests -> Errors \cup {"running"}]
    BY <1>8, ResumeOrEndType DEF BeginFails
  <2>2. UNCHANGED <<kind, ops, handle, live, work, gone, out, fixed, header, sent, body, dot, pool>>
    BY <1>8 DEF BeginFails
  <2>. QED
    BY <2>1, <2>2 DEF TypeOK, Labels
<1>9. ASSUME NEW r \in Requests, ServeContent(r) PROVE TypeOK'
  BY <1>9 DEF ServeContent, Op, WriteHeader, Write, CopyHeader, End, TypeOK
<1>10. ASSUME NEW r \in Requests, Finish(r) PROVE TypeOK'
  BY <1>10 DEF Finish, End, TypeOK
<1>11. ASSUME NEW r \in Requests, NEW d \in DBs, Statement(r, d) PROVE TypeOK'
  <2>1. /\ pc' \in [Requests -> Labels]
        /\ at' \in [Requests -> 0..Out]
        /\ err' \in [Requests -> Errors]
        /\ ended' \in [Requests -> Errors \cup {"running"}]
    BY <1>11, ResumeOrEndType DEF Statement
  <2>2. ops' \in 0..MaxOps
    BY <1>11 DEF Statement, Op, TypeOK
  <2>3. work' \in [Requests -> [DBs -> Works]]
    <3>1. UNCHANGED work \/ work' = [work EXCEPT ![r][d] = "dirty"]
      BY <1>11 DEF Statement
    <3>2. work \in [Requests -> [DBs -> Works]] /\ "dirty" \in Works
      BY DEF Works, TypeOK
    <3>3. [work EXCEPT ![r][d] = "dirty"] \in [Requests -> [DBs -> Works]]
      BY <3>2, TableType
    <3>. QED
      BY <3>1, <3>2, <3>3, Zenon
  <2>4. UNCHANGED <<kind, handle, live, gone, out, fixed, header, sent, body, dot, pool>>
    BY <1>11 DEF Statement
  <2>. QED
    BY <2>1, <2>2, <2>3, <2>4 DEF TypeOK, Labels, Works
<1>12. ASSUME NEW r \in Requests, NEW d \in DBs, MakeTx(r, d) PROVE TypeOK'
  BY <1>12 DEF MakeTx, Op, TypeOK
<1>13. ASSUME NEW r \in Requests, NEW d \in DBs, Commit(r, d) PROVE TypeOK'
  <2>1. /\ pc' \in [Requests -> Labels]
        /\ at' \in [Requests -> 0..Out]
        /\ err' \in [Requests -> Errors]
        /\ ended' \in [Requests -> Errors \cup {"running"}]
    BY <1>13, ResumeOrEndType DEF Commit
  <2>2. ops' \in 0..MaxOps
    BY <1>13 DEF Commit, Op, TypeOK
  <2>3. /\ handle' \in [Requests -> [DBs -> BOOLEAN]]
        /\ live' \in [Requests -> [DBs -> BOOLEAN]]
        /\ work' \in [Requests -> [DBs -> Works]]
    BY <1>13, EndTxType DEF Commit, Works
  <2>4. UNCHANGED <<kind, gone, out, fixed, header, sent, body, dot, pool>>
    BY <1>13 DEF Commit
  <2>. QED
    BY <2>1, <2>2, <2>3, <2>4 DEF TypeOK, Labels, Works
<1>14. ASSUME NEW r \in Requests, NEW d \in DBs, Rollback(r, d) PROVE TypeOK'
  <2>1. /\ pc' \in [Requests -> Labels]
        /\ at' \in [Requests -> 0..Out]
        /\ err' \in [Requests -> Errors]
        /\ ended' \in [Requests -> Errors \cup {"running"}]
    BY <1>14, ResumeOrEndType DEF Rollback
  <2>2. ops' \in 0..MaxOps
    BY <1>14 DEF Rollback, Op, TypeOK
  <2>3. /\ handle' \in [Requests -> [DBs -> BOOLEAN]]
        /\ live' \in [Requests -> [DBs -> BOOLEAN]]
        /\ work' \in [Requests -> [DBs -> Works]]
    BY <1>14, EndTxType DEF Rollback, Works
  <2>4. UNCHANGED <<kind, gone, out, fixed, header, sent, body, dot, pool>>
    BY <1>14 DEF Rollback
  <2>. QED
    BY <2>1, <2>2, <2>3, <2>4 DEF TypeOK, Labels, Works
<1>15. ASSUME NEW r \in Requests, CleanupX(r) PROVE TypeOK'
  BY <1>15 DEF CleanupX, TypeOK
<1>16. ASSUME NEW r \in Requests, CleanupDB(r) PROVE TypeOK'
  <2>1. /\ handle' \in [Requests -> [DBs -> BOOLEAN]]
        /\ live' \in [Requests -> [DBs -> BOOLEAN]]
        /\ work' \in [Requests -> [DBs -> Works]]
    <3>1. CASE UNCHANGED dbVars
      BY <3>1 DEF Works, TypeOK
    <3>2. CASE ~ UNCHANGED dbVars
      <4>1. /\ at[r] \in DBs
            /\ \/ RollbackTx(r, at[r], "lost")
               \/ \E ok \in BOOLEAN : CommitTx(r, at[r], "kept", "lost", ok)
        BY <1>16, <3>2 DEF CleanupDB
      <4>. QED
        BY <4>1, EndTxType DEF Works
    <3>. QED
      BY <3>1, <3>2
  <2>2. at' \in [Requests -> 0..Out]
    BY <1>16, HandlerAssumption DEF CleanupDB, TypeOK
  <2>3. err' \in [Requests -> Errors]
    <3>1. UNCHANGED err \/ \E e \in {"nil", "error"} : err' = [err EXCEPT ![r] = e]
      BY <1>16 DEF CleanupDB
    <3>. QED
      BY <3>1, Zenon DEF TypeOK
  <2>4. UNCHANGED <<pc, kind, ops, ended, gone, out, fixed, header, sent, body, dot, pool>>
    BY <1>16 DEF CleanupDB
  <2>. QED
    BY <2>1, <2>2, <2>3, <2>4 DEF TypeOK, Works
<1>17. ASSUME NEW r \in Requests, CleanupOut(r) PROVE TypeOK'
  <2>1. dot' \in [Requests -> Dots \cup {NoDot}] /\ pool' \in [Dots -> Nat]
    BY <1>17, PutType DEF CleanupOut
  <2>2. /\ sent' \in [Requests -> Statuses]
        /\ header' \in [Requests -> {"none", "set", "copied"}]
    BY <1>17, WriteHeaderType, Zenon DEF CleanupOut, CopyHeader, Statuses, TypeOK
  <2>3. pc' \in [Requests -> Labels]
    BY <1>17 DEF CleanupOut, Labels, TypeOK
  <2>4. UNCHANGED <<kind, ops, at, err, ended, handle, live, work, gone, out, fixed, body>>
    BY <1>17 DEF CleanupOut
  <2>. QED
    BY <2>1, <2>2, <2>3, <2>4 DEF TypeOK, Labels, Statuses
<1>18. ASSUME NEW r \in Requests, Respond(r) PROVE TypeOK'
  <2>1. body' \in [Requests -> Seq(Parts)]
    <3>1. CASE UNCHANGED body
      BY <3>1 DEF Parts, TypeOK
    <3>2. CASE ~ UNCHANGED body
      BY <1>18, <3>2, WriteType, Zenon DEF Respond, HttpError, Parts
    <3>. QED
      BY <3>1, <3>2
  <2>2. sent' \in [Requests -> Statuses]
    BY <1>18, WriteHeaderType, Zenon DEF Respond, HttpError, Statuses, TypeOK
  <2>3. pc' \in [Requests -> Labels] /\ gone' \in [Requests -> BOOLEAN]
    BY <1>18 DEF Respond, Labels, TypeOK
  <2>4. UNCHANGED <<kind, ops, at, err, ended, handle, live, work, out, fixed, header, dot, pool>>
    BY <1>18 DEF Respond, HttpError
  <2>. QED
    BY <2>1, <2>2, <2>3, <2>4 DEF TypeOK, Labels, Parts, Statuses
<1>19. ASSUME NEW r \in Requests, ClientGone(r) PROVE TypeOK'
  BY <1>19 DEF ClientGone, TypeOK
<1>20. ASSUME NEW r \in Requests, NEW d \in DBs, AutoRollback(r, d) PROVE TypeOK'
  BY <1>20 DEF AutoRollback, TypeOK
<1>21. ASSUME NEW r \in Requests, Wait(r) PROVE TypeOK'
  BY <1>21 DEF Wait, Op, TypeOK
<1>22. ASSUME NEW r \in Requests, WaitOver(r) \/ Wake(r) PROVE TypeOK'
  <2>1. /\ pc' \in [Requests -> Labels]
        /\ at' \in [Requests -> 0..Out]
        /\ err' \in [Requests -> Errors]
        /\ ended' \in [Requests -> Errors \cup {"running"}]
    BY <1>22, ResumeOrEndType DEF WaitOver, Wake
  <2>2. UNCHANGED <<kind, ops, handle, live, work, gone, out, fixed, header, sent, body, dot, pool>>
    BY <1>22 DEF WaitOver, Wake
  <2>. QED
    BY <2>1, <2>2 DEF TypeOK, Labels
<1>23. CASE UNCHANGED vars
  BY <1>23 DEF vars, TypeOK
<1>. QED
  BY <1>1, <1>2, <1>3, <1>4, <1>5, <1>6, <1>7, <1>8, <1>9, <1>10, <1>11, <1>12, <1>13,
     <1>14, <1>15, <1>16, <1>17, <1>18, <1>19, <1>20, <1>21, <1>22, <1>23
  DEF Next, Step, Quiet

-----------------------------------------------------------------------------
(* What a step of one request does                                         *)

(* The steps of request r's handler, its client and its transactions.      *)
Act(r) ==
  \/ NotAcceptable(r) \/ Get(r) \/ Step(r) \/ ClientGone(r) \/ Wake(r)
  \/ \E d \in DBs : AutoRollback(r, d)

(* The steps of r while its template runs.                                 *)
Template(r) ==
  \/ Output(r) \/ SetHeader(r) \/ BeginTx(r) \/ BeginFails(r)
  \/ Wait(r) \/ WaitOver(r) \/ Wake(r) \/ ServeContent(r) \/ Finish(r)
  \/ \E d \in DBs : Statement(r, d) \/ MakeTx(r, d) \/ Commit(r, d) \/ Rollback(r, d)

(* What request q owns stays as it is.                                     *)
Kept(q) ==
  /\ pc'[q] = pc[q] /\ at'[q] = at[q] /\ err'[q] = err[q] /\ ended'[q] = ended[q]
  /\ handle'[q] = handle[q] /\ live'[q] = live[q] /\ work'[q] = work[q] /\ gone'[q] = gone[q]
  /\ kind'[q] = kind[q] /\ header'[q] = header[q] /\ sent'[q] = sent[q] /\ body'[q] = body[q]
  /\ out'[q] = out[q] /\ fixed'[q] = fixed[q]

(* The template of r goes on, or ends with an error and r's cleanups begin.*)
GoesOnOrEnds(r) ==
  \/ pc'[r] \in {"exec", "conn", "wait"} /\ err'[r] = err[r] /\ ended'[r] = ended[r]
  \/ pc'[r] = "cleanup" /\ at'[r] = 0 /\ err'[r] = ended'[r] /\ ended'[r] \in Errors

(* The databases are numbered from 1, and Resp or Flush comes after them.  *)
LEMMA Numbers ==
  /\ \A d \in DBs : d # 0 /\ d + 1 # 0 /\ ~ (d < 0) /\ ~ (d < 1) /\ ~ (d < d) /\ d < Out
  /\ \A c, d \in DBs : (c < d + 1 <=> c < d \/ c = d) /\ ~ (c < d /\ d < c)
  /\ Out # 0
<1>1. NumDB \in Nat
  BY HandlerAssumption
<1>2. \A d \in DBs : d \in Nat /\ 1 <= d /\ d <= NumDB
  BY <1>1 DEF DBs
<1>. QED
  BY <1>1, <1>2 DEF Out

(* After a database operation one of the two happens, to r only.           *)
LEMMA OperationOver ==
  ASSUME TypeOK, NEW r \in Requests,
         Resume(r) \/ Failed(r) \/ (\E e \in Errors : End(r, e))
  PROVE  /\ GoesOnOrEnds(r)
         /\ pc'[r] \in {"exec", "cleanup"} /\ at'[r] = 0
         /\ \A q \in Requests \ {r} :
              pc'[q] = pc[q] /\ at'[q] = at[q] /\ err'[q] = err[q] /\ ended'[q] = ended[q]
<1>. USE DEF Goto, GoesOnOrEnds
<1>t. /\ pc \in [Requests -> Labels]
      /\ at \in [Requests -> Nat]
      /\ err \in [Requests -> Errors]
      /\ ended \in [Requests -> Errors \cup {"running"}]
  BY HandlerAssumption DEF TypeOK, Labels, Out
<1>1. CASE Resume(r)
  BY <1>t, <1>1 DEF Resume
<1>2. CASE \E e \in Errors : End(r, e)
  BY <1>t, <1>2 DEF End
<1>3. "error" \in Errors
  BY DEF Errors
<1>. QED
  BY <1>1, <1>2, <1>3 DEF Failed

(* A handler changes nothing of another request but through the pool.      *)
LEMMA OthersKept ==
  ASSUME TypeOK, NEW r \in Requests, Act(r), NEW q \in Requests \ {r}
  PROVE  Kept(q)
<1>. USE DEF Kept, Goto, Op, Write, WriteHeader, HttpError, CopyHeader, RollbackTx, CommitTx,
             dbVars, respVars
<1>t. /\ pc \in [Requests -> Labels] /\ at \in [Requests -> Nat]
      /\ err \in [Requests -> Errors] /\ ended \in [Requests -> Errors \cup {"running"}]
      /\ handle \in [Requests -> [DBs -> BOOLEAN]] /\ live \in [Requests -> [DBs -> BOOLEAN]]
      /\ work \in [Requests -> [DBs -> Works]] /\ gone \in [Requests -> BOOLEAN]
      /\ header \in [Requests -> {"none", "set", "copied"}]
      /\ sent \in [Requests -> Statuses] /\ body \in [Requests -> Seq(Parts)]
      /\ out \in [Requests -> BOOLEAN] /\ fixed \in [Requests -> BOOLEAN]
  BY HandlerAssumption DEF TypeOK, Labels, Out, Works, Statuses, Parts
<1>. USE <1>t
<1>1. CASE NotAcceptable(r) \/ Get(r) \/ ValueFails(r) \/ ValueOk(r)
  BY <1>1 DEF NotAcceptable, Get, ValueFails, ValueOk
<1>2. CASE Output(r) \/ SetHeader(r) \/ ServeContent(r)
  BY <1>2 DEF Output, SetHeader, ServeContent, End
<1>3. CASE BeginTx(r)
  BY <1>3, OperationOver, Zenon DEF BeginTx
<1>4. CASE BeginFails(r) \/ Finish(r)
  BY <1>4, OperationOver, Zenon DEF BeginFails, Finish
<1>11. CASE Wait(r)
  BY <1>11 DEF Wait
<1>12. CASE WaitOver(r) \/ Wake(r)
  <2>1. "return" \in Errors
    BY DEF Errors
  <2>. QED
    BY <1>12, <2>1, OperationOver, Zenon DEF WaitOver, Wake
<1>5. ASSUME NEW d \in DBs, Statement(r, d) \/ MakeTx(r, d) PROVE Kept(q)
  BY <1>5, OperationOver DEF Statement, MakeTx
<1>6. ASSUME NEW d \in DBs, Commit(r, d) \/ Rollback(r, d) PROVE Kept(q)
  <2>1. pc'[q] = pc[q] /\ at'[q] = at[q] /\ err'[q] = err[q] /\ ended'[q] = ended[q]
    BY <1>6, OperationOver DEF Commit, Rollback
  <2>2. CASE Commit(r, d)
    BY <2>1, <2>2 DEF Commit
  <2>3. CASE Rollback(r, d)
    BY <2>1, <2>3 DEF Rollback
  <2>. QED
    BY <1>6, <2>2, <2>3
<1>7. CASE CleanupX(r) \/ CleanupDB(r)
  BY <1>7 DEF CleanupX, CleanupDB
<1>8. CASE CleanupOut(r) \/ Respond(r)
  BY <1>8 DEF CleanupOut, Respond
<1>9. CASE ClientGone(r)
  BY <1>9 DEF ClientGone
<1>10. ASSUME NEW d \in DBs, AutoRollback(r, d) PROVE Kept(q)
  BY <1>10 DEF AutoRollback
<1>. QED
  BY <1>1, <1>2, <1>3, <1>4, <1>5, <1>6, <1>7, <1>8, <1>9, <1>10, <1>11, <1>12, Zenon DEF Act, Step

(* A write of another part than the page makes no page.                    *)
LEMMA WriteOther ==
  ASSUME TypeOK, NEW r \in Requests, NEW part \in Parts, part # "page",
         Write(r, part) \/ UNCHANGED body
  PROVE  HasPage(body'[r]) => HasPage(body[r])
<1>1. body \in [Requests -> Seq(Parts)]
  BY DEF TypeOK, Parts
<1>2. HasPage(Append(body[r], part)) => HasPage(body[r])
  BY <1>1, AppendOther
<1>3. body'[r] = body[r] \/ body'[r] = Append(body[r], part)
  BY <1>1 DEF Write
<1>. QED
  BY <1>2, <1>3, Zenon

(* A write to a body whose length is not fixed adds its part.              *)
LEMMA WriteAdds ==
  ASSUME TypeOK, NEW r \in Requests, NEW part \in Parts, Write(r, part)
  PROVE  /\ fixed[r] => body'[r] = body[r]
         /\ ~fixed[r] /\ body[r] = <<>> => body'[r] = <<part>>
         /\ ~fixed[r] /\ body[r] = <<"content">> => body'[r] = Append(<<"content">>, part)
<1>1. body \in [Requests -> Seq(Parts)]
  BY DEF TypeOK, Parts
<1>2. body'[r] = IF fixed[r] THEN body[r] ELSE Append(body[r], part)
  BY <1>1, Zenon DEF Write
<1>3. Append(<<>>, part) = <<part>>
  OBVIOUS
<1>. QED
  BY <1>2, <1>3, Zenon

(* What a step of the template does to r's response: nothing but changes   *)
(* of the headers to come, or it serves content and the template returns.  *)
Answers(r) ==
  kind[r] = "buffer" =>
    \/ /\ sent'[r] = sent[r] /\ body'[r] = body[r] /\ fixed'[r] = fixed[r]
       /\ header'[r] \in {header[r], "none", "set"}
    \/ /\ sent[r] = "none" => sent'[r] = "content"
       /\ ~fixed[r] => body'[r] = Append(body[r], "content")
       /\ header'[r] # "set"
       /\ ended'[r] = "return" /\ pc'[r] = "cleanup"

(* What the template does concerns neither the pool nor the work that the  *)
(* cleanups will keep or lose, and writes no page.                         *)
LEMMA TemplateStep ==
  ASSUME TypeOK, NEW r \in Requests, Template(r)
  PROVE  /\ pc[r] \in {"exec", "conn", "wait"} /\ GoesOnOrEnds(r)
         /\ UNCHANGED <<dot, pool, kind, gone>>
         /\ \A c \in DBs : work'[r][c] \in {work[r][c], "none", "dirty", "saved", "undone"}
         /\ HasPage(body'[r]) => HasPage(body[r])
         /\ Answers(r)
<1>. DEFINE Worked == \A c \in DBs : work'[r][c] \in {work[r][c], "none", "dirty", "saved", "undone"}
            Done == /\ pc[r] \in {"exec", "conn", "wait"} /\ GoesOnOrEnds(r)
                    /\ UNCHANGED <<dot, pool, kind, gone>>
                    /\ Worked
                    /\ HasPage(body'[r]) => HasPage(body[r])
                    /\ Answers(r)
<1>t. /\ pc \in [Requests -> Labels] /\ work \in [Requests -> [DBs -> Works]]
      /\ header \in [Requests -> {"none", "set", "copied"}] /\ sent \in [Requests -> Statuses]
  BY DEF TypeOK, Labels, Works, Statuses
<1>p. {"event", "content"} \subseteq Parts \ {"page"} /\ {"error", "return"} \subseteq Errors
  BY DEF Parts, Errors
<1>1. ASSUME UNCHANGED respVars PROVE Answers(r) /\ (HasPage(body'[r]) => HasPage(body[r]))
  BY <1>1 DEF Answers, respVars
<1>2. CASE Output(r)
  <2>1. HasPage(body'[r]) => HasPage(body[r])
    BY <1>2, <1>p, WriteOther DEF Output
  <2>. QED
    BY <1>2, <2>1 DEF Output, Op, Answers, GoesOnOrEnds, dbVars
<1>3. CASE SetHeader(r)
  BY <1>t, <1>3 DEF SetHeader, Op, Answers, GoesOnOrEnds, dbVars
<1>4. CASE BeginTx(r)
  <2>1. Worked
    BY <1>t, <1>4 DEF BeginTx, dbVars
  <2>. QED
    BY <1>1, <1>4, <2>1, OperationOver DEF BeginTx
<1>5. CASE BeginFails(r) \/ Finish(r)
  <2>1. Worked
    BY <1>5 DEF BeginFails, Finish, dbVars
  <2>. QED
    BY <1>1, <1>5, <2>1, OperationOver DEF BeginFails, Finish
<1>11. CASE Wait(r)
  <2>1. Worked
    BY <1>11 DEF Wait, dbVars
  <2>. QED
    BY <1>t, <1>1, <1>11, <2>1 DEF Wait, Op, Goto, GoesOnOrEnds
<1>12. CASE WaitOver(r) \/ Wake(r)
  <2>1. Worked
    BY <1>12 DEF WaitOver, Wake, dbVars
  <2>2. GoesOnOrEnds(r)
    BY <1>p, <1>12, OperationOver DEF WaitOver, Wake
  <2>. QED
    BY <1>1, <1>12, <2>1, <2>2 DEF WaitOver, Wake
<1>6. CASE ServeContent(r)
  <2>1. HasPage(body'[r]) => HasPage(body[r])
    BY <1>6, <1>p, WriteOther DEF ServeContent
  <2>2. GoesOnOrEnds(r) /\ Worked
    BY <1>6, <1>p, OperationOver DEF ServeContent, dbVars
  <2>3. ended'[r] = "return" /\ pc'[r] = "cleanup"
    BY <1>t, <1>6 DEF ServeContent, End, Goto, TypeOK
  <2>4. ~fixed[r] => body'[r] = Append(body[r], "content")
    BY <1>6 DEF ServeContent, Write, TypeOK
  <2>5. Answers(r)
    BY <1>t, <1>6, <2>3, <2>4 DEF ServeContent, Answers, WriteHeader, CopyHeader
  <2>. QED
    BY <1>6, <2>1, <2>2, <2>5 DEF ServeContent, Op
<1>7. ASSUME NEW d \in DBs, Statement(r, d) PROVE Done
  <2>1. Worked
    BY <1>t, <1>7 DEF Statement
  <2>. QED
    BY <1>1, <1>7, <2>1, OperationOver DEF Statement, Op
<1>8. ASSUME NEW d \in DBs, MakeTx(r, d) PROVE Done
  BY <1>t, <1>1, <1>8 DEF MakeTx, Op, Goto, GoesOnOrEnds, dbVars
<1>9. ASSUME NEW d \in DBs, Commit(r, d) PROVE Done
  <2>1. Worked
    BY <1>t, <1>9 DEF Commit, CommitTx
  <2>. QED
    BY <1>1, <1>9, <2>1, OperationOver DEF Commit, Op
<1>10. ASSUME NEW d \in DBs, Rollback(r, d) PROVE Done
  <2>1. Worked
    BY <1>t, <1>10 DEF Rollback, RollbackTx
  <2>. QED
    BY <1>1, <1>10, <2>1, OperationOver, Zenon DEF Rollback, Op
<1>. QED
  BY <1>2, <1>3, <1>4, <1>5, <1>6, <1>7, <1>8, <1>9, <1>10, <1>11, <1>12 DEF Template

=============================================================================
