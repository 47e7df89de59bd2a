------------------------------ MODULE Streams -------------------------------
(***************************************************************************)
(* Server-sent event streams: flushing templates of one instance that      *)
(* range over the channels of .Flush.Repeat and .Nats.Subscribe and block  *)
(* in .Flush.Sleep, .Flush.WaitForServerStop and .Nats.Request.            *)
(*                                                                         *)
(* Each channel is unbuffered and has a goroutine that closes it.  Two     *)
(* contexts end: the request's, when its client leaves or its handler      *)
(* returns, and the instance's, when it is replaced or stopped; the latter *)
(* also shuts the instance's in-process NATS server down.  A template may  *)
(* leave its range at any time, by break, an error or a return, while the  *)
(* goroutine wants to send.                                                *)
(***************************************************************************)
EXTENDS Integers, Sequences

CONSTANTS
  Requests,
  Maxes,    \* arguments that templates pass to Repeat
  Forever,  \* Repeat without an argument: 2^63 - 1 is not reached
  MaxOps,   \* calls of a template outside its range, and per iteration
  MaxMsgs   \* bound on the messages published

ASSUME StreamsAssumption ==
  Maxes \subseteq Int /\ Forever \notin Int /\ MaxOps \in Nat /\ MaxMsgs \in Nat

VARIABLES
  pc,          \* where the template is; "range" is blocked on its channel
  ops,         \* calls left before it goes on
  ranging,     \* it is in the body of its range
  got,         \* history: what it received from its channel
  source,      \* what its channel is from: "none", "repeat" or "sub"
  go,          \* where the channel's goroutine is
  i, max,      \* locals of Repeat
  closed,      \* the channel is closed
  gone,        \* the request's context is done
  subscribed,  \* the client library delivers to the channel
  next,        \* the next message it has for the subscription
  cancelled,   \* the instance's context is done
  server,      \* the in-process NATS server runs
  msgs         \* messages published so far

chanVars == <<source, go, i, max, closed>>
natsVars == <<subscribed, next, server, msgs>>
vars == <<pc, ops, ranging, got, chanVars, gone, cancelled, natsVars>>

(* The last number of Repeat(m): the limit is looked at after a send.      *)
Last(m) == IF m < 0 THEN 0 ELSE m

TypeOK ==
  /\ pc \in [Requests -> {"idle", "run", "range", "sleep", "wait", "request", "done"}]
  /\ ops \in [Requests -> 0..MaxOps]
  /\ ranging \in [Requests -> BOOLEAN]
  /\ got \in [Requests -> Seq(Nat)]
  /\ source \in [Requests -> {"none", "repeat", "sub"}]
  /\ go \in [Requests -> {"none", "select", "sent", "block", "close", "end"}]
  /\ max \in [Requests -> Maxes \cup {Forever}]
  /\ i \in [Requests -> Nat]
  /\ \A r \in Requests : max[r] # Forever => i[r] <= Last(max[r])
  /\ closed \in [Requests -> BOOLEAN] /\ gone \in [Requests -> BOOLEAN]
  /\ subscribed \in [Requests -> BOOLEAN]
  /\ next \in [Requests -> 1..MaxMsgs + 1]
  /\ cancelled \in BOOLEAN /\ server \in BOOLEAN
  /\ msgs \in 0..MaxMsgs

Init ==
  /\ pc = [r \in Requests |-> "idle"]
  /\ ops = [r \in Requests |-> 0]
  /\ ranging = [r \in Requests |-> FALSE]
  /\ got = [r \in Requests |-> <<>>]
  /\ source = [r \in Requests |-> "none"]
  /\ go = [r \in Requests |-> "none"]
  /\ i = [r \in Requests |-> 0]
  /\ max = [r \in Requests |-> Forever]
  /\ closed = [r \in Requests |-> FALSE]
  /\ gone = [r \in Requests |-> FALSE]
  /\ subscribed = [r \in Requests |-> FALSE]
  /\ next = [r \in Requests |-> 1]
  /\ cancelled = FALSE
  /\ server = TRUE
  /\ msgs = 0

Goto(r, l) == pc' = [pc EXCEPT ![r] = l]
GoTo(r, l) == go' = [go EXCEPT ![r] = l]

(* The template ends and the handler returns: net/http ends the context.   *)
End(r) ==
  /\ Goto(r, "done")
  /\ gone' = [gone EXCEPT ![r] = TRUE]

-----------------------------------------------------------------------------
(* Templates                                                               *)

(* ServeHTTP looked at the instance's context before; see Server.          *)
Begin(r) ==
  /\ pc[r] = "idle"
  /\ ~cancelled
  /\ Goto(r, "run")
  /\ ops' = [ops EXCEPT ![r] = MaxOps]
  /\ UNCHANGED <<ranging, got, chanVars, gone, cancelled, natsVars>>

Call(r) ==
  /\ pc[r] = "run"
  /\ ops[r] > 0
  /\ ops' = [ops EXCEPT ![r] = @ - 1]

(* .Flush.Repeat, and the range over its result.                           *)
Repeat(r) ==
  /\ Call(r)
  /\ source[r] = "none"
  /\ source' = [source EXCEPT ![r] = "repeat"]
  /\ \E m \in Maxes \cup {Forever} : max' = [max EXCEPT ![r] = m]
  /\ GoTo(r, "select")
  /\ Goto(r, "range")
  /\ UNCHANGED <<ranging, got, i, closed, gone, cancelled, natsVars>>

(* .Nats.Subscribe, and the range over its result.  It may fail.           *)
Subscribe(r) ==
  /\ Call(r)
  /\ source[r] = "none"
  /\ \/ /\ source' = [source EXCEPT ![r] = "sub"]
        /\ subscribed' = [subscribed EXCEPT ![r] = TRUE]
        /\ next' = [next EXCEPT ![r] = msgs + 1]
        /\ GoTo(r, "block")
        /\ Goto(r, "range")
        /\ UNCHANGED gone
     \/ End(r) /\ UNCHANGED <<source, subscribed, next, go>>
  /\ UNCHANGED <<ranging, got, i, max, closed, cancelled, server, msgs>>

(* The body of the range is done, or left by break.                        *)
Continue(r) ==
  /\ pc[r] = "run"
  /\ ranging[r]
  /\ Goto(r, "range") \/ UNCHANGED pc
  /\ ranging' = [ranging EXCEPT ![r] = FALSE]
  /\ UNCHANGED <<ops, got, chanVars, gone, cancelled, natsVars>>

(* A range ends when its channel is closed.                                *)
RangeEnds(r) ==
  /\ pc[r] = "range"
  /\ closed[r]
  /\ Goto(r, "run")
  /\ UNCHANGED <<ops, ranging, got, chanVars, gone, cancelled, natsVars>>

(* .Flush.Sleep, .Flush.WaitForServerStop or .Nats.Request                 *)
Block(r) ==
  /\ Call(r)
  /\ Goto(r, "sleep") \/ Goto(r, "wait") \/ Goto(r, "request")
  /\ UNCHANGED <<ranging, got, chanVars, gone, cancelled, natsVars>>

Unblock(r) ==
  /\ Goto(r, "run")
  /\ UNCHANGED <<ops, ranging, got, chanVars, gone, cancelled, natsVars>>

Return(r) ==
  /\ End(r)
  /\ UNCHANGED <<ops, ranging, got, chanVars, cancelled, natsVars>>

(* Sleep: the timer, or a ReturnError when one of the contexts is done.    *)
Sleep(r) ==
  /\ pc[r] = "sleep"
  /\ Unblock(r) \/ ((gone[r] \/ cancelled) /\ Return(r))

(* WaitForServerStop: a ReturnError if the client left.                    *)
WaitForServerStop(r) ==
  /\ pc[r] = "wait"
  /\ (cancelled /\ Unblock(r)) \/ (gone[r] /\ Return(r))

(* Request: a reply, or the timeout, whose error ends the template or is   *)
(* caught with try.                                                        *)
Request(r) ==
  /\ pc[r] = "request"
  /\ Unblock(r) \/ Return(r)

(* Publish: accepted while the server runs, else it fails or is lost.      *)
Publish(r) ==
  /\ Call(r)
  /\ \/ server /\ msgs < MaxMsgs /\ msgs' = msgs + 1 /\ UNCHANGED <<pc, gone>>
     \/ ~server /\ UNCHANGED <<pc, gone, msgs>>
     \/ ~server /\ End(r) /\ UNCHANGED msgs
  /\ UNCHANGED <<ranging, got, chanVars, cancelled, subscribed, next, server>>

(* The template ends, returns or fails.                                    *)
Finish(r) == pc[r] = "run" /\ Return(r)

-----------------------------------------------------------------------------
(* Repeat's goroutine                                                      *)

(* What a receive does to the template.                                    *)
Receive(r, v) ==
  /\ pc[r] = "range"
  /\ ~closed[r]
  /\ got' = [got EXCEPT ![r] = IF max[r] = Forever /\ source[r] = "repeat" THEN @ ELSE Append(@, v)]
  /\ ranging' = [ranging EXCEPT ![r] = TRUE]
  /\ ops' = [ops EXCEPT ![r] = MaxOps]
  /\ Goto(r, "run")

(* case c <- i                                                             *)
RepeatSend(r) ==
  /\ go[r] = "select"
  /\ Receive(r, i[r])
  /\ GoTo(r, "sent")
  /\ UNCHANGED <<source, i, max, closed, gone, cancelled, natsVars>>

(* Mutants: the select lacks the case of one of the contexts.              *)
RepeatStopServer(r) ==
  /\ go[r] = "select"
  /\ cancelled
  /\ GoTo(r, "close")
  /\ UNCHANGED <<pc, ops, ranging, got, source, i, max, closed, gone, cancelled, natsVars>>

RepeatStopClient(r) ==
  /\ go[r] = "select"
  /\ gone[r]
  /\ GoTo(r, "close")
  /\ UNCHANGED <<pc, ops, ranging, got, source, i, max, closed, gone, cancelled, natsVars>>

(* case <-f.requestCtx.Done() and case <-f.serverCtx.Done()                *)
RepeatStop(r) ==
  /\ go[r] = "select"
  /\ gone[r] \/ cancelled
  /\ GoTo(r, "close")
  /\ UNCHANGED <<pc, ops, ranging, got, source, i, max, closed, gone, cancelled, natsVars>>

(* Mutant: the limit is exclusive.                                         *)
RepeatNextExclusive(r) ==
  /\ go[r] = "sent"
  /\ IF max[r] # Forever /\ i[r] + 1 >= max[r]
     THEN GoTo(r, "close") /\ UNCHANGED i
     ELSE GoTo(r, "select") /\ i' = [i EXCEPT ![r] = IF max[r] = Forever THEN @ ELSE @ + 1]
  /\ UNCHANGED <<pc, ops, ranging, got, source, max, closed, gone, cancelled, natsVars>>

(* if i >= max { break }; i++.  Without a limit i is left alone.           *)
RepeatNext(r) ==
  /\ go[r] = "sent"
  /\ \/ /\ max[r] # Forever /\ i[r] >= max[r]
        /\ GoTo(r, "close") /\ UNCHANGED i
     \/ /\ max[r] # Forever /\ i[r] < max[r]
        /\ GoTo(r, "select") /\ i' = [i EXCEPT ![r] = @ + 1]
     \/ /\ max[r] = Forever
        /\ GoTo(r, "select") /\ UNCHANGED i
  /\ UNCHANGED <<pc, ops, ranging, got, source, max, closed, gone, cancelled, natsVars>>

(* close(c) in Repeat, close(ch) in Subscribe                              *)
Close(r) ==
  /\ go[r] = "close"
  /\ closed' = [closed EXCEPT ![r] = TRUE]
  /\ GoTo(r, "end")
  /\ UNCHANGED <<pc, ops, ranging, got, source, i, max, gone, cancelled, natsVars>>

-----------------------------------------------------------------------------
(* Subscriptions                                                           *)

(* Mutant: the channel is closed before the subscription ends.             *)
CloseThenUnsubscribe(r) ==
  /\ go[r] = "block"
  /\ gone[r]
  /\ closed' = [closed EXCEPT ![r] = TRUE]
  /\ GoTo(r, "close")
  /\ UNCHANGED <<pc, ops, ranging, got, source, i, max, gone, cancelled, natsVars>>

(* Mutant: Unsubscribe is called again and again.                          *)
UnsubscribeRetries(r) ==
  /\ go[r] = "block"
  /\ gone[r]
  /\ subscribed' = [subscribed EXCEPT ![r] = FALSE]
  /\ UNCHANGED <<pc, ops, ranging, got, chanVars, gone, cancelled, next, server, msgs>>

(* Subscribe's goroutine: <-done, then Unsubscribe, whose error is ignored. *)
Unsubscribe(r) ==
  /\ go[r] = "block"
  /\ gone[r]
  /\ subscribed' = [subscribed EXCEPT ![r] = FALSE]
  /\ GoTo(r, "close")
  /\ UNCHANGED <<pc, ops, ranging, got, source, i, max, closed, gone, cancelled, next, server, msgs>>

(* The library has a message for the subscription: it hands it over if the *)
(* template is receiving and drops it otherwise, as the channel has no     *)
(* buffer and other subscriptions share the connection.                    *)
Deliver(r) ==
  /\ subscribed[r]
  /\ next[r] <= msgs
  /\ next' = [next EXCEPT ![r] = @ + 1]
  /\ Receive(r, next[r]) \/ UNCHANGED <<pc, ops, ranging, got>>
  /\ UNCHANGED <<chanVars, gone, cancelled, subscribed, server, msgs>>

-----------------------------------------------------------------------------
(* Environment                                                             *)

ClientGone(r) ==
  /\ pc[r] \notin {"idle", "done"}
  /\ ~gone[r]
  /\ gone' = [gone EXCEPT ![r] = TRUE]
  /\ UNCHANGED <<pc, ops, ranging, got, chanVars, cancelled, natsVars>>

(* Reload replaces the instance, or Stop.                                  *)
Cancel ==
  /\ ~cancelled
  /\ cancelled' = TRUE
  /\ UNCHANGED <<pc, ops, ranging, got, chanVars, gone, natsVars>>

(* The goroutine of DotNatsConfig.Init.                                    *)
Shutdown ==
  /\ cancelled
  /\ server
  /\ server' = FALSE
  /\ UNCHANGED <<pc, ops, ranging, got, chanVars, gone, cancelled, subscribed, next, msgs>>

(* Another client of the NATS server publishes.                            *)
PublishElsewhere ==
  /\ server
  /\ msgs < MaxMsgs
  /\ msgs' = msgs + 1
  /\ UNCHANGED <<pc, ops, ranging, got, chanVars, gone, cancelled, subscribed, next, server>>

Quiet == (\A r \in Requests : pc[r] \in {"idle", "done"}) /\ UNCHANGED vars

Template(r) ==
  \/ Repeat(r) \/ Subscribe(r) \/ Continue(r) \/ RangeEnds(r) \/ Block(r)
  \/ Sleep(r) \/ WaitForServerStop(r) \/ Request(r) \/ Publish(r) \/ Finish(r)

Goroutine(r) ==
  RepeatSend(r) \/ RepeatStop(r) \/ RepeatNext(r) \/ Close(r) \/ Unsubscribe(r)

Next ==
  \/ \E r \in Requests :
       Begin(r) \/ Template(r) \/ Goroutine(r) \/ Deliver(r) \/ ClientGone(r)
  \/ Cancel \/ Shutdown \/ PublishElsewhere \/ Quiet

(* Goroutines are scheduled, timers fire, and a select that is evaluated   *)
(* again and again with a context done takes that case at some time, as Go *)
(* chooses among the ready cases at random.  No client need leave, no      *)
(* message be delivered and no instance be cancelled.                      *)
Spec ==
  /\ Init /\ [][Next]_vars
  /\ \A r \in Requests :
       WF_vars(Template(r)) /\ WF_vars(Goroutine(r)) /\ SF_vars(RepeatStop(r))

-----------------------------------------------------------------------------
(* Properties                                                              *)

(* Repeat generates the numbers up to max: if its channel was closed while *)
(* both contexts were live, the template has received 0, 1, ... up to max, *)
(* or only 0 if max is negative, each once and in order.                   *)
RepeatComplete ==
  \A r \in Requests :
    source[r] = "repeat" /\ closed[r] /\ ~gone[r] /\ ~cancelled =>
      max[r] # Forever /\ got[r] = [k \in 1..Last(max[r]) + 1 |-> k - 1]

(* The library never delivers to a closed channel, which would panic: the  *)
(* subscription has ended when Subscribe's goroutine closes the channel.   *)
DeliverySafe == \A r \in Requests : subscribed[r] => ~closed[r]

(* A template receives numbers and messages in their order and none twice, *)
(* however many messages are dropped because it was not receiving.         *)
ReceivedInOrder ==
  \A r \in Requests : \A j, k \in DOMAIN got[r] : j < k => got[r][j] < got[r][k]

(* Nobody waits for what cannot happen: a template in a range waits for a  *)
(* channel that is closed or that its goroutine will send to or close, and *)
(* a goroutine that outlives its request finds the context done.           *)
NobodyForgotten ==
  \A r \in Requests :
    /\ pc[r] = "range" => closed[r] \/ go[r] \notin {"none", "end"}
    /\ pc[r] = "done" => gone[r]

(* No goroutine of Repeat or Subscribe outlives its request for long,      *)
(* wherever the template stopped receiving.                                *)
GoroutinesEnd ==
  \A r \in Requests : pc[r] = "done" ~> go[r] \in {"none", "end"}

(* When the instance is replaced or stopped, every template ends without   *)
(* its client leaving, wherever it is blocked, also in a .Nats.Request     *)
(* whose server is shut down under it; but not if it has subscribed.       *)
StopEndsStreams ==
  \A r \in Requests : cancelled ~> (pc[r] \in {"idle", "done"} \/ source[r] = "sub")

(* A template ends when its client leaves, wherever it is blocked.         *)
ClientEndsStreams ==
  \A r \in Requests : gone[r] ~> pc[r] = "done"
=============================================================================
