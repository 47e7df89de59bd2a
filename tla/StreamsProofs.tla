--------------------------- MODULE StreamsProofs ----------------------------
(***************************************************************************)
(* Proofs about the channels of .Flush.Repeat and .Nats.Subscribe: what a  *)
(* range over one has received when it ends, and that nothing is sent to a *)
(* closed channel, for any number of requests, calls and messages.         *)
(***************************************************************************)
EXTENDS Streams, TLAPS

(* Who uses a channel: its goroutine follows the path of its source, the   *)
(* library delivers to it only until that goroutine unsubscribes, and only *)
(* the last step of the goroutine closes it.                               *)
Channels ==
  \A r \in Requests :
    /\ source[r] = "none" => go[r] = "none" /\ i[r] = 0 /\ got[r] = <<>>
    /\ source[r] = "repeat" => go[r] \in {"select", "sent", "close", "end"}
    /\ source[r] = "sub" => go[r] \in {"block", "close", "end"}
    /\ subscribed[r] => go[r] = "block"
    /\ closed[r] => go[r] = "end"

(* A template has received 0, 1, ..., n - 1 and nothing else.              *)
Received(s, n) == Len(s) = n /\ \A k \in 1..n : s[k] = k - 1

(* How the local i of Repeat counts what the template received, and why    *)
(* its loop ends: a context is done, or the limit is reached.              *)
Counting ==
  \A r \in Requests :
    source[r] = "repeat" =>
      /\ go[r] = "select" /\ max[r] # Forever => Received(got[r], i[r])
      /\ go[r] = "sent" /\ max[r] # Forever => Received(got[r], i[r] + 1)
      /\ go[r] \in {"close", "end"} =>
           \/ gone[r] \/ cancelled
           \/ max[r] # Forever /\ Received(got[r], Last(max[r]) + 1)

IInv == TypeOK /\ Channels /\ Counting

-----------------------------------------------------------------------------
(* Proofs                                                                  *)

(* The variables keep their types, and Repeat never counts past its limit: *)
(* it starts at 0 on a channel that did not exist before.                  *)
LEMMA TypeStep ==
  ASSUME TypeOK, Channels, [Next]_vars
  PROVE  TypeOK'
<1>. USE StreamsAssumption DEF Goto, GoTo, chanVars, natsVars
<1>t. /\ pc \in [Requests -> {"idle", "run", "range", "sleep", "wait", "request", "done"}]
      /\ ops \in [Requests -> 0..MaxOps]
      /\ ranging \in [Requests -> BOOLEAN]
      /\ got \in [Requests -> Seq(Nat)]
      /\ source \in [Requests -> {"none", "repeat", "sub"}]
      /\ go \in [Requests -> {"none", "select", "sent", "block", "close", "end"}]
      /\ max \in [Requests -> Maxes \cup {Forever}]
      /\ i \in [Requests -> Nat]
      /\ \A r \in Requests : max[r] # Forever => i[r] <= Last(max[r])
      /\ closed \in [Requests -> BOOLEAN] /\ gone \in [Requests -> BOOLEAN]
      /\ subscribed \in [Requests -> BOOLEAN]
      /\ next \in [Requests -> 1..MaxMsgs + 1]
      /\ cancelled \in BOOLEAN /\ server \in BOOLEAN
      /\ msgs \in 0..MaxMsgs
  BY DEF TypeOK
<1>1. ASSUME NEW r \in Requests, Begin(r) PROVE TypeOK'
  BY <1>t, <1>1 DEF Begin, TypeOK
<1>2. ASSUME NEW r \in Requests, Repeat(r) PROVE TypeOK'
  BY <1>t, <1>2 DEF Repeat, Call, Channels, Last, TypeOK
<1>3. ASSUME NEW r \in Requests, Subscribe(r) PROVE TypeOK'
  <2>1. ops' \in [Requests -> 0..MaxOps] /\ next' \in [Requests -> 1..MaxMsgs + 1]
    <3>1. ops' \in [Requests -> 0..MaxOps]
      BY <1>t, <1>3 DEF Subscribe, Call
    <3>2. msgs + 1 \in 1..MaxMsgs + 1
      BY <1>t
    <3>3. next' = next \/ next' = [next EXCEPT ![r] = msgs + 1]
      BY <1>3 DEF Subscribe
    <3>. QED
      BY <1>t, <3>1, <3>2, <3>3, Zenon
  <2>2. /\ pc' \in [Requests -> {"idle", "run", "range", "sleep", "wait", "request", "done"}]
        /\ source' \in [Requests -> {"none", "repeat", "sub"}]
        /\ go' \in [Requests -> {"none", "select", "sent", "block", "close", "end"}]
        /\ subscribed' \in [Requests -> BOOLEAN]
        /\ gone' \in [Requests -> BOOLEAN]
    BY <1>t, <1>3, Zenon DEF Subscribe, End
  <2>3. UNCHANGED <<ranging, got, i, max, closed, cancelled, server, msgs>>
    BY <1>3 DEF Subscribe
  <2>. QED
    BY <1>t, <2>1, <2>2, <2>3 DEF TypeOK
<1>4. ASSUME NEW r \in Requests, Continue(r) PROVE TypeOK'
  BY <1>t, <1>4 DEF Continue, TypeOK
<1>5. ASSUME NEW r \in Requests, RangeEnds(r) PROVE TypeOK'
  BY <1>t, <1>5 DEF RangeEnds, TypeOK
<1>6. ASSUME NEW r \in Requests, Block(r) PROVE TypeOK'
  <2>1. ops' \in [Requests -> 0..MaxOps]
    BY <1>t, <1>6 DEF Block, Call
  <2>2. pc' \in [Requests -> {"idle", "run", "range", "sleep", "wait", "request", "done"}]
    BY <1>t, <1>6, Zenon DEF Block
  <2>3. UNCHANGED <<ranging, got, chanVars, gone, cancelled, natsVars>>
    BY <1>6 DEF Block
  <2>. QED
    BY <1>t, <2>1, <2>2, <2>3 DEF TypeOK
<1>7. ASSUME NEW r \in Requests, Sleep(r) PROVE TypeOK'
  BY <1>t, <1>7, Zenon DEF Sleep, Unblock, Return, End, TypeOK
<1>8. ASSUME NEW r \in Requests, WaitForServerStop(r) PROVE TypeOK'
  BY <1>t, <1>8, Zenon DEF WaitForServerStop, Unblock, Return, End, TypeOK
<1>9. ASSUME NEW r \in Requests, Request(r) PROVE TypeOK'
  BY <1>t, <1>9, Zenon DEF Request, Unblock, Return, End, TypeOK
<1>10. ASSUME NEW r \in Requests, Publish(r) PROVE TypeOK'
  <2>1. ops' \in [Requests -> 0..MaxOps] /\ msgs' \in 0..MaxMsgs
    BY <1>t, <1>10 DEF Publish, Call
  <2>2. /\ pc' \in [Requests -> {"idle", "run", "range", "sleep", "wait", "request", "done"}]
        /\ gone' \in [Requests -> BOOLEAN]
    BY <1>t, <1>10, Zenon DEF Publish, End
  <2>3. UNCHANGED <<ranging, got, chanVars, cancelled, subscribed, next, server>>
    BY <1>10 DEF Publish
  <2>. QED
    BY <1>t, <2>1, <2>2, <2>3 DEF TypeOK
<1>11. ASSUME NEW r \in Requests, Finish(r) PROVE TypeOK'
  BY <1>t, <1>11 DEF Finish, Return, End, TypeOK
<1>12. ASSUME NEW r \in Requests, RepeatSend(r) PROVE TypeOK'
  <2>1. /\ ops' \in [Requests -> 0..MaxOps]
        /\ got' \in [Requests -> Seq(Nat)]
        /\ ranging' \in [Requests -> BOOLEAN]
        /\ pc' \in [Requests -> {"idle", "run", "range", "sleep", "wait", "request", "done"}]
    <3>1. i[r] \in Nat /\ MaxOps \in 0..MaxOps
      BY <1>t
    <3>2. \A s \in Seq(Nat) : Append(s, i[r]) \in Seq(Nat)
      BY <3>1
    <3>. QED
      BY <1>t, <3>1, <3>2, <1>12 DEF RepeatSend, Receive
  <2>2. /\ go' \in [Requests -> {"none", "select", "sent", "block", "close", "end"}]
        /\ UNCHANGED <<source, i, max, closed, gone, cancelled, natsVars>>
    BY <1>t, <1>12 DEF RepeatSend
  <2>. QED
    BY <1>t, <2>1, <2>2 DEF TypeOK
<1>13. ASSUME NEW r \in Requests, RepeatStop(r) PROVE TypeOK'
  BY <1>t, <1>13 DEF RepeatStop, TypeOK
<1>14. ASSUME NEW r \in Requests, RepeatNext(r) PROVE TypeOK'
  <2>1. /\ i' \in [Requests -> Nat]
        /\ go' \in [Requests -> {"none", "select", "sent", "block", "close", "end"}]
    <3>1. i' = i \/ i' = [i EXCEPT ![r] = @ + 1]
      BY <1>14 DEF RepeatNext
    <3>2. GoTo(r, "close") \/ GoTo(r, "select")
      BY <1>14 DEF RepeatNext
    <3>3. i' \in [Requests -> Nat]
      BY <1>t, <3>1
    <3>4. go' \in [Requests -> {"none", "select", "sent", "block", "close", "end"}]
      BY <1>t, <3>2, Zenon
    <3>. QED
      BY <3>3, <3>4
  <2>2. max[r] # Forever => i'[r] <= Last(max[r])
    <3>. SUFFICES ASSUME max[r] # Forever PROVE i'[r] <= Last(max[r])
      OBVIOUS
    <3>1. max[r] \in Int /\ i[r] \in Nat /\ i[r] <= Last(max[r])
      BY <1>t, Zenon
    <3>2. i'[r] = i[r] \/ (i[r] < max[r] /\ i'[r] = i[r] + 1)
      BY <1>t, <1>14 DEF RepeatNext
    <3>. QED
      BY <3>1, <3>2 DEF Last
  <2>3. \A q \in Requests \ {r} : i'[q] = i[q]
    BY <1>t, <1>14 DEF RepeatNext
  <2>4. UNCHANGED <<pc, ops, ranging, got, source, max, closed, gone, cancelled, natsVars>>
    BY <1>14 DEF RepeatNext
  <2>. QED
    BY <1>t, <2>1, <2>2, <2>3, <2>4, Zenon DEF TypeOK
<1>15. ASSUME NEW r \in Requests, Close(r) PROVE TypeOK'
  BY <1>t, <1>15 DEF Close, TypeOK
<1>16. ASSUME NEW r \in Requests, Unsubscribe(r) PROVE TypeOK'
  BY <1>t, <1>16 DEF Unsubscribe, TypeOK
<1>17. ASSUME NEW r \in Requests, Deliver(r) PROVE TypeOK'
  <2>1. /\ ops' \in [Requests -> 0..MaxOps]
        /\ got' \in [Requests -> Seq(Nat)]
        /\ ranging' \in [Requests -> BOOLEAN]
        /\ pc' \in [Requests -> {"idle", "run", "range", "sleep", "wait", "request", "done"}]
    <3>1. next[r] \in Nat /\ MaxOps \in 0..MaxOps
      BY <1>t
    <3>2. \A s \in Seq(Nat) : Append(s, next[r]) \in Seq(Nat)
      BY <3>1
    <3>3. CASE Receive(r, next[r])
      BY <1>t, <3>1, <3>2, <3>3 DEF Receive
    <3>4. CASE UNCHANGED <<pc, ops, ranging, got>>
      BY <1>t, <3>4
    <3>. QED
      BY <3>3, <3>4, <1>17 DEF Deliver
  <2>2. next' \in [Requests -> 1..MaxMsgs + 1]
    BY <1>t, <1>17 DEF Deliver
  <2>3. UNCHANGED <<chanVars, gone, cancelled, subscribed, server, msgs>>
    BY <1>17 DEF Deliver
  <2>. QED
    BY <1>t, <2>1, <2>2, <2>3 DEF TypeOK
<1>18. ASSUME NEW r \in Requests, ClientGone(r) PROVE TypeOK'
  BY <1>t, <1>18 DEF ClientGone, TypeOK
<1>19. CASE Cancel
  BY <1>t, <1>19 DEF Cancel, TypeOK
<1>20. CASE Shutdown
  BY <1>t, <1>20, Zenon DEF Shutdown, TypeOK
<1>21. CASE PublishElsewhere
  BY <1>t, <1>21 DEF PublishElsewhere, TypeOK
<1>22. CASE UNCHANGED vars
  BY <1>22 DEF vars, TypeOK
<1>. QED
  BY <1>1, <1>2, <1>3, <1>4, <1>5, <1>6, <1>7, <1>8, <1>9, <1>10, <1>11, <1>12, <1>13, <1>14, <1>15, <1>16, <1>17, <1>18, <1>19, <1>20, <1>21, <1>22
  DEF Next, Template, Goroutine, Quiet

(* A channel is handed from its creator to its goroutine, and closed once  *)
(* nothing sends to it any more.                                           *)
LEMMA ChannelsStep ==
  ASSUME TypeOK, Channels, [Next]_vars
  PROVE  Channels'
<1>. USE DEF Channels, Goto, GoTo, chanVars, natsVars
<1>t. /\ go \in [Requests -> {"none", "select", "sent", "block", "close", "end"}]
      /\ source \in [Requests -> {"none", "repeat", "sub"}]
      /\ got \in [Requests -> Seq(Nat)]
      /\ i \in [Requests -> Nat]
      /\ closed \in [Requests -> BOOLEAN]
      /\ subscribed \in [Requests -> BOOLEAN]
  BY DEF TypeOK
<1>1. ASSUME NEW r \in Requests,
             Begin(r) \/ Continue(r) \/ RangeEnds(r) \/ Block(r) \/
               Sleep(r) \/ WaitForServerStop(r) \/ Request(r) \/
               Publish(r) \/ Finish(r) \/ ClientGone(r)
      PROVE  Channels'
  BY <1>t, <1>1
  DEF Begin, Continue, RangeEnds, Block, Call, Sleep, Unblock, Return, End, WaitForServerStop, Request, Publish, Finish, ClientGone
<1>2. ASSUME NEW r \in Requests, Repeat(r) PROVE Channels'
  BY <1>t, <1>2 DEF Repeat, Call
<1>3. ASSUME NEW r \in Requests, Subscribe(r) PROVE Channels'
  BY <1>t, <1>3 DEF Subscribe, Call, End
<1>4. ASSUME NEW r \in Requests, RepeatSend(r) PROVE Channels'
  BY <1>t, <1>4 DEF RepeatSend, Receive
<1>5. ASSUME NEW r \in Requests, RepeatStop(r) PROVE Channels'
  BY <1>t, <1>5 DEF RepeatStop
<1>6. ASSUME NEW r \in Requests, RepeatNext(r) PROVE Channels'
  BY <1>t, <1>6 DEF RepeatNext
<1>7. ASSUME NEW r \in Requests, Close(r) PROVE Channels'
  BY <1>t, <1>7 DEF Close
<1>8. ASSUME NEW r \in Requests, Unsubscribe(r) PROVE Channels'
  BY <1>t, <1>8 DEF Unsubscribe
<1>9. ASSUME NEW r \in Requests, Deliver(r) PROVE Channels'
  BY <1>t, <1>9 DEF Deliver, Receive
<1>10. CASE Cancel \/ Shutdown \/ PublishElsewhere
  BY <1>t, <1>10 DEF Cancel, Shutdown, PublishElsewhere
<1>11. CASE UNCHANGED vars
  BY <1>11 DEF vars
<1>. QED
  BY <1>1, <1>2, <1>3, <1>4, <1>5, <1>6, <1>7, <1>8, <1>9, <1>10, <1>11
  DEF Next, Template, Goroutine, Quiet

(* One more number was received.                                           *)
LEMMA ReceivedNext ==
  ASSUME NEW s \in Seq(Nat), NEW n \in Nat, Received(s, n)
  PROVE  Received(Append(s, n), n + 1)
BY DEF Received

(* What was received, as a sequence.                                       *)
LEMMA ReceivedAll ==
  ASSUME NEW s \in Seq(Nat), NEW n, Received(s, n)
  PROVE  s = [k \in 1..n |-> k - 1]
<1>1. s = [k \in 1..Len(s) |-> s[k]]
  OBVIOUS
<1>2. Len(s) = n /\ \A k \in 1..n : s[k] = k - 1
  BY DEF Received
<1>3. [k \in 1..n |-> s[k]] = [k \in 1..n |-> k - 1]
  BY <1>2
<1>. QED
  BY <1>1, <1>2, <1>3

(* Every send of Repeat adds its i to what the template received, and the  *)
(* limit is compared after the send.                                       *)
LEMMA CountingStep ==
  ASSUME TypeOK, Channels, Counting, [Next]_vars
  PROVE  Counting'
<1>. USE StreamsAssumption DEF Counting, Goto, GoTo, chanVars, natsVars
<1>t. /\ go \in [Requests -> {"none", "select", "sent", "block", "close", "end"}]
      /\ source \in [Requests -> {"none", "repeat", "sub"}]
      /\ got \in [Requests -> Seq(Nat)]
      /\ max \in [Requests -> Maxes \cup {Forever}]
      /\ i \in [Requests -> Nat]
      /\ gone \in [Requests -> BOOLEAN]
  BY DEF TypeOK
<1>1. ASSUME NEW r \in Requests,
             Begin(r) \/ Continue(r) \/ RangeEnds(r) \/ Block(r) \/
               Sleep(r) \/ WaitForServerStop(r) \/ Request(r) \/
               Publish(r) \/ Finish(r) \/ ClientGone(r)
      PROVE  Counting'
  <2>1. UNCHANGED <<got, source, go, i, max, cancelled>>
    BY <1>1
    DEF Begin, Continue, RangeEnds, Block, Sleep, WaitForServerStop, Request, Publish, Finish,
        ClientGone, Return, Unblock
  <2>2. \A q \in Requests : gone[q] => gone'[q]
    BY <1>t, <1>1
    DEF Begin, Continue, RangeEnds, Block, Sleep, WaitForServerStop, Request, Publish, Finish,
        ClientGone, Return, Unblock, End
  <2>. QED
    BY <2>1, <2>2
<1>2. ASSUME NEW r \in Requests, Repeat(r) PROVE Counting'
  <2>1. source[r] = "none" /\ i[r] = 0 /\ got[r] = <<>>
    BY <1>2 DEF Repeat, Channels
  <2>2. Received(<<>>, 0)
    BY DEF Received
  <2>. QED
    BY <1>t, <2>1, <2>2, <1>2 DEF Repeat, Call
<1>3. ASSUME NEW r \in Requests, Subscribe(r) PROVE Counting'
  <2>1. source[r] = "none" /\ source'[r] # "repeat"
    BY <1>t, <1>3 DEF Subscribe
  <2>2. \A q \in Requests : gone[q] => gone'[q]
    BY <1>t, <1>3, Zenon DEF Subscribe, End
  <2>3. UNCHANGED <<got, i, max, cancelled>>
    BY <1>3 DEF Subscribe
  <2>4. \A q \in Requests \ {r} : source'[q] = source[q] /\ go'[q] = go[q]
    BY <1>t, <1>3 DEF Subscribe
  <2>. QED
    BY <2>1, <2>2, <2>3, <2>4
<1>4. ASSUME NEW r \in Requests, RepeatSend(r) PROVE Counting'
  <2>1. max[r] # Forever /\ source[r] = "repeat" =>
          Received(got[r], i[r]) /\ got' = [got EXCEPT ![r] = Append(@, i[r])]
    BY <1>t, <1>4 DEF RepeatSend, Receive
  <2>2. max[r] # Forever /\ source[r] = "repeat" => Received(got'[r], i[r] + 1)
    <3>1. got[r] \in Seq(Nat) /\ i[r] \in Nat
      BY <1>t
    <3>2. Received(got[r], i[r]) => Received(Append(got[r], i[r]), i[r] + 1)
      BY <3>1, ReceivedNext
    <3>. QED
      BY <1>t, <2>1, <3>2, Zenon
  <2>3. \A q \in Requests \ {r} : got'[q] = got[q] /\ go'[q] = go[q]
    BY <1>t, <1>4 DEF RepeatSend, Receive
  <2>4. go'[r] = "sent" /\ UNCHANGED <<source, i, max, gone, cancelled>>
    BY <1>t, <1>4 DEF RepeatSend
  <2>. QED
    BY <2>2, <2>3, <2>4
<1>5. ASSUME NEW r \in Requests, RepeatStop(r) PROVE Counting'
  BY <1>t, <1>5 DEF RepeatStop
<1>6. ASSUME NEW r \in Requests, RepeatNext(r) PROVE Counting'
  <2>1. go[r] = "sent" /\ UNCHANGED <<got, source, max, gone, cancelled>>
    BY <1>6 DEF RepeatNext
  <2>2. \A q \in Requests \ {r} : go'[q] = go[q] /\ i'[q] = i[q]
    BY <1>t, <1>6 DEF RepeatNext
  <2>3. \/ max[r] # Forever /\ i[r] = Last(max[r]) /\ go'[r] = "close"
        \/ max[r] # Forever /\ go'[r] = "select" /\ i'[r] = i[r] + 1
        \/ max[r] = Forever /\ go'[r] = "select"
    <3>1. max[r] # Forever => max[r] \in Int /\ i[r] \in Nat /\ i[r] <= Last(max[r])
      BY Zenon DEF TypeOK
    <3>2. max[r] # Forever /\ i[r] >= max[r] => i[r] = Last(max[r])
      BY <3>1 DEF Last
    <3>. QED
      BY <1>t, <3>2, <1>6 DEF RepeatNext
  <2>. QED
    BY <2>1, <2>2, <2>3
<1>7. ASSUME NEW r \in Requests, Close(r) PROVE Counting'
  BY <1>t, <1>7 DEF Close
<1>8. ASSUME NEW r \in Requests, Unsubscribe(r) PROVE Counting'
  BY <1>t, <1>8 DEF Unsubscribe
<1>9. ASSUME NEW r \in Requests, Deliver(r) PROVE Counting'
  <2>1. source[r] # "repeat" /\ UNCHANGED <<source, go, i, max, gone, cancelled>>
    BY <1>9 DEF Deliver, Channels
  <2>2. \A q \in Requests \ {r} : got'[q] = got[q]
    BY <1>t, <1>9 DEF Deliver, Receive
  <2>. QED
    BY <2>1, <2>2
<1>10. CASE Cancel \/ Shutdown \/ PublishElsewhere
  BY <1>t, <1>10 DEF Cancel, Shutdown, PublishElsewhere
<1>11. CASE UNCHANGED vars
  BY <1>11 DEF vars
<1>. QED
  BY <1>1, <1>2, <1>3, <1>4, <1>5, <1>6, <1>7, <1>8, <1>9, <1>10, <1>11
  DEF Next, Template, Goroutine, Quiet

-----------------------------------------------------------------------------
(* Theorems                                                                *)

(* The initial states satisfy it.                                          *)
LEMMA InitIInv == Init => IInv
<1>. SUFFICES ASSUME Init PROVE IInv
  OBVIOUS
<1>1. TypeOK
  <2>1. 0 \in 0..MaxOps /\ 0 \in 0..MaxMsgs /\ 1 \in 1..MaxMsgs + 1
    BY StreamsAssumption
  <2>2. <<>> \in Seq(Nat)
    OBVIOUS
  <2>. QED
    BY <2>1, <2>2, Zenon DEF Init, TypeOK
<1>2. Channels /\ Counting
  BY DEF Init, Channels, Counting
<1>. QED
  BY <1>1, <1>2 DEF IInv

(* Every step, of any request or of the environment, preserves it.         *)
LEMMA NextIInv == IInv /\ [Next]_vars => IInv'
BY TypeStep, ChannelsStep, CountingStep DEF IInv

(* The three conjuncts together are inductive, without the fairness.       *)
THEOREM Invariance == Spec => []IInv
BY InitIInv, NextIInv, PTL DEF Spec

(* The variables have their types, and Repeat's i never passes its limit.  *)
THEOREM TypeCorrect == Spec => []TypeOK
<1>1. IInv => TypeOK
  BY DEF IInv
<1>. QED
  BY <1>1, Invariance, PTL

(* A range over .Flush.Repeat that ends with both contexts live has        *)
(* received every number up to the limit once and in order, for every      *)
(* limit, negative ones included.                                          *)
THEOREM RepeatCompleteAlways == Spec => []RepeatComplete
<1>1. IInv => RepeatComplete
  <2>. SUFFICES ASSUME IInv, NEW r \in Requests,
                       source[r] = "repeat", closed[r], ~gone[r], ~cancelled
                PROVE  max[r] # Forever /\ got[r] = [k \in 1..Last(max[r]) + 1 |-> k - 1]
    BY DEF RepeatComplete
  <2>1. max[r] # Forever /\ Received(got[r], Last(max[r]) + 1)
    BY DEF IInv, Channels, Counting
  <2>2. got[r] \in Seq(Nat)
    BY DEF IInv, TypeOK
  <2>. QED
    BY <2>1, <2>2, ReceivedAll, Zenon
<1>. QED
  BY <1>1, Invariance, PTL

(* The NATS library never delivers to a closed channel.                    *)
THEOREM DeliverySafeAlways == Spec => []DeliverySafe
<1>1. IInv => DeliverySafe
  BY DEF IInv, Channels, DeliverySafe
<1>. QED
  BY <1>1, Invariance, PTL
-----------------------------------------------------------------------------
(* The order of what is received                                           *)

Increasing(s) == \A j, k \in 1..Len(s) : j < k => s[j] < s[k]
Below(s, n) == \A k \in 1..Len(s) : s[k] < n

(* A subscription's messages are numbered in the order of publication, and *)
(* it has received only such as the library had before the next one.       *)
Ordered ==
  \A r \in Requests :
    Increasing(got[r]) /\ (source[r] = "sub" => Below(got[r], next[r]))

(* Something above all that was received is added at the end.              *)
LEMMA IncreasingAppend ==
  ASSUME NEW s \in Seq(Nat), NEW n \in Nat, Increasing(s), Below(s, n)
  PROVE  Increasing(Append(s, n)) /\ Below(Append(s, n), n + 1)
<1>. DEFINE t == Append(s, n)
<1>n. Len(t) = Len(s) + 1 /\ Len(s) \in Nat
  OBVIOUS
<1>1. /\ \A k \in 1..Len(s) : t[k] = s[k] /\ t[k] \in Nat
      /\ t[Len(s) + 1] = n
  OBVIOUS
<1>. HIDE DEF t
<1>2. ASSUME NEW j \in 1..Len(t), NEW k \in 1..Len(t), j < k PROVE t[j] < t[k]
  <2>1. j \in 1..Len(s) /\ (k \in 1..Len(s) \/ k = Len(s) + 1)
    BY <1>n, <1>2
  <2>. QED
    BY <1>1, <1>2, <2>1 DEF Increasing, Below
<1>3. ASSUME NEW k \in 1..Len(t) PROVE t[k] < n + 1
  <2>1. k \in 1..Len(s) \/ k = Len(s) + 1
    BY <1>n
  <2>. QED
    BY <1>1, <2>1 DEF Below
<1>4. Increasing(t) /\ Below(t, n + 1)
  BY <1>2, <1>3 DEF Increasing, Below
<1>. QED
  BY <1>4 DEF t

(* The numbers 0, 1, ..., n - 1 are below n.                               *)
LEMMA ReceivedBelow ==
  ASSUME NEW s \in Seq(Nat), NEW n \in Nat, Received(s, n)
  PROVE  Below(s, n)
BY DEF Received, Below

(* Repeat sends a number above those before; the library has a message     *)
(* that is newer than those it delivered, and passes over those it drops.  *)
LEMMA OrderedStep ==
  ASSUME IInv, Ordered, [Next]_vars
  PROVE  Ordered'
<1>. USE DEF Goto, GoTo, chanVars, natsVars
<1>t. /\ source \in [Requests -> {"none", "repeat", "sub"}]
      /\ got \in [Requests -> Seq(Nat)]
      /\ i \in [Requests -> Nat]
      /\ next \in [Requests -> Nat]
  BY StreamsAssumption DEF IInv, TypeOK
<1>1. CASE UNCHANGED <<got, source, next>>
  BY <1>1 DEF Ordered
<1>2. ASSUME NEW r \in Requests,
             Begin(r) \/ Continue(r) \/ RangeEnds(r) \/ Block(r) \/
               Sleep(r) \/ WaitForServerStop(r) \/ Request(r) \/
               Publish(r) \/ Finish(r) \/ ClientGone(r)
      PROVE  Ordered'
  BY <1>1, <1>2
  DEF Begin, Continue, RangeEnds, Block, Sleep, WaitForServerStop, Request, Publish, Finish,
      ClientGone, Return, Unblock
<1>3. ASSUME NEW r \in Requests, RepeatStop(r) \/ RepeatNext(r) \/ Close(r) \/ Unsubscribe(r)
      PROVE  Ordered'
  BY <1>1, <1>3 DEF RepeatStop, RepeatNext, Close, Unsubscribe
<1>4. ASSUME NEW r \in Requests, Repeat(r) PROVE Ordered'
  BY <1>t, <1>4 DEF Repeat, Ordered
<1>5. ASSUME NEW r \in Requests, Subscribe(r) PROVE Ordered'
  <2>1. source[r] = "none" /\ got[r] = <<>> /\ got' = got
    BY <1>5 DEF Subscribe, IInv, Channels
  <2>2. \A n : Below(got'[r], n)
    BY <2>1 DEF Below
  <2>3. \A q \in Requests \ {r} : source'[q] = source[q] /\ next'[q] = next[q]
    BY <1>t, <1>5 DEF Subscribe
  <2>. QED
    BY <2>1, <2>2, <2>3 DEF Ordered
<1>6. ASSUME NEW r \in Requests, RepeatSend(r) PROVE Ordered'
  <2>1. source[r] = "repeat" /\ UNCHANGED <<source, next>>
    BY <1>t, <1>6, Zenon DEF RepeatSend, IInv, Channels
  <2>2. \A q \in Requests \ {r} : got'[q] = got[q]
    BY <1>t, <1>6 DEF RepeatSend, Receive
  <2>3. got'[r] = got[r] \/ (max[r] # Forever /\ got'[r] = Append(got[r], i[r]))
    BY <1>t, <1>6, <2>1 DEF RepeatSend, Receive
  <2>4. max[r] # Forever => Received(got[r], i[r])
    BY <1>6, <2>1 DEF RepeatSend, IInv, Counting
  <2>5. got[r] \in Seq(Nat) /\ i[r] \in Nat /\ Increasing(got[r])
    BY <1>t DEF Ordered
  <2>6. Increasing(got'[r])
    BY <2>3, <2>4, <2>5, ReceivedBelow, IncreasingAppend, Zenon
  <2>. QED
    BY <2>1, <2>2, <2>6 DEF Ordered
<1>7. ASSUME NEW r \in Requests, Deliver(r) PROVE Ordered'
  <2>1. source[r] = "sub" /\ source' = source
    BY <1>t, <1>7, Zenon DEF Deliver, IInv, Channels
  <2>2. \A q \in Requests \ {r} : got'[q] = got[q] /\ next'[q] = next[q]
    BY <1>t, <1>7 DEF Deliver, Receive
  <2>3. next'[r] = next[r] + 1 /\ next[r] \in Nat
    BY <1>t, <1>7 DEF Deliver
  <2>4. got'[r] = got[r] \/ got'[r] = Append(got[r], next[r])
    BY <1>t, <1>7, <2>1 DEF Deliver, Receive
  <2>5. got[r] \in Seq(Nat) /\ Increasing(got[r]) /\ Below(got[r], next[r])
    BY <1>t, <2>1 DEF Ordered
  <2>6. Below(got[r], next[r] + 1)
    <3>1. \A k \in 1..Len(got[r]) : got[r][k] \in Nat /\ got[r][k] < next[r]
      BY <2>5 DEF Below
    <3>. QED
      BY <2>3, <3>1 DEF Below
  <2>7. Increasing(got'[r]) /\ Below(got'[r], next[r] + 1)
    BY <2>3, <2>4, <2>5, <2>6, IncreasingAppend, Zenon
  <2>. QED
    BY <2>1, <2>2, <2>3, <2>7 DEF Ordered
<1>8. CASE Cancel \/ Shutdown \/ PublishElsewhere
  BY <1>1, <1>8 DEF Cancel, Shutdown, PublishElsewhere
<1>9. CASE UNCHANGED vars
  BY <1>1, <1>9 DEF vars
<1>. QED
  BY <1>2, <1>3, <1>4, <1>5, <1>6, <1>7, <1>8, <1>9
  DEF Next, Template, Goroutine, Quiet

(* Whatever a template receives, from Repeat or from a subscription, comes *)
(* in order and once, also when messages are dropped or a context ends.    *)
THEOREM ReceivedInOrderAlways == Spec => []ReceivedInOrder
<1>1. Init => Ordered
  <2>1. Increasing(<<>>)
    BY DEF Increasing
  <2>. QED
    BY <2>1, Zenon DEF Init, Ordered
<1>2. IInv /\ Ordered => ReceivedInOrder
  <2>. SUFFICES ASSUME IInv, Ordered, NEW r \in Requests
                PROVE  \A j, k \in DOMAIN got[r] : j < k => got[r][j] < got[r][k]
    BY DEF ReceivedInOrder
  <2>1. DOMAIN got[r] = 1..Len(got[r])
    BY DEF IInv, TypeOK
  <2>. QED
    BY <2>1 DEF Ordered, Increasing
<1>. QED
  BY <1>1, <1>2, OrderedStep, Invariance, PTL DEF Spec

-----------------------------------------------------------------------------
(* Who is waited for                                                       *)

(* A template is in a range, or in the body of one, only over a channel    *)
(* that it has; a goroutine ends by closing it; and a request that is over *)
(* has its context done.                                                   *)
Attended ==
  \A r \in Requests :
    /\ pc[r] = "range" \/ ranging[r] => source[r] # "none"
    /\ go[r] = "end" => closed[r]
    /\ pc[r] = "done" => gone[r]

(* Every step keeps it.                                                    *)
LEMMA AttendedStep ==
  ASSUME IInv, Attended, [Next]_vars
  PROVE  Attended'
<1>. USE DEF Attended, Goto, GoTo, chanVars, natsVars
<1>t. /\ pc \in [Requests -> {"idle", "run", "range", "sleep", "wait", "request", "done"}]
      /\ ranging \in [Requests -> BOOLEAN]
      /\ go \in [Requests -> {"none", "select", "sent", "block", "close", "end"}]
      /\ source \in [Requests -> {"none", "repeat", "sub"}]
      /\ closed \in [Requests -> BOOLEAN] /\ gone \in [Requests -> BOOLEAN]
  BY DEF IInv, TypeOK
<1>1. ASSUME NEW r \in Requests, Begin(r) \/ Continue(r) \/ RangeEnds(r) \/ Block(r) \/ Publish(r)
      PROVE  Attended'
  BY <1>t, <1>1 DEF Begin, Continue, RangeEnds, Block, Call, Publish, End
<1>2. ASSUME NEW r \in Requests,
             Sleep(r) \/ WaitForServerStop(r) \/ Request(r) \/ Finish(r) \/ ClientGone(r)
      PROVE  Attended'
  BY <1>t, <1>2 DEF Sleep, WaitForServerStop, Request, Finish, ClientGone, Unblock, Return, End
<1>3. ASSUME NEW r \in Requests, Repeat(r) PROVE Attended'
  BY <1>t, <1>3 DEF Repeat, Call
<1>4. ASSUME NEW r \in Requests, Subscribe(r) PROVE Attended'
  BY <1>t, <1>4 DEF Subscribe, Call, End
<1>5. ASSUME NEW r \in Requests, RepeatStop(r) \/ RepeatNext(r) \/ Close(r) \/ Unsubscribe(r)
      PROVE  Attended'
  BY <1>t, <1>5 DEF RepeatStop, RepeatNext, Close, Unsubscribe
<1>6. ASSUME NEW r \in Requests, RepeatSend(r) \/ Deliver(r) PROVE Attended'
  BY <1>t, <1>6 DEF RepeatSend, Deliver, Receive
<1>7. CASE Cancel \/ Shutdown \/ PublishElsewhere
  BY <1>7 DEF Cancel, Shutdown, PublishElsewhere
<1>8. CASE UNCHANGED vars
  BY <1>8 DEF vars
<1>. QED
  BY <1>1, <1>2, <1>3, <1>4, <1>5, <1>6, <1>7, <1>8
  DEF Next, Template, Goroutine, Quiet

(* No template waits for a channel that nobody serves, and no goroutine    *)
(* outlives a request whose context is not done.                           *)
THEOREM NobodyForgottenAlways == Spec => []NobodyForgotten
<1>1. Init => Attended
  BY Zenon DEF Init, Attended
<1>2. IInv /\ Attended => NobodyForgotten
  BY Zenon DEF IInv, TypeOK, Channels, Attended, NobodyForgotten
<1>. QED
  BY <1>1, <1>2, AttendedStep, Invariance, PTL DEF Spec
=============================================================================
