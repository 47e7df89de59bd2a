------------------------------ MODULE HotSwap -------------------------------
(***************************************************************************)
(* What the Server promises, without mutex, goroutines or pointer loads:   *)
(* at any time one instance is current and at most one other, which it has *)
(* just replaced, has not ended yet.  An instance that ended never comes   *)
(* back, and only those two admit requests.                                *)
(***************************************************************************)
EXTENDS Naturals

CONSTANTS Requests, MaxInstances

VARIABLES
  current,   \* the instance new requests go to, 0 when there is none
  leaving,   \* the instance it replaced, until that one has ended
  ended,     \* instances that ended, or were discarded before being current
  admitted   \* the instance that admitted each request, or 0

hsVars == <<current, leaving, ended, admitted>>

HSInit ==
  /\ current = 1
  /\ leaving = 0
  /\ ended = {}
  /\ admitted = [r \in Requests |-> 0]

Swap(i) ==
  /\ leaving = 0
  /\ i \notin ended \cup {current}
  /\ current' = i
  /\ leaving' = current
  /\ UNCHANGED <<ended, admitted>>

EndLeaving ==
  /\ leaving # 0
  /\ ended' = ended \cup {leaving}
  /\ leaving' = 0
  /\ UNCHANGED <<current, admitted>>

Discard(i) ==
  /\ i \notin {current, leaving}
  /\ ended' = ended \cup {i}
  /\ UNCHANGED <<current, leaving, admitted>>

Shut ==
  /\ current # 0
  /\ leaving = 0
  /\ current' = 0
  /\ ended' = ended \cup {current}
  /\ UNCHANGED <<leaving, admitted>>

(* The parent context ends every instance there is and will be.            *)
Halt ==
  /\ current' = 0
  /\ leaving' = 0
  /\ ended' = 1..MaxInstances
  /\ UNCHANGED admitted

AdmitBy(r, i) ==
  /\ admitted[r] = 0
  /\ i \in {current, leaving} \ {0}
  /\ admitted' = [admitted EXCEPT ![r] = i]
  /\ UNCHANGED <<current, leaving, ended>>

HSNext ==
  \/ \E i \in 1..MaxInstances : Swap(i) \/ Discard(i)
  \/ EndLeaving \/ Shut \/ Halt
  \/ \E r \in Requests, i \in 1..MaxInstances : AdmitBy(r, i)

HSSpec == HSInit /\ [][HSNext]_hsVars
=============================================================================
