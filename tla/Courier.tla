------------------------------- MODULE Courier -------------------------------
(***************************************************************************)
(* What the datagram transport promises its callers: every datagram a node *)
(* queues is given to the receiver's handler at most once, those of one    *)
(* node in the order they were queued, and a datagram reported to its      *)
(* sender as acknowledged has been given to the handler.  A datagram may   *)
(* fail, and one that failed may have been handled all the same.           *)
(***************************************************************************)
EXTENDS Naturals, Sequences

CONSTANT Nodes

VARIABLES
  handled,   \* handled[n]: numbers of n's datagrams given to a handler, in order
  result     \* result[n][i]: "queued", "acked" or "failed"

Init ==
  /\ handled = [n \in Nodes |-> <<>>]
  /\ result = [n \in Nodes |-> <<>>]

\* Node n queues its next datagram
Submit(n) ==
  /\ result' = [result EXCEPT ![n] = Append(@, "queued")]
  /\ UNCHANGED handled

\* A handler takes datagram i of node n
Take(n, i) ==
  /\ i \in DOMAIN result[n]
  /\ \A k \in DOMAIN handled[n] : handled[n][k] < i
  /\ handled' = [handled EXCEPT ![n] = Append(@, i)]
  /\ UNCHANGED result

\* Datagram i of node n is acknowledged
Acknowledge(n, i) ==
  /\ i \in DOMAIN result[n] /\ result[n][i] = "queued"
  /\ \E k \in DOMAIN handled[n] : handled[n][k] = i
  /\ result' = [result EXCEPT ![n][i] = "acked"]
  /\ UNCHANGED handled

\* Some datagrams of node n fail
Fail(n) ==
  \E lost \in SUBSET {i \in DOMAIN result[n] : result[n][i] = "queued"} :
    /\ lost # {}
    /\ result' = [result EXCEPT ![n] =
                    [i \in DOMAIN @ |-> IF i \in lost THEN "failed" ELSE @[i]]]
    /\ UNCHANGED handled

Next ==
  \E n \in Nodes :
    \/ Submit(n)
    \/ \E i \in DOMAIN result[n] : Take(n, i) \/ Acknowledge(n, i)
    \/ Fail(n)

Spec == Init /\ [][Next]_<<handled, result>>

=============================================================================
