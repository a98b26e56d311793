------------------------------ MODULE Datagram ------------------------------
(***************************************************************************)
(* The datagram transport of lib/lcc/src/datagram.c, on a bus of nodes     *)
(* that all run it.  Every node reassembles incoming multi-frame datagrams *)
(* in one slot (rx) and keeps its outgoing ones in a short queue whose     *)
(* head is in flight (tx).                                                 *)
(*                                                                         *)
(* wire[n] holds what node n has handed to lcc_send_frame and the others   *)
(* have not handled yet: CAN keeps the frames of one node in order and     *)
(* interleaves those of different nodes, and the receiving task's queue    *)
(* may drop any of them (lcc_task.c:186-200).                              *)
(*                                                                         *)
(* Data is abstracted to what the properties tell apart: the content of a  *)
(* frame is <<num, part>>, the part-th frame of the num-th datagram of its *)
(* sender, and lengths are counted in frames.  A deadline is abstracted to *)
(* "may fire while armed", limited by Punctual below.                      *)
(***************************************************************************)
EXTENDS Naturals, Sequences, FiniteSets

CONSTANTS
  Nodes,            \* the nodes on the bus
  Routes,           \* the <<sender, receiver>> pairs that exchange datagrams
  NoAlias,          \* "no sender": the slot is free, nobody is refused
  Lengths,          \* possible lengths of a datagram, in frames
  DatagramMax,      \* LCC_DATAGRAM_MAX, in frames
  TxQueueLen,       \* TX_QUEUE_LEN
  TxMaxTries,       \* TX_MAX_TRIES
  Punctual,         \* TRUE: what is still on a wire arrives before the timeout
  MaxDatagrams,     \* bound: datagrams queued on the whole bus
  MaxLost,          \* bound: frames lost
  Movers            \* bound: the nodes that lose their alias, once each

ASSUME ConstantsAssumption ==
  /\ Routes \subseteq {r \in Nodes \X Nodes : r[1] # r[2]}
  /\ Lengths \subseteq 1..DatagramMax
  /\ DatagramMax \in Nat
  /\ TxQueueLen \in Nat \ {0}
  /\ TxMaxTries \in Nat \ {0}
  /\ Punctual \in BOOLEAN
  /\ MaxDatagrams \in Nat
  /\ MaxLost \in Nat
  /\ Movers \subseteq Nodes
  /\ NoAlias \notin Nodes \X Nat

VARIABLES
  alias,      \* alias[n]: how often n has changed its alias
  tx,         \* tx[n]: outgoing datagrams of n
  rx,         \* rx[n]: the reassembly slot of n
  wire,       \* wire[n]: frames sent by n, not yet handled
  log,        \* history: log[n], n's datagrams given to a handler, in order
  verdict,    \* history: verdict[n], how each datagram of n left the queue
  lossy,      \* history: nodes a frame of or to which was lost, all once an alias is
  losses      \* number of frames lost so far

vars == <<alias, tx, rx, wire, log, verdict, lossy, losses>>

-----------------------------------------------------------------------------
(* Frames *)

Alias(n) == <<n, alias[n]>>
Aliases == Nodes \X Nat

\* The answers a datagram can get.  "busy" and "refused" are the codes of a
\* handler's accept(), "refused" standing for a missing handler as well.
Verdicts == {"ok", "busy", "refused"}
Transport == {"unavailable", "out_of_order", "invalid_args"}
Temporary == {"busy", "unavailable", "out_of_order"}

Entry == [dst : Aliases, num : Nat, len : Lengths]

\* send_ok and send_rejected: the answer of the node with alias `from` to frame f
Answer(from, f, code) ==
  <<[kind |-> "answer", src |-> from, dst |-> f.src,
     num |-> f.num, part |-> 0, code |-> code]>>

\* The frames transmit_head sends for entry e
FramesOf(from, e) ==
  [i \in 1..e.len |->
    [kind |-> CASE e.len = 1 -> "one"
                [] i = 1 /\ e.len # 1 -> "first"
                [] i = e.len /\ e.len # 1 -> "final"
                [] OTHER -> "middle",
     src |-> from, dst |-> e.dst, num |-> e.num, part |-> i, code |-> "none"]]

\* Node d handles the head of wire[n] and sends `out`
Handle(n, d, out) == wire' = [wire EXCEPT ![n] = Tail(@), ![d] = @ \o out]

-----------------------------------------------------------------------------
(* Sending *)

\* A sender's state: its queue, the two flags and the tries of the head
Sender(queue, inFlight, resendWait, tries) ==
  [queue |-> queue, inFlight |-> inFlight, resendWait |-> resendWait, tries |-> tries]

Idle == Sender(<<>>, FALSE, FALSE, 0)

\* transmit_head, on the sender's state; FramesOf(Head(queue)) goes on the wire
TransmitHead(t) == Sender(t.queue, TRUE, FALSE, t.tries + 1)

\* The head waits to be sent again
Postpone(t) == Sender(t.queue, FALSE, TRUE, t.tries)

\* e is added to the queue
Enqueue(t, e) == Sender(Append(t.queue, e), t.inFlight, t.resendWait, t.tries)

\* A bug to catch: the next datagram is left where it is
PopHeadOnly(t) == Sender(Tail(t.queue), FALSE, FALSE, 0)

\* pop_head: the next datagram, if there is one, goes out at once
PopHead(t) ==
  IF Len(t.queue) <= 1 THEN Idle
                       ELSE TransmitHead(Sender(Tail(t.queue), FALSE, FALSE, 0))

\* What the node sends when pop_head changes t
PopSends(n, t) ==
  IF Len(t.queue) <= 1 THEN <<>> ELSE FramesOf(Alias(n), t.queue[2])

\* A bug to catch: one entry too many
RoomForOneMore(t) == Len(t.queue) <= TxQueueLen

\* lcc_datagram_send takes another datagram
Room(t) == Len(t.queue) < TxQueueLen

\* A bug to catch: one try too many
RetryOnceMore(t, code) == code \in Temporary /\ t.tries <= TxMaxTries

\* A rejection is worth another try
Retry(t, code) == code \in Temporary /\ t.tries < TxMaxTries

\* lcc_datagram_send; called with a full queue it returns false and changes nothing
LccDatagramSend(n, d, len) ==
  LET num == Len(verdict[n]) + 1
      e == [dst |-> Alias(d), num |-> num, len |-> len]
      t == Enqueue(tx[n], e)
  IN
  /\ Cardinality(UNION {{m} \X DOMAIN verdict[m] : m \in Nodes}) < MaxDatagrams
  /\ Room(tx[n])
  /\ verdict' = [verdict EXCEPT ![n] = Append(@, "queued")]
  /\ \/ /\ Len(t.queue) = 1
        /\ tx' = [tx EXCEPT ![n] = TransmitHead(t)]
        /\ wire' = [wire EXCEPT ![n] = @ \o FramesOf(Alias(n), e)]
     \/ /\ Len(t.queue) # 1
        /\ tx' = [tx EXCEPT ![n] = t]
        /\ UNCHANGED wire
  /\ UNCHANGED <<alias, rx, log, lossy, losses>>

\* The head leaves the queue of n
Pop(n, result) ==
  /\ tx' = [tx EXCEPT ![n] = PopHead(@)]
  /\ verdict' = [verdict EXCEPT ![n][Head(tx[n].queue).num] = result]

\* lcc_datagram_message: node d gets the answer f to a datagram it sent
LccDatagramMessage(n, d, f) ==
  LET t == tx[d]
      ours == t.queue # <<>> /\ t.inFlight /\ Head(t.queue).dst = f.src
  IN
  /\ f.kind = "answer"
  /\ \/ /\ ~ours
        /\ Handle(n, d, <<>>)
        /\ UNCHANGED <<tx, verdict>>
     \/ /\ ours /\ f.code = "ok"
        /\ Pop(d, "acked")
        /\ Handle(n, d, PopSends(d, t))
     \/ /\ ours /\ f.code # "ok" /\ Retry(t, f.code)
        /\ tx' = [tx EXCEPT ![d] = Postpone(t)]
        /\ Handle(n, d, <<>>)
        /\ UNCHANGED verdict
     \/ /\ ours /\ f.code # "ok" /\ ~Retry(t, f.code)
        /\ Pop(d, "failed")
        /\ Handle(n, d, PopSends(d, t))
  /\ UNCHANGED <<alias, rx, log, lossy, losses>>

-----------------------------------------------------------------------------
(* Receiving *)

Free == [src |-> NoAlias, buf |-> <<>>, refused |-> NoAlias]

\* A bug to catch: any sender continues the datagram in the slot
AnyoneContinues(r, f) == r.src # NoAlias

\* Frame f comes from the sender that has the slot
Ours(r, f) == r.src = f.src

\* A bug to catch: off by one
FitsShort(buf) == Len(buf) < DatagramMax

\* The reassembled datagram fits in the buffer
Fits(buf) == Len(buf) <= DatagramMax

\* A bug to catch: the sender turned away at its first frame is never told
RefuseSilently(d, f) ==
  IF rx[d].refused = f.src THEN <<>> ELSE Answer(Alias(d), f, "out_of_order")

\* The answer to the final frame of a sender that does not have the slot
Refuse(d, f) ==
  Answer(Alias(d), f, IF rx[d].refused = f.src THEN "unavailable" ELSE "out_of_order")

\* deliver: a handler takes the datagram in buf, or refuses it
Deliver(n, d, f, buf) ==
  \E code \in Verdicts :
    /\ log' = IF code = "ok" THEN [log EXCEPT ![f.src[1]] = Append(@, buf)] ELSE log
    /\ Handle(n, d, Answer(Alias(d), f, code))

\* lcc_datagram_frame: node d gets frame f of a datagram
LccDatagramFrame(n, d, f) ==
  LET r == rx[d]
      ours == Ours(r, f)
      active == r.src # NoAlias
      buf == Append(r.buf, <<f.num, f.part>>)
  IN
  /\ f.kind # "answer"
  /\ \/ /\ f.kind = "one"
        /\ Deliver(n, d, f, << <<f.num, f.part>> >>)
        /\ UNCHANGED rx
     \/ /\ f.kind = "first" /\ active /\ ~ours
        /\ rx' = [rx EXCEPT ![d].refused = f.src]
        /\ Handle(n, d, <<>>)
        /\ UNCHANGED log
     \/ /\ f.kind = "first" /\ (~active \/ ours)
        /\ rx' = [rx EXCEPT ![d].src = f.src, ![d].buf = << <<f.num, f.part>> >>]
        /\ Handle(n, d, <<>>)
        /\ UNCHANGED log
     \/ /\ f.kind = "middle" /\ ~ours
        /\ Handle(n, d, <<>>)
        /\ UNCHANGED <<rx, log>>
     \/ /\ f.kind = "final" /\ ~ours
        /\ rx' = IF r.refused = f.src THEN [rx EXCEPT ![d].refused = NoAlias] ELSE rx
        /\ Handle(n, d, Refuse(d, f))
        /\ UNCHANGED log
     \/ /\ f.kind \in {"middle", "final"} /\ ours /\ ~Fits(buf)
        /\ rx' = [rx EXCEPT ![d].src = NoAlias, ![d].buf = <<>>]
        /\ Handle(n, d, Answer(Alias(d), f, "invalid_args"))
        /\ UNCHANGED log
     \/ /\ f.kind = "middle" /\ ours /\ Fits(buf)
        /\ rx' = [rx EXCEPT ![d].buf = buf]
        /\ Handle(n, d, <<>>)
        /\ UNCHANGED log
     \/ /\ f.kind = "final" /\ ours /\ Fits(buf)
        /\ rx' = [rx EXCEPT ![d].src = NoAlias, ![d].buf = <<>>]
        /\ Deliver(n, d, f, buf)
  /\ UNCHANGED <<alias, tx, verdict, lossy, losses>>

-----------------------------------------------------------------------------
(* The bus *)

\* The head of wire[n] reaches the node that has the alias it is addressed to,
\* or nobody
Receive(n) ==
  /\ wire[n] # <<>>
  /\ LET f == Head(wire[n]) IN
     \/ \E d \in Nodes :
          /\ f.dst = Alias(d)
          /\ LccDatagramFrame(n, d, f) \/ LccDatagramMessage(n, d, f)
     \/ /\ \A d \in Nodes : f.dst # Alias(d)
        /\ wire' = [wire EXCEPT ![n] = Tail(@)]
        /\ UNCHANGED <<alias, tx, rx, log, verdict, lossy, losses>>

\* A frame is dropped because the receiver's task queue is full
Lose(n) ==
  /\ losses < MaxLost
  /\ wire[n] # <<>>
  /\ losses' = losses + 1
  /\ lossy' = lossy \cup {n, Head(wire[n]).dst[1]}
  /\ wire' = [wire EXCEPT ![n] = Tail(@)]
  /\ UNCHANGED <<alias, tx, rx, log, verdict>>

\* A collision costs node n its alias: alias_collision calls
\* lcc_datagram_alias_lost and n goes on with another alias
LccDatagramAliasLost(n) ==
  /\ n \in Movers
  /\ alias[n] = 0
  /\ alias' = [alias EXCEPT ![n] = @ + 1]
  /\ tx' = [tx EXCEPT ![n] = Idle]
  /\ rx' = [rx EXCEPT ![n] = Free]
  /\ verdict' = [verdict EXCEPT ![n] =
                  [i \in DOMAIN @ |-> IF @[i] = "queued" THEN "failed" ELSE @[i]]]
  /\ lossy' = Nodes
  /\ UNCHANGED <<wire, log, losses>>

-----------------------------------------------------------------------------
(* Timers *)

\* Nothing of the exchange of alias a is still on a wire
Quiet(a) ==
  \A n \in Nodes : \A i \in DOMAIN wire[n] : a \notin {wire[n][i].src, wire[n][i].dst}

\* lcc_datagram_run_timers, one disjunct per timer
ReassemblyTimeout(n) ==
  /\ rx[n].src # NoAlias
  /\ Punctual => Quiet(rx[n].src)
  /\ rx' = [rx EXCEPT ![n] = Free]
  /\ UNCHANGED <<alias, tx, wire, log, verdict, lossy, losses>>

ResendHead(n) ==
  /\ tx[n].resendWait
  /\ tx' = [tx EXCEPT ![n] = TransmitHead(@)]
  /\ wire' = [wire EXCEPT ![n] = @ \o FramesOf(Alias(n), Head(tx[n].queue))]
  /\ UNCHANGED <<alias, rx, log, verdict, lossy, losses>>

\* A bug to catch: a datagram nobody answered is sent again
ResendUnanswered(n) ==
  /\ tx[n].inFlight /\ Quiet(Alias(n)) /\ tx[n].tries < TxMaxTries
  /\ tx' = [tx EXCEPT ![n] = TransmitHead(@)]
  /\ wire' = [wire EXCEPT ![n] = @ \o FramesOf(Alias(n), Head(tx[n].queue))]
  /\ UNCHANGED <<alias, rx, log, verdict, lossy, losses>>

AckTimeout(n) ==
  /\ ~tx[n].resendWait
  /\ tx[n].inFlight
  /\ Punctual => Quiet(Alias(n))
  /\ Pop(n, "failed")
  /\ wire' = [wire EXCEPT ![n] = @ \o PopSends(n, tx[n])]
  /\ UNCHANGED <<alias, rx, log, lossy, losses>>

LccDatagramRunTimers(n) == ReassemblyTimeout(n) \/ ResendHead(n) \/ AckTimeout(n)

-----------------------------------------------------------------------------
(* The specification *)

Init ==
  /\ alias = [n \in Nodes |-> 0]
  /\ tx = [n \in Nodes |-> Idle]
  /\ rx = [n \in Nodes |-> Free]
  /\ wire = [n \in Nodes |-> <<>>]
  /\ log = [n \in Nodes |-> <<>>]
  /\ verdict = [n \in Nodes |-> <<>>]
  /\ lossy = {}
  /\ losses = 0

Next ==
  \/ \E r \in Routes, len \in Lengths : LccDatagramSend(r[1], r[2], len)
  \/ \E n \in Nodes :
       \/ Receive(n)
       \/ Lose(n)
       \/ LccDatagramAliasLost(n)
       \/ LccDatagramRunTimers(n)

\* The LCC task handles what is in its queue and runs every timer that is due
\* (lcc_task.c:154-180), so the frames that arrive are handled and each armed
\* timer fires.
Fairness ==
  \A n \in Nodes :
    /\ WF_vars(Receive(n))
    /\ WF_vars(ReassemblyTimeout(n))
    /\ WF_vars(ResendHead(n))
    /\ WF_vars(AckTimeout(n))

Spec == Init /\ [][Next]_vars

FairSpec == Spec /\ Fairness

-----------------------------------------------------------------------------
(* Properties *)

Frame ==
  [kind : {"one", "first", "middle", "final", "answer"}, src : Aliases, dst : Aliases,
   num : Nat, part : 0..DatagramMax, code : Verdicts \cup Transport \cup {"none"}]

TxType == [queue : Seq(Entry), inFlight : BOOLEAN, resendWait : BOOLEAN, tries : Nat]

RxType == [src : Aliases \cup {NoAlias}, buf : Seq(Nat \X Nat), refused : Aliases \cup {NoAlias}]

\* The variables have their types, the reassembly buffer never grows past
\* LCC_DATAGRAM_MAX and the queue never past TX_QUEUE_LEN.
TypeOK ==
  /\ alias \in [Nodes -> Nat]
  /\ tx \in [Nodes -> TxType]
  /\ rx \in [Nodes -> RxType]
  /\ wire \in [Nodes -> Seq(Frame)]
  /\ log \in [Nodes -> Seq(Seq(Nat \X Nat))]
  /\ verdict \in [Nodes -> Seq({"queued", "acked", "failed"})]
  /\ lossy \subseteq Nodes
  /\ losses \in Nat
  /\ \A n \in Nodes : Len(rx[n].buf) <= DatagramMax /\ Len(tx[n].queue) <= TxQueueLen

\* A queued datagram is always being driven: exactly one of the two timers of
\* the queue is armed while it holds anything, none is when it is empty, and no
\* datagram is tried more than TX_MAX_TRIES times.
Driven(t) ==
  IF t.queue = <<>>
  THEN ~t.inFlight /\ ~t.resendWait /\ t.tries = 0
  ELSE /\ t.inFlight # t.resendWait
       /\ t.tries \in 1..TxMaxTries
       /\ t.resendWait => t.tries < TxMaxTries

HeadDriven == \A n \in Nodes : Driven(tx[n])

\* What a handler gets from a node none of whose frames was lost is one whole
\* datagram, its frames in order and nobody else's between them, however the
\* frames of several senders interleave in the one slot.
Uncorrupted ==
  \A n \in Nodes \ lossy : \A k \in DOMAIN log[n] :
    LET buf == log[n][k] IN
    \A i \in DOMAIN buf : buf[i] = <<buf[1][1], i>>

\* While nothing is lost no sender is left to its acknowledgement timeout: as long
\* as a datagram is in flight, frames of it or its answer are still on a wire.
\* Every datagram is answered, whoever else is using the slot.
NoSilence ==
  \A n \in Nodes \ lossy : tx[n].inFlight => ~Quiet(Alias(n))

\* A sender that lost nothing is turned away by a busy slot with a temporary
\* error only, so that it tries again.
ContentionIsTemporary ==
  \A n \in Nodes : \A i \in DOMAIN wire[n] :
    LET f == wire[n][i] IN
    f.kind = "answer" /\ f.dst[1] \notin lossy => f.code \in Temporary \cup Verdicts

\* The transport keeps the promise of Courier: at most once, in order, and no
\* acknowledgement of a datagram that no handler took.
LastNum(buf) == buf[Len(buf)][1]

Courier == INSTANCE Courier WITH
  handled <- [n \in Nodes |-> [k \in DOMAIN log[n] |-> LastNum(log[n][k])]],
  result <- verdict

CourierSpec == Courier!Spec

\* Every datagram leaves the queue: it is acknowledged or given up, whatever the
\* receiver answers and whatever is lost.
QueueDrains == \A n \in Nodes : (tx[n].queue # <<>>) ~> (tx[n].queue = <<>>)

=============================================================================
