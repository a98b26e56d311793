--------------------------- MODULE TransportProofs ---------------------------
(***************************************************************************)
(* Proofs about Datagram for any number of nodes, any lengths, bounds and  *)
(* timing.  First the sending half of datagram.c on its own: it never      *)
(* stalls (TxInv).  Then the whole exchange (DeliveryInv): datagrams       *)
(* arrive whole, rejections are temporary and every datagram is answered.  *)
(* Then the order of the datagrams of one sender (OrderInv), from which    *)
(* the transport implements Courier.                                       *)
(*                                                                         *)
(* Last, proofs about MemoryConfig over it, for any number of tools, any   *)
(* spaces and requests, and for timeouts that come before what they wait   *)
(* for.  A tool's requests are single frames, which are never sent again;  *)
(* so the node takes them in order (BusInv), which is what the lock rests  *)
(* on (LockInv).  Every query is answered (QueryInv): until a reply to a   *)
(* tool is given up, all that is on its way to the tool or back is about   *)
(* the one reply in flight.                                                *)
(***************************************************************************)
EXTENDS MemoryConfig, SequenceTheorems, TLAPS

\* The typing of the variables the sending half reads
TxTypeOK ==
  /\ alias \in [Nodes -> Nat]
  /\ tx \in [Nodes -> TxType]
  /\ verdict \in [Nodes -> Seq({"queued", "acked", "failed"})]

\* The queue never holds more than TX_QUEUE_LEN datagrams
QueueBounded == \A n \in Nodes : Len(tx[n].queue) <= TxQueueLen

\* The inductive invariant
TxInv == TxTypeOK /\ HeadDriven /\ QueueBounded

-----------------------------------------------------------------------------
(* The operations on a sender's state *)

\* A sender's state that satisfies the invariant
Good(t) == t \in TxType /\ Driven(t) /\ Len(t.queue) <= TxQueueLen

\* A reset sender is idle.
LEMMA IdleGood == Good(Idle)
  BY ConstantsAssumption DEF Good, Idle, Sender, TxType, Driven

\* Sending the head again, when its resend is due, keeps the state good.
LEMMA ResendGood ==
  ASSUME NEW t, Good(t), t.resendWait
  PROVE  Good(TransmitHead(t))
<1>1. t.queue # <<>> /\ t.tries \in 1..TxMaxTries /\ t.tries < TxMaxTries
  BY DEF Good, Driven, TxType
<1>. QED
  BY <1>1, ConstantsAssumption DEF Good, Driven, TxType, TransmitHead, Sender

\* A sequence with a length is not the empty one.
LEMMA LongerThanNone ==
  ASSUME NEW S, NEW q \in Seq(S), Len(q) > 0
  PROVE  q # <<>>
  OBVIOUS

\* Taking the head off a queue that holds one leaves a good state.
LEMMA PopGood ==
  ASSUME NEW t, Good(t), t.queue # <<>>
  PROVE  Good(PopHead(t))
<1>1. CASE Len(t.queue) <= 1
  BY <1>1, IdleGood DEF PopHead
<1>2. CASE ~(Len(t.queue) <= 1)
  <2>1. t.queue \in Seq(Entry) /\ t.queue # <<>>
    BY DEF Good, TxType
  <2>2. /\ Tail(t.queue) \in Seq(Entry)
        /\ Len(Tail(t.queue)) = Len(t.queue) - 1
    BY <2>1, HeadTailProperties
  <2>3. Len(t.queue) \in Nat /\ Len(t.queue) > 1 /\ Len(t.queue) <= TxQueueLen
    BY <1>2, <2>1, LenProperties DEF Good
  <2>4. Len(Tail(t.queue)) > 0 /\ Len(Tail(t.queue)) <= TxQueueLen
    BY <2>2, <2>3, ConstantsAssumption
  <2>5. Tail(t.queue) # <<>>
    BY <2>2, <2>4, LongerThanNone
  <2>6. PopHead(t) = Sender(Tail(t.queue), TRUE, FALSE, 1)
    BY <1>2 DEF PopHead, TransmitHead, Sender
  <2>. QED
    BY <2>2, <2>4, <2>5, <2>6, ConstantsAssumption DEF Good, Driven, TxType, Sender
<1>. QED
  BY <1>1, <1>2

\* A new datagram goes out at once when it is the only one, and waits otherwise.
LEMMA SendGood ==
  ASSUME NEW t, Good(t), Room(t), NEW e \in Entry
  PROVE  /\ Len(Enqueue(t, e).queue) = 1 => Good(TransmitHead(Enqueue(t, e)))
         /\ Len(Enqueue(t, e).queue) # 1 => Good(Enqueue(t, e))
<1>. DEFINE q == Append(t.queue, e)
<1>1. q \in Seq(Entry) /\ q # <<>> /\ Len(q) = Len(t.queue) + 1 /\ Len(q) <= TxQueueLen
  BY ConstantsAssumption DEF Good, TxType, Room
<1>2. ASSUME Len(q) = 1
      PROVE  Good(TransmitHead(Enqueue(t, e)))
  <2>1. t.queue = <<>>
    BY <1>1, <1>2 DEF Good, TxType
  <2>2. t.tries = 0
    BY <2>1 DEF Good, Driven
  <2>. QED
    BY <1>1, <2>2, ConstantsAssumption DEF Good, Driven, TxType, TransmitHead, Enqueue, Sender
<1>3. ASSUME Len(q) # 1
      PROVE  Good(Enqueue(t, e))
  <2>1. t.queue # <<>>
    BY <1>1, <1>3 DEF Good, TxType
  <2>. QED
    BY <1>1, <2>1 DEF Good, Driven, TxType, Enqueue, Sender
<1>. QED
  BY <1>2, <1>3 DEF Enqueue, Sender

\* A temporary rejection before the last try arms the resend.
LEMMA PostponeGood ==
  ASSUME NEW t, Good(t), t.inFlight, t.tries < TxMaxTries
  PROVE  Good(Postpone(t))
<1>1. t.queue # <<>> /\ t.tries \in 1..TxMaxTries
  BY DEF Good, Driven, TxType
<1>. QED
  BY <1>1 DEF Good, Driven, TxType, Postpone, Sender

-----------------------------------------------------------------------------
(* The steps *)

\* What the invariant says, with the parts that concern one sender in Good
LEMMA TxInvGood ==
  TxInv <=> /\ alias \in [Nodes -> Nat]
            /\ tx \in [Nodes -> TxType]
            /\ \A n \in Nodes : Good(tx[n])
            /\ verdict \in [Nodes -> Seq({"queued", "acked", "failed"})]
  BY DEF TxInv, TxTypeOK, HeadDriven, QueueBounded, Good

\* A step that gives one sender a good state keeps every sender's state good.
LEMMA OneSender ==
  ASSUME NEW n \in Nodes, NEW t, Good(t),
         tx \in [Nodes -> TxType], \A m \in Nodes : Good(tx[m]),
         tx' = [tx EXCEPT ![n] = t]
  PROVE  tx' \in [Nodes -> TxType] /\ \A m \in Nodes : Good(tx'[m])
  BY DEF Good

\* Deciding a datagram keeps the verdicts typed.
LEMMA VerdictTyped ==
  ASSUME NEW n \in Nodes, NEW i, NEW result \in {"queued", "acked", "failed"},
         verdict \in [Nodes -> Seq({"queued", "acked", "failed"})],
         verdict' = [verdict EXCEPT ![n][i] = result]
  PROVE  verdict' \in [Nodes -> Seq({"queued", "acked", "failed"})]
<1>. DEFINE R == {"queued", "acked", "failed"}
            v == [verdict[n] EXCEPT ![i] = result]
<1>1. verdict[n] \in [1..Len(verdict[n]) -> R] /\ Len(verdict[n]) \in Nat
  OBVIOUS
<1>2. v \in [1..Len(verdict[n]) -> R]
  BY <1>1
<1>3. v \in Seq(R)
  BY <1>1, <1>2
<1>. QED
  BY <1>3

\* The initial state satisfies the invariant.
LEMMA TxInvInit == Init => TxInv
<1>. SUFFICES ASSUME Init PROVE TxInv
  OBVIOUS
<1>1. tx \in [Nodes -> TxType] /\ \A n \in Nodes : Good(tx[n])
  BY IdleGood DEF Init, Good
<1>. QED
  BY <1>1, TxInvGood DEF Init

\* Popping the head on behalf of a step
LEMMA PopStep ==
  ASSUME TxInv, NEW n \in Nodes, NEW result \in {"acked", "failed"}, Pop(n, result),
         tx[n].queue # <<>>, UNCHANGED alias
  PROVE  TxInv'
<1>1. Good(PopHead(tx[n]))
  BY PopGood, TxInvGood
<1>2. tx' \in [Nodes -> TxType] /\ \A m \in Nodes : Good(tx'[m])
  BY <1>1, OneSender, TxInvGood DEF Pop
<1>3. verdict' \in [Nodes -> Seq({"queued", "acked", "failed"})]
  BY VerdictTyped, TxInvGood DEF Pop
<1>. QED
  BY <1>2, <1>3 DEF TxInv, TxTypeOK, HeadDriven, QueueBounded, Good

\* Every step keeps the invariant.
LEMMA TxInvNext == TxInv /\ [Next]_vars => TxInv'
<1>. SUFFICES ASSUME TxInv, [Next]_vars PROVE TxInv'
  OBVIOUS
<1>. USE TxInvGood
<1>1. ASSUME NEW r \in Routes, NEW len \in Lengths, LccDatagramSend(r[1], r[2], len)
      PROVE  TxInv'
  <2>. DEFINE n == r[1]
              e == [dst |-> Alias(r[2]), num |-> Len(verdict[n]) + 1, len |-> len]
  <2>1. n \in Nodes /\ r[2] \in Nodes
    BY ConstantsAssumption
  <2>2. e \in Entry
    BY <2>1, ConstantsAssumption DEF Entry, Aliases, Alias
  <2>3. Good(tx[n]) /\ Room(tx[n])
    BY <1>1, <2>1 DEF LccDatagramSend
  <2>4. PICK t : Good(t) /\ tx' = [tx EXCEPT ![n] = t]
    BY <1>1, <2>2, <2>3, SendGood DEF LccDatagramSend
  <2>5. tx' \in [Nodes -> TxType] /\ \A m \in Nodes : Good(tx'[m])
    BY <2>1, <2>4, OneSender
  <2>6. verdict' \in [Nodes -> Seq({"queued", "acked", "failed"})]
    BY <1>1, <2>1 DEF LccDatagramSend
  <2>. QED
    BY <1>1, <2>5, <2>6 DEF LccDatagramSend, TxInv, TxTypeOK, HeadDriven, QueueBounded, Good
<1>2. ASSUME NEW n \in Nodes, Receive(n)
      PROVE  TxInv'
  <2>. DEFINE f == Head(wire[n])
  <2>1. CASE UNCHANGED <<alias, tx, verdict>>
    BY <2>1 DEF TxInv, TxTypeOK, HeadDriven, QueueBounded
  <2>2. ASSUME NEW d \in Nodes, LccDatagramMessage(n, d, f)
        PROVE  TxInv'
    <3>. DEFINE t == tx[d]
                ours == t.queue # <<>> /\ t.inFlight /\ Head(t.queue).dst = f.src
    <3>1. CASE ~ours
      BY <2>1, <2>2, <3>1 DEF LccDatagramMessage
    <3>2. CASE ours /\ Pop(d, "acked")
      BY <2>2, <3>2, PopStep DEF LccDatagramMessage
    <3>3. CASE ours /\ Pop(d, "failed")
      BY <2>2, <3>3, PopStep DEF LccDatagramMessage
    <3>4. CASE ours /\ tx' = [tx EXCEPT ![d] = Postpone(t)] /\ Retry(t, f.code)
               /\ UNCHANGED <<alias, verdict>>
      <4>1. Good(Postpone(t))
        BY <3>4, PostponeGood DEF Retry
      <4>2. tx' \in [Nodes -> TxType] /\ \A m \in Nodes : Good(tx'[m])
        BY <3>4, <4>1, OneSender
      <4>. QED
        BY <3>4, <4>2 DEF TxInv, TxTypeOK, HeadDriven, QueueBounded, Good
    <3>. QED
      BY <2>2, <3>1, <3>2, <3>3, <3>4 DEF LccDatagramMessage
  <2>3. ASSUME NEW d \in Nodes, LccDatagramFrame(n, d, f)
        PROVE  UNCHANGED <<alias, tx, verdict>>
    BY <2>3 DEF LccDatagramFrame
  <2>. QED
    BY <1>2, <2>1, <2>2, <2>3 DEF Receive
<1>3. ASSUME NEW n \in Nodes, Lose(n)
      PROVE  TxInv'
  BY <1>3 DEF Lose, TxInv, TxTypeOK, HeadDriven, QueueBounded
<1>4. ASSUME NEW n \in Nodes, LccDatagramAliasLost(n)
      PROVE  TxInv'
  <2>. DEFINE R == {"queued", "acked", "failed"}
              v == [i \in DOMAIN verdict[n] |-> IF verdict[n][i] = "queued" THEN "failed"
                                                ELSE verdict[n][i]]
  <2>1. tx' \in [Nodes -> TxType] /\ \A m \in Nodes : Good(tx'[m])
    BY <1>4, IdleGood, OneSender DEF LccDatagramAliasLost
  <2>2. verdict[n] \in [1..Len(verdict[n]) -> R] /\ Len(verdict[n]) \in Nat
    OBVIOUS
  <2>3. v \in [1..Len(verdict[n]) -> R]
    BY <2>2
  <2>4. v \in Seq(R)
    BY <2>2, <2>3
  <2>5. verdict' \in [Nodes -> Seq(R)]
    BY <1>4, <2>4 DEF LccDatagramAliasLost
  <2>6. alias' \in [Nodes -> Nat]
    BY <1>4 DEF LccDatagramAliasLost
  <2>. QED
    BY <2>1, <2>5, <2>6 DEF TxInv, TxTypeOK, HeadDriven, QueueBounded, Good
<1>5. ASSUME NEW n \in Nodes, ReassemblyTimeout(n)
      PROVE  TxInv'
  BY <1>5 DEF ReassemblyTimeout, TxInv, TxTypeOK, HeadDriven, QueueBounded
<1>6. ASSUME NEW n \in Nodes, ResendHead(n)
      PROVE  TxInv'
  <2>1. Good(TransmitHead(tx[n]))
    BY <1>6, ResendGood DEF ResendHead
  <2>2. tx' \in [Nodes -> TxType] /\ \A m \in Nodes : Good(tx'[m])
    BY <1>6, <2>1, OneSender DEF ResendHead
  <2>. QED
    BY <1>6, <2>2 DEF ResendHead, TxInv, TxTypeOK, HeadDriven, QueueBounded, Good
<1>7. ASSUME NEW n \in Nodes, AckTimeout(n)
      PROVE  TxInv'
  <2>1. tx[n].queue # <<>>
    BY <1>7 DEF AckTimeout, Good, Driven
  <2>. QED
    BY <1>7, <2>1, PopStep DEF AckTimeout
<1>8. CASE UNCHANGED vars
  BY <1>8 DEF vars, TxInv, TxTypeOK, HeadDriven, QueueBounded
<1>. QED
  BY <1>1, <1>2, <1>3, <1>4, <1>5, <1>6, <1>7, <1>8 DEF Next, LccDatagramRunTimers

\* The sending half of the transport never stalls: at every moment of every
\* behaviour exactly one timer of datagram.c drives a queue that holds
\* something, and no datagram is tried more than TX_MAX_TRIES times, whatever
\* the other nodes answer and however late.
THEOREM SenderNeverStalls == Spec => []HeadDriven
<1>1. TxInv => HeadDriven
  BY DEF TxInv
<1>. QED
  BY <1>1, TxInvInit, TxInvNext, PTL DEF Spec

-----------------------------------------------------------------------------
(* Delivery: the invariant *)

\* g is the frame that follows f in a datagram
Continues(f, g) ==
  /\ g.kind \in {"middle", "final"}
  /\ g.src = f.src /\ g.dst = f.dst /\ g.num = f.num /\ g.part = f.part + 1

\* Nothing separates the frames of a datagram on the wire of its sender: an
\* unfinished one is followed by its next frame.  Frames lost or handled are
\* gone from the front only.
Chained(w) ==
  \A i \in 1..Len(w) : w[i].kind \in {"first", "middle"} => i < Len(w) /\ Continues(w[i], w[i + 1])

\* What node m has on its wire
WireGood(m, w) ==
  /\ w \in Seq(Frame)
  /\ Chained(w)
  /\ \A f \in Range(w) : f.src[1] = m /\ (f.kind \in {"one", "first"} => f.part = 1)

WiresGood == wire = [m \in Nodes |-> wire[m]] /\ \A m \in Nodes : WireGood(m, wire[m])

\* The slot r of the node with alias `to` holds the part of a datagram that
\* comes before frame f of it
Collected(r, to, f) ==
  /\ f.kind \in {"middle", "final"} /\ f.src = r.src /\ f.dst = to
  /\ Len(r.buf) # 0 /\ f.part = Len(r.buf) + 1
  /\ \A i \in 1..Len(r.buf) : r.buf[i] = <<f.num, i>>

\* The nodes of which no frame was lost
Intact == IF MaxLost = 0 THEN Nodes ELSE Nodes \ lossy

\* Node n, none of whose frames was lost, has the slot of d only in the middle of
\* a datagram, whose next frame is the next one on its wire
Slot(n, d) ==
  rx[d].src # NoAlias /\ rx[d].src[1] = n =>
    wire[n] # <<>> /\ Collected(rx[d], Alias(d), Head(wire[n]))

SlotsFilled == \A n \in Intact : \A d \in Nodes : Slot(n, d)

\* Until an alias changes everything is addressed to an alias that is in use
Settled ==
  \/ lossy = Nodes
  \/ \A n \in Nodes : alias[n] = 0 /\ \A i \in 1..Len(tx[n].queue) : tx[n].queue[i].dst[2] = 0

\* Among frames F is the last one of a datagram from `from` to `to`
AskedOn(F, from, to) == \E f \in F : f.kind \in {"one", "final"} /\ f.src = from /\ f.dst = to

\* Among frames F is an answer from `from` to `to`
AnsweredOn(F, from, to) == \E f \in F : f.kind = "answer" /\ f.src = from /\ f.dst = to

\* The datagram n has in flight, or the answer to it, is still on a wire
OnTheWay(n) ==
  tx[n].inFlight =>
    LET to == Head(tx[n].queue).dst IN
    AskedOn(Range(wire[n]), Alias(n), to) \/ AnsweredOn(Range(wire[to[1]]), to, Alias(n))

NothingForgotten == \A n \in Nodes \ lossy : OnTheWay(n)

\* The answer f is one the sender may act on
Fair(f) == f.kind = "answer" /\ f.dst[1] \in Intact => f.code \in Temporary \cup Verdicts

AnswersFair == \A n \in Nodes : \A f \in Range(wire[n]) : Fair(f)

\* The typing of the variables the receiving half uses
RxTypeOK ==
  /\ rx \in [Nodes -> RxType]
  /\ log \in [Nodes -> Seq(Seq(Nat \X Nat))]
  /\ lossy \subseteq Nodes
  /\ losses \in Nat
  /\ \A n \in Nodes : Len(rx[n].buf) <= DatagramMax

\* What holds of the exchange beyond the senders' own state
Delivery ==
  /\ RxTypeOK
  /\ WiresGood
  /\ SlotsFilled
  /\ Settled
  /\ NothingForgotten
  /\ AnswersFair
  /\ Uncorrupted

\* The inductive invariant of the whole exchange
DeliveryInv == TxInv /\ Delivery

-----------------------------------------------------------------------------
(* Frames on a wire *)

\* A datagram in transmission, on its own
LEMMA FramesGood ==
  ASSUME NEW n \in Nodes, alias \in [Nodes -> Nat], NEW e \in Entry
  PROVE  /\ WireGood(n, FramesOf(Alias(n), e))
         /\ AskedOn(Range(FramesOf(Alias(n), e)), Alias(n), e.dst)
         /\ \A f \in Range(FramesOf(Alias(n), e)) : f.kind # "answer"
<1>. DEFINE w == FramesOf(Alias(n), e)
            frame(i) == [kind |-> CASE e.len = 1 -> "one"
                                    [] i = 1 /\ e.len # 1 -> "first"
                                    [] i = e.len /\ e.len # 1 -> "final"
                                    [] OTHER -> "middle",
                         src |-> Alias(n), dst |-> e.dst, num |-> e.num, part |-> i, code |-> "none"]
<1>1. e.len \in 1..DatagramMax /\ e.dst \in Aliases /\ e.num \in Nat /\ DatagramMax \in Nat
  BY ConstantsAssumption DEF Entry
<1>2. Alias(n) \in Aliases /\ Alias(n)[1] = n
  BY DEF Alias, Aliases
<1>3. ASSUME NEW i \in 1..e.len
      PROVE  /\ frame(i) \in Frame
             /\ frame(i).src = Alias(n) /\ frame(i).dst = e.dst /\ frame(i).num = e.num
             /\ frame(i).part = i /\ frame(i).kind # "answer"
             /\ frame(i).kind = IF e.len = 1 THEN "one" ELSE IF i = 1 THEN "first"
                                ELSE IF i = e.len THEN "final" ELSE "middle"
  <2>1. frame(i).kind = IF e.len = 1 THEN "one" ELSE IF i = 1 THEN "first"
                        ELSE IF i = e.len THEN "final" ELSE "middle"
    BY <1>1
  <2>2. frame(i).kind \in {"one", "first", "middle", "final"} /\ i \in 0..DatagramMax
    BY <1>1, <2>1
  <2>. QED
    BY <1>1, <1>2, <2>1, <2>2 DEF Frame
<1>4. w = [i \in 1..e.len |-> frame(i)]
  BY DEF FramesOf
<1>. HIDE DEF frame
<1>5. w \in [1..e.len -> Frame] /\ DOMAIN w = 1..e.len /\ \A i \in 1..e.len : w[i] = frame(i)
  BY <1>3, <1>4
<1>. HIDE DEF w
<1>6. w \in Seq(Frame) /\ Len(w) = e.len
  BY <1>1, <1>5, LenProperties
<1>7. Chained(w)
  <2>. SUFFICES ASSUME NEW i \in 1..e.len, w[i].kind \in {"first", "middle"}
                PROVE  i < e.len /\ Continues(w[i], w[i + 1])
    BY <1>6 DEF Chained
  <2>1. i < e.len /\ i + 1 \in 1..e.len
    BY <1>1, <1>3, <1>5
  <2>. QED
    BY <1>1, <1>3, <1>5, <2>1 DEF Continues
<1>8. Range(w) = {w[i] : i \in 1..e.len}
  BY <1>5 DEF Range
<1>9. w[e.len] \in Range(w) /\ w[e.len].kind \in {"one", "final"}
      /\ w[e.len].src = Alias(n) /\ w[e.len].dst = e.dst
  BY <1>1, <1>3, <1>5, <1>8
<1>10. \A f \in Range(w) : f.src[1] = n /\ f.kind # "answer" /\ (f.kind \in {"one", "first"} => f.part = 1)
  BY <1>1, <1>2, <1>3, <1>5, <1>8
<1>. QED
  BY <1>6, <1>7, <1>9, <1>10 DEF WireGood, AskedOn, w

\* An answer, on its own
LEMMA AnswerGood ==
  ASSUME NEW d \in Nodes, alias \in [Nodes -> Nat], NEW f \in Frame, NEW code \in Verdicts \cup Transport
  PROVE  /\ WireGood(d, Answer(Alias(d), f, code))
         /\ AnsweredOn(Range(Answer(Alias(d), f, code)), Alias(d), f.src)
         /\ \A g \in Range(Answer(Alias(d), f, code)) : g.dst = f.src /\ g.code = code
<1>. DEFINE g == [kind |-> "answer", src |-> Alias(d), dst |-> f.src, num |-> f.num, part |-> 0, code |-> code]
<1>1. g \in Frame
  BY ConstantsAssumption DEF Frame, Aliases, Alias
<1>2. Answer(Alias(d), f, code) = <<g>>
  BY DEF Answer
<1>3. Range(<<g>>) = {g}
  BY DEF Range
<1>4. g.kind = "answer" /\ g.src = Alias(d) /\ g.dst = f.src /\ g.code = code /\ Alias(d)[1] = d
  BY DEF Alias
<1>. HIDE DEF g
<1>5. <<g>> \in Seq(Frame) /\ Len(<<g>>) = 1 /\ <<g>>[1] = g
  BY <1>1
<1>6. Chained(<<g>>)
  BY <1>4, <1>5 DEF Chained
<1>. QED
  BY <1>2, <1>3, <1>4, <1>5, <1>6 DEF WireGood, AnsweredOn

\* Nothing, on its own
LEMMA NothingGood == \A m : WireGood(m, <<>>) /\ Range(<<>>) = {}
  BY DEF WireGood, Chained, Range

\* A wire whose front frame was taken
LEMMA TailWire ==
  ASSUME NEW m, NEW w, WireGood(m, w), w # <<>>
  PROVE  /\ WireGood(m, Tail(w))
         /\ Head(w) \in Frame /\ Head(w) \in Range(w)
         /\ \A f \in Range(w) : f = Head(w) \/ f \in Range(Tail(w))
         /\ Range(Tail(w)) \subseteq Range(w)
         /\ Head(w).kind \in {"first", "middle"} =>
              Tail(w) # <<>> /\ Continues(Head(w), Head(Tail(w)))
<1>1. /\ w \in Seq(Frame) /\ Len(w) \in Nat \ {0} /\ DOMAIN w = 1..Len(w)
      /\ Head(w) = w[1] /\ Head(w) \in Frame
      /\ Tail(w) \in Seq(Frame) /\ Len(Tail(w)) = Len(w) - 1
      /\ DOMAIN Tail(w) = 1..(Len(w) - 1)
      /\ \A i \in 1..(Len(w) - 1) : Tail(w)[i] = w[i + 1]
  BY HeadTailProperties, LenProperties, EmptySeq DEF WireGood
<1>. DEFINE t == Tail(w)
<1>. HIDE DEF t
<1>2. Range(w) = {w[i] : i \in 1..Len(w)} /\ Range(t) = {t[i] : i \in 1..(Len(w) - 1)}
  BY <1>1 DEF Range, t
<1>3. \A i \in 1..(Len(w) - 1) : i + 1 \in 1..Len(w) /\ t[i] = w[i + 1]
  BY <1>1 DEF t
<1>4. Range(t) \subseteq Range(w)
  BY <1>2, <1>3
<1>5. \A f \in Range(w) : f = w[1] \/ f \in Range(t)
  <2>1. \A i \in 1..Len(w) : i = 1 \/ (i - 1 \in 1..(Len(w) - 1) /\ t[i - 1] = w[i])
    BY <1>1, <1>3
  <2>. QED
    BY <1>2, <2>1
<1>6. Chained(t)
  <2>. SUFFICES ASSUME NEW i \in 1..(Len(w) - 1), t[i].kind \in {"first", "middle"}
                PROVE  i < Len(w) - 1 /\ Continues(t[i], t[i + 1])
    BY <1>1 DEF Chained, t
  <2>1. i + 1 < Len(w) /\ Continues(w[i + 1], w[i + 2])
    BY <1>1, <1>3 DEF WireGood, Chained
  <2>. QED
    BY <1>1, <1>3, <2>1
<1>7. w[1].kind \in {"first", "middle"} => t # <<>> /\ Continues(w[1], Head(t))
  <2>. SUFFICES ASSUME w[1].kind \in {"first", "middle"} PROVE t # <<>> /\ Continues(w[1], Head(t))
    OBVIOUS
  <2>1. 1 < Len(w) /\ Continues(w[1], w[2])
    BY <1>1 DEF WireGood, Chained
  <2>2. Len(t) > 0 /\ t \in Seq(Frame)
    BY <1>1, <2>1 DEF t
  <2>3. t # <<>> /\ Head(t) = t[1]
    BY <2>2, LongerThanNone
  <2>. QED
    BY <1>1, <1>3, <2>1, <2>3
<1>8. t \in Seq(Frame) /\ w[1] \in Range(w)
  BY <1>1, <1>2 DEF t
<1>. QED
  BY <1>1, <1>4, <1>5, <1>6, <1>7, <1>8 DEF WireGood, t

\* A wire on which something more was sent
LEMMA ConcatWire ==
  ASSUME NEW m, NEW u, NEW v, WireGood(m, u), WireGood(m, v)
  PROVE  /\ WireGood(m, u \o v)
         /\ Range(u \o v) = Range(u) \cup Range(v)
         /\ u # <<>> => u \o v # <<>> /\ Head(u \o v) = Head(u)
<1>. DEFINE w == u \o v
<1>1. /\ u \in Seq(Frame) /\ v \in Seq(Frame) /\ w \in Seq(Frame)
      /\ Len(u) \in Nat /\ Len(v) \in Nat /\ Len(w) = Len(u) + Len(v)
      /\ DOMAIN u = 1..Len(u) /\ DOMAIN v = 1..Len(v) /\ DOMAIN w = 1..(Len(u) + Len(v))
  BY ConcatProperties, LenProperties DEF WireGood
<1>2. \A i \in 1..(Len(u) + Len(v)) : w[i] = IF i <= Len(u) THEN u[i] ELSE v[i - Len(u)]
  BY <1>1, ConcatProperties
<1>. HIDE DEF w
<1>3. \A i \in 1..Len(u) : i \in 1..(Len(u) + Len(v)) /\ w[i] = u[i]
  BY <1>1, <1>2
<1>4. \A i \in 1..Len(v) : Len(u) + i \in 1..(Len(u) + Len(v)) /\ w[Len(u) + i] = v[i]
  BY <1>1, <1>2
<1>5. Range(w) = Range(u) \cup Range(v)
  <2>1. /\ Range(w) = {w[i] : i \in 1..(Len(u) + Len(v))}
        /\ Range(u) = {u[i] : i \in 1..Len(u)}
        /\ Range(v) = {v[i] : i \in 1..Len(v)}
    BY <1>1 DEF Range
  <2>2. \A i \in 1..(Len(u) + Len(v)) : i \in 1..Len(u) \/ i - Len(u) \in 1..Len(v)
    BY <1>1
  <2>3. \A i \in 1..(Len(u) + Len(v)) :
          (i \in 1..Len(u) /\ w[i] = u[i]) \/ (i - Len(u) \in 1..Len(v) /\ w[i] = v[i - Len(u)])
    BY <1>1, <1>2, <2>2
  <2>. QED
    BY <1>3, <1>4, <2>1, <2>3
<1>6. Chained(w)
  <2>. SUFFICES ASSUME NEW i \in 1..(Len(u) + Len(v)), w[i].kind \in {"first", "middle"}
                PROVE  i < Len(u) + Len(v) /\ Continues(w[i], w[i + 1])
    BY <1>1 DEF Chained
  <2>1. CASE i <= Len(u)
    <3>1. i \in 1..Len(u) /\ w[i] = u[i]
      BY <1>1, <1>3, <2>1
    <3>2. i < Len(u) /\ Continues(u[i], u[i + 1])
      BY <3>1 DEF WireGood, Chained
    <3>. QED
      BY <1>1, <1>3, <3>1, <3>2
  <2>2. CASE ~(i <= Len(u))
    <3>. DEFINE j == i - Len(u)
    <3>1. j \in 1..Len(v) /\ w[i] = v[j]
      BY <1>1, <1>2, <2>2
    <3>2. j < Len(v) /\ Continues(v[j], v[j + 1])
      BY <3>1 DEF WireGood, Chained
    <3>3. j + 1 \in 1..Len(v) /\ Len(u) + (j + 1) = i + 1
      BY <1>1, <3>1, <3>2
    <3>4. w[i + 1] = v[j + 1]
      BY <1>4, <3>3
    <3>. QED
      BY <1>1, <3>1, <3>2, <3>4
  <2>. QED
    BY <2>1, <2>2
<1>7. u # <<>> => w # <<>> /\ Head(w) = Head(u)
  <2>. SUFFICES ASSUME u # <<>> PROVE w # <<>> /\ Head(w) = Head(u)
    OBVIOUS
  <2>1. Len(u) > 0 /\ Len(w) > 0
    BY <1>1, EmptySeq
  <2>2. w # <<>> /\ Head(w) = w[1] /\ Head(u) = u[1]
    BY <1>1, <2>1, LongerThanNone
  <2>. QED
    BY <1>1, <1>3, <2>1, <2>2
<1>. QED
  BY <1>1, <1>5, <1>6, <1>7 DEF WireGood, w

-----------------------------------------------------------------------------
(* What a step does to the wires *)

\* What is left of the wire of m when the front frames of `taken` are gone
Kept(taken, m) == IF m \in taken THEN Tail(wire[m]) ELSE wire[m]

\* The front frame left the wires of the nodes in `taken`, and node d sent `out`
Changed(taken, d, out) ==
  /\ wire' = [m \in Nodes |-> wire'[m]]
  /\ \A m \in Nodes : wire'[m] = Kept(taken, m) \o (IF m = d THEN out ELSE <<>>)

\* What that says of the frames on the wires
Moved(taken, d, out) ==
  /\ WiresGood'
  /\ \A m \in Nodes : \A f \in Range(wire[m]) :
       (m \in taken /\ f = Head(wire[m])) \/ f \in Range(wire'[m])
  /\ Range(out) \subseteq Range(wire'[d])
  /\ \A m \in Nodes : \A f \in Range(wire'[m]) : f \in Range(wire[m]) \/ f \in Range(out)
  /\ \A m \in Nodes \ taken : wire[m] # <<>> => wire'[m] # <<>> /\ Head(wire'[m]) = Head(wire[m])
  /\ \A m \in taken :
       Head(wire[m]).kind \in {"first", "middle"} =>
         wire'[m] # <<>> /\ Continues(Head(wire[m]), Head(wire'[m]))

\* It follows from what becomes of each wire.
LEMMA MoveWires ==
  ASSUME WiresGood, NEW taken \in SUBSET Nodes, \A m \in taken : wire[m] # <<>>,
         NEW d \in Nodes, NEW out, WireGood(d, out), Changed(taken, d, out)
  PROVE  Moved(taken, d, out)
<1>. USE DEF Changed, Kept
<1>. DEFINE kept(m) == IF m \in taken THEN Tail(wire[m]) ELSE wire[m]
            more(m) == IF m = d THEN out ELSE <<>>
<1>1. ASSUME NEW m \in Nodes
      PROVE  /\ WireGood(m, wire'[m])
             /\ Range(wire'[m]) = Range(kept(m)) \cup Range(more(m))
             /\ kept(m) # <<>> => wire'[m] # <<>> /\ Head(wire'[m]) = Head(kept(m))
  <2>1. WireGood(m, kept(m))
    BY TailWire DEF WiresGood
  <2>2. WireGood(m, more(m))
    BY NothingGood
  <2>3. wire'[m] = kept(m) \o more(m)
    OBVIOUS
  <2>. HIDE DEF kept, more
  <2>4. /\ WireGood(m, kept(m) \o more(m))
        /\ Range(kept(m) \o more(m)) = Range(kept(m)) \cup Range(more(m))
        /\ kept(m) # <<>> =>
             kept(m) \o more(m) # <<>> /\ Head(kept(m) \o more(m)) = Head(kept(m))
    BY <2>1, <2>2, ConcatWire
  <2>. QED
    BY <2>3, <2>4, Zenon
<1>2. WiresGood'
  BY <1>1 DEF WiresGood
<1>3. ASSUME NEW m \in Nodes, NEW f \in Range(wire[m])
      PROVE  (m \in taken /\ f = Head(wire[m])) \/ f \in Range(wire'[m])
  <2>1. (m \in taken /\ f = Head(wire[m])) \/ f \in Range(kept(m))
    <3>1. CASE m \in taken
      BY <3>1, TailWire DEF WiresGood
    <3>2. CASE m \notin taken
      BY <3>2
    <3>. QED
      BY <3>1, <3>2
  <2>. HIDE DEF kept, more
  <2>. QED
    BY <1>1, <2>1
<1>4. Range(out) \subseteq Range(wire'[d])
  BY <1>1
<1>5. ASSUME NEW m \in Nodes, NEW f \in Range(wire'[m])
      PROVE  f \in Range(wire[m]) \/ f \in Range(out)
  <2>1. f \in Range(kept(m)) \/ f \in Range(more(m))
    BY <1>1
  <2>2. Range(kept(m)) \subseteq Range(wire[m])
    BY TailWire DEF WiresGood
  <2>3. Range(more(m)) \subseteq Range(out)
    BY NothingGood
  <2>. QED
    BY <2>1, <2>2, <2>3
<1>6. ASSUME NEW m \in Nodes \ taken, wire[m] # <<>>
      PROVE  wire'[m] # <<>> /\ Head(wire'[m]) = Head(wire[m])
  BY <1>1, <1>6
<1>7. ASSUME NEW m \in taken, Head(wire[m]).kind \in {"first", "middle"}
      PROVE  wire'[m] # <<>> /\ Continues(Head(wire[m]), Head(wire'[m]))
  <2>1. Tail(wire[m]) # <<>> /\ Continues(Head(wire[m]), Head(Tail(wire[m])))
    BY <1>7, TailWire DEF WiresGood
  <2>2. kept(m) = Tail(wire[m])
    OBVIOUS
  <2>. HIDE DEF kept, more
  <2>. QED
    BY <1>1, <2>1, <2>2
<1>. QED
  BY <1>2, <1>3, <1>4, <1>5, <1>6, <1>7 DEF Moved

\* A wire with nothing more sent on it is the same wire.
LEMMA NothingSent ==
  ASSUME NEW m, NEW w, WireGood(m, w)
  PROVE  w \o <<>> = w
  BY ConcatEmptySeq DEF WireGood

\* A node handles the next frame of n and sends an answer or nothing.
LEMMA HandleMoves ==
  ASSUME WiresGood, NEW n \in Nodes, NEW d \in Nodes, wire[n] # <<>>,
         NEW out, WireGood(d, out), Handle(n, d, out)
  PROVE  Changed({n}, d, out) /\ Moved({n}, d, out)
<1>1. wire' = [m \in Nodes |-> wire'[m]]
  BY DEF Handle, WiresGood
<1>2. ASSUME NEW m \in Nodes
      PROVE  wire'[m] = (IF m \in {n} THEN Tail(wire[m]) ELSE wire[m])
                        \o (IF m = d THEN out ELSE <<>>)
  <2>1. WireGood(m, wire[m]) /\ (m = n => WireGood(m, Tail(wire[m])))
    BY TailWire DEF WiresGood
  <2>2. wire[m] \o <<>> = wire[m] /\ (m = n => Tail(wire[m]) \o <<>> = Tail(wire[m]))
    BY <2>1, NothingSent
  <2>3. wire' = [wire EXCEPT ![n] = Tail(@), ![d] = @ \o out]
    BY DEF Handle
  <2>4. CASE m = d
    BY <2>3, <2>4 DEF WiresGood
  <2>5. CASE m # d
    <3>1. wire'[m] = IF m = n THEN Tail(wire[m]) ELSE wire[m]
      BY <2>3, <2>5 DEF WiresGood
    <3>. QED
      BY <3>1, <2>2, <2>5
  <2>. QED
    BY <2>4, <2>5
<1>. QED
  BY <1>1, <1>2, MoveWires DEF Changed, Kept

\* Node n sends something.
LEMMA SendMoves ==
  ASSUME WiresGood, NEW n \in Nodes, NEW out, WireGood(n, out),
         wire' = [wire EXCEPT ![n] = @ \o out]
  PROVE  Changed({}, n, out) /\ Moved({}, n, out)
<1>1. wire' = [m \in Nodes |-> wire'[m]]
  BY DEF WiresGood
<1>2. ASSUME NEW m \in Nodes
      PROVE  wire'[m] = (IF m \in {} THEN Tail(wire[m]) ELSE wire[m])
                        \o (IF m = n THEN out ELSE <<>>)
  BY NothingSent DEF WiresGood
<1>. QED
  BY <1>1, <1>2, MoveWires DEF Changed, Kept

\* The next frame of n is lost, or addressed to nobody.
LEMMA DropMoves ==
  ASSUME WiresGood, NEW n \in Nodes, wire[n] # <<>>, wire' = [wire EXCEPT ![n] = Tail(@)]
  PROVE  Changed({n}, n, <<>>) /\ Moved({n}, n, <<>>)
<1>1. wire' = [m \in Nodes |-> wire'[m]] /\ WireGood(n, <<>>)
  BY NothingGood DEF WiresGood
<1>2. ASSUME NEW m \in Nodes
      PROVE  wire'[m] = (IF m \in {n} THEN Tail(wire[m]) ELSE wire[m])
                        \o (IF m = n THEN <<>> ELSE <<>>)
  <2>1. WireGood(m, wire[m]) /\ (m = n => WireGood(m, Tail(wire[m])))
    BY TailWire DEF WiresGood
  <2>2. wire[m] \o <<>> = wire[m] /\ (m = n => Tail(wire[m]) \o <<>> = Tail(wire[m]))
    BY <2>1, NothingSent
  <2>. QED
    BY <2>2 DEF WiresGood
<1>. QED
  BY <1>1, <1>2, MoveWires DEF Changed, Kept

\* Nothing is sent or handled.
LEMMA StayMoves ==
  ASSUME WiresGood, NEW n \in Nodes, wire' = wire
  PROVE  Changed({}, n, <<>>) /\ Moved({}, n, <<>>)
<1>1. wire' = [m \in Nodes |-> wire'[m]] /\ WireGood(n, <<>>)
  BY NothingGood DEF WiresGood
<1>2. ASSUME NEW m \in Nodes
      PROVE  wire'[m] = (IF m \in {} THEN Tail(wire[m]) ELSE wire[m])
                        \o (IF m = n THEN <<>> ELSE <<>>)
  BY NothingSent DEF WiresGood
<1>. QED
  BY <1>1, <1>2, MoveWires DEF Changed, Kept

-----------------------------------------------------------------------------
(* What a step does to the parts of the invariant *)

\* Answers stay fair when those sent are.
LEMMA AnswersKeep ==
  ASSUME AnswersFair, NEW taken, NEW d \in Nodes, NEW out, Moved(taken, d, out),
         lossy \subseteq lossy', \A f \in Range(out) : Fair(f)
  PROVE  AnswersFair'
  BY DEF AnswersFair, Moved, Fair, Intact

\* Addresses stay in use while the queues get no others.
LEMMA SettledKeeps ==
  ASSUME Settled, alias' = alias, lossy' = lossy,
         \A m \in Nodes : \A i \in 1..Len(tx'[m].queue) :
           \/ \E j \in 1..Len(tx[m].queue) : tx'[m].queue[i] = tx[m].queue[j]
           \/ \E d \in Nodes : tx'[m].queue[i].dst = Alias(d)
  PROVE  Settled'
<1>1. CASE lossy = Nodes
  BY <1>1 DEF Settled
<1>2. CASE \A n \in Nodes : alias[n] = 0 /\ \A i \in 1..Len(tx[n].queue) : tx[n].queue[i].dst[2] = 0
  BY <1>2 DEF Settled, Alias
<1>. QED
  BY <1>1, <1>2 DEF Settled

\* What node n waits for is still on a wire unless it was just taken.
LEMMA WayKeeps ==
  ASSUME TxInv, NEW n \in Nodes, OnTheWay(n), alias' = alias,
         NEW taken, NEW d \in Nodes, NEW out, Moved(taken, d, out),
         tx'[n].inFlight => tx[n].inFlight /\ Head(tx'[n].queue).dst = Head(tx[n].queue).dst,
         \A m \in taken : LET f == Head(wire[m]) IN tx[n].inFlight =>
           /\ ~(f.kind \in {"one", "final"} /\ f.src = Alias(n) /\ f.dst = Head(tx[n].queue).dst)
           /\ ~(f.kind = "answer" /\ f.src = Head(tx[n].queue).dst /\ f.dst = Alias(n))
  PROVE  OnTheWay(n)'
<1>. SUFFICES ASSUME tx'[n].inFlight PROVE OnTheWay(n)'
  BY DEF OnTheWay
<1>. DEFINE to == Head(tx[n].queue).dst
<1>1. tx[n].inFlight /\ Head(tx'[n].queue).dst = to
  OBVIOUS
<1>2. tx[n].queue # <<>> /\ tx[n].queue \in Seq(Entry)
  BY <1>1, TxInvGood DEF Good, Driven, TxType
<1>3. to[1] \in Nodes
  <2>1. Head(tx[n].queue) \in Entry
    BY <1>2, HeadTailProperties
  <2>. QED
    BY <2>1 DEF Entry, Aliases
<1>4. Alias(n)' = Alias(n)
  BY DEF Alias
<1>5. CASE AskedOn(Range(wire[n]), Alias(n), to)
  <2>1. AskedOn(Range(wire'[n]), Alias(n), to)
    BY <1>1, <1>5 DEF AskedOn, Moved
  <2>. QED
    BY <1>1, <1>4, <2>1 DEF OnTheWay
<1>6. CASE AnsweredOn(Range(wire[to[1]]), to, Alias(n))
  <2>1. AnsweredOn(Range(wire'[to[1]]), to, Alias(n))
    BY <1>1, <1>3, <1>6 DEF AnsweredOn, Moved
  <2>. QED
    BY <1>1, <1>4, <2>1 DEF OnTheWay
<1>. QED
  BY <1>1, <1>5, <1>6 DEF OnTheWay

\* What node n sends itself is on its wire.
LEMMA WayAnew ==
  ASSUME NEW n \in Nodes, alias' = alias, NEW taken, NEW out, Moved(taken, n, out),
         tx'[n].inFlight => AskedOn(Range(out), Alias(n), Head(tx'[n].queue).dst)
  PROVE  OnTheWay(n)'
<1>1. Alias(n)' = Alias(n)
  BY DEF Alias
<1>. QED
  BY <1>1 DEF OnTheWay, Moved, AskedOn

\* A slot goes on waiting for the next frame of its sender while that frame is on
\* the wire and the slot is not touched, and a free one waits for nothing.
LEMMA SlotKeeps ==
  ASSUME NEW m \in Nodes, NEW e \in Nodes, Slot(m, e), alias' = alias,
         NEW taken, NEW d \in Nodes, NEW out, Moved(taken, d, out), m \notin taken,
         rx'[e].src = NoAlias \/ rx'[e].src[1] # m
           \/ (rx'[e].src = rx[e].src /\ rx'[e].buf = rx[e].buf)
  PROVE  Slot(m, e)'
<1>. SUFFICES ASSUME rx'[e].src # NoAlias, rx'[e].src[1] = m PROVE Slot(m, e)'
  BY DEF Slot
<1>1. Alias(e)' = Alias(e)
  BY DEF Alias
<1>2. wire[m] # <<>> /\ Collected(rx[e], Alias(e), Head(wire[m]))
  BY DEF Slot
<1>3. wire'[m] # <<>> /\ Head(wire'[m]) = Head(wire[m])
  BY <1>2 DEF Moved
<1>4. Collected(rx'[e], Alias(e), Head(wire[m]))
  BY <1>2 DEF Collected
<1>. QED
  BY <1>1, <1>3, <1>4 DEF Slot

\* The next frame of n, if it lost nothing, is for the one slot n has.
LEMMA OneSlot ==
  ASSUME NEW n \in Intact, SlotsFilled, NEW e \in Nodes,
         LET f == Head(wire[n]) IN f.kind \notin {"middle", "final"} \/ f.dst # Alias(e)
  PROVE  rx[e].src = NoAlias \/ rx[e].src[1] # n
  BY DEF SlotsFilled, Slot, Collected

-----------------------------------------------------------------------------
(* Handling a frame of a datagram *)

\* The datagram in buf is whole
Whole(buf) == \A i \in DOMAIN buf : buf[i] = <<buf[1][1], i>>

\* What becomes of frame f from n at d: the slot becomes r and d sends out.
FrameOutcome(n, d, f, r, out) ==
  /\ Handle(n, d, out)
  /\ \/ out = <<>> /\ f.kind \notin {"one", "final"}
     \/ \E code \in Verdicts \cup Transport :
          out = Answer(Alias(d), f, code) /\ (code = "invalid_args" => n \notin Intact)
  /\ rx' = [rx EXCEPT ![d] = r]
  /\ r \in RxType /\ Len(r.buf) <= DatagramMax
  /\ r.src = NoAlias \/ r.src = f.src \/ (r.src = rx[d].src /\ r.buf = rx[d].buf)
  /\ n \in Intact /\ r.src # NoAlias /\ r.src[1] = n =>
       /\ f.kind \in {"first", "middle"} /\ r.src = f.src
       /\ Len(r.buf) # 0 /\ Len(r.buf) = f.part
       /\ \A i \in 1..Len(r.buf) : r.buf[i] = <<f.num, i>>
  /\ \E buf \in Seq(Nat \X Nat) :
       /\ n \notin Intact \/ Whole(buf)
       /\ log' = log \/ log' = [log EXCEPT ![n] = Append(@, buf)]

\* A sequence of one pair
LEMMA OnePair ==
  ASSUME NEW p \in Nat \X Nat
  PROVE  /\ <<p>> \in Seq(Nat \X Nat) /\ Len(<<p>>) = 1 /\ <<p>>[1] = p
         /\ DOMAIN <<p>> = {1}
<1>1. <<p>> \in Seq(Nat \X Nat) /\ Len(<<p>>) = 1 /\ <<p>>[1] = p
  OBVIOUS
<1>2. DOMAIN <<p>> = 1..1
  BY <1>1, LenProperties
<1>. QED
  BY <1>1, <1>2

\* Every branch of lcc_datagram_frame has an outcome of that kind.
LEMMA FrameHas ==
  ASSUME TxInv, RxTypeOK, WiresGood, SlotsFilled,
         NEW n \in Nodes, NEW d \in Nodes, wire[n] # <<>>,
         Head(wire[n]).dst = Alias(d), LccDatagramFrame(n, d, Head(wire[n]))
  PROVE  \E r, out : FrameOutcome(n, d, Head(wire[n]), r, out)
<1>. DEFINE f == Head(wire[n])
            r0 == rx[d]
            buf == Append(r0.buf, <<f.num, f.part>>)
<1>1. f \in Frame /\ f.src[1] = n /\ (f.kind \in {"one", "first"} => f.part = 1)
  <2>1. WireGood(n, wire[n])
    BY DEF WiresGood
  <2>2. f \in Frame /\ f \in Range(wire[n])
    BY <2>1, TailWire
  <2>. QED
    BY <2>1, <2>2 DEF WireGood
<1>2. /\ f.src \in Aliases /\ f.num \in Nat /\ f.part \in Nat /\ f.part \in 0..DatagramMax
      /\ f.kind \in {"one", "first", "middle", "final", "answer"}
      /\ DatagramMax \in Nat
  BY <1>1, ConstantsAssumption DEF Frame
<1>3. f.src # NoAlias
  BY <1>2, ConstantsAssumption DEF Aliases
<1>4. r0 \in RxType /\ Len(r0.buf) <= DatagramMax /\ rx \in [Nodes -> RxType]
  BY DEF RxTypeOK
<1>5. /\ r0.buf \in Seq(Nat \X Nat) /\ buf \in Seq(Nat \X Nat)
      /\ Len(r0.buf) \in Nat /\ Len(buf) = Len(r0.buf) + 1
      /\ \A i \in 1..Len(r0.buf) : buf[i] = r0.buf[i]
      /\ buf[Len(r0.buf) + 1] = <<f.num, f.part>>
      /\ DOMAIN buf = 1..(Len(r0.buf) + 1)
  <2>1. r0.buf \in Seq(Nat \X Nat) /\ <<f.num, f.part>> \in Nat \X Nat
    BY <1>2, <1>4 DEF RxType
  <2>. QED
    BY <2>1, AppendProperties, LenProperties
<1>6. r0.src # NoAlias /\ r0.src[1] = n /\ n \in Intact => Collected(r0, Alias(d), f)
  BY DEF SlotsFilled, Slot
<1>7. r0.src = f.src /\ n \in Intact =>
        /\ f.kind \in {"middle", "final"}
        /\ Len(r0.buf) # 0 /\ Len(buf) = f.part
        /\ \A i \in 1..Len(buf) : buf[i] = <<f.num, i>>
  <2>. SUFFICES ASSUME r0.src = f.src, n \in Intact
                PROVE  /\ f.kind \in {"middle", "final"}
                       /\ Len(r0.buf) # 0 /\ Len(buf) = f.part
                       /\ \A i \in 1..Len(buf) : buf[i] = <<f.num, i>>
    OBVIOUS
  <2>1. Collected(r0, Alias(d), f)
    BY <1>1, <1>3, <1>6
  <2>2. f.part = Len(buf)
    BY <1>5, <2>1 DEF Collected
  <2>3. ASSUME NEW i \in 1..Len(buf) PROVE buf[i] = <<f.num, i>>
    <3>1. i \in 1..Len(r0.buf) \/ i = Len(r0.buf) + 1
      BY <1>5
    <3>. QED
      BY <1>5, <2>1, <2>2, <3>1 DEF Collected
  <2>. QED
    BY <2>1, <2>2, <2>3 DEF Collected
<1>8. r0.src = f.src /\ n \in Intact => Whole(buf) /\ Fits(buf)
  <2>1. r0.src = f.src /\ n \in Intact => Whole(buf)
    <3>. SUFFICES ASSUME r0.src = f.src, n \in Intact PROVE Whole(buf)
      OBVIOUS
    <3>. HIDE DEF buf, f, r0
    <3>1. DOMAIN buf = 1..Len(buf) /\ 1 \in 1..Len(buf)
      BY <1>5
    <3>2. buf[1] = <<f.num, 1>> /\ \A i \in 1..Len(buf) : buf[i] = <<f.num, i>>
      BY <1>7, <3>1
    <3>3. buf[1][1] = f.num
      BY <3>2
    <3>. QED
      BY <3>1, <3>2, <3>3 DEF Whole
  <2>2. r0.src = f.src /\ n \in Intact => Fits(buf)
    BY <1>2, <1>5, <1>7 DEF Fits
  <2>. QED
    BY <2>1, <2>2
<1>. DEFINE one == << <<f.num, f.part>> >>
<1>9. one \in Seq(Nat \X Nat) /\ Len(one) = 1 /\ one[1] = <<f.num, f.part>> /\ DOMAIN one = {1}
  <2>1. <<f.num, f.part>> \in Nat \X Nat
    BY <1>2
  <2>. QED
    BY <2>1, OnePair
<1>10. f.part = 1 => Whole(one)
  BY <1>9 DEF Whole
<1>11. n \in Intact /\ r0.src # NoAlias /\ r0.src[1] = n => f.kind \in {"middle", "final"} /\ r0.src = f.src
  BY <1>6 DEF Collected
<1>12. <<>> \in Seq(Nat \X Nat) /\ Len(<<>>) = 0 /\ Whole(<<>>)
  <2>1. DOMAIN <<>> = {}
    OBVIOUS
  <2>. QED
    BY <2>1, EmptySeq DEF Whole
<1>13. ASSUME NEW b \in Seq(Nat \X Nat), Deliver(n, d, f, b)
       PROVE  /\ \E code \in Verdicts \cup Transport :
                   Handle(n, d, Answer(Alias(d), f, code)) /\ code # "invalid_args"
              /\ log' = log \/ log' = [log EXCEPT ![n] = Append(@, b)]
  <2>1. PICK code \in Verdicts :
          /\ log' = IF code = "ok" THEN [log EXCEPT ![f.src[1]] = Append(@, b)] ELSE log
          /\ Handle(n, d, Answer(Alias(d), f, code))
    BY <1>13 DEF Deliver
  <2>2. code # "invalid_args"
    BY DEF Verdicts
  <2>. QED
    BY <1>1, <2>1, <2>2
<1>. DEFINE free == [r0 EXCEPT !.src = NoAlias, !.buf = <<>>]
<1>14. /\ free \in RxType /\ free.src = NoAlias /\ Len(free.buf) <= DatagramMax
       /\ [rx EXCEPT ![d].src = NoAlias, ![d].buf = <<>>] = [rx EXCEPT ![d] = free]
  <2>1. free \in RxType /\ free.src = NoAlias /\ free.buf = <<>>
    BY <1>4, <1>12 DEF RxType
  <2>2. Len(free.buf) <= DatagramMax
    BY <1>2, <1>12, <2>1
  <2>3. [rx EXCEPT ![d].src = NoAlias, ![d].buf = <<>>] = [rx EXCEPT ![d] = free]
    BY <1>4 DEF RxType, r0
  <2>. QED
    BY <2>1, <2>2, <2>3
<1>. HIDE DEF f, r0, buf, one, free
<1>15. CASE f.kind = "one" /\ Deliver(n, d, f, one) /\ UNCHANGED rx
  <2>1. rx' = [rx EXCEPT ![d] = r0]
    BY <1>4, <1>15 DEF r0
  <2>2. f.part = 1 /\ Whole(one)
    BY <1>1, <1>10, <1>15
  <2>3. PICK code \in Verdicts \cup Transport :
          Handle(n, d, Answer(Alias(d), f, code)) /\ code # "invalid_args"
    BY <1>9, <1>13, <1>15
  <2>4. FrameOutcome(n, d, f, r0, Answer(Alias(d), f, code))
    BY <1>4, <1>9, <1>11, <1>13, <1>15, <2>1, <2>2, <2>3 DEF FrameOutcome, r0
  <2>. QED
    BY <2>4 DEF f
<1>16. CASE f.kind = "first" /\ r0.src # NoAlias /\ ~Ours(r0, f)
            /\ rx' = [rx EXCEPT ![d].refused = f.src] /\ Handle(n, d, <<>>) /\ UNCHANGED log
  <2>. DEFINE r == [r0 EXCEPT !.refused = f.src]
  <2>1. rx' = [rx EXCEPT ![d] = r] /\ r \in RxType /\ r.src = r0.src /\ r.buf = r0.buf
    BY <1>2, <1>4, <1>16 DEF RxType, r0
  <2>. HIDE DEF r
  <2>2. FrameOutcome(n, d, f, r, <<>>)
    BY <1>4, <1>11, <1>12, <1>16, <2>1 DEF FrameOutcome, r0
  <2>. QED
    BY <2>2 DEF f
<1>17. CASE f.kind = "first"
            /\ rx' = [rx EXCEPT ![d].src = f.src, ![d].buf = one]
            /\ Handle(n, d, <<>>) /\ UNCHANGED log
  <2>. DEFINE r == [r0 EXCEPT !.src = f.src, !.buf = one]
  <2>1. rx' = [rx EXCEPT ![d] = r] /\ r \in RxType /\ r.src = f.src /\ r.buf = one
    BY <1>2, <1>4, <1>9, <1>17 DEF RxType, r0
  <2>. HIDE DEF r
  <2>2. f.part = 1
    BY <1>1, <1>17
  <2>3. Len(r.buf) = 1 /\ r.buf[1] = <<f.num, 1>>
    BY <1>9, <2>1, <2>2
  <2>4. Len(r.buf) <= DatagramMax /\ Len(r.buf) # 0 /\ Len(r.buf) = f.part
    BY <1>2, <2>2, <2>3
  <2>5. \A i \in 1..Len(r.buf) : r.buf[i] = <<f.num, i>>
    BY <2>3
  <2>6. FrameOutcome(n, d, f, r, <<>>)
    BY <1>12, <1>17, <2>1, <2>4, <2>5 DEF FrameOutcome
  <2>. QED
    BY <2>6 DEF f
<1>18. CASE f.kind = "middle" /\ ~Ours(r0, f) /\ Handle(n, d, <<>>) /\ UNCHANGED <<rx, log>>
  <2>1. rx' = [rx EXCEPT ![d] = r0]
    BY <1>4, <1>18 DEF r0
  <2>2. FrameOutcome(n, d, f, r0, <<>>)
    BY <1>4, <1>11, <1>12, <1>18, <2>1 DEF FrameOutcome, Ours, r0
  <2>. QED
    BY <2>2 DEF f
<1>19. CASE f.kind = "final" /\ ~Ours(r0, f)
            /\ rx' = (IF r0.refused = f.src THEN [rx EXCEPT ![d].refused = NoAlias] ELSE rx)
            /\ Handle(n, d, Refuse(d, f)) /\ UNCHANGED log
  <2>. DEFINE r == IF r0.refused = f.src THEN [r0 EXCEPT !.refused = NoAlias] ELSE r0
  <2>1. rx' = [rx EXCEPT ![d] = r] /\ r \in RxType /\ r.src = r0.src /\ r.buf = r0.buf
    BY <1>4, <1>19 DEF RxType, r0
  <2>2. PICK code \in Verdicts \cup Transport :
          Refuse(d, f) = Answer(Alias(d), f, code) /\ code # "invalid_args"
    <3>. DEFINE c == IF rx[d].refused = f.src THEN "unavailable" ELSE "out_of_order"
    <3>1. c \in Verdicts \cup Transport /\ c # "invalid_args"
      BY DEF Transport
    <3>2. Refuse(d, f) = Answer(Alias(d), f, c)
      BY DEF Refuse
    <3>. QED
      BY <3>1, <3>2
  <2>. HIDE DEF r
  <2>3. FrameOutcome(n, d, f, r, Answer(Alias(d), f, code))
    BY <1>4, <1>11, <1>12, <1>19, <2>1, <2>2 DEF FrameOutcome, Ours, r0
  <2>. QED
    BY <2>3 DEF f
<1>20. CASE f.kind \in {"middle", "final"} /\ Ours(r0, f) /\ ~Fits(buf)
            /\ rx' = [rx EXCEPT ![d].src = NoAlias, ![d].buf = <<>>]
            /\ Handle(n, d, Answer(Alias(d), f, "invalid_args")) /\ UNCHANGED log
  <2>1. n \notin Intact
    BY <1>8, <1>20 DEF Ours
  <2>2. "invalid_args" \in Verdicts \cup Transport
    BY DEF Transport
  <2>3. FrameOutcome(n, d, f, free, Answer(Alias(d), f, "invalid_args"))
    BY <1>12, <1>14, <1>20, <2>1, <2>2 DEF FrameOutcome
  <2>. QED
    BY <2>3 DEF f
<1>21. CASE f.kind = "middle" /\ Ours(r0, f) /\ Fits(buf)
            /\ rx' = [rx EXCEPT ![d].buf = buf] /\ Handle(n, d, <<>>) /\ UNCHANGED log
  <2>. DEFINE r == [r0 EXCEPT !.buf = buf]
  <2>1. rx' = [rx EXCEPT ![d] = r] /\ r \in RxType /\ r.src = r0.src /\ r.buf = buf
    BY <1>4, <1>5, <1>21 DEF RxType, r0
  <2>. HIDE DEF r
  <2>2. r.src = f.src /\ Len(r.buf) <= DatagramMax /\ Len(buf) # 0
    BY <1>5, <1>21, <2>1 DEF Ours, Fits
  <2>3. FrameOutcome(n, d, f, r, <<>>)
    BY <1>7, <1>12, <1>21, <2>1, <2>2 DEF FrameOutcome, Ours
  <2>. QED
    BY <2>3 DEF f
<1>22. CASE f.kind = "final" /\ Ours(r0, f) /\ Fits(buf)
            /\ rx' = [rx EXCEPT ![d].src = NoAlias, ![d].buf = <<>>]
            /\ Deliver(n, d, f, buf)
  <2>1. n \notin Intact \/ Whole(buf)
    BY <1>8, <1>22 DEF Ours
  <2>2. PICK code \in Verdicts \cup Transport :
          Handle(n, d, Answer(Alias(d), f, code)) /\ code # "invalid_args"
    BY <1>5, <1>13, <1>22
  <2>3. FrameOutcome(n, d, f, free, Answer(Alias(d), f, code))
    BY <1>5, <1>13, <1>14, <1>22, <2>1, <2>2 DEF FrameOutcome
  <2>. QED
    BY <2>3 DEF f
<1>. QED
  BY <1>15, <1>16, <1>17, <1>18, <1>19, <1>20, <1>21, <1>22
     DEF LccDatagramFrame, f, r0, buf, one

\* A datagram taken by a handler is whole unless a frame of its sender was lost.
LEMMA LogKeeps ==
  ASSUME RxTypeOK, Uncorrupted, NEW n \in Nodes, NEW buf \in Seq(Nat \X Nat),
         n \in lossy \/ Whole(buf), lossy' = lossy,
         log' = log \/ log' = [log EXCEPT ![n] = Append(@, buf)]
  PROVE  log' \in [Nodes -> Seq(Seq(Nat \X Nat))] /\ Uncorrupted'
<1>1. CASE log' = log
  BY <1>1 DEF RxTypeOK, Uncorrupted
<1>2. CASE log' = [log EXCEPT ![n] = Append(@, buf)]
  <2>. DEFINE B == Seq(Nat \X Nat)
  <2>1. log \in [Nodes -> Seq(B)]
    BY DEF RxTypeOK
  <2>2. /\ log'[n] = Append(log[n], buf) /\ log'[n] \in Seq(B)
        /\ Len(log[n]) \in Nat
        /\ DOMAIN log'[n] = 1..(Len(log[n]) + 1) /\ DOMAIN log[n] = 1..Len(log[n])
        /\ \A k \in 1..Len(log[n]) : log'[n][k] = log[n][k]
        /\ log'[n][Len(log[n]) + 1] = buf
    BY <1>2, <2>1, AppendProperties, LenProperties
  <2>3. log' \in [Nodes -> Seq(B)] /\ \A m \in Nodes \ {n} : log'[m] = log[m]
    BY <1>2, <2>1, <2>2
  <2>4. \A m \in Nodes \ lossy : \A k \in DOMAIN log[m] : Whole(log[m][k])
    BY DEF Uncorrupted, Whole
  <2>5. ASSUME NEW m \in Nodes \ lossy, NEW k \in DOMAIN log'[m]
        PROVE  Whole(log'[m][k])
    <3>1. CASE m # n
      BY <2>3, <2>4, <3>1
    <3>2. CASE m = n
      <4>1. k \in 1..(Len(log[n]) + 1) /\ m \notin lossy
        BY <2>2, <3>2
      <4>2. CASE k \in 1..Len(log[n])
        <5>1. k \in DOMAIN log[n] /\ log'[n][k] = log[n][k]
          BY <2>2, <4>2
        <5>. QED
          BY <2>4, <3>2, <4>1, <5>1
      <4>3. CASE k = Len(log[n]) + 1
        BY <2>2, <3>2, <4>1, <4>3
      <4>. QED
        BY <2>2, <4>1, <4>2, <4>3
    <3>. QED
      BY <3>1, <3>2
  <2>. QED
    BY <2>3, <2>5 DEF Uncorrupted, Whole
<1>. QED
  BY <1>1, <1>2

\* A frame of a datagram is handled.
LEMMA FrameStep ==
  ASSUME DeliveryInv, NEW n \in Nodes, NEW d \in Nodes, wire[n] # <<>>,
         Head(wire[n]).dst = Alias(d), LccDatagramFrame(n, d, Head(wire[n]))
  PROVE  Delivery'
<1>. USE DEF DeliveryInv, Delivery
<1>. DEFINE f == Head(wire[n])
<1>1. PICK r, out : FrameOutcome(n, d, f, r, out)
  BY FrameHas
<1>2. UNCHANGED <<alias, tx, verdict, lossy, losses>> /\ f.kind # "answer"
  BY DEF LccDatagramFrame
<1>3. f \in Frame /\ f.src[1] = n
  <2>1. WireGood(n, wire[n])
    BY DEF WiresGood
  <2>2. f \in Frame /\ f \in Range(wire[n])
    BY <2>1, TailWire
  <2>. QED
    BY <2>1, <2>2 DEF WireGood
<1>4. alias \in [Nodes -> Nat]
  BY TxInvGood
<1>. HIDE DEF f
<1>5. WireGood(d, out) /\ \A g \in Range(out) : Fair(g)
  <2>1. CASE out = <<>>
    BY <2>1, NothingGood
  <2>2. ASSUME NEW code \in Verdicts \cup Transport, out = Answer(Alias(d), f, code),
               code = "invalid_args" => n \notin Intact
        PROVE  WireGood(d, out) /\ \A g \in Range(out) : Fair(g)
    <3>1. WireGood(d, out) /\ \A g \in Range(out) : g.dst = f.src /\ g.code = code
      BY <1>3, <1>4, <2>2, AnswerGood
    <3>2. n \notin Intact \/ code \in Temporary \cup Verdicts
      BY <2>2 DEF Temporary, Transport
    <3>. QED
      BY <1>3, <3>1, <3>2 DEF Fair
  <2>. QED
    BY <1>1, <2>1, <2>2 DEF FrameOutcome
<1>6. f.kind \in {"one", "final"} => AnsweredOn(Range(out), Alias(d), f.src)
  BY <1>1, <1>3, <1>4, AnswerGood DEF FrameOutcome
<1>7. Moved({n}, d, out)
  BY <1>1, <1>5, HandleMoves DEF FrameOutcome
<1>8. WiresGood'
  BY <1>7 DEF Moved
<1>9. AnswersFair'
  BY <1>2, <1>5, <1>7, AnswersKeep
<1>10. Settled'
  BY <1>2, SettledKeeps
<1>11. ASSUME NEW m \in Nodes \ lossy
       PROVE  OnTheWay(m)'
  <2>1. OnTheWay(m)
    BY DEF NothingForgotten
  <2>. DEFINE to == Head(tx[m].queue).dst
  <2>2. CASE tx[m].inFlight /\ f.kind \in {"one", "final"} /\ f.src = Alias(m) /\ f.dst = to
    <3>1. to = Alias(d) /\ to[1] = d
      BY <2>2 DEF Alias, f
    <3>2. AnsweredOn(Range(wire'[d]), to, Alias(m))
      BY <1>6, <1>7, <2>2, <3>1 DEF Moved, AnsweredOn
    <3>3. Alias(m)' = Alias(m) /\ Head(tx'[m].queue).dst = to
      BY <1>2 DEF Alias
    <3>. QED
      BY <3>1, <3>2, <3>3 DEF OnTheWay
  <2>3. CASE ~(tx[m].inFlight /\ f.kind \in {"one", "final"} /\ f.src = Alias(m) /\ f.dst = to)
    BY <1>2, <1>7, <2>1, <2>3, WayKeeps DEF f
  <2>. QED
    BY <2>2, <2>3
<1>12. ASSUME NEW m \in Intact, NEW e \in Nodes
       PROVE  Slot(m, e)'
  <2>1. Slot(m, e)
    BY DEF SlotsFilled
  <2>2. rx'[e] = IF e = d THEN r ELSE rx[e]
    BY <1>1 DEF FrameOutcome, RxTypeOK
  <2>3. CASE m # n
    <3>1. rx'[e].src = NoAlias \/ rx'[e].src[1] # m
            \/ (rx'[e].src = rx[e].src /\ rx'[e].buf = rx[e].buf)
      BY <1>1, <1>3, <2>2, <2>3 DEF FrameOutcome
    <3>. QED
      BY <1>2, <1>7, <2>1, <2>3, <3>1, SlotKeeps DEF Intact
  <2>4. CASE m = n /\ e # d
    <3>1. f.dst # Alias(e)
      BY <2>4 DEF Alias, f
    <3>2. rx'[e].src = NoAlias \/ rx'[e].src[1] # m
      BY <2>2, <2>4, <3>1, OneSlot DEF f
    <3>. QED
      BY <3>2 DEF Slot
  <2>5. CASE m = n /\ e = d
    <3>. SUFFICES ASSUME r.src # NoAlias, r.src[1] = n
                  PROVE  wire'[n] # <<>> /\ Collected(r, Alias(d), Head(wire'[n]))
      BY <1>2, <2>2, <2>5 DEF Slot, Alias
    <3>1. /\ f.kind \in {"first", "middle"} /\ r.src = f.src
          /\ Len(r.buf) # 0 /\ Len(r.buf) = f.part
          /\ \A i \in 1..Len(r.buf) : r.buf[i] = <<f.num, i>>
      BY <1>1, <2>5 DEF FrameOutcome
    <3>2. wire'[n] # <<>> /\ Continues(f, Head(wire'[n]))
      BY <1>7, <3>1 DEF Moved, f
    <3>3. f.dst = Alias(d)
      BY DEF f
    <3>. QED
      BY <3>1, <3>2, <3>3 DEF Collected, Continues
  <2>. QED
    BY <2>3, <2>4, <2>5
<1>13. RxTypeOK' /\ Uncorrupted'
  <2>1. log' \in [Nodes -> Seq(Seq(Nat \X Nat))] /\ Uncorrupted'
    BY <1>1, <1>2, LogKeeps DEF FrameOutcome, Intact
  <2>2. rx' \in [Nodes -> RxType] /\ \A m \in Nodes : Len(rx'[m].buf) <= DatagramMax
    BY <1>1 DEF FrameOutcome, RxTypeOK
  <2>. QED
    BY <1>2, <2>1, <2>2 DEF RxTypeOK
<1>. QED
  BY <1>2, <1>8, <1>9, <1>10, <1>11, <1>12, <1>13 DEF NothingForgotten, SlotsFilled, Intact

-----------------------------------------------------------------------------
(* The other steps *)

\* What pop_head sends is the datagram that is next, and that one is in flight.
LEMMA PopGoesOn ==
  ASSUME alias \in [Nodes -> Nat], NEW n \in Nodes, NEW t, Good(t), t.queue # <<>>
  PROVE  /\ WireGood(n, PopSends(n, t))
         /\ \A f \in Range(PopSends(n, t)) : f.kind # "answer"
         /\ PopHead(t).inFlight =>
              AskedOn(Range(PopSends(n, t)), Alias(n), Head(PopHead(t).queue).dst)
         /\ \A i \in 1..Len(PopHead(t).queue) : \E j \in 1..Len(t.queue) : PopHead(t).queue[i] = t.queue[j]
<1>1. /\ t.queue \in Seq(Entry) /\ Len(t.queue) \in Nat
      /\ Tail(t.queue) \in Seq(Entry) /\ Len(Tail(t.queue)) = Len(t.queue) - 1
      /\ \A i \in 1..Len(Tail(t.queue)) : Tail(t.queue)[i] = t.queue[i + 1]
  <2>1. t.queue \in Seq(Entry)
    BY DEF Good, TxType
  <2>. QED
    BY <2>1, HeadTailProperties, LenProperties
<1>2. CASE Len(t.queue) <= 1
  <2>1. PopSends(n, t) = <<>> /\ PopHead(t) = Idle
    BY <1>2 DEF PopSends, PopHead
  <2>2. ~Idle.inFlight /\ Len(Idle.queue) = 0
    BY DEF Idle, Sender
  <2>. QED
    BY <2>1, <2>2, NothingGood
<1>3. CASE ~(Len(t.queue) <= 1)
  <2>1. Len(t.queue) > 1 /\ 2 \in 1..Len(t.queue)
    BY <1>1, <1>3
  <2>2. t.queue[2] \in Entry
    BY <1>1, <2>1, ElementOfSeq
  <2>3. PopSends(n, t) = FramesOf(Alias(n), t.queue[2]) /\ PopHead(t).queue = Tail(t.queue)
    BY <1>3 DEF PopSends, PopHead, TransmitHead, Sender
  <2>4. Head(Tail(t.queue)) = t.queue[2]
    <3>1. Tail(t.queue)[1] = t.queue[2]
      BY <1>1, <2>1
    <3>. QED
      BY <1>1, <2>1, <3>1, LongerThanNone
  <2>5. \A i \in 1..Len(Tail(t.queue)) : i + 1 \in 1..Len(t.queue) /\ Tail(t.queue)[i] = t.queue[i + 1]
    BY <1>1
  <2>6. \A i \in 1..Len(PopHead(t).queue) : \E j \in 1..Len(t.queue) : PopHead(t).queue[i] = t.queue[j]
    BY <2>3, <2>5
  <2>7. /\ WireGood(n, PopSends(n, t))
        /\ AskedOn(Range(PopSends(n, t)), Alias(n), t.queue[2].dst)
        /\ \A f \in Range(PopSends(n, t)) : f.kind # "answer"
    BY <2>2, <2>3, FramesGood
  <2>. QED
    BY <2>3, <2>4, <2>6, <2>7
<1>. QED
  BY <1>2, <1>3

\* A step of the sending half of node d, beside the next frame of a wire at most:
\* the receiving half of every node stays as it is.
LEMMA SenderStep ==
  ASSUME DeliveryInv, NEW taken \in SUBSET Nodes, NEW d \in Nodes, NEW t, NEW out,
         Moved(taken, d, out), UNCHANGED <<alias, rx, log, lossy>>, losses' \in Nat,
         tx' = [tx EXCEPT ![d] = t],
         \A f \in Range(out) : f.kind # "answer",
         t.inFlight =>
           \/ AskedOn(Range(out), Alias(d), Head(t.queue).dst)
           \/ taken = {} /\ tx[d].inFlight /\ Head(t.queue).dst = Head(tx[d].queue).dst,
         \A i \in 1..Len(t.queue) :
           \/ \E j \in 1..Len(tx[d].queue) : t.queue[i] = tx[d].queue[j]
           \/ \E e \in Nodes : t.queue[i].dst = Alias(e),
         \A m \in taken : Head(wire[m]).kind = "answer" /\ Head(wire[m]).dst = Alias(d)
  PROVE  Delivery'
<1>. USE DEF DeliveryInv, Delivery
<1>1. tx \in [Nodes -> TxType]
  BY TxInvGood
<1>2. tx'[d] = t /\ \A m \in Nodes \ {d} : tx'[m] = tx[m]
  BY <1>1
<1>3. WiresGood'
  BY DEF Moved
<1>4. AnswersFair'
  BY AnswersKeep DEF Fair
<1>5. Settled'
  <2>1. ASSUME NEW m \in Nodes, NEW i \in 1..Len(tx'[m].queue)
        PROVE  \/ \E j \in 1..Len(tx[m].queue) : tx'[m].queue[i] = tx[m].queue[j]
               \/ \E e \in Nodes : tx'[m].queue[i].dst = Alias(e)
    BY <1>2, <2>1
  <2>. QED
    BY <2>1, SettledKeeps
<1>6. ASSUME NEW m \in Nodes \ lossy
      PROVE  OnTheWay(m)'
  <2>1. OnTheWay(m)
    BY DEF NothingForgotten
  <2>2. CASE m # d
    <3>1. tx'[m] = tx[m]
      BY <1>2, <2>2
    <3>2. \A l \in taken : Head(wire[l]).kind = "answer" /\ Head(wire[l]).dst # Alias(m)
      BY <2>2 DEF Alias
    <3>. QED
      BY <2>1, <3>1, <3>2, WayKeeps
  <2>3. CASE m = d /\ (t.inFlight => AskedOn(Range(out), Alias(d), Head(t.queue).dst))
    BY <1>2, <2>3, WayAnew
  <2>4. CASE m = d /\ t.inFlight /\ taken = {} /\ tx[d].inFlight
             /\ Head(t.queue).dst = Head(tx[d].queue).dst
    BY <1>2, <2>1, <2>4, WayKeeps
  <2>. QED
    BY <2>2, <2>3, <2>4
<1>7. ASSUME NEW m \in Intact, NEW e \in Nodes
      PROVE  Slot(m, e)'
  <2>1. Slot(m, e)
    BY DEF SlotsFilled
  <2>2. CASE m \notin taken
    BY <2>1, <2>2, SlotKeeps DEF Intact
  <2>3. CASE m \in taken
    <3>1. rx[e].src = NoAlias \/ rx[e].src[1] # m
      BY <2>3, OneSlot
    <3>. QED
      BY <3>1 DEF Slot
  <2>. QED
    BY <2>2, <2>3
<1>8. RxTypeOK' /\ Uncorrupted'
  BY DEF RxTypeOK, Uncorrupted
<1>. QED
  BY <1>3, <1>4, <1>5, <1>6, <1>7, <1>8 DEF NothingForgotten, SlotsFilled, Intact

\* A step of the sending half of node d on its own
LEMMA SenderAlone ==
  ASSUME DeliveryInv, NEW d \in Nodes, NEW t, NEW out,
         Moved({}, d, out), UNCHANGED <<alias, rx, log, lossy>>, losses' \in Nat,
         tx' = [tx EXCEPT ![d] = t],
         \A f \in Range(out) : f.kind # "answer",
         t.inFlight =>
           \/ AskedOn(Range(out), Alias(d), Head(t.queue).dst)
           \/ tx[d].inFlight /\ Head(t.queue).dst = Head(tx[d].queue).dst,
         \A i \in 1..Len(t.queue) :
           \/ \E j \in 1..Len(tx[d].queue) : t.queue[i] = tx[d].queue[j]
           \/ \E e \in Nodes : t.queue[i].dst = Alias(e)
  PROVE  Delivery'
<1>1. PICK none : none = {}
  OBVIOUS
<1>2. none \in SUBSET Nodes /\ Moved(none, d, out)
  BY <1>1
<1>3. t.inFlight =>
        \/ AskedOn(Range(out), Alias(d), Head(t.queue).dst)
        \/ none = {} /\ tx[d].inFlight /\ Head(t.queue).dst = Head(tx[d].queue).dst
  BY <1>1
<1>4. \A m \in none : Head(wire[m]).kind = "answer" /\ Head(wire[m]).dst = Alias(d)
  BY <1>1
<1>. QED
  BY <1>2, <1>3, <1>4, SenderStep

\* An answer is handled.
LEMMA MessageStep ==
  ASSUME DeliveryInv, NEW n \in Nodes, NEW d \in Nodes, wire[n] # <<>>,
         Head(wire[n]).dst = Alias(d), LccDatagramMessage(n, d, Head(wire[n]))
  PROVE  Delivery'
<1>. USE DEF DeliveryInv, Delivery
<1>. DEFINE f == Head(wire[n])
            t == tx[d]
            ours == t.queue # <<>> /\ t.inFlight /\ Head(t.queue).dst = f.src
<1>1. f.kind = "answer" /\ UNCHANGED <<alias, rx, log, lossy, losses>>
  BY DEF LccDatagramMessage
<1>2. tx \in [Nodes -> TxType] /\ Good(t) /\ alias \in [Nodes -> Nat]
  BY TxInvGood
<1>3. CASE ~ours /\ Handle(n, d, <<>>) /\ UNCHANGED tx
  <2>1. Moved({n}, d, <<>>)
    BY <1>3, HandleMoves, NothingGood
  <2>2. WiresGood' /\ AnswersFair' /\ Settled'
    <3>1. WiresGood'
      BY <2>1 DEF Moved
    <3>2. AnswersFair'
      BY <1>1, <2>1, AnswersKeep, NothingGood
    <3>3. Settled'
      BY <1>1, <1>3, SettledKeeps
    <3>. QED
      BY <3>1, <3>2, <3>3
  <2>3. ASSUME NEW m \in Nodes \ lossy
        PROVE  OnTheWay(m)'
    <3>1. OnTheWay(m)
      BY DEF NothingForgotten
    <3>2. tx[m].inFlight => ~(f.src = Head(tx[m].queue).dst /\ f.dst = Alias(m))
      <4>1. f.dst = Alias(m) => m = d
        BY DEF Alias
      <4>2. Good(tx[m])
        BY TxInvGood
      <4>3. tx[m].inFlight => tx[m].queue # <<>>
        BY <4>2 DEF Good, Driven
      <4>. QED
        BY <1>3, <4>1, <4>3
    <3>. QED
      BY <1>1, <1>3, <2>1, <3>1, <3>2, WayKeeps
  <2>4. ASSUME NEW m \in Intact, NEW e \in Nodes
        PROVE  Slot(m, e)'
    <3>1. Slot(m, e)
      BY DEF SlotsFilled
    <3>2. CASE m # n
      BY <1>1, <2>1, <3>1, <3>2, SlotKeeps DEF Intact
    <3>3. CASE m = n
      <4>1. rx[e].src = NoAlias \/ rx[e].src[1] # m
        BY <1>1, <3>3, OneSlot
      <4>. QED
        BY <1>1, <4>1 DEF Slot
    <3>. QED
      BY <3>2, <3>3
  <2>5. RxTypeOK' /\ Uncorrupted'
    BY <1>1 DEF RxTypeOK, Uncorrupted
  <2>. QED
    BY <1>1, <2>2, <2>3, <2>4, <2>5 DEF NothingForgotten, SlotsFilled, Intact
<1>4. /\ losses' \in Nat /\ {n} \in SUBSET Nodes
      /\ \A m \in {n} : Head(wire[m]).kind = "answer" /\ Head(wire[m]).dst = Alias(d)
  BY <1>1 DEF RxTypeOK
<1>5. ASSUME t.queue # <<>>, Handle(n, d, PopSends(d, t)), tx' = [tx EXCEPT ![d] = PopHead(t)]
      PROVE  Delivery'
  <2>1. /\ WireGood(d, PopSends(d, t))
        /\ \A g \in Range(PopSends(d, t)) : g.kind # "answer"
        /\ PopHead(t).inFlight => AskedOn(Range(PopSends(d, t)), Alias(d), Head(PopHead(t).queue).dst)
        /\ \A i \in 1..Len(PopHead(t).queue) : \E j \in 1..Len(t.queue) : PopHead(t).queue[i] = t.queue[j]
    BY <1>2, <1>5, PopGoesOn
  <2>2. Moved({n}, d, PopSends(d, t))
    BY <1>5, <2>1, HandleMoves
  <2>. QED
    BY <1>1, <1>5, <1>4, <2>1, <2>2, SenderStep
<1>6. CASE Handle(n, d, <<>>) /\ tx' = [tx EXCEPT ![d] = Postpone(t)]
  <2>1. ~Postpone(t).inFlight /\ Postpone(t).queue = t.queue
    BY DEF Postpone, Sender
  <2>2. Moved({n}, d, <<>>)
    BY <1>6, HandleMoves, NothingGood
  <2>3. \A i \in 1..Len(Postpone(t).queue) : \E j \in 1..Len(t.queue) : Postpone(t).queue[i] = t.queue[j]
    BY <2>1
  <2>4. \A g \in Range(<<>>) : g.kind # "answer"
    BY NothingGood
  <2>. HIDE DEF t
  <2>. QED
    BY <1>1, <1>6, <1>4, <2>1, <2>2, <2>3, <2>4, SenderStep DEF t
<1>. QED
  BY <1>3, <1>5, <1>6 DEF LccDatagramMessage, Pop

\* The next frame of a wire is for nobody.
LEMMA NobodyStep ==
  ASSUME DeliveryInv, NEW n \in Nodes, wire[n] # <<>>,
         \A d \in Nodes : Head(wire[n]).dst # Alias(d),
         wire' = [wire EXCEPT ![n] = Tail(@)],
         UNCHANGED <<alias, tx, rx, log, verdict, lossy, losses>>
  PROVE  Delivery'
<1>. USE DEF DeliveryInv, Delivery
<1>. DEFINE f == Head(wire[n])
<1>1. Moved({n}, n, <<>>)
  BY DropMoves
<1>2. WiresGood'
  BY <1>1 DEF Moved
<1>3. AnswersFair'
  BY <1>1, AnswersKeep, NothingGood
<1>4. Settled'
  BY SettledKeeps
<1>5. ASSUME NEW m \in Nodes \ lossy
      PROVE  OnTheWay(m)'
  <2>1. OnTheWay(m)
    BY DEF NothingForgotten
  <2>2. tx[m].inFlight => \E d \in Nodes : Head(tx[m].queue).dst = Alias(d)
    <3>. SUFFICES ASSUME tx[m].inFlight PROVE \E d \in Nodes : Head(tx[m].queue).dst = Alias(d)
      OBVIOUS
    <3>. DEFINE q == tx[m].queue
    <3>1. q \in Seq(Entry) /\ q # <<>>
      BY TxInvGood DEF Good, Driven, TxType
    <3>. HIDE DEF q
    <3>2. Head(q) = q[1] /\ 1 \in 1..Len(q) /\ q[1] \in Entry
      BY <3>1, HeadTailProperties, EmptySeq, ElementOfSeq
    <3>3. q[1].dst \in Nodes \X Nat
      BY <3>2 DEF Entry, Aliases
    <3>4. q[1].dst[2] = 0 /\ \A d \in Nodes : alias[d] = 0
      BY <3>2 DEF Settled, q
    <3>5. q[1].dst = Alias(q[1].dst[1])
      BY <3>3, <3>4 DEF Alias
    <3>. QED
      BY <3>2, <3>3, <3>5 DEF q
  <2>. QED
    BY <1>1, <2>1, <2>2, WayKeeps
<1>6. ASSUME NEW m \in Intact, NEW e \in Nodes
      PROVE  Slot(m, e)'
  <2>1. Slot(m, e)
    BY DEF SlotsFilled
  <2>2. CASE m # n
    BY <1>1, <2>1, <2>2, SlotKeeps DEF Intact
  <2>3. CASE m = n
    <3>1. rx[e].src = NoAlias \/ rx[e].src[1] # m
      BY <2>3, OneSlot
    <3>. QED
      BY <3>1 DEF Slot
  <2>. QED
    BY <2>2, <2>3
<1>7. RxTypeOK' /\ Uncorrupted'
  BY DEF RxTypeOK, Uncorrupted
<1>. QED
  BY <1>2, <1>3, <1>4, <1>5, <1>6, <1>7 DEF NothingForgotten, SlotsFilled, Intact

\* A datagram is queued, and sent at once when it is the only one.
LEMMA SendStep ==
  ASSUME DeliveryInv, NEW r \in Routes, NEW len \in Lengths, LccDatagramSend(r[1], r[2], len)
  PROVE  Delivery'
<1>. USE DEF DeliveryInv, Delivery
<1>. DEFINE n == r[1]
            e == [dst |-> Alias(r[2]), num |-> Len(verdict[n]) + 1, len |-> len]
            t == Enqueue(tx[n], e)
<1>1. n \in Nodes /\ r[2] \in Nodes
  BY ConstantsAssumption
<1>2. /\ alias \in [Nodes -> Nat] /\ Good(tx[n]) /\ tx[n].queue \in Seq(Entry)
      /\ verdict \in [Nodes -> Seq({"queued", "acked", "failed"})]
  BY <1>1, TxInvGood DEF Good, TxType
<1>3. e \in Entry /\ e.dst = Alias(r[2])
  BY <1>1, <1>2 DEF Entry, Aliases, Alias
<1>4. UNCHANGED <<alias, rx, log, lossy>> /\ losses' \in Nat
  BY DEF LccDatagramSend, RxTypeOK
<1>5. /\ Len(t.queue) = 1 =>
           /\ tx' = [tx EXCEPT ![n] = TransmitHead(t)]
           /\ wire' = [wire EXCEPT ![n] = @ \o FramesOf(Alias(n), e)]
      /\ Len(t.queue) # 1 => tx' = [tx EXCEPT ![n] = t] /\ wire' = wire
  BY DEF LccDatagramSend
<1>. HIDE DEF e, n
<1>6. /\ t.queue = Append(tx[n].queue, e) /\ t.inFlight = tx[n].inFlight
      /\ TransmitHead(t).queue = t.queue
  BY DEF Enqueue, TransmitHead, Sender
<1>7. /\ t.queue \in Seq(Entry) /\ Len(t.queue) = Len(tx[n].queue) + 1 /\ Len(tx[n].queue) \in Nat
      /\ \A i \in 1..Len(tx[n].queue) : t.queue[i] = tx[n].queue[i]
      /\ t.queue[Len(tx[n].queue) + 1] = e
  BY <1>2, <1>3, <1>6, AppendProperties, LenProperties
<1>8. Head(t.queue) = IF tx[n].queue = <<>> THEN e ELSE Head(tx[n].queue)
  BY <1>2, <1>6, HeadTailAppend
<1>9. \A i \in 1..Len(t.queue) :
        \/ \E j \in 1..Len(tx[n].queue) : t.queue[i] = tx[n].queue[j]
        \/ \E d \in Nodes : t.queue[i].dst = Alias(d)
  <2>1. \A i \in 1..Len(t.queue) : i \in 1..Len(tx[n].queue) \/ i = Len(tx[n].queue) + 1
    BY <1>7
  <2>. QED
    BY <1>1, <1>3, <1>7, <2>1
<1>. HIDE DEF t
<1>10. CASE Len(t.queue) = 1
  <2>1. tx[n].queue = <<>>
    BY <1>2, <1>7, <1>10, EmptySeq
  <2>2. /\ WireGood(n, FramesOf(Alias(n), e))
        /\ AskedOn(Range(FramesOf(Alias(n), e)), Alias(n), Head(TransmitHead(t).queue).dst)
        /\ \A f \in Range(FramesOf(Alias(n), e)) : f.kind # "answer"
    BY <1>1, <1>2, <1>3, <1>6, <1>8, <2>1, FramesGood
  <2>3. Moved({}, n, FramesOf(Alias(n), e))
    BY <1>1, <1>5, <1>10, <2>2, SendMoves
  <2>. DEFINE u == TransmitHead(t)
              out == FramesOf(Alias(n), e)
  <2>4. u.queue = t.queue /\ tx' = [tx EXCEPT ![n] = u]
    BY <1>5, <1>6, <1>10
  <2>5. \A i \in 1..Len(u.queue) :
          \/ \E j \in 1..Len(tx[n].queue) : u.queue[i] = tx[n].queue[j]
          \/ \E d \in Nodes : u.queue[i].dst = Alias(d)
    BY <1>9, <2>4
  <2>. HIDE DEF u, out
  <2>6. Moved({}, n, out) /\ (\A f \in Range(out) : f.kind # "answer")
        /\ AskedOn(Range(out), Alias(n), Head(u.queue).dst)
    BY <2>2, <2>3 DEF u, out
  <2>. QED
    BY <1>1, <1>4, <2>4, <2>5, <2>6, SenderAlone
<1>11. CASE Len(t.queue) # 1
  <2>1. tx[n].queue # <<>>
    BY <1>2, <1>7, <1>11, EmptySeq
  <2>2. Moved({}, n, <<>>)
    BY <1>1, <1>5, <1>11, StayMoves
  <2>3. \A f \in Range(<<>>) : f.kind # "answer"
    BY NothingGood
  <2>. QED
    BY <1>1, <1>4, <1>5, <1>6, <1>8, <1>9, <1>11, <2>1, <2>2, <2>3, SenderAlone
<1>. QED
  BY <1>10, <1>11

\* The head of a queue is sent again.
LEMMA ResendStep ==
  ASSUME DeliveryInv, NEW n \in Nodes, ResendHead(n)
  PROVE  Delivery'
<1>. USE DEF DeliveryInv, Delivery
<1>. DEFINE t == TransmitHead(tx[n])
            q == tx[n].queue
<1>1. alias \in [Nodes -> Nat] /\ q \in Seq(Entry) /\ q # <<>>
  BY TxInvGood DEF ResendHead, Good, Driven, TxType
<1>2. /\ UNCHANGED <<alias, rx, log, lossy>> /\ losses' \in Nat
      /\ tx' = [tx EXCEPT ![n] = t]
      /\ wire' = [wire EXCEPT ![n] = @ \o FramesOf(Alias(n), Head(q))]
  BY DEF ResendHead, RxTypeOK
<1>3. t.queue = q
  BY DEF TransmitHead, Sender
<1>. HIDE DEF t
<1>4. /\ WireGood(n, FramesOf(Alias(n), Head(q)))
      /\ AskedOn(Range(FramesOf(Alias(n), Head(q))), Alias(n), Head(t.queue).dst)
      /\ \A f \in Range(FramesOf(Alias(n), Head(q))) : f.kind # "answer"
  <2>. HIDE DEF q
  <2>1. Head(q) \in Entry
    BY <1>1, HeadTailProperties
  <2>. QED
    BY <1>1, <1>3, <2>1, FramesGood
<1>5. Moved({}, n, FramesOf(Alias(n), Head(q)))
  BY <1>2, <1>4, SendMoves
<1>6. \A i \in 1..Len(t.queue) : \E j \in 1..Len(q) : t.queue[i] = q[j]
  BY <1>3
<1>. QED
  BY <1>2, <1>4, <1>5, <1>6, SenderAlone

\* Nobody answered in time.
LEMMA AckTimeoutStep ==
  ASSUME DeliveryInv, NEW n \in Nodes, AckTimeout(n)
  PROVE  Delivery'
<1>. USE DEF DeliveryInv, Delivery
<1>. DEFINE t == PopHead(tx[n])
            out == PopSends(n, tx[n])
<1>1. alias \in [Nodes -> Nat] /\ Good(tx[n]) /\ tx[n].queue # <<>>
  BY TxInvGood DEF AckTimeout, Good, Driven
<1>2. /\ UNCHANGED <<alias, rx, log, lossy>> /\ losses' \in Nat
      /\ tx' = [tx EXCEPT ![n] = t]
      /\ wire' = [wire EXCEPT ![n] = @ \o out]
  BY DEF AckTimeout, Pop, RxTypeOK
<1>3. /\ WireGood(n, out)
      /\ \A g \in Range(out) : g.kind # "answer"
      /\ t.inFlight => AskedOn(Range(out), Alias(n), Head(t.queue).dst)
      /\ \A i \in 1..Len(t.queue) : \E j \in 1..Len(tx[n].queue) : t.queue[i] = tx[n].queue[j]
  BY <1>1, PopGoesOn
<1>. HIDE DEF t, out
<1>4. Moved({}, n, out)
  BY <1>2, <1>3, SendMoves
<1>. QED
  BY <1>2, <1>3, <1>4, SenderAlone

\* A slot is given up.
LEMMA ReassemblyTimeoutStep ==
  ASSUME DeliveryInv, NEW n \in Nodes, ReassemblyTimeout(n)
  PROVE  Delivery'
<1>. USE DEF DeliveryInv, Delivery
<1>1. /\ UNCHANGED <<alias, tx, wire, log, verdict, lossy, losses>>
      /\ rx' = [rx EXCEPT ![n] = Free]
  BY DEF ReassemblyTimeout
<1>3. Free \in RxType /\ Len(Free.buf) <= DatagramMax /\ Free.src = NoAlias
  <2>1. <<>> \in Seq(Nat \X Nat) /\ Len(<<>>) = 0 /\ 0 <= DatagramMax
    BY EmptySeq, ConstantsAssumption
  <2>. QED
    BY <2>1 DEF Free, RxType
<1>4. rx' \in [Nodes -> RxType] /\ \A m \in Nodes : Len(rx'[m].buf) <= DatagramMax
  BY <1>1, <1>3 DEF RxTypeOK
<1>5. RxTypeOK' /\ Uncorrupted' /\ WiresGood' /\ Settled'
  BY <1>1, <1>4 DEF RxTypeOK, Uncorrupted, WiresGood, Settled
<1>6. AnswersFair'
  BY <1>1 DEF AnswersFair, Fair, Intact
<1>7. NothingForgotten'
  BY <1>1 DEF NothingForgotten, OnTheWay, Alias
<1>8. ASSUME NEW m \in Intact, NEW e \in Nodes
      PROVE  Slot(m, e)'
  <2>1. rx'[e] = IF e = n THEN Free ELSE rx[e]
    BY <1>1 DEF RxTypeOK
  <2>2. Slot(m, e)
    BY DEF SlotsFilled
  <2>3. CASE e = n
    BY <1>3, <2>1, <2>3 DEF Slot
  <2>4. CASE e # n
    BY <1>1, <2>1, <2>2, <2>4 DEF Slot, Alias
  <2>. QED
    BY <2>3, <2>4
<1>. QED
  BY <1>1, <1>5, <1>6, <1>7, <1>8 DEF SlotsFilled, Intact

\* A frame is lost: its sender and its receiver are excused.
LEMMA LoseStep ==
  ASSUME DeliveryInv, NEW n \in Nodes, Lose(n)
  PROVE  Delivery'
<1>. USE DEF DeliveryInv, Delivery
<1>. DEFINE f == Head(wire[n])
<1>1. /\ UNCHANGED <<alias, tx, rx, log, verdict>> /\ wire[n] # <<>>
      /\ wire' = [wire EXCEPT ![n] = Tail(@)]
      /\ lossy' = lossy \cup {n, f.dst[1]} /\ losses' = losses + 1
  BY DEF Lose
<1>2. Moved({n}, n, <<>>)
  BY <1>1, DropMoves
<1>3. f \in Frame /\ f.src[1] = n
  <2>1. WireGood(n, wire[n])
    BY DEF WiresGood
  <2>2. f \in Frame /\ f \in Range(wire[n])
    BY <1>1, <2>1, TailWire
  <2>. QED
    BY <2>1, <2>2 DEF WireGood
<1>4. f.dst[1] \in Nodes
  BY <1>3 DEF Frame, Aliases
<1>. HIDE DEF f
<1>5. WiresGood'
  BY <1>2 DEF Moved
<1>6. AnswersFair'
  BY <1>1, <1>2, AnswersKeep, NothingGood
<1>7. Settled'
  BY <1>1, <1>4 DEF Settled, RxTypeOK
<1>8. ASSUME NEW m \in Nodes \ lossy'
      PROVE  OnTheWay(m)'
  <2>1. m \in Nodes \ lossy /\ m # n /\ m # f.dst[1]
    BY <1>1
  <2>2. OnTheWay(m)
    BY <2>1 DEF NothingForgotten
  <2>3. f.src # Alias(m) /\ f.dst # Alias(m)
    BY <1>3, <2>1 DEF Alias
  <2>. QED
    BY <1>1, <1>2, <2>1, <2>2, <2>3, WayKeeps DEF f
<1>9. ASSUME NEW m \in Intact', NEW e \in Nodes
      PROVE  Slot(m, e)'
  <2>1. MaxLost # 0
    BY ConstantsAssumption DEF Lose, RxTypeOK
  <2>2. m \in Nodes \ lossy /\ m # n /\ Slot(m, e)
    BY <1>1, <2>1 DEF SlotsFilled, Intact
  <2>. QED
    BY <1>1, <1>2, <2>1, <2>2, SlotKeeps
<1>10. RxTypeOK' /\ Uncorrupted'
  BY <1>1, <1>4 DEF RxTypeOK, Uncorrupted
<1>. QED
  BY <1>5, <1>6, <1>7, <1>8, <1>9, <1>10 DEF NothingForgotten, SlotsFilled, Intact

\* A node loses its alias: what others send to the old one is never answered, but
\* all of a datagram goes that way or nothing of it.
LEMMA AliasLostStep ==
  ASSUME DeliveryInv, NEW n \in Nodes, LccDatagramAliasLost(n)
  PROVE  Delivery'
<1>. USE DEF DeliveryInv, Delivery
<1>1. UNCHANGED <<wire, log, losses>> /\ lossy' = Nodes /\ rx' = [rx EXCEPT ![n] = Free]
  BY DEF LccDatagramAliasLost
<1>2. Free \in RxType /\ Len(Free.buf) <= DatagramMax
  <2>1. <<>> \in Seq(Nat \X Nat) /\ Len(<<>>) = 0 /\ 0 <= DatagramMax
    BY EmptySeq, ConstantsAssumption
  <2>. QED
    BY <2>1 DEF Free, RxType
<1>3. rx' \in [Nodes -> RxType] /\ \A m \in Nodes : Len(rx'[m].buf) <= DatagramMax
  BY <1>1, <1>2 DEF RxTypeOK
<1>4. RxTypeOK' /\ WiresGood' /\ Settled' /\ NothingForgotten' /\ Uncorrupted'
  BY <1>1, <1>3 DEF RxTypeOK, WiresGood, Settled, NothingForgotten, Uncorrupted
<1>5. \A m \in Nodes : \A f \in Range(wire[m]) : f.dst[1] \in Nodes
  <2>1. \A m \in Nodes : Range(wire[m]) \subseteq Frame
    BY RangeOfSeq DEF WiresGood, WireGood
  <2>. QED
    BY <2>1 DEF Frame, Aliases
<1>6. AnswersFair'
  BY <1>1, <1>5 DEF AnswersFair, Fair, Intact
<1>7. ASSUME NEW m \in Intact', NEW e \in Nodes
      PROVE  Slot(m, e)'
  <2>1. Slot(m, e)
    BY <1>1 DEF SlotsFilled, Intact
  <2>2. rx'[e] = IF e = n THEN Free ELSE rx[e]
    BY <1>1 DEF RxTypeOK
  <2>3. e # n => Alias(e)' = Alias(e)
    BY DEF LccDatagramAliasLost, Alias, TxInv, TxTypeOK
  <2>4. Free.src = NoAlias
    BY DEF Free
  <2>. QED
    BY <1>1, <2>1, <2>2, <2>3, <2>4 DEF Slot
<1>. QED
  BY <1>4, <1>6, <1>7 DEF SlotsFilled

-----------------------------------------------------------------------------
(* The theorems *)

\* The initial state satisfies the invariant.
LEMMA DeliveryInit == Init => DeliveryInv
<1>. SUFFICES ASSUME Init PROVE DeliveryInv
  OBVIOUS
<1>1. TxInv
  BY TxInvInit
<1>2. Free \in RxType /\ Len(Free.buf) <= DatagramMax /\ Free.src = NoAlias
  <2>1. <<>> \in Seq(Nat \X Nat) /\ Len(<<>>) = 0 /\ 0 <= DatagramMax
    BY EmptySeq, ConstantsAssumption
  <2>. QED
    BY <2>1 DEF Free, RxType
<1>3. RxTypeOK
  <2>1. <<>> \in Seq(Seq(Nat \X Nat))
    BY EmptySeq
  <2>. QED
    BY <1>2, <2>1 DEF Init, RxTypeOK
<1>4. WiresGood /\ AnswersFair
  BY NothingGood DEF Init, WiresGood, AnswersFair
<1>5. SlotsFilled
  BY <1>2 DEF Init, SlotsFilled, Slot
<1>6. Settled /\ NothingForgotten
  <2>1. \A n \in Nodes : ~tx[n].inFlight /\ Len(tx[n].queue) = 0 /\ alias[n] = 0
    BY DEF Init, Idle, Sender
  <2>. QED
    BY <2>1 DEF Settled, NothingForgotten, OnTheWay
<1>7. Uncorrupted
  BY DEF Init, Uncorrupted
<1>. QED
  BY <1>1, <1>3, <1>4, <1>5, <1>6, <1>7 DEF DeliveryInv, Delivery

\* Every step keeps the invariant.
LEMMA DeliveryNext == DeliveryInv /\ [Next]_vars => DeliveryInv'
<1>. SUFFICES ASSUME DeliveryInv, [Next]_vars PROVE DeliveryInv'
  OBVIOUS
<1>1. TxInv'
  BY TxInvNext DEF DeliveryInv
<1>2. ASSUME NEW r \in Routes, NEW len \in Lengths, LccDatagramSend(r[1], r[2], len)
      PROVE  Delivery'
  BY <1>2, SendStep
<1>3. ASSUME NEW n \in Nodes, Receive(n)
      PROVE  Delivery'
  BY <1>3, FrameStep, MessageStep, NobodyStep DEF Receive
<1>4. ASSUME NEW n \in Nodes, Lose(n) \/ LccDatagramAliasLost(n)
      PROVE  Delivery'
  BY <1>4, LoseStep, AliasLostStep
<1>5. ASSUME NEW n \in Nodes, LccDatagramRunTimers(n)
      PROVE  Delivery'
  BY <1>5, ReassemblyTimeoutStep, ResendStep, AckTimeoutStep DEF LccDatagramRunTimers
<1>6. CASE UNCHANGED vars
  <2>. USE <1>6 DEF vars, DeliveryInv, Delivery
  <2>1. RxTypeOK' /\ WiresGood' /\ Settled' /\ Uncorrupted'
    BY DEF RxTypeOK, WiresGood, Settled, Uncorrupted
  <2>2. SlotsFilled' /\ NothingForgotten' /\ AnswersFair'
    BY DEF SlotsFilled, Slot, NothingForgotten, OnTheWay, Alias, AnswersFair, Fair, Intact
  <2>. QED
    BY <1>1, <2>1, <2>2
<1>. QED
  BY <1>1, <1>2, <1>3, <1>4, <1>5, <1>6 DEF Next, DeliveryInv

\* Every behaviour satisfies the invariant.
LEMMA DeliveryAlways == Spec => []DeliveryInv
  BY DeliveryInit, DeliveryNext, PTL DEF Spec

\* The variables keep their types, no reassembly buffer of datagram.c ever holds
\* more than LCC_DATAGRAM_MAX and no queue more than TX_QUEUE_LEN, whatever
\* arrives and whatever is lost.
THEOREM DatagramTyped == Spec => []TypeOK
<1>1. DeliveryInv => TypeOK
  <2>. SUFFICES ASSUME DeliveryInv PROVE TypeOK
    OBVIOUS
  <2>1. TxTypeOK /\ QueueBounded /\ RxTypeOK
    BY DEF DeliveryInv, Delivery, TxInv
  <2>2. wire = [n \in Nodes |-> wire[n]] /\ \A n \in Nodes : wire[n] \in Seq(Frame)
    BY DEF DeliveryInv, Delivery, WiresGood, WireGood
  <2>3. wire \in [Nodes -> Seq(Frame)]
    BY <2>2
  <2>. QED
    BY <2>1, <2>3 DEF TxTypeOK, QueueBounded, RxTypeOK, TypeOK
<1>. QED
  BY <1>1, DeliveryAlways, PTL

\* However the frames of any number of senders interleave at the one reassembly
\* slot of a node, what a handler gets from a sender that lost no frame is one
\* whole datagram, in order and with nobody else's frames in it.
THEOREM DatagramsArriveWhole == Spec => []Uncorrupted
<1>1. DeliveryInv => Uncorrupted
  BY DEF DeliveryInv, Delivery
<1>. QED
  BY <1>1, DeliveryAlways, PTL

\* A sender that lost nothing is never told that its datagram is invalid because
\* another one has the slot: it is told to try again.
THEOREM RejectionsAreTemporary == Spec => []ContentionIsTemporary
<1>1. DeliveryInv => ContentionIsTemporary
  <2>. SUFFICES ASSUME DeliveryInv, NEW n \in Nodes, NEW i \in DOMAIN wire[n],
                       wire[n][i].kind = "answer", wire[n][i].dst[1] \notin lossy
                PROVE  wire[n][i].code \in Temporary \cup Verdicts
    BY DEF ContentionIsTemporary
  <2>1. wire[n][i] \in Range(wire[n])
    BY DEF Range
  <2>2. wire[n][i] \in Frame
    BY DEF DeliveryInv, Delivery, WiresGood, WireGood
  <2>3. wire[n][i].dst[1] \in Intact
    BY <2>2 DEF Frame, Aliases, Intact
  <2>. QED
    BY <2>1, <2>3 DEF DeliveryInv, Delivery, AnswersFair, Fair
<1>. QED
  BY <1>1, DeliveryAlways, PTL

\* As long as a datagram of a sender that lost nothing is in flight, its last frame
\* or the answer to it is on its way: an acknowledgement timeout of datagram.c
\* never gives up a datagram that nobody will answer.
THEOREM EveryDatagramIsAnswered == Spec => []NoSilence
<1>1. DeliveryInv => NoSilence
  <2>. SUFFICES ASSUME DeliveryInv, NEW n \in Nodes \ lossy, tx[n].inFlight
                PROVE  ~Quiet(Alias(n))
    BY DEF NoSilence
  <2>. DEFINE to == Head(tx[n].queue).dst
  <2>1. AskedOn(Range(wire[n]), Alias(n), to) \/ AnsweredOn(Range(wire[to[1]]), to, Alias(n))
    BY DEF DeliveryInv, Delivery, NothingForgotten, OnTheWay
  <2>2. to[1] \in Nodes
    <3>1. tx[n].queue \in Seq(Entry) /\ tx[n].queue # <<>>
      BY TxInvGood DEF DeliveryInv, Good, Driven, TxType
    <3>2. Head(tx[n].queue) \in Entry
      BY <3>1, HeadTailProperties
    <3>. QED
      BY <3>2 DEF Entry, Aliases
  <2>3. PICK m \in Nodes : \E f \in Range(wire[m]) : Alias(n) \in {f.src, f.dst}
    BY <2>1, <2>2 DEF AskedOn, AnsweredOn
  <2>4. PICK i \in DOMAIN wire[m] : Alias(n) \in {wire[m][i].src, wire[m][i].dst}
    BY <2>3 DEF Range
  <2>. QED
    BY <2>4 DEF Quiet
<1>. QED
  BY <1>1, DeliveryAlways, PTL

-----------------------------------------------------------------------------
(* Implementing the courier: the invariant *)

\* A frame that decides about a datagram: its last one, or the answer to it
Closing(f) == f.kind \in {"one", "final"}
Decisive(f) == Closing(f) \/ f.kind = "answer"

\* Who sent the datagram a decisive frame is about
Asker(f) == IF f.kind = "answer" THEN f.dst ELSE f.src

\* On one wire, and on those of two nodes, no two frames are about datagrams of the
\* same sender
Single(w) ==
  \A i, j \in 1..Len(w) : Decisive(w[i]) /\ Decisive(w[j]) /\ Asker(w[i]) = Asker(w[j]) => i = j

Apart(F, G) == \A f \in F, g \in G : Decisive(f) /\ Decisive(g) => Asker(f) # Asker(g)

\* The datagrams on a wire are in order
Rising(w) == \A i, j \in 1..Len(w) : i < j /\ Closing(w[i]) /\ Closing(w[j]) => w[i].num < w[j].num

\* Nobody waits for two things at once, and each node sends its datagrams in order.
OneAtATime ==
  /\ \A m \in Nodes : Single(wire[m]) /\ Rising(wire[m])
  /\ \A m1, m2 \in Nodes : m1 # m2 => Apart(Range(wire[m1]), Range(wire[m2]))

\* The numbers of the datagrams of n that handlers took
Taken(n) == {LastNum(log[n][k]) : k \in DOMAIN log[n]}

\* The datagrams of n are numbered as they were queued, and still undecided in its queue.
Numbered(n) ==
  LET q == tx[n].queue IN
  /\ \A i, j \in 1..Len(q) : i < j => q[i].num < q[j].num
  /\ \A i \in 1..Len(q) : q[i].num \in DOMAIN verdict[n] /\ verdict[n][q[i].num] = "queued"

\* Datagram i of n has been sent: the queue is not past its head, which is in flight
SentBy(n, i) ==
  /\ i \in DOMAIN verdict[n]
  /\ \A k \in 1..Len(tx[n].queue) :
       \/ i < tx[n].queue[k].num
       \/ i = tx[n].queue[k].num /\ k = 1 /\ tx[n].inFlight

\* Node n waits to hear of datagram i
Awaits(n, i) == tx[n].inFlight /\ i = tx[n].queue[1].num

\* Handlers take datagrams in order, those that were sent.
InOrder(n) ==
  /\ \A j, k \in DOMAIN log[n] : j < k => LastNum(log[n][j]) < LastNum(log[n][k])
  /\ \A i \in Taken(n) : SentBy(n, i)

\* The last frame of a datagram is followed by nothing that is older, and is what its
\* sender waits for unless that has another alias.
Outgoing(n, f) ==
  Closing(f) =>
    /\ SentBy(n, f.num)
    /\ \A i \in Taken(n) : i < f.num
    /\ \A k \in 1..Len(tx[n].queue) : f.num = tx[n].queue[k].num => f.src = Alias(n)
    /\ f.src = Alias(n) => Awaits(n, f.num)

\* An answer says what became of the datagram its receiver waits for.
Incoming(n, f) ==
  f.kind = "answer" /\ f.dst = Alias(n) =>
    /\ Awaits(n, f.num)
    /\ IF f.code = "ok" THEN f.num \in Taken(n) ELSE \A i \in Taken(n) : i < f.num

\* Nobody has been asked by an alias that is not in use yet.
Known(f) == Decisive(f) => Asker(f)[2] <= alias[Asker(f)[1]]

\* What the wires say of the datagrams of n
Truthful(n) ==
  /\ \A f \in Range(wire[n]) : Outgoing(n, f)
  /\ \A m \in Nodes : \A f \in Range(wire[m]) : Incoming(n, f)

\* Where no datagram has more than two frames there is no frame in the middle.
NoMiddle(f) == Lengths \subseteq 1..2 => f.kind # "middle"

Ordered ==
  /\ OneAtATime
  /\ \A m \in Nodes : \A f \in Range(wire[m]) : Known(f) /\ NoMiddle(f)
  /\ \A n \in Nodes : Numbered(n) /\ InOrder(n) /\ Truthful(n)

\* The inductive invariant of the transport as a courier
OrderInv == DeliveryInv /\ Ordered

\* No frame is lost, or every datagram is at most a first and a final frame
Gapless == MaxLost = 0 \/ Lengths \subseteq 1..2

-----------------------------------------------------------------------------
(* Implementing the courier: frames on a wire *)

\* What is left of a wire is in order, and newer than the front frame was.
LEMMA TailRising ==
  ASSUME NEW w \in Seq(Frame), w # <<>>, Rising(w)
  PROVE  /\ Rising(Tail(w))
         /\ Closing(Head(w)) => \A f \in Range(Tail(w)) : Closing(f) => Head(w).num < f.num
<1>. DEFINE t == Tail(w)
<1>1. /\ Len(w) \in Nat /\ 1 \in 1..Len(w) /\ Head(w) = w[1]
      /\ t \in Seq(Frame) /\ Len(t) = Len(w) - 1 /\ DOMAIN t = 1..Len(t)
      /\ \A i \in 1..Len(t) : t[i] = w[i + 1]
  BY HeadTailProperties, LenProperties, EmptySeq
<1>. HIDE DEF t
<1>2. \A i \in 1..Len(t) : i + 1 \in 1..Len(w) /\ t[i] = w[i + 1] /\ 1 < i + 1
  BY <1>1
<1>3. Rising(t)
  BY <1>1, <1>2 DEF Rising
<1>4. Range(t) = {t[i] : i \in 1..Len(t)}
  BY <1>1 DEF Range
<1>5. Closing(Head(w)) => \A f \in Range(t) : Closing(f) => Head(w).num < f.num
  BY <1>1, <1>2, <1>4 DEF Rising
<1>. QED
  BY <1>3, <1>5 DEF t

\* What is left of a wire has nothing more to do with the sender that the front frame
\* was about.
LEMMA TailOrdered ==
  ASSUME NEW w \in Seq(Frame), w # <<>>, Single(w), Rising(w)
  PROVE  /\ Single(Tail(w)) /\ Rising(Tail(w))
         /\ Range(Tail(w)) \subseteq Range(w) /\ Head(w) \in Range(w)
         /\ Decisive(Head(w)) =>
              \A f \in Range(Tail(w)) : Decisive(f) => Asker(f) # Asker(Head(w))
         /\ Closing(Head(w)) => \A f \in Range(Tail(w)) : Closing(f) => Head(w).num < f.num
<1>. DEFINE t == Tail(w)
<1>1. /\ Len(w) \in Nat /\ 1 \in 1..Len(w) /\ Head(w) = w[1]
      /\ t \in Seq(Frame) /\ Len(t) = Len(w) - 1 /\ DOMAIN t = 1..Len(t) /\ DOMAIN w = 1..Len(w)
      /\ \A i \in 1..Len(t) : t[i] = w[i + 1]
  BY HeadTailProperties, LenProperties, EmptySeq
<1>. HIDE DEF t
<1>2. \A i \in 1..Len(t) : i + 1 \in 1..Len(w) /\ t[i] = w[i + 1] /\ 1 < i + 1
  BY <1>1
<1>3. Single(t)
  BY <1>1, <1>2 DEF Single
<1>4. Range(t) = {t[i] : i \in 1..Len(t)} /\ Range(w) = {w[i] : i \in 1..Len(w)}
  BY <1>1 DEF Range
<1>5. Decisive(Head(w)) => \A f \in Range(t) : Decisive(f) => Asker(f) # Asker(Head(w))
  BY <1>1, <1>2, <1>4 DEF Single
<1>. QED
  BY <1>1, <1>2, <1>3, <1>4, <1>5, TailRising DEF t

\* What is sent after older frames keeps the order.
LEMMA ConcatRising ==
  ASSUME NEW u \in Seq(Frame), NEW v \in Seq(Frame), Rising(u), Rising(v),
         \A f \in Range(u), g \in Range(v) : Closing(f) /\ Closing(g) => f.num < g.num
  PROVE  Rising(u \o v)
<1>. DEFINE w == u \o v
<1>1. /\ w \in Seq(Frame) /\ Len(u) \in Nat /\ Len(v) \in Nat /\ Len(w) = Len(u) + Len(v)
      /\ \A i \in 1..(Len(u) + Len(v)) : w[i] = IF i <= Len(u) THEN u[i] ELSE v[i - Len(u)]
      /\ DOMAIN u = 1..Len(u) /\ DOMAIN v = 1..Len(v) /\ DOMAIN w = 1..Len(w)
  BY ConcatProperties, LenProperties
<1>. HIDE DEF w
<1>2. /\ \A i \in 1..Len(u) : u[i] \in Range(u)
      /\ \A i \in 1..Len(v) : v[i] \in Range(v)
  BY <1>1 DEF Range
<1>3. ASSUME NEW i \in 1..Len(w)
      PROVE  \/ i \in 1..Len(u) /\ w[i] = u[i]
             \/ i - Len(u) \in 1..Len(v) /\ i > Len(u) /\ w[i] = v[i - Len(u)]
  BY <1>1
<1>4. Rising(w)
  <2>. SUFFICES ASSUME NEW i \in 1..Len(w), NEW j \in 1..Len(w), i < j, Closing(w[i]), Closing(w[j])
                PROVE  w[i].num < w[j].num
    BY DEF Rising
  <2>1. CASE j \in 1..Len(u) /\ w[j] = u[j]
    <3>1. i \in 1..Len(u) /\ w[i] = u[i]
      BY <1>1, <1>3, <2>1
    <3>. QED
      BY <2>1, <3>1 DEF Rising
  <2>2. CASE i - Len(u) \in 1..Len(v) /\ w[i] = v[i - Len(u)] /\ j - Len(u) \in 1..Len(v) /\ w[j] = v[j - Len(u)]
    <3>1. i - Len(u) < j - Len(u)
      BY <1>1
    <3>. QED
      BY <2>2, <3>1 DEF Rising
  <2>3. CASE i \in 1..Len(u) /\ w[i] = u[i] /\ j - Len(u) \in 1..Len(v) /\ w[j] = v[j - Len(u)]
    BY <1>2, <2>3
  <2>. QED
    BY <1>3, <2>1, <2>2, <2>3
<1>. QED
  BY <1>4 DEF w

\* Two orderly pieces of a wire make an orderly one when they are about different
\* senders and the second is newer.
LEMMA ConcatOrdered ==
  ASSUME NEW u \in Seq(Frame), NEW v \in Seq(Frame),
         Single(u), Rising(u), Single(v), Rising(v), Apart(Range(u), Range(v)),
         \A f \in Range(u), g \in Range(v) : Closing(f) /\ Closing(g) => f.num < g.num
  PROVE  /\ Single(u \o v) /\ Rising(u \o v)
         /\ Range(u \o v) = Range(u) \cup Range(v)
<1>. DEFINE w == u \o v
<1>1. /\ w \in Seq(Frame) /\ Len(u) \in Nat /\ Len(v) \in Nat /\ Len(w) = Len(u) + Len(v)
      /\ \A i \in 1..(Len(u) + Len(v)) : w[i] = IF i <= Len(u) THEN u[i] ELSE v[i - Len(u)]
      /\ DOMAIN u = 1..Len(u) /\ DOMAIN v = 1..Len(v) /\ DOMAIN w = 1..Len(w)
  BY ConcatProperties, LenProperties
<1>. HIDE DEF w
<1>2. /\ \A i \in 1..Len(u) : u[i] \in Range(u)
      /\ \A i \in 1..Len(v) : v[i] \in Range(v)
  BY <1>1 DEF Range
<1>3. ASSUME NEW i \in 1..Len(w)
      PROVE  \/ i \in 1..Len(u) /\ w[i] = u[i]
             \/ i - Len(u) \in 1..Len(v) /\ i > Len(u) /\ w[i] = v[i - Len(u)]
  BY <1>1
<1>4. Single(w)
  <2>. SUFFICES ASSUME NEW i \in 1..Len(w), NEW j \in 1..Len(w),
                       Decisive(w[i]), Decisive(w[j]), Asker(w[i]) = Asker(w[j])
                PROVE  i = j
    BY DEF Single
  <2>1. CASE i \in 1..Len(u) /\ w[i] = u[i] /\ j \in 1..Len(u) /\ w[j] = u[j]
    BY <2>1 DEF Single
  <2>2. CASE i - Len(u) \in 1..Len(v) /\ w[i] = v[i - Len(u)] /\ j - Len(u) \in 1..Len(v) /\ w[j] = v[j - Len(u)]
    <3>1. i - Len(u) = j - Len(u)
      BY <2>2 DEF Single
    <3>. QED
      BY <1>1, <3>1
  <2>3. CASE i \in 1..Len(u) /\ w[i] = u[i] /\ j - Len(u) \in 1..Len(v) /\ w[j] = v[j - Len(u)]
    BY <1>2, <2>3 DEF Apart
  <2>4. CASE j \in 1..Len(u) /\ w[j] = u[j] /\ i - Len(u) \in 1..Len(v) /\ w[i] = v[i - Len(u)]
    BY <1>2, <2>4 DEF Apart
  <2>. QED
    BY <1>3, <2>1, <2>2, <2>3, <2>4
<1>5. Range(w) = Range(u) \cup Range(v)
  BY RangeConcatenation DEF w
<1>. QED
  BY <1>4, <1>5, ConcatRising DEF w

\* Nothing is in order.
LEMMA NothingOrdered == Single(<<>>) /\ Rising(<<>>) /\ <<>> \in Seq(Frame)
  BY DEF Single, Rising

\* The frames of one datagram are in order, and the last of them is the only one that
\* decides.
LEMMA FramesOrdered ==
  ASSUME NEW n \in Nodes, NEW e \in Entry
  PROVE  LET w == FramesOf(Alias(n), e) IN
         /\ Single(w) /\ Rising(w)
         /\ \A f \in Range(w) : NoMiddle(f) /\ f.kind # "answer" /\ f.src = Alias(n) /\ f.num = e.num
<1>. DEFINE w == FramesOf(Alias(n), e)
<1>1. e.len \in Nat \ {0} /\ e.len \in Lengths
  <2>1. e.len \in Lengths
    BY DEF Entry
  <2>2. e.len \in 1..DatagramMax /\ DatagramMax \in Nat
    BY <2>1, ConstantsAssumption
  <2>. QED
    BY <2>1, <2>2
<1>2. DOMAIN w = 1..e.len /\ Len(w) = e.len
  BY <1>1 DEF FramesOf
<1>3. ASSUME NEW i \in 1..e.len
      PROVE  /\ w[i].kind = IF e.len = 1 THEN "one" ELSE IF i = 1 THEN "first"
                            ELSE IF i = e.len THEN "final" ELSE "middle"
             /\ w[i].src = Alias(n) /\ w[i].num = e.num
  BY <1>1 DEF FramesOf
<1>. HIDE DEF w
<1>4. \A i \in 1..e.len : w[i].kind # "answer" /\ (Closing(w[i]) => i = e.len)
  BY <1>1, <1>3 DEF Closing
<1>5. Single(w) /\ Rising(w)
  BY <1>1, <1>2, <1>4 DEF Single, Rising, Decisive
<1>6. \A i \in 1..e.len : NoMiddle(w[i])
  <2>. SUFFICES ASSUME NEW i \in 1..e.len, Lengths \subseteq 1..2
                PROVE  w[i].kind # "middle"
    BY DEF NoMiddle
  <2>1. e.len = 1 \/ e.len = 2
    BY <1>1
  <2>. QED
    BY <1>1, <1>3, <2>1
<1>7. \A f \in Range(w) : NoMiddle(f) /\ f.kind # "answer" /\ f.src = Alias(n) /\ f.num = e.num
  BY <1>2, <1>3, <1>4, <1>6 DEF Range
<1>. QED
  BY <1>5, <1>7 DEF w

\* An answer is one frame about the datagram it answers.
LEMMA AnswerOrdered ==
  ASSUME NEW from, NEW f, NEW code
  PROVE  LET w == Answer(from, f, code) IN
         /\ Single(w) /\ Rising(w)
         /\ \A g \in Range(w) :
              /\ g.kind = "answer" /\ g.dst = f.src /\ g.num = f.num /\ g.code = code
<1>. DEFINE g == [kind |-> "answer", src |-> from, dst |-> f.src, num |-> f.num, part |-> 0, code |-> code]
<1>1. Answer(from, f, code) = <<g>> /\ Len(<<g>>) = 1 /\ Range(<<g>>) = {g}
  BY DEF Answer, Range
<1>2. g.kind = "answer" /\ g.dst = f.src /\ g.num = f.num /\ g.code = code
  OBVIOUS
<1>. HIDE DEF g
<1>3. Single(<<g>>) /\ Rising(<<g>>)
  BY <1>1 DEF Single, Rising
<1>. QED
  BY <1>1, <1>2, <1>3

-----------------------------------------------------------------------------
(* Implementing the courier: what a step does to the wires *)

\* What is on the wires after a step
LEMMA WireRange ==
  ASSUME WiresGood, NEW taken \in SUBSET Nodes, \A m \in taken : wire[m] # <<>>,
         NEW d \in Nodes, NEW out, WireGood(d, out), Changed(taken, d, out)
  PROVE  /\ \A m \in Nodes : Range(wire'[m]) = Range(Kept(taken, m)) \cup (IF m = d THEN Range(out) ELSE {})
         /\ \A m \in Nodes : Range(Kept(taken, m)) \subseteq Range(wire[m])
         /\ \A m \in Nodes : Kept(taken, m) \in Seq(Frame)
<1>. SUFFICES ASSUME NEW m \in Nodes
              PROVE  /\ Range(wire'[m]) = Range(Kept(taken, m)) \cup (IF m = d THEN Range(out) ELSE {})
                     /\ Range(Kept(taken, m)) \subseteq Range(wire[m])
                     /\ Kept(taken, m) \in Seq(Frame)
  OBVIOUS
<1>1. WireGood(m, Kept(taken, m)) /\ Range(Kept(taken, m)) \subseteq Range(wire[m])
  BY TailWire DEF WiresGood, Kept
<1>. DEFINE more == IF m = d THEN out ELSE <<>>
<1>2. WireGood(m, more) /\ Range(more) = IF m = d THEN Range(out) ELSE {}
  BY NothingGood
<1>3. wire'[m] = Kept(taken, m) \o more
  BY DEF Changed
<1>. HIDE DEF more
<1>. DEFINE kept == Kept(taken, m)
<1>. HIDE DEF kept
<1>4. Range(kept \o more) = Range(kept) \cup Range(more)
  <2>1. WireGood(m, kept) /\ WireGood(m, more)
    BY <1>1, <1>2 DEF kept
  <2>2. /\ WireGood(m, kept \o more)
        /\ Range(kept \o more) = Range(kept) \cup Range(more)
        /\ kept # <<>> => kept \o more # <<>> /\ Head(kept \o more) = Head(kept)
    BY <2>1, ConcatWire
  <2>. QED
    BY <2>2
<1>. QED
  BY <1>1, <1>2, <1>3, <1>4 DEF WireGood, kept

\* What is kept of the wires is in order, and about other senders than the front
\* frame that was taken.
LEMMA KeptOrdered ==
  ASSUME WiresGood, OneAtATime, NEW taken \in SUBSET Nodes, \A m \in taken : wire[m] # <<>>
  PROVE  /\ \A m \in Nodes : Single(Kept(taken, m)) /\ Rising(Kept(taken, m))
         /\ \A m1, m2 \in Nodes : m1 # m2 => Apart(Range(Kept(taken, m1)), Range(Kept(taken, m2)))
         /\ \A n \in taken : Decisive(Head(wire[n])) =>
              \A m \in Nodes : \A f \in Range(Kept(taken, m)) :
                Decisive(f) => Asker(f) # Asker(Head(wire[n]))
         /\ \A n \in taken : Closing(Head(wire[n])) =>
              \A f \in Range(Kept(taken, n)) : Closing(f) => Head(wire[n]).num < f.num
<1>1. \A m \in Nodes : wire[m] \in Seq(Frame) /\ Single(wire[m]) /\ Rising(wire[m])
  BY DEF WiresGood, WireGood, OneAtATime
<1>2. ASSUME NEW m \in Nodes
      PROVE  /\ Single(Kept(taken, m)) /\ Rising(Kept(taken, m))
             /\ Range(Kept(taken, m)) \subseteq Range(wire[m])
  BY <1>1, TailOrdered DEF Kept
<1>3. \A m1, m2 \in Nodes : m1 # m2 => Apart(Range(Kept(taken, m1)), Range(Kept(taken, m2)))
  BY <1>2 DEF OneAtATime, Apart
<1>4. ASSUME NEW n \in taken, Decisive(Head(wire[n])), NEW m \in Nodes,
             NEW f \in Range(Kept(taken, m)), Decisive(f)
      PROVE  Asker(f) # Asker(Head(wire[n]))
  <2>0. n \in Nodes /\ wire[n] # <<>>
    OBVIOUS
  <2>1. CASE m = n
    BY <1>1, <1>4, <2>0, <2>1, TailOrdered DEF Kept
  <2>2. CASE m # n
    <3>1. Head(wire[n]) \in Range(wire[n])
      BY <1>1, <2>0, TailOrdered
    <3>2. f \in Range(wire[m]) /\ Apart(Range(wire[m]), Range(wire[n]))
      BY <1>2, <2>0, <2>2 DEF OneAtATime
    <3>. QED
      BY <1>4, <3>1, <3>2 DEF Apart
  <2>. QED
    BY <2>1, <2>2
<1>5. ASSUME NEW n \in taken, Closing(Head(wire[n]))
      PROVE  \A f \in Range(Kept(taken, n)) : Closing(f) => Head(wire[n]).num < f.num
  <2>0. n \in Nodes /\ wire[n] # <<>>
    OBVIOUS
  <2>. QED
    BY <1>1, <1>5, <2>0, TailOrdered DEF Kept
<1>. QED
  BY <1>2, <1>3, <1>4, <1>5

\* A node that sends about a sender nothing on the wires is about keeps the order.
LEMMA OneAtATimeKeeps ==
  ASSUME WiresGood, OneAtATime, NEW taken \in SUBSET Nodes, \A m \in taken : wire[m] # <<>>,
         NEW d \in Nodes, NEW out, WireGood(d, out), Changed(taken, d, out),
         Single(out), Rising(out),
         \A m \in Nodes : Apart(Range(Kept(taken, m)), Range(out)),
         \A f \in Range(Kept(taken, d)), g \in Range(out) : Closing(f) /\ Closing(g) => f.num < g.num
  PROVE  OneAtATime'
<1>1. \A m \in Nodes : Range(wire'[m]) = Range(Kept(taken, m)) \cup (IF m = d THEN Range(out) ELSE {})
  BY WireRange
<1>2. \A m \in Nodes : Kept(taken, m) \in Seq(Frame) /\ Single(Kept(taken, m)) /\ Rising(Kept(taken, m))
  BY WireRange, KeptOrdered
<1>3. \A m1, m2 \in Nodes : m1 # m2 => Apart(Range(Kept(taken, m1)), Range(Kept(taken, m2)))
  BY KeptOrdered
<1>4. ASSUME NEW m \in Nodes PROVE Single(wire'[m]) /\ Rising(wire'[m])
  <2>. DEFINE more == IF m = d THEN out ELSE <<>>
  <2>1. wire'[m] = Kept(taken, m) \o more
    BY DEF Changed
  <2>2. more \in Seq(Frame) /\ Single(more) /\ Rising(more)
    BY NothingOrdered DEF WireGood
  <2>3. Apart(Range(Kept(taken, m)), Range(more))
    BY NothingGood DEF Apart
  <2>4. \A f \in Range(Kept(taken, m)), g \in Range(more) : Closing(f) /\ Closing(g) => f.num < g.num
    BY NothingGood
  <2>. HIDE DEF more
  <2>. QED
    BY <1>2, <2>1, <2>2, <2>3, <2>4, ConcatOrdered
<1>5. ASSUME NEW m1 \in Nodes, NEW m2 \in Nodes, m1 # m2
      PROVE  Apart(Range(wire'[m1]), Range(wire'[m2]))
  <2>1. /\ Apart(Range(Kept(taken, m1)), Range(Kept(taken, m2)))
        /\ Apart(Range(Kept(taken, m1)), Range(out))
        /\ Apart(Range(Kept(taken, m2)), Range(out))
    BY <1>3, <1>5
  <2>2. /\ Range(wire'[m1]) = Range(Kept(taken, m1)) \cup (IF m1 = d THEN Range(out) ELSE {})
        /\ Range(wire'[m2]) = Range(Kept(taken, m2)) \cup (IF m2 = d THEN Range(out) ELSE {})
    BY <1>1
  <2>. QED
    BY <1>5, <2>1, <2>2 DEF Apart
<1>. QED
  BY <1>4, <1>5 DEF OneAtATime

-----------------------------------------------------------------------------
(* Implementing the courier: what a step leaves true *)

\* The nodes in `taken` have their front frame handled and d sends out.
Exchange(taken, d, out) ==
  /\ taken \in SUBSET Nodes /\ \A m \in taken : wire[m] # <<>>
  /\ d \in Nodes /\ WireGood(d, out) /\ Changed(taken, d, out)

\* What holds of a node is about its own variables.
LEMMA OwnVariables ==
  ASSUME NEW m \in Nodes, tx'[m] = tx[m], verdict'[m] = verdict[m], log'[m] = log[m],
         alias'[m] = alias[m]
  PROVE  /\ Numbered(m)' <=> Numbered(m)
         /\ InOrder(m)' <=> InOrder(m)
         /\ \A f : Outgoing(m, f)' <=> Outgoing(m, f)
         /\ \A f : Incoming(m, f)' <=> Incoming(m, f)
<1>1. Alias(m)' = Alias(m) /\ Taken(m)' = Taken(m)
  BY DEF Alias, Taken
<1>2. \A i : SentBy(m, i)' <=> SentBy(m, i)
  BY DEF SentBy
<1>3. \A i : Awaits(m, i)' <=> Awaits(m, i)
  BY DEF Awaits
<1>4. \A f : Outgoing(m, f)' <=> Outgoing(m, f)
  BY <1>1, <1>2, <1>3 DEF Outgoing
<1>5. \A f : Incoming(m, f)' <=> Incoming(m, f)
  BY <1>1, <1>3 DEF Incoming
<1>6. InOrder(m)' <=> InOrder(m)
  BY <1>1, <1>2 DEF InOrder
<1>. QED
  BY <1>4, <1>5, <1>6 DEF Numbered

\* So it stays true while what is sent agrees with it.
LEMMA StaysTrue ==
  ASSUME WiresGood, NEW m \in Nodes, Numbered(m), InOrder(m), Truthful(m),
         tx'[m] = tx[m], verdict'[m] = verdict[m], log'[m] = log[m], alias'[m] = alias[m],
         NEW taken, NEW d, NEW out, Exchange(taken, d, out),
         \A g \in Range(out) : (d = m => Outgoing(m, g)) /\ Incoming(m, g)
  PROVE  (Numbered(m) /\ InOrder(m) /\ Truthful(m))'
<1>1. /\ Numbered(m)' <=> Numbered(m)
      /\ InOrder(m)' <=> InOrder(m)
      /\ \A f : Outgoing(m, f)' <=> Outgoing(m, f)
      /\ \A f : Incoming(m, f)' <=> Incoming(m, f)
  BY OwnVariables
<1>2. /\ \A l \in Nodes : Range(wire'[l]) = Range(Kept(taken, l)) \cup (IF l = d THEN Range(out) ELSE {})
      /\ \A l \in Nodes : Range(Kept(taken, l)) \subseteq Range(wire[l])
  BY WireRange DEF Exchange
<1>3. \A f \in Range(wire'[m]) : Outgoing(m, f)
  BY <1>2 DEF Truthful
<1>4. \A l \in Nodes : \A f \in Range(wire'[l]) : Incoming(m, f)
  BY <1>2 DEF Truthful
<1>. QED
  BY <1>1, <1>3, <1>4 DEF Truthful

\* No frame comes from an alias that is not in use, or is in the middle of a short
\* datagram, while those sent do not.
LEMMA StaysKnown ==
  ASSUME WiresGood, \A m \in Nodes : \A f \in Range(wire[m]) : Known(f) /\ NoMiddle(f),
         alias' = alias, NEW taken, NEW d, NEW out, Exchange(taken, d, out),
         \A g \in Range(out) : Known(g) /\ NoMiddle(g)
  PROVE  (\A m \in Nodes : \A f \in Range(wire[m]) : Known(f) /\ NoMiddle(f))'
<1>1. /\ \A l \in Nodes : Range(wire'[l]) = Range(Kept(taken, l)) \cup (IF l = d THEN Range(out) ELSE {})
      /\ \A l \in Nodes : Range(Kept(taken, l)) \subseteq Range(wire[l])
  BY WireRange DEF Exchange
<1>2. \A f : (Known(f)' <=> Known(f)) /\ (NoMiddle(f)' <=> NoMiddle(f))
  BY DEF Known, NoMiddle
<1>3. \A m \in Nodes : \A f \in Range(wire'[m]) : Known(f) /\ NoMiddle(f)
  BY <1>1
<1>. QED
  BY <1>2, <1>3

\* A frame is handled or lost, and that is all.
LEMMA TakenOnly ==
  ASSUME WiresGood, Ordered, UNCHANGED <<alias, tx, verdict, log>>,
         NEW taken, NEW d, Exchange(taken, d, <<>>)
  PROVE  Ordered'
<1>1. Range(<<>>) = {} /\ Single(<<>>) /\ Rising(<<>>)
  BY NothingGood, NothingOrdered
<1>2. OneAtATime'
  <2>1. PICK none : none = <<>>
    OBVIOUS
  <2>2. \A m \in Nodes : Apart(Range(Kept(taken, m)), Range(none))
    BY <1>1, <2>1 DEF Apart
  <2>3. \A f \in Range(Kept(taken, d)), g \in Range(none) : Closing(f) /\ Closing(g) => f.num < g.num
    BY <1>1, <2>1
  <2>4. OneAtATime /\ Exchange(taken, d, none) /\ Single(none) /\ Rising(none)
    BY <1>1, <2>1 DEF Ordered
  <2>. QED
    BY <2>2, <2>3, <2>4, OneAtATimeKeeps DEF Exchange
<1>3. (\A m \in Nodes : \A f \in Range(wire[m]) : Known(f) /\ NoMiddle(f))'
  <2>1. \A m \in Nodes : \A f \in Range(wire[m]) : Known(f) /\ NoMiddle(f)
    BY DEF Ordered
  <2>2. \A g \in Range(<<>>) : Known(g) /\ NoMiddle(g)
    BY <1>1
  <2>. QED
    BY <2>1, <2>2, StaysKnown
<1>4. ASSUME NEW m \in Nodes
      PROVE  (Numbered(m) /\ InOrder(m) /\ Truthful(m))'
  <2>1. Numbered(m) /\ InOrder(m) /\ Truthful(m)
    BY DEF Ordered
  <2>2. \A g \in Range(<<>>) : (d = m => Outgoing(m, g)) /\ Incoming(m, g)
    BY <1>1
  <2>. QED
    BY <2>1, <2>2, StaysTrue
<1>. QED
  BY <1>2, <1>3, <1>4 DEF Ordered

-----------------------------------------------------------------------------
(* Implementing the courier: receiving *)

\* Handling the next frame of n, as an exchange
LEMMA HandleExchange ==
  ASSUME WiresGood, NEW n \in Nodes, NEW d \in Nodes, wire[n] # <<>>,
         NEW out, WireGood(d, out), Handle(n, d, out)
  PROVE  Exchange({n}, d, out)
  BY HandleMoves DEF Exchange

\* The next frame of a wire
LEMMA NextFrame ==
  ASSUME WiresGood, NEW n \in Nodes, wire[n] # <<>>
  PROVE  /\ Head(wire[n]) \in Frame /\ Head(wire[n]) \in Range(wire[n])
         /\ Head(wire[n]).src[1] = n
<1>1. WireGood(n, wire[n])
  BY DEF WiresGood
<1>2. Head(wire[n]) \in Frame /\ Head(wire[n]) \in Range(wire[n])
  BY <1>1, TailWire
<1>. QED
  BY <1>1, <1>2 DEF WireGood

\* What becomes of a frame of a datagram, while none is lost or none is in the middle:
\* only the last one is answered, and taken when the answer is OK.
FrameResult(n, d, f) ==
  \/ ~Closing(f) /\ Handle(n, d, <<>>) /\ log' = log
  \/ /\ Closing(f)
     /\ \E code \in Verdicts \cup Transport, buf \in Seq(Nat \X Nat) :
          /\ Handle(n, d, Answer(Alias(d), f, code))
          /\ IF code = "ok" THEN LastNum(buf) = f.num /\ log' = [log EXCEPT ![n] = Append(@, buf)]
             ELSE log' = log

LEMMA FrameHasResult ==
  ASSUME DeliveryInv, DeliveryInv', Ordered, Gapless,
         NEW n \in Nodes, NEW d \in Nodes, wire[n] # <<>>,
         LccDatagramFrame(n, d, Head(wire[n]))
  PROVE  FrameResult(n, d, Head(wire[n]))
<1>. DEFINE f == Head(wire[n])
            buf == Append(rx[d].buf, <<f.num, f.part>>)
            one == << <<f.num, f.part>> >>
<1>. SUFFICES FrameResult(n, d, f)
  OBVIOUS
<1>1. WiresGood /\ RxTypeOK /\ AnswersFair' /\ alias \in [Nodes -> Nat]
  BY TxInvGood DEF DeliveryInv, Delivery
<1>2. f \in Frame /\ f \in Range(wire[n]) /\ f.src[1] = n
  BY <1>1, NextFrame
<1>3. f.num \in Nat /\ f.part \in Nat
  BY <1>2, ConstantsAssumption DEF Frame
<1>4. one \in Seq(Nat \X Nat) /\ LastNum(one) = f.num
  <2>1. <<f.num, f.part>> \in Nat \X Nat
    BY <1>3
  <2>2. one \in Seq(Nat \X Nat) /\ Len(one) = 1 /\ one[1] = <<f.num, f.part>>
    BY <2>1, OnePair
  <2>. QED
    BY <2>2 DEF LastNum
<1>5. buf \in Seq(Nat \X Nat) /\ LastNum(buf) = f.num
  <2>1. rx[d].buf \in Seq(Nat \X Nat) /\ <<f.num, f.part>> \in Nat \X Nat
    BY <1>1, <1>3 DEF RxTypeOK, RxType
  <2>2. /\ buf \in Seq(Nat \X Nat) /\ Len(buf) = Len(rx[d].buf) + 1
        /\ buf[Len(rx[d].buf) + 1] = <<f.num, f.part>>
    BY <2>1, AppendProperties
  <2>. QED
    BY <2>2 DEF LastNum
<1>. HIDE DEF f, buf, one
<1>6. ASSUME NEW b \in Seq(Nat \X Nat), LastNum(b) = f.num, Deliver(n, d, f, b), Closing(f)
      PROVE  FrameResult(n, d, f)
  <2>1. PICK code \in Verdicts :
          /\ log' = IF code = "ok" THEN [log EXCEPT ![f.src[1]] = Append(@, b)] ELSE log
          /\ Handle(n, d, Answer(Alias(d), f, code))
    BY <1>6 DEF Deliver
  <2>. QED
    BY <1>2, <1>6, <2>1 DEF FrameResult
<1>7. ASSUME NEW code \in Transport, Handle(n, d, Answer(Alias(d), f, code)), log' = log, Closing(f)
      PROVE  FrameResult(n, d, f)
  <2>1. code # "ok"
    BY DEF Transport
  <2>. QED
    BY <1>4, <1>7, <2>1 DEF FrameResult
<1>8. CASE f.kind = "one" /\ Deliver(n, d, f, one)
  BY <1>4, <1>6, <1>8 DEF Closing
<1>9. CASE f.kind = "final" /\ Deliver(n, d, f, buf)
  BY <1>5, <1>6, <1>9 DEF Closing
<1>10. CASE f.kind = "final" /\ Handle(n, d, Refuse(d, f)) /\ UNCHANGED log
  <2>1. PICK code \in Transport : Refuse(d, f) = Answer(Alias(d), f, code)
    <3>. DEFINE c == IF rx[d].refused = f.src THEN "unavailable" ELSE "out_of_order"
    <3>1. c \in Transport /\ Refuse(d, f) = Answer(Alias(d), f, c)
      BY DEF Transport, Refuse
    <3>. QED
      BY <3>1
  <2>. QED
    BY <1>7, <1>10, <2>1 DEF Closing
<1>11. CASE f.kind = "final" /\ Handle(n, d, Answer(Alias(d), f, "invalid_args")) /\ UNCHANGED log
  <2>1. "invalid_args" \in Transport
    BY DEF Transport
  <2>. QED
    BY <1>7, <1>11, <2>1 DEF Closing
<1>12. CASE f.kind \in {"first", "middle"} /\ Handle(n, d, <<>>) /\ UNCHANGED log
  BY <1>12 DEF FrameResult, Closing
<1>13. ASSUME f.kind = "middle", Handle(n, d, Answer(Alias(d), f, "invalid_args"))
       PROVE  FALSE
  <2>1. CASE Lengths \subseteq 1..2
    BY <1>2, <1>13, <2>1 DEF Ordered, NoMiddle
  <2>2. CASE MaxLost = 0
    <3>1. /\ WireGood(d, Answer(Alias(d), f, "invalid_args"))
          /\ AnsweredOn(Range(Answer(Alias(d), f, "invalid_args")), Alias(d), f.src)
          /\ \A g \in Range(Answer(Alias(d), f, "invalid_args")) : g.dst = f.src /\ g.code = "invalid_args"
      <4>1. "invalid_args" \in Verdicts \cup Transport
        BY DEF Transport
      <4>. QED
        BY <1>1, <1>2, <4>1, AnswerGood
    <3>2. Moved({n}, d, Answer(Alias(d), f, "invalid_args"))
      BY <1>1, <1>13, <3>1, HandleMoves
    <3>3. PICK g \in Range(wire'[d]) : g.kind = "answer" /\ g.dst = f.src /\ g.code = "invalid_args"
      BY <3>1, <3>2 DEF Moved, AnsweredOn
    <3>4. Fair(g)'
      BY <1>1, <3>3 DEF AnswersFair
    <3>5. g.dst[1] \in Intact'
      BY <1>2, <2>2, <3>3 DEF Intact
    <3>. QED
      BY <3>3, <3>4, <3>5 DEF Fair, Temporary, Verdicts
  <2>. QED
    BY <2>1, <2>2 DEF Gapless
<1>. QED
  <2>1. LccDatagramFrame(n, d, f)
    BY DEF f
  <2>. QED
    BY <2>1, <1>8, <1>9, <1>10, <1>11, <1>12, <1>13 DEF LccDatagramFrame, buf, one

\* A handler takes a datagram.
LEMMA TakenMore ==
  ASSUME RxTypeOK, NEW n \in Nodes, NEW buf \in Seq(Nat \X Nat),
         log' = [log EXCEPT ![n] = Append(@, buf)]
  PROVE  /\ Taken(n)' = Taken(n) \cup {LastNum(buf)}
         /\ \A m \in Nodes \ {n} : log'[m] = log[m] /\ Taken(m)' = Taken(m)
<1>. DEFINE l == log[n]
            p == log'[n]
<1>1. l \in Seq(Seq(Nat \X Nat)) /\ p = Append(l, buf)
  BY DEF RxTypeOK
<1>. HIDE DEF l, p
<1>2. /\ Len(l) \in Nat /\ DOMAIN l = 1..Len(l) /\ DOMAIN p = 1..(Len(l) + 1)
      /\ \A k \in 1..Len(l) : p[k] = l[k]
      /\ p[Len(l) + 1] = buf
  BY <1>1, AppendProperties, LenProperties
<1>3. Taken(n) = {LastNum(l[k]) : k \in 1..Len(l)} /\ Taken(n)' = {LastNum(p[k]) : k \in 1..(Len(l) + 1)}
  BY <1>2 DEF Taken, l, p
<1>4. /\ p[Len(l) + 1] = buf /\ Len(l) + 1 \in 1..(Len(l) + 1)
      /\ \A k \in 1..Len(l) : k \in 1..(Len(l) + 1) /\ p[k] = l[k]
      /\ \A k \in 1..(Len(l) + 1) : k \in 1..Len(l) \/ k = Len(l) + 1
  BY <1>2
<1>5. Taken(n)' \subseteq Taken(n) \cup {LastNum(buf)}
  BY <1>3, <1>4
<1>6. Taken(n) \cup {LastNum(buf)} \subseteq Taken(n)'
  BY <1>3, <1>4
<1>7. \A m \in Nodes \ {n} : log'[m] = log[m] /\ Taken(m)' = Taken(m)
  BY DEF RxTypeOK, Taken
<1>. QED
  BY <1>5, <1>6, <1>7

\* One that is newer than those before it keeps their order.
LEMMA TakenAnew ==
  ASSUME RxTypeOK, NEW n \in Nodes, NEW buf \in Seq(Nat \X Nat),
         log' = [log EXCEPT ![n] = Append(@, buf)],
         \A i \in Taken(n) : i < LastNum(buf),
         \A j, k \in DOMAIN log[n] : j < k => LastNum(log[n][j]) < LastNum(log[n][k])
  PROVE  \A j, k \in DOMAIN log'[n] : j < k => LastNum(log'[n][j]) < LastNum(log'[n][k])
<1>. DEFINE l == log[n]
            p == log'[n]
<1>1. l \in Seq(Seq(Nat \X Nat)) /\ p = Append(l, buf)
  BY DEF RxTypeOK
<1>. HIDE DEF l, p
<1>2. /\ Len(l) \in Nat /\ DOMAIN l = 1..Len(l) /\ DOMAIN p = 1..(Len(l) + 1)
      /\ \A k \in 1..Len(l) : p[k] = l[k]
      /\ p[Len(l) + 1] = buf
  BY <1>1, AppendProperties, LenProperties
<1>3. \A k \in DOMAIN p : k \in 1..Len(l) \/ k = Len(l) + 1
  BY <1>2
<1>4. Taken(n) = {LastNum(l[k]) : k \in 1..Len(l)}
  BY <1>2 DEF Taken, l
<1>5. ASSUME NEW j \in DOMAIN p, NEW k \in DOMAIN p, j < k
      PROVE  LastNum(p[j]) < LastNum(p[k])
  <2>1. j \in 1..Len(l) /\ p[j] = l[j]
    BY <1>2, <1>3, <1>5
  <2>2. CASE k \in 1..Len(l)
    BY <1>2, <1>5, <2>1, <2>2 DEF l
  <2>3. CASE k = Len(l) + 1
    BY <1>2, <1>4, <2>1, <2>3
  <2>. QED
    BY <1>3, <2>2, <2>3
<1>. QED
  BY <1>5 DEF p

\* A frame of a datagram is handled.
LEMMA FrameOrdered ==
  ASSUME OrderInv, DeliveryInv', Gapless, NEW n \in Nodes, NEW d \in Nodes, wire[n] # <<>>,
         LccDatagramFrame(n, d, Head(wire[n]))
  PROVE  Ordered'
<1>. DEFINE f == Head(wire[n])
<1>1. WiresGood /\ RxTypeOK /\ alias \in [Nodes -> Nat] /\ Ordered /\ DeliveryInv
  BY TxInvGood DEF OrderInv, DeliveryInv, Delivery
<1>2. UNCHANGED <<alias, tx, verdict>>
  BY DEF LccDatagramFrame
<1>3. f \in Frame /\ f \in Range(wire[n]) /\ f.src[1] = n
  BY <1>1, NextFrame
<1>4. FrameResult(n, d, f)
  BY <1>1, FrameHasResult
<1>5. CASE ~Closing(f) /\ Handle(n, d, <<>>) /\ log' = log
  <2>1. Exchange({n}, d, <<>>)
    BY <1>1, <1>5, HandleExchange, NothingGood
  <2>. QED
    BY <1>1, <1>2, <1>5, <2>1, TakenOnly
<1>6. ASSUME Closing(f), NEW code \in Verdicts \cup Transport, NEW buf \in Seq(Nat \X Nat),
             Handle(n, d, Answer(Alias(d), f, code)),
             IF code = "ok" THEN LastNum(buf) = f.num /\ log' = [log EXCEPT ![n] = Append(@, buf)]
             ELSE log' = log
      PROVE  Ordered'
  <2>. DEFINE out == Answer(Alias(d), f, code)
  <2>1. /\ Single(out) /\ Rising(out) /\ WireGood(d, out)
        /\ \A g \in Range(out) : g.kind = "answer" /\ g.dst = f.src /\ g.num = f.num /\ g.code = code
    BY <1>1, <1>3, AnswerGood, AnswerOrdered
  <2>. DEFINE taken == {n}
  <2>2. Exchange(taken, d, out)
    BY <1>1, <1>6, <2>1, HandleExchange
  <2>3. f.kind # "answer" /\ Decisive(f) /\ Asker(f) = f.src
    BY <1>6 DEF Closing, Decisive, Asker
  <2>4. Known(f) /\ Outgoing(n, f) /\ Numbered(n) /\ InOrder(n) /\ Truthful(n)
    BY <1>1, <1>3 DEF Ordered, Truthful
  <2>5. SentBy(n, f.num) /\ (\A i \in Taken(n) : i < f.num) /\ (f.src = Alias(n) => Awaits(n, f.num))
        /\ \A k \in 1..Len(tx[n].queue) : f.num = tx[n].queue[k].num => f.src = Alias(n)
    BY <1>6, <2>4 DEF Outgoing
  <2>. HIDE DEF f, out, taken
  <2>6. n \in taken /\ f = Head(wire[n]) /\ taken \in SUBSET Nodes /\ \A m \in taken : wire[m] # <<>>
    BY DEF f, taken
  <2>7. \A m \in Nodes : \A g \in Range(Kept(taken, m)) : Decisive(g) => Asker(g) # f.src
    BY <1>1, <2>3, <2>6, KeptOrdered DEF Ordered
  <2>8. \A g \in Range(Kept(taken, n)) : Closing(g) => f.num < g.num
    BY <1>1, <1>6, <2>6, KeptOrdered DEF Ordered
  <2>9. \A m \in Nodes : Range(Kept(taken, m)) \subseteq Range(wire[m])
    BY <1>1, <2>2, WireRange DEF Exchange
  <2>10. \A m \in Nodes : Range(wire'[m]) = Range(Kept(taken, m)) \cup (IF m = d THEN Range(out) ELSE {})
    BY <1>1, <2>2, WireRange DEF Exchange
  <2>11. OneAtATime'
    <3>1. \A m \in Nodes : Apart(Range(Kept(taken, m)), Range(out))
      BY <2>1, <2>7 DEF Apart, Asker
    <3>2. \A g \in Range(out) : ~Closing(g)
      BY <2>1 DEF Closing
    <3>. QED
      BY <1>1, <2>1, <2>2, <3>1, <3>2, OneAtATimeKeeps DEF Exchange, Ordered
  <2>12. (\A m \in Nodes : \A g \in Range(wire[m]) : Known(g) /\ NoMiddle(g))'
    <3>1. \A g \in Range(out) : Known(g) /\ NoMiddle(g)
      BY <2>1, <2>3, <2>4 DEF Known, NoMiddle, Asker, Decisive
    <3>. QED
      BY <1>1, <1>2, <2>2, <3>1, StaysKnown DEF Ordered
  <2>13. Taken(n)' = (IF code = "ok" THEN Taken(n) \cup {f.num} ELSE Taken(n))
         /\ (\A m \in Nodes \ {n} : log'[m] = log[m])
         /\ \A j, k \in DOMAIN log'[n] : j < k => LastNum(log'[n][j]) < LastNum(log'[n][k])
    <3>1. CASE code = "ok"
      <4>1. /\ LastNum(buf) = f.num /\ log' = [log EXCEPT ![n] = Append(@, buf)]
            /\ \A j, k \in DOMAIN log[n] : j < k => LastNum(log[n][j]) < LastNum(log[n][k])
        BY <1>6, <2>4, <3>1 DEF InOrder, f
      <4>2. /\ Taken(n)' = Taken(n) \cup {f.num}
            /\ \A m \in Nodes \ {n} : log'[m] = log[m]
        BY <1>1, <4>1, TakenMore
      <4>3. \A j, k \in DOMAIN log'[n] : j < k => LastNum(log'[n][j]) < LastNum(log'[n][k])
        BY <1>1, <2>5, <4>1, TakenAnew
      <4>. QED
        BY <3>1, <4>2, <4>3
    <3>2. CASE code # "ok"
      <4>1. log' = log
        BY <1>6, <3>2
      <4>2. Taken(n)' = Taken(n)
        BY <4>1 DEF Taken
      <4>. QED
        BY <2>4, <3>2, <4>1, <4>2 DEF InOrder
    <3>. QED
      BY <3>1, <3>2
  <2>14. ASSUME NEW m \in Nodes \ {n}
         PROVE  (Numbered(m) /\ InOrder(m) /\ Truthful(m))'
    <3>1. Numbered(m) /\ InOrder(m) /\ Truthful(m)
      BY <1>1 DEF Ordered
    <3>2. \A g \in Range(out) : Outgoing(m, g) /\ Incoming(m, g)
      <4>1. f.src # Alias(m)
        BY <1>3 DEF Alias, f
      <4>. QED
        BY <2>1, <4>1 DEF Outgoing, Incoming, Closing
    <3>. QED
      BY <1>1, <1>2, <2>2, <2>13, <3>1, <3>2, StaysTrue
  <2>15. (Numbered(n) /\ InOrder(n) /\ Truthful(n))'
    <3>1. Alias(n)' = Alias(n) /\ (\A i : SentBy(n, i)' <=> SentBy(n, i))
          /\ (\A i : Awaits(n, i)' <=> Awaits(n, i)) /\ Numbered(n)'
      BY <1>2, <2>4 DEF Alias, SentBy, Awaits, Numbered
    <3>2. InOrder(n)'
      BY <2>4, <2>5, <2>13, <3>1 DEF InOrder
    <3>3. ASSUME NEW g \in Range(wire'[n]) PROVE Outgoing(n, g)'
      <4>1. CASE g \in Range(Kept(taken, n))
        <5>1. Outgoing(n, g)
          BY <2>4, <2>9, <4>1 DEF Truthful
        <5>2. Closing(g) => \A i \in Taken(n)' : i < g.num
          BY <2>8, <2>13, <4>1, <5>1 DEF Outgoing
        <5>. QED
          BY <1>2, <3>1, <5>1, <5>2 DEF Outgoing
      <4>2. CASE g \in Range(out)
        BY <2>1, <4>2 DEF Outgoing, Closing
      <4>. QED
        BY <2>10, <4>1, <4>2
    <3>4. ASSUME NEW m \in Nodes, NEW g \in Range(wire'[m]) PROVE Incoming(n, g)'
      <4>. SUFFICES ASSUME g.kind = "answer", g.dst = Alias(n)
                    PROVE  /\ Awaits(n, g.num)
                           /\ IF g.code = "ok" THEN g.num \in Taken(n)' ELSE \A i \in Taken(n)' : i < g.num
        BY <3>1 DEF Incoming
      <4>1. CASE g \in Range(Kept(taken, m))
        <5>1. Incoming(n, g)
          BY <2>4, <2>9, <4>1 DEF Truthful
        <5>2. Awaits(n, g.num) /\ IF g.code = "ok" THEN g.num \in Taken(n) ELSE \A i \in Taken(n) : i < g.num
          BY <5>1 DEF Incoming
        <5>3. f.src # Alias(n)
          BY <2>7, <4>1 DEF Decisive, Asker
        <5>4. 1 \in 1..Len(tx[n].queue) /\ g.num = tx[n].queue[1].num
          <6>1. tx[n].queue \in Seq(Entry) /\ tx[n].queue # <<>>
            BY <5>2, TxInvGood DEF Awaits, OrderInv, DeliveryInv, Good, Driven, TxType
          <6>. QED
            BY <5>2, <6>1, EmptySeq DEF Awaits
        <5>5. f.num < g.num
          BY <2>5, <5>3, <5>4 DEF SentBy
        <5>. QED
          BY <2>13, <5>2, <5>5
      <4>2. CASE g \in Range(out)
        <5>1. g.num = f.num /\ f.src = Alias(n) /\ g.code = code
          BY <2>1, <4>2
        <5>. QED
          BY <2>5, <2>13, <5>1
      <4>. QED
        BY <2>10, <4>1, <4>2
    <3>. QED
      BY <3>1, <3>2, <3>3, <3>4 DEF Truthful
  <2>. QED
    BY <2>11, <2>12, <2>14, <2>15 DEF Ordered
<1>. QED
  BY <1>4, <1>5, <1>6 DEF FrameResult

-----------------------------------------------------------------------------
(* Implementing the courier: sending *)

\* Nothing that is left on the wires is about a datagram of d.
Settles(taken, d) ==
  \A m \in Nodes : \A g \in Range(Kept(taken, m)) : Decisive(g) => Asker(g) # Alias(d)

\* What d has sent before, and what was taken of it, is older than the queue q.
Older(taken, d, q) ==
  /\ \A i \in Taken(d) : \A k \in 1..Len(q) : i < q[k].num
  /\ \A g \in Range(Kept(taken, d)) : Closing(g) => \A k \in 1..Len(q) : g.num < q[k].num

\* A sender nothing is left to hear for goes on with the state t: it sends the head of
\* its queue, or nothing.
LEMMA SenderOrdered ==
  ASSUME OrderInv, NEW taken, NEW d, NEW t, NEW out, Exchange(taken, d, out),
         UNCHANGED <<alias, log>>, tx' = [tx EXCEPT ![d] = t],
         \A m \in Nodes \ {d} : verdict'[m] = verdict[m], DOMAIN verdict[d] \subseteq DOMAIN verdict'[d],
         Settles(taken, d), Older(taken, d, t.queue), Numbered(d)',
         \/ out = <<>> /\ ~t.inFlight
         \/ \E e \in Entry : /\ out = FramesOf(Alias(d), e) /\ t.inFlight
                             /\ 1 \in 1..Len(t.queue) /\ t.queue[1] = e
  PROVE  Ordered'
<1>. DEFINE sends == t.inFlight /\ 1 \in 1..Len(t.queue)
<1>1. WiresGood /\ Ordered /\ alias \in [Nodes -> Nat] /\ d \in Nodes /\ tx'[d] = t
      /\ \A m \in Nodes \ {d} : tx'[m] = tx[m]
  BY TxInvGood DEF OrderInv, DeliveryInv, Delivery, Exchange
<1>2. /\ Single(out) /\ Rising(out)
      /\ \A g \in Range(out) : /\ NoMiddle(g) /\ g.kind # "answer" /\ g.src = Alias(d)
                               /\ sends /\ g.num = t.queue[1].num
  <2>1. CASE out = <<>> /\ ~t.inFlight
    BY <2>1, NothingOrdered, NothingGood
  <2>2. ASSUME NEW e \in Entry, out = FramesOf(Alias(d), e), t.inFlight,
               1 \in 1..Len(t.queue), t.queue[1] = e
        PROVE  /\ Single(out) /\ Rising(out)
               /\ \A g \in Range(out) : /\ NoMiddle(g) /\ g.kind # "answer" /\ g.src = Alias(d)
                                        /\ sends /\ g.num = t.queue[1].num
    BY <1>1, <2>2, FramesOrdered
  <2>. QED
    BY <2>1, <2>2
<1>3. /\ \A m \in Nodes : Range(wire'[m]) = Range(Kept(taken, m)) \cup (IF m = d THEN Range(out) ELSE {})
      /\ \A m \in Nodes : Range(Kept(taken, m)) \subseteq Range(wire[m])
  BY <1>1, WireRange DEF Exchange
<1>4. OneAtATime'
  <2>1. \A m \in Nodes : Apart(Range(Kept(taken, m)), Range(out))
    BY <1>2 DEF Apart, Asker, Settles
  <2>2. \A f \in Range(Kept(taken, d)), g \in Range(out) : Closing(f) /\ Closing(g) => f.num < g.num
    BY <1>2 DEF Older
  <2>. QED
    BY <1>1, <1>2, <2>1, <2>2, OneAtATimeKeeps DEF Exchange, Ordered
<1>5. (\A m \in Nodes : \A g \in Range(wire[m]) : Known(g) /\ NoMiddle(g))'
  <2>1. Alias(d)[2] <= alias[Alias(d)[1]]
    BY <1>1 DEF Alias
  <2>2. \A g \in Range(out) : Known(g) /\ NoMiddle(g)
    BY <1>2, <2>1 DEF Known, Asker
  <2>. QED
    BY <1>1, <2>2, StaysKnown DEF Ordered
<1>6. ASSUME NEW m \in Nodes \ {d}
      PROVE  (Numbered(m) /\ InOrder(m) /\ Truthful(m))'
  <2>1. Numbered(m) /\ InOrder(m) /\ Truthful(m)
    BY <1>1 DEF Ordered
  <2>2. \A g \in Range(out) : (d = m => Outgoing(m, g)) /\ Incoming(m, g)
    BY <1>2 DEF Incoming
  <2>. QED
    BY <1>1, <2>1, <2>2, StaysTrue
<1>7. Alias(d)' = Alias(d) /\ Taken(d)' = Taken(d)
  BY DEF Alias, Taken
<1>8. InOrder(d) /\ Truthful(d)
  BY <1>1 DEF Ordered
<1>9. \A i \in Taken(d) : SentBy(d, i)'
  BY <1>1, <1>8 DEF InOrder, SentBy, Older
<1>10. InOrder(d)'
  BY <1>7, <1>8, <1>9 DEF InOrder
<1>11. ASSUME NEW g \in Range(wire'[d]) PROVE Outgoing(d, g)'
  <2>. SUFFICES ASSUME Closing(g) PROVE Outgoing(d, g)'
    BY DEF Outgoing
  <2>1. CASE g \in Range(Kept(taken, d))
    <3>1. Outgoing(d, g)
      BY <1>1, <1>3, <1>8, <2>1 DEF Truthful
    <3>2. SentBy(d, g.num)'
      BY <1>1, <2>1, <3>1 DEF Outgoing, SentBy, Older
    <3>3. g.src # Alias(d)
      BY <1>1, <2>1 DEF Settles, Decisive, Asker, Closing
    <3>4. \A k \in 1..Len(t.queue) : g.num # t.queue[k].num
      <4>1. \A k \in 1..Len(t.queue) : g.num < t.queue[k].num
        BY <2>1 DEF Older
      <4>2. g \in Frame
        BY <1>1, <1>3, <2>1, RangeOfSeq DEF WiresGood, WireGood
      <4>3. g.num \in Nat
        BY <4>2 DEF Frame
      <4>. QED
        BY <4>1, <4>3
    <3>. QED
      BY <1>1, <1>7, <3>1, <3>2, <3>3, <3>4 DEF Outgoing
  <2>2. CASE g \in Range(out)
    <3>1. sends /\ g.num = t.queue[1].num /\ g.src = Alias(d)
      BY <1>2, <2>2
    <3>2. SentBy(d, g.num)'
      <4>1. g.num \in DOMAIN verdict'[d]
        BY <1>1, <3>1 DEF Numbered
      <4>2. \A k \in 1..Len(t.queue) : k = 1 \/ g.num < t.queue[k].num
        <5>1. \A k \in 1..Len(t.queue) : k = 1 \/ 1 < k
          OBVIOUS
        <5>. QED
          BY <1>1, <3>1, <5>1 DEF Numbered
      <4>. QED
        BY <1>1, <3>1, <4>1, <4>2 DEF SentBy
    <3>3. \A i \in Taken(d) : i < g.num
      BY <3>1 DEF Older
    <3>4. Awaits(d, g.num)'
      BY <1>1, <3>1 DEF Awaits
    <3>. QED
      BY <1>1, <1>7, <3>1, <3>2, <3>3, <3>4 DEF Outgoing
  <2>. QED
    BY <1>1, <1>3, <2>1, <2>2
<1>12. ASSUME NEW m \in Nodes, NEW g \in Range(wire'[m]) PROVE Incoming(d, g)'
  <2>1. CASE g \in Range(Kept(taken, m))
    BY <1>7, <2>1 DEF Settles, Decisive, Asker, Incoming
  <2>2. CASE g \in Range(out)
    BY <1>2, <2>2 DEF Incoming
  <2>. QED
    BY <1>3, <2>1, <2>2
<1>. QED
  BY <1>1, <1>4, <1>5, <1>6, <1>10, <1>11, <1>12 DEF Ordered, Truthful

\* Nothing is about a sender that has nothing in flight.
LEMMA NothingPending ==
  ASSUME OrderInv, NEW d \in Nodes, ~tx[d].inFlight
  PROVE  Settles({}, d)
<1>. SUFFICES ASSUME NEW m \in Nodes, NEW g \in Range(wire[m]), Decisive(g), Asker(g) = Alias(d)
              PROVE  FALSE
  BY DEF Settles, Kept
<1>1. Truthful(d) /\ WireGood(m, wire[m])
  BY DEF OrderInv, Ordered, DeliveryInv, Delivery, WiresGood
<1>2. CASE g.kind = "answer"
  BY <1>1, <1>2 DEF Truthful, Incoming, Asker, Awaits
<1>3. CASE g.kind # "answer"
  <2>1. Closing(g) /\ g.src = Alias(d)
    BY <1>3 DEF Decisive, Asker
  <2>2. m = d
    BY <1>1, <2>1 DEF WireGood, Alias
  <2>. QED
    BY <1>1, <2>1, <2>2 DEF Truthful, Outgoing, Awaits
<1>. QED
  BY <1>2, <1>3

\* Everything before the head of a queue is not newer, and older unless it is in flight.
LEMMA BeforeHead ==
  ASSUME OrderInv, NEW d \in Nodes, NEW taken \in SUBSET Nodes, \A m \in taken : wire[m] # <<>>
  PROVE  /\ \A i \in Taken(d) : SentBy(d, i)
         /\ \A g \in Range(Kept(taken, d)) : Closing(g) => SentBy(d, g.num) /\ Outgoing(d, g)
         /\ Numbered(d)
         /\ tx[d].queue \in Seq(Entry) /\ Len(tx[d].queue) \in Nat
         /\ \A k \in 1..Len(tx[d].queue) : tx[d].queue[k] \in Entry /\ tx[d].queue[k].num \in Nat
         /\ verdict[d] \in Seq({"queued", "acked", "failed"}) /\ DOMAIN verdict[d] = 1..Len(verdict[d])
<1>1. Ordered /\ WiresGood /\ Good(tx[d]) /\ verdict[d] \in Seq({"queued", "acked", "failed"})
  BY TxInvGood DEF OrderInv, DeliveryInv, Delivery
<1>2. Range(Kept(taken, d)) \subseteq Range(wire[d])
  BY <1>1, TailWire DEF WiresGood, Kept
<1>3. tx[d].queue \in Seq(Entry)
  BY <1>1 DEF Good, TxType
<1>4. \A k \in 1..Len(tx[d].queue) : tx[d].queue[k] \in Entry
  BY <1>3, ElementOfSeq
<1>5. \A e \in Entry : e.num \in Nat
  BY DEF Entry
<1>. QED
  BY <1>1, <1>2, <1>3, <1>4, <1>5, LenProperties DEF Ordered, InOrder, Truthful, Outgoing

\* The head leaves the queue, and the next datagram goes out if there is one.
LEMMA PopOrdered ==
  ASSUME OrderInv, NEW taken, NEW d, NEW result \in {"acked", "failed"},
         Exchange(taken, d, PopSends(d, tx[d])), UNCHANGED <<alias, log>>,
         Pop(d, result), tx[d].queue # <<>>, Settles(taken, d)
  PROVE  Ordered'
<1>. DEFINE q == tx[d].queue
            t == PopHead(tx[d])
            out == PopSends(d, tx[d])
            v == verdict[d]
<1>1. /\ d \in Nodes /\ taken \in SUBSET Nodes /\ \A m \in taken : wire[m] # <<>>
      /\ tx \in [Nodes -> TxType] /\ verdict \in [Nodes -> Seq({"queued", "acked", "failed"})]
  BY TxInvGood DEF OrderInv, DeliveryInv, Exchange
<1>2. /\ \A i \in Taken(d) : SentBy(d, i)
      /\ \A g \in Range(Kept(taken, d)) : Closing(g) => SentBy(d, g.num) /\ Outgoing(d, g)
      /\ Numbered(d)
      /\ q \in Seq(Entry) /\ Len(q) \in Nat
      /\ \A k \in 1..Len(q) : q[k] \in Entry /\ q[k].num \in Nat
      /\ v \in Seq({"queued", "acked", "failed"}) /\ DOMAIN v = 1..Len(v)
  BY <1>1, BeforeHead
<1>3. 1 \in 1..Len(q) /\ Head(q) = q[1]
  BY <1>1, <1>2, EmptySeq
<1>4. /\ tx' = [tx EXCEPT ![d] = t] /\ tx'[d] = t
      /\ verdict'[d] = [v EXCEPT ![q[1].num] = result]
      /\ \A m \in Nodes \ {d} : verdict'[m] = verdict[m]
  BY <1>1, <1>3 DEF Pop
<1>5. DOMAIN verdict'[d] = DOMAIN v
      /\ \A i \in DOMAIN v : i # q[1].num => verdict'[d][i] = v[i]
  BY <1>4
<1>6. ASSUME NEW i, SentBy(d, i), NEW k \in 1..Len(q), k # 1
      PROVE  i < q[k].num
  <2>1. q[1].num < q[k].num
    <3>1. 1 < k
      BY <1>6
    <3>. QED
      BY <1>2, <1>3, <3>1 DEF Numbered
  <2>2. i \in 1..Len(v)
    BY <1>2, <1>6 DEF SentBy
  <2>3. i < q[1].num \/ i = q[1].num
    BY <1>3, <1>6 DEF SentBy
  <2>. QED
    BY <1>2, <1>3, <2>1, <2>2, <2>3
<1>7. CASE Len(q) <= 1
  <2>1. t = Idle /\ out = <<>>
    BY <1>7 DEF PopHead, PopSends
  <2>2. ~t.inFlight /\ Len(t.queue) = 0
    BY <2>1 DEF Idle, Sender
  <2>3. \A k \in 1..Len(t.queue) : FALSE
    BY <2>2
  <2>. HIDE DEF t, out
  <2>4. Numbered(d)' /\ Older(taken, d, t.queue)
    BY <1>4, <2>3 DEF Numbered, Older
  <2>5. Exchange(taken, d, out)
    BY DEF out
  <2>. QED
    BY <1>4, <1>5, <2>1, <2>2, <2>4, <2>5, SenderOrdered
<1>8. CASE ~(Len(q) <= 1)
  <2>1. t.queue = Tail(q) /\ t.inFlight /\ out = FramesOf(Alias(d), q[2])
    BY <1>8 DEF PopHead, PopSends, TransmitHead, Sender
  <2>2. /\ Len(Tail(q)) = Len(q) - 1 /\ \A k \in 1..Len(Tail(q)) : Tail(q)[k] = q[k + 1]
    BY <1>2, <1>3, EmptySeq, HeadTailProperties
  <2>. HIDE DEF t, out, q
  <2>3. /\ Len(t.queue) = Len(q) - 1
        /\ \A k \in 1..Len(t.queue) : t.queue[k] = q[k + 1] /\ k + 1 \in 1..Len(q) /\ k + 1 # 1
        /\ 1 \in 1..Len(t.queue) /\ t.queue[1] = q[2] /\ q[2] \in Entry
    BY <1>2, <1>8, <2>1, <2>2
  <2>4. Older(taken, d, t.queue)
    BY <1>2, <1>6, <2>3 DEF Older
  <2>5. Numbered(d)'
    <3>1. ASSUME NEW i \in 1..Len(t.queue), NEW j \in 1..Len(t.queue), i < j
          PROVE  t.queue[i].num < t.queue[j].num
      <4>1. i + 1 < j + 1 /\ i + 1 \in 1..Len(q) /\ j + 1 \in 1..Len(q)
        BY <2>3, <3>1
      <4>. QED
        BY <1>2, <2>3, <4>1 DEF Numbered, q
    <3>2. ASSUME NEW i \in 1..Len(t.queue)
          PROVE  t.queue[i].num \in DOMAIN verdict'[d] /\ verdict'[d][t.queue[i].num] = "queued"
      <4>1. i + 1 \in 1..Len(q) /\ 1 < i + 1 /\ t.queue[i] = q[i + 1]
        BY <2>3
      <4>2. q[i + 1].num \in DOMAIN v /\ v[q[i + 1].num] = "queued" /\ q[1].num < q[i + 1].num
        BY <1>2, <1>3, <4>1 DEF Numbered, q
      <4>3. q[i + 1].num # q[1].num
        BY <1>2, <1>3, <4>1, <4>2
      <4>. QED
        BY <1>5, <4>1, <4>2, <4>3
    <3>. QED
      BY <1>4, <3>1, <3>2 DEF Numbered
  <2>6. Exchange(taken, d, out)
    BY DEF out
  <2>. QED
    BY <1>4, <1>5, <2>1, <2>3, <2>4, <2>5, <2>6, SenderOrdered
<1>. QED
  BY <1>7, <1>8

\* An answer reaches the sender that waits for it.
LEMMA MessageOrdered ==
  ASSUME OrderInv, NEW n \in Nodes, NEW d \in Nodes, wire[n] # <<>>,
         Head(wire[n]).dst = Alias(d), LccDatagramMessage(n, d, Head(wire[n]))
  PROVE  Ordered'
<1>. DEFINE f == Head(wire[n])
            t == tx[d]
            ours == t.queue # <<>> /\ t.inFlight /\ Head(t.queue).dst = f.src
<1>1. WiresGood /\ Ordered /\ alias \in [Nodes -> Nat] /\ Good(t) /\ tx \in [Nodes -> TxType]
  BY TxInvGood DEF OrderInv, DeliveryInv, Delivery
<1>2. f.kind = "answer" /\ UNCHANGED <<alias, log>>
  BY DEF LccDatagramMessage
<1>3. f \in Range(wire[n])
  BY <1>1, NextFrame
<1>4. Awaits(d, f.num) /\ IF f.code = "ok" THEN f.num \in Taken(d) ELSE \A i \in Taken(d) : i < f.num
  BY <1>1, <1>2, <1>3 DEF Ordered, Truthful, Incoming
<1>. DEFINE taken == {n}
<1>5. taken \in SUBSET Nodes /\ \A m \in taken : wire[m] # <<>>
  OBVIOUS
<1>6. Settles(taken, d)
  BY <1>1, <1>2, <1>5, KeptOrdered DEF Settles, Ordered, Decisive, Asker
<1>7. CASE ~ours /\ Handle(n, d, <<>>) /\ UNCHANGED <<tx, verdict>>
  <2>1. Exchange({n}, d, <<>>)
    BY <1>1, <1>7, HandleExchange, NothingGood
  <2>. QED
    BY <1>1, <1>2, <1>7, <2>1, TakenOnly
<1>8. ASSUME ours, NEW result \in {"acked", "failed"}, Pop(d, result), Handle(n, d, PopSends(d, t))
      PROVE  Ordered'
  <2>1. WireGood(d, PopSends(d, t))
    BY <1>1, <1>8, PopGoesOn
  <2>2. Exchange(taken, d, PopSends(d, t))
    BY <1>1, <1>8, <2>1, HandleExchange
  <2>. QED
    BY <1>2, <1>6, <1>8, <2>2, PopOrdered
<1>9. CASE ours /\ f.code # "ok" /\ tx' = [tx EXCEPT ![d] = Postpone(t)] /\ Handle(n, d, <<>>) /\ UNCHANGED verdict
  <2>. DEFINE p == Postpone(t)
  <2>1. ~p.inFlight /\ p.queue = t.queue
    BY DEF Postpone, Sender
  <2>2. Exchange(taken, d, <<>>)
    BY <1>1, <1>9, HandleExchange, NothingGood
  <2>3. /\ \A i \in Taken(d) : SentBy(d, i)
        /\ \A g \in Range(Kept(taken, d)) : Closing(g) => SentBy(d, g.num) /\ Outgoing(d, g)
        /\ Numbered(d)
    BY <1>5, BeforeHead
  <2>. HIDE DEF p, taken
  <2>4. Older(taken, d, p.queue)
    <3>1. ASSUME NEW i \in Taken(d), NEW k \in 1..Len(t.queue) PROVE i < t.queue[k].num
      BY <1>4, <1>9, <2>3 DEF SentBy, Awaits
    <3>2. ASSUME NEW g \in Range(Kept(taken, d)), Closing(g), NEW k \in 1..Len(t.queue)
          PROVE  g.num < t.queue[k].num
      <4>1. g.src # Alias(d)
        BY <1>6, <3>2 DEF Settles, Decisive, Asker, Closing
      <4>. QED
        BY <2>3, <3>2, <4>1 DEF SentBy, Outgoing
    <3>. QED
      BY <2>1, <3>1, <3>2 DEF Older
  <2>5. Numbered(d)'
    BY <1>1, <1>9, <2>1, <2>3 DEF Numbered, p
  <2>6. tx' = [tx EXCEPT ![d] = p] /\ verdict' = verdict
    BY <1>9 DEF p
  <2>. QED
    BY <1>2, <1>6, <2>1, <2>2, <2>4, <2>5, <2>6, SenderOrdered
<1>. QED
  BY <1>7, <1>8, <1>9 DEF LccDatagramMessage, Retry, Temporary

\* The head is sent again.
LEMMA ResendOrdered ==
  ASSUME OrderInv, NEW d \in Nodes, ResendHead(d)
  PROVE  Ordered'
<1>. DEFINE t == TransmitHead(tx[d])
            q == tx[d].queue
            out == FramesOf(Alias(d), q[1])
<1>1. /\ WiresGood /\ Good(tx[d]) /\ tx \in [Nodes -> TxType] /\ alias \in [Nodes -> Nat]
      /\ tx[d].resendWait
  BY TxInvGood DEF OrderInv, DeliveryInv, Delivery, ResendHead
<1>2. ~tx[d].inFlight /\ q # <<>> /\ q \in Seq(Entry)
  BY <1>1 DEF Good, Driven, TxType
<1>3. 1 \in 1..Len(q) /\ Head(q) = q[1] /\ q[1] \in Entry
  BY <1>2, EmptySeq, ElementOfSeq
<1>4. /\ UNCHANGED <<alias, log, verdict>> /\ tx' = [tx EXCEPT ![d] = t]
      /\ wire' = [wire EXCEPT ![d] = @ \o out]
  BY <1>3 DEF ResendHead
<1>5. t.queue = q /\ t.inFlight
  BY DEF TransmitHead, Sender
<1>. DEFINE taken == {}
<1>6. taken \in SUBSET Nodes /\ \A m \in taken : wire[m] # <<>>
  OBVIOUS
<1>7. WireGood(d, out)
  BY <1>1, <1>3, FramesGood
<1>8. Exchange(taken, d, out)
  BY <1>1, <1>4, <1>7, SendMoves DEF Exchange
<1>9. Settles(taken, d)
  BY <1>2, NothingPending
<1>10. /\ \A i \in Taken(d) : SentBy(d, i)
       /\ \A g \in Range(Kept(taken, d)) : Closing(g) => SentBy(d, g.num) /\ Outgoing(d, g)
       /\ Numbered(d)
  BY <1>6, BeforeHead
<1>. HIDE DEF t, taken
<1>11. Older(taken, d, t.queue)
  BY <1>2, <1>5, <1>10 DEF Older, SentBy
<1>12. Numbered(d)'
  BY <1>1, <1>4, <1>5, <1>10 DEF Numbered
<1>. QED
  BY <1>3, <1>4, <1>5, <1>8, <1>9, <1>11, <1>12, SenderOrdered

\* Nobody answered in time: nothing of the exchange is on a wire then.
LEMMA AckTimeoutOrdered ==
  ASSUME OrderInv, Punctual, NEW d \in Nodes, AckTimeout(d)
  PROVE  Ordered'
<1>. DEFINE out == PopSends(d, tx[d])
            taken == {}
<1>1. WiresGood /\ Good(tx[d]) /\ alias \in [Nodes -> Nat]
  BY TxInvGood DEF OrderInv, DeliveryInv, Delivery
<1>2. tx[d].queue # <<>> /\ Quiet(Alias(d)) /\ Pop(d, "failed") /\ UNCHANGED <<alias, log>>
      /\ wire' = [wire EXCEPT ![d] = @ \o out]
  BY <1>1 DEF AckTimeout, Good, Driven
<1>3. WireGood(d, out)
  BY <1>1, <1>2, PopGoesOn
<1>4. Exchange(taken, d, out)
  BY <1>1, <1>2, <1>3, SendMoves DEF Exchange
<1>5. Settles(taken, d)
  <2>. SUFFICES ASSUME NEW m \in Nodes, NEW g \in Range(wire[m])
                PROVE  Asker(g) # Alias(d)
    BY DEF Settles, Kept
  <2>1. PICK i \in DOMAIN wire[m] : g = wire[m][i]
    BY DEF Range
  <2>. QED
    BY <1>2, <2>1 DEF Quiet, Asker
<1>. HIDE DEF taken
<1>. QED
  BY <1>2, <1>4, <1>5, PopOrdered

\* A datagram is queued.
LEMMA SendOrdered ==
  ASSUME OrderInv, NEW r \in Routes, NEW len \in Lengths, LccDatagramSend(r[1], r[2], len)
  PROVE  Ordered'
<1>. DEFINE d == r[1]
            num == Len(verdict[d]) + 1
            e == [dst |-> Alias(r[2]), num |-> num, len |-> len]
            t == Enqueue(tx[d], e)
            q == tx[d].queue
            p == Append(q, e)
            v == verdict[d]
            none == {}
<1>1. d \in Nodes /\ r[2] \in Nodes
  BY ConstantsAssumption
<1>2. /\ WiresGood /\ Ordered /\ Good(tx[d]) /\ tx \in [Nodes -> TxType] /\ alias \in [Nodes -> Nat]
      /\ verdict \in [Nodes -> Seq({"queued", "acked", "failed"})]
  BY <1>1, TxInvGood DEF OrderInv, DeliveryInv, Delivery
<1>3. none \in SUBSET Nodes /\ (\A m \in none : wire[m] # <<>>) /\ \A m \in Nodes : Kept(none, m) = wire[m]
  BY DEF Kept
<1>4. /\ \A i \in Taken(d) : SentBy(d, i)
      /\ \A g \in Range(Kept(none, d)) : Closing(g) => SentBy(d, g.num) /\ Outgoing(d, g)
      /\ Numbered(d)
      /\ q \in Seq(Entry) /\ Len(q) \in Nat
      /\ \A k \in 1..Len(q) : q[k] \in Entry /\ q[k].num \in Nat
      /\ v \in Seq({"queued", "acked", "failed"}) /\ DOMAIN v = 1..Len(v)
  BY <1>1, <1>3, BeforeHead
<1>5. Len(v) \in Nat /\ num \in Nat /\ e \in Entry /\ e.num = num
  <2>1. Len(v) \in Nat
    BY <1>4, LenProperties
  <2>. QED
    BY <1>1, <1>2, <2>1 DEF Entry, Aliases, Alias
<1>6. /\ UNCHANGED <<alias, log>> /\ verdict' = [verdict EXCEPT ![d] = Append(v, "queued")]
      /\ Len(t.queue) = 1 => /\ tx' = [tx EXCEPT ![d] = TransmitHead(t)]
                             /\ wire' = [wire EXCEPT ![d] = @ \o FramesOf(Alias(d), e)]
      /\ Len(t.queue) # 1 => tx' = [tx EXCEPT ![d] = t] /\ wire' = wire
  BY DEF LccDatagramSend
<1>7. t.queue = p /\ t.inFlight = tx[d].inFlight /\ TransmitHead(t).queue = p /\ TransmitHead(t).inFlight
  BY DEF Enqueue, TransmitHead, Sender
<1>. HIDE DEF d, num, e, v, q
<1>8. /\ Len(p) = Len(q) + 1 /\ p[Len(q) + 1] = e
      /\ \A k \in 1..Len(q) : p[k] = q[k]
      /\ \A k \in 1..Len(p) : k \in 1..Len(q) \/ k = Len(q) + 1
  BY <1>4, <1>5, AppendProperties
<1>9. /\ verdict'[d] = Append(v, "queued") /\ DOMAIN verdict'[d] = 1..(Len(v) + 1)
      /\ \A k \in 1..Len(v) : verdict'[d][k] = v[k]
      /\ verdict'[d][num] = "queued" /\ num = Len(v) + 1
      /\ \A m \in Nodes \ {d} : verdict'[m] = verdict[m]
  <2>1. verdict'[d] = Append(v, "queued") /\ \A m \in Nodes \ {d} : verdict'[m] = verdict[m]
    BY <1>1, <1>2, <1>6
  <2>2. num = Len(v) + 1
    BY DEF num, v
  <2>. QED
    BY <1>4, <2>1, <2>2, AppendProperties, LenProperties
<1>10. DOMAIN v \subseteq DOMAIN verdict'[d] /\ \A i \in DOMAIN v : i < num
  BY <1>4, <1>5, <1>9
<1>. HIDE DEF p, none, t
<1>11. ASSUME tx'[d].queue = p PROVE Numbered(d)'
  <2>1. ASSUME NEW i \in 1..Len(p), NEW j \in 1..Len(p), i < j PROVE p[i].num < p[j].num
    <3>1. i \in 1..Len(q) /\ p[i] = q[i]
      BY <1>4, <1>8, <2>1
    <3>2. q[i].num < num
      BY <1>4, <1>10, <3>1 DEF Numbered, q, v
    <3>3. CASE j \in 1..Len(q)
      BY <1>4, <1>8, <2>1, <3>1, <3>3 DEF Numbered, q
    <3>4. CASE j = Len(q) + 1
      BY <1>5, <1>8, <3>1, <3>2, <3>4
    <3>. QED
      BY <1>8, <3>3, <3>4
  <2>2. ASSUME NEW i \in 1..Len(p)
        PROVE  p[i].num \in DOMAIN verdict'[d] /\ verdict'[d][p[i].num] = "queued"
    <3>1. CASE i \in 1..Len(q)
      <4>1. q[i].num \in DOMAIN v /\ v[q[i].num] = "queued"
        BY <1>4, <3>1 DEF Numbered, q, v
      <4>. QED
        BY <1>4, <1>8, <1>9, <1>10, <3>1, <4>1
    <3>2. CASE i = Len(q) + 1
      BY <1>5, <1>8, <1>9, <3>2
    <3>. QED
      BY <1>8, <3>1, <3>2
  <2>. QED
    BY <1>11, <2>1, <2>2 DEF Numbered
<1>12. CASE Len(p) = 1
  <2>. DEFINE u == TransmitHead(t)
              out == FramesOf(Alias(d), e)
  <2>1. Len(q) = 0 /\ q = <<>> /\ ~tx[d].inFlight /\ p[1] = e /\ 1 \in 1..Len(p)
    <3>0. Len(q) \in Nat /\ Len(p) = Len(q) + 1 /\ Len(p) = 1
      BY <1>4, <1>8, <1>12
    <3>1. Len(q) = 0 /\ 1 \in 1..Len(p)
      <4>1. \A i \in Nat : i + 1 = 1 => i = 0
        OBVIOUS
      <4>2. 1 \in 1..1
        OBVIOUS
      <4>. QED
        BY <3>0, <4>1, <4>2
    <3>2. q = <<>>
      BY <1>4, <3>1, EmptySeq
    <3>3. ~tx[d].inFlight
      BY <1>2, <3>2 DEF Good, Driven, q
    <3>4. p[1] = e
      BY <1>8, <3>1
    <3>. QED
      BY <3>1, <3>2, <3>3, <3>4
  <2>2. tx' = [tx EXCEPT ![d] = u] /\ u.queue = p /\ u.inFlight
    BY <1>6, <1>7, <1>12
  <2>3. wire' = [wire EXCEPT ![d] = @ \o out] /\ WireGood(d, out)
    BY <1>1, <1>2, <1>5, <1>6, <1>7, <1>12, FramesGood
  <2>. HIDE DEF u
  <2>4. Exchange(none, d, out)
    BY <1>1, <1>2, <1>3, <2>3, SendMoves DEF Exchange, none
  <2>5. Settles(none, d)
    BY <1>1, <2>1, NothingPending DEF none
  <2>6. Numbered(d)'
    BY <1>1, <1>2, <1>11, <2>2
  <2>7. Older(none, d, u.queue)
    <3>1. \A k \in 1..Len(p) : p[k].num = num
      BY <1>5, <1>8, <2>1
    <3>2. \A i : SentBy(d, i) => i < num
      BY <1>10 DEF SentBy, v
    <3>. QED
      BY <1>4, <2>2, <3>1, <3>2 DEF Older
  <2>. QED
    BY <1>5, <1>6, <1>9, <1>10, <2>1, <2>2, <2>4, <2>5, <2>6, <2>7, SenderOrdered DEF v
<1>13. CASE Len(p) # 1
  <2>1. tx' = [tx EXCEPT ![d] = t] /\ wire' = wire /\ tx'[d] = t /\ t.queue = p
        /\ \A m \in Nodes \ {d} : tx'[m] = tx[m]
    BY <1>1, <1>2, <1>6, <1>7, <1>13
  <2>2. 1 \in 1..Len(q) /\ p[1] = q[1]
    BY <1>4, <1>8, <1>13
  <2>3. \A i : SentBy(d, i) => SentBy(d, i)'
    <3>. SUFFICES ASSUME NEW i, SentBy(d, i) PROVE SentBy(d, i)'
      OBVIOUS
    <3>1. i \in DOMAIN v /\ i \in DOMAIN verdict'[d] /\ i < num
      BY <1>10 DEF SentBy, v
    <3>2. ASSUME NEW k \in 1..Len(p) PROVE i < p[k].num \/ (i = p[k].num /\ k = 1 /\ t.inFlight)
      BY <1>5, <1>7, <1>8, <3>1, <3>2 DEF SentBy, q
    <3>. QED
      BY <2>1, <3>1, <3>2 DEF SentBy
  <2>4. \A i : Awaits(d, i)' <=> Awaits(d, i)
    BY <1>7, <2>1, <2>2 DEF Awaits, q
  <2>5. Alias(d)' = Alias(d) /\ Taken(d)' = Taken(d)
    BY <1>6 DEF Alias, Taken
  <2>6. InOrder(d) /\ Truthful(d) /\ Numbered(d)
    BY <1>1, <1>2 DEF Ordered
  <2>7. Numbered(d)' /\ InOrder(d)'
    BY <1>6, <1>11, <2>1, <2>3, <2>5, <2>6 DEF InOrder
  <2>8. ASSUME NEW f \in Range(wire[d]) PROVE Outgoing(d, f)'
    <3>. SUFFICES ASSUME Closing(f) PROVE Outgoing(d, f)'
      BY DEF Outgoing
    <3>1. Outgoing(d, f) /\ SentBy(d, f.num)
      BY <2>6 DEF Truthful, Outgoing
    <3>2. \A k \in 1..Len(p) : f.num = p[k].num => f.src = Alias(d)
      <4>1. f.num \in DOMAIN v /\ f.num < num /\ f.num \in Nat
        BY <1>4, <1>10, <3>1 DEF SentBy, v
      <4>2. \A k \in 1..Len(q) : f.num = q[k].num => f.src = Alias(d)
        BY <3>1 DEF Outgoing, q
      <4>. QED
        BY <1>5, <1>8, <4>1, <4>2
    <3>. QED
      BY <2>1, <2>3, <2>4, <2>5, <3>1, <3>2 DEF Outgoing
  <2>9. \A f : Incoming(d, f)' <=> Incoming(d, f)
    BY <2>4, <2>5 DEF Incoming
  <2>10. Truthful(d)'
    BY <2>1, <2>6, <2>8, <2>9 DEF Truthful
  <2>11. ASSUME NEW m \in Nodes \ {d} PROVE (Numbered(m) /\ InOrder(m) /\ Truthful(m))'
    <3>1. /\ Numbered(m)' <=> Numbered(m)
          /\ InOrder(m)' <=> InOrder(m)
          /\ \A f : Outgoing(m, f)' <=> Outgoing(m, f)
          /\ \A f : Incoming(m, f)' <=> Incoming(m, f)
      BY <1>6, <1>9, <2>1, OwnVariables
    <3>. QED
      BY <1>2, <2>1, <3>1 DEF Ordered, Truthful
  <2>12. OneAtATime' /\ (\A m \in Nodes : \A f \in Range(wire[m]) : Known(f) /\ NoMiddle(f))'
    BY <1>2, <1>6, <2>1 DEF Ordered, OneAtATime, Known, NoMiddle
  <2>. QED
    BY <2>7, <2>10, <2>11, <2>12 DEF Ordered
<1>. QED
  BY <1>12, <1>13

\* A frame is lost, or addressed to nobody.
LEMMA DropOrdered ==
  ASSUME OrderInv, NEW n \in Nodes, wire[n] # <<>>, wire' = [wire EXCEPT ![n] = Tail(@)],
         UNCHANGED <<alias, tx, verdict, log>>
  PROVE  Ordered'
<1>1. WiresGood /\ Ordered
  BY DEF OrderInv, DeliveryInv, Delivery
<1>2. Exchange({n}, n, <<>>)
  BY <1>1, DropMoves, NothingGood DEF Exchange
<1>. QED
  BY <1>1, <1>2, TakenOnly

\* Nothing happens on the wires, and nobody's queue changes.
LEMMA StillOrdered ==
  ASSUME Ordered, UNCHANGED <<alias, tx, wire, verdict, log>>
  PROVE  Ordered'
<1>1. OneAtATime' /\ (\A m \in Nodes : \A f \in Range(wire[m]) : Known(f) /\ NoMiddle(f))'
  BY DEF Ordered, OneAtATime, Known, NoMiddle
<1>2. ASSUME NEW m \in Nodes PROVE (Numbered(m) /\ InOrder(m) /\ Truthful(m))'
  <2>1. /\ Numbered(m)' <=> Numbered(m)
        /\ InOrder(m)' <=> InOrder(m)
        /\ \A f : Outgoing(m, f)' <=> Outgoing(m, f)
        /\ \A f : Incoming(m, f)' <=> Incoming(m, f)
    BY OwnVariables
  <2>. QED
    BY <2>1 DEF Ordered, Truthful
<1>. QED
  BY <1>1, <1>2 DEF Ordered

\* A node goes on with another alias: nobody has been asked by that one, and the
\* queue is empty.
LEMMA AliasLostOrdered ==
  ASSUME OrderInv, NEW n \in Nodes, LccDatagramAliasLost(n)
  PROVE  Ordered'
<1>1. /\ WiresGood /\ Ordered /\ alias \in [Nodes -> Nat] /\ tx \in [Nodes -> TxType]
      /\ verdict \in [Nodes -> Seq({"queued", "acked", "failed"})]
  BY TxInvGood DEF OrderInv, DeliveryInv, Delivery
<1>2. /\ UNCHANGED <<wire, log>> /\ alias' = [alias EXCEPT ![n] = @ + 1]
      /\ tx'[n] = Idle /\ DOMAIN verdict'[n] = DOMAIN verdict[n]
      /\ \A m \in Nodes \ {n} : tx'[m] = tx[m] /\ verdict'[m] = verdict[m] /\ alias'[m] = alias[m]
  BY <1>1 DEF LccDatagramAliasLost
<1>3. \A k \in 1..Len(tx'[n].queue) : FALSE
  <2>1. Len(tx'[n].queue) = 0
    BY <1>2 DEF Idle, Sender
  <2>. QED
    BY <2>1
<1>4. ASSUME NEW m \in Nodes, NEW f \in Range(wire[m]), Decisive(f)
      PROVE  Asker(f) # Alias(n)' /\ Asker(f)[1] \in Nodes /\ Asker(f)[2] \in Nat
  <2>1. f \in Frame
    BY <1>1, RangeOfSeq DEF WiresGood, WireGood
  <2>2. Asker(f) \in Nodes \X Nat
    BY <2>1 DEF Frame, Aliases, Asker
  <2>3. Asker(f)[2] <= alias[Asker(f)[1]]
    BY <1>1, <1>4 DEF Ordered, Known
  <2>4. Alias(n)' = <<n, alias[n] + 1>> /\ alias[n] \in Nat
    BY <1>1, <1>2 DEF Alias
  <2>. QED
    BY <2>2, <2>3, <2>4
<1>5. OneAtATime'
  BY <1>1, <1>2 DEF Ordered, OneAtATime
<1>6. (\A m \in Nodes : \A f \in Range(wire[m]) : Known(f) /\ NoMiddle(f))'
  <2>. SUFFICES ASSUME NEW m \in Nodes, NEW f \in Range(wire[m]) PROVE Known(f)' /\ NoMiddle(f)'
    BY <1>2
  <2>1. Known(f) /\ NoMiddle(f)
    BY <1>1 DEF Ordered
  <2>2. \A l \in Nodes : alias[l] \in Nat /\ alias'[l] \in Nat /\ alias[l] <= alias'[l]
    BY <1>1, <1>2
  <2>3. Known(f)'
    BY <1>4, <2>1, <2>2 DEF Known
  <2>. QED
    BY <2>1, <2>3 DEF NoMiddle
<1>7. ASSUME NEW m \in Nodes \ {n} PROVE (Numbered(m) /\ InOrder(m) /\ Truthful(m))'
  <2>1. /\ Numbered(m)' <=> Numbered(m)
        /\ InOrder(m)' <=> InOrder(m)
        /\ \A f : Outgoing(m, f)' <=> Outgoing(m, f)
        /\ \A f : Incoming(m, f)' <=> Incoming(m, f)
    BY <1>2, OwnVariables
  <2>. QED
    BY <1>1, <1>2, <2>1 DEF Ordered, Truthful
<1>8. (Numbered(n) /\ InOrder(n) /\ Truthful(n))'
  <2>1. Numbered(n) /\ InOrder(n) /\ Truthful(n)
    BY <1>1 DEF Ordered
  <2>2. Numbered(n)'
    BY <1>3 DEF Numbered
  <2>3. \A i : SentBy(n, i) => SentBy(n, i)'
    BY <1>2, <1>3 DEF SentBy
  <2>4. Taken(n)' = Taken(n)
    BY <1>2 DEF Taken
  <2>5. InOrder(n)'
    BY <1>2, <2>1, <2>3, <2>4 DEF InOrder
  <2>6. ASSUME NEW f \in Range(wire[n]) PROVE Outgoing(n, f)'
    <3>. SUFFICES ASSUME Closing(f) PROVE Outgoing(n, f)'
      BY DEF Outgoing
    <3>1. SentBy(n, f.num) /\ \A i \in Taken(n) : i < f.num
      BY <2>1 DEF Truthful, Outgoing
    <3>2. f.src # Alias(n)'
      BY <1>4 DEF Closing, Decisive, Asker
    <3>. QED
      BY <1>3, <2>3, <2>4, <3>1, <3>2 DEF Outgoing
  <2>7. ASSUME NEW m \in Nodes, NEW f \in Range(wire[m]) PROVE Incoming(n, f)'
    BY <1>4 DEF Incoming, Decisive, Asker
  <2>. QED
    BY <1>2, <2>2, <2>5, <2>6, <2>7 DEF Truthful
<1>. QED
  BY <1>5, <1>6, <1>7, <1>8 DEF Ordered

-----------------------------------------------------------------------------
(* Implementing the courier: the steps *)

\* The initial state is in order.
LEMMA OrderInit == Init => OrderInv
<1>. SUFFICES ASSUME Init PROVE OrderInv
  OBVIOUS
<1>1. \A m \in Nodes : wire[m] = <<>> /\ log[m] = <<>> /\ Len(tx[m].queue) = 0
  BY DEF Init, Idle, Sender
<1>2. \A m \in Nodes : Range(wire[m]) = {} /\ Single(wire[m]) /\ Rising(wire[m]) /\ Taken(m) = {}
  BY <1>1, NothingGood, NothingOrdered DEF Taken
<1>3. \A m \in Nodes : \A k \in 1..Len(tx[m].queue) : FALSE
  BY <1>1
<1>4. \A m \in Nodes : DOMAIN log[m] = {}
  BY <1>1
<1>5. OneAtATime
  BY <1>2 DEF OneAtATime, Apart
<1>6. \A m \in Nodes : Numbered(m) /\ InOrder(m) /\ Truthful(m)
  BY <1>2, <1>3, <1>4 DEF Numbered, InOrder, Truthful
<1>. QED
  BY <1>2, <1>5, <1>6, DeliveryInit DEF OrderInv, Ordered

\* Every step of punctual nodes keeps the order.
LEMMA OrderNext ==
  ASSUME Punctual, Gapless
  PROVE  OrderInv /\ [Next]_vars => OrderInv'
<1>. SUFFICES ASSUME OrderInv, [Next]_vars PROVE OrderInv'
  OBVIOUS
<1>1. DeliveryInv' /\ Ordered
  BY DeliveryNext DEF OrderInv
<1>2. ASSUME NEW r \in Routes, NEW len \in Lengths, LccDatagramSend(r[1], r[2], len)
      PROVE  Ordered'
  BY <1>2, SendOrdered
<1>3. ASSUME NEW n \in Nodes, Receive(n)
      PROVE  Ordered'
  BY <1>1, <1>3, FrameOrdered, MessageOrdered, DropOrdered DEF Receive
<1>4. ASSUME NEW n \in Nodes, Lose(n)
      PROVE  Ordered'
  BY <1>4, DropOrdered DEF Lose
<1>5. ASSUME NEW n \in Nodes, LccDatagramAliasLost(n)
      PROVE  Ordered'
  BY <1>5, AliasLostOrdered
<1>6. ASSUME NEW n \in Nodes, LccDatagramRunTimers(n)
      PROVE  Ordered'
  <2>1. CASE ReassemblyTimeout(n)
    BY <1>1, <2>1, StillOrdered DEF ReassemblyTimeout
  <2>2. CASE ResendHead(n) \/ AckTimeout(n)
    BY <2>2, ResendOrdered, AckTimeoutOrdered
  <2>. QED
    BY <1>6, <2>1, <2>2 DEF LccDatagramRunTimers
<1>7. CASE UNCHANGED vars
  <2>1. UNCHANGED <<alias, tx, wire, verdict, log>>
    BY <1>7 DEF vars
  <2>. QED
    BY <1>1, <2>1, StillOrdered DEF OrderInv
<1>. QED
  BY <1>1, <1>2, <1>3, <1>4, <1>5, <1>6, <1>7 DEF Next, OrderInv

\* Every behaviour of punctual nodes is in order.
LEMMA OrderAlways ==
  ASSUME Punctual, Gapless
  PROVE  Spec => []OrderInv
  BY OrderInit, OrderNext, PTL DEF Spec

-----------------------------------------------------------------------------
(* Implementing the courier: the refinement *)

\* The numbers of the datagrams of a log, as the courier sees them
Numbers(l) == [k \in DOMAIN l |-> LastNum(l[k])]

HandledNums == [n \in Nodes |-> Numbers(log[n])]

\* What a sequence is with one more element
LEMMA OneMore ==
  ASSUME NEW S, NEW n \in Nat, NEW h \in [1..n -> S], NEW x \in S
  PROVE  Append(h, x) = [k \in 1..(n + 1) |-> IF k = n + 1 THEN x ELSE h[k]]
<1>1. h \in Seq(S)
  OBVIOUS
<1>2. Len(h) = n
  OBVIOUS
<1>. DEFINE g == Append(h, x)
<1>3. g \in Seq(S) /\ Len(g) = n + 1
  BY <1>1, <1>2, AppendProperties
<1>4. (\A k \in 1..n : g[k] = h[k]) /\ g[n + 1] = x
  BY <1>1, <1>2, AppendProperties
<1>. HIDE DEF g
<1>5. g \in [1..(n + 1) -> S]
  BY <1>3, LenProperties
<1>6. \A k \in 1..(n + 1) : k \in 1..n \/ k = n + 1
  OBVIOUS
<1>7. \A k \in 1..(n + 1) : g[k] = IF k = n + 1 THEN x ELSE h[k]
  BY <1>4, <1>6
<1>8. g = [k \in 1..(n + 1) |-> IF k = n + 1 THEN x ELSE h[k]]
  BY <1>5, <1>7
<1>. QED
  BY <1>8 DEF g

\* A log with one more datagram has one more number.
LEMMA NumbersAppend ==
  ASSUME NEW l \in Seq(Seq(Nat \X Nat)), NEW buf \in Seq(Nat \X Nat)
  PROVE  Numbers(Append(l, buf)) = Append(Numbers(l), LastNum(buf))
<1>1. PICK n \in Nat : n = Len(l) /\ DOMAIN l = 1..n
  BY LenProperties
<1>. DEFINE S == {LastNum(l[k]) : k \in 1..n} \cup {LastNum(buf)}
<1>2. l \in [1..n -> Seq(Nat \X Nat)]
  BY <1>1, LenProperties
<1>3. Append(l, buf) = [k \in 1..(n + 1) |-> IF k = n + 1 THEN buf ELSE l[k]]
  <2>1. PICK T : T = Seq(Nat \X Nat)
    OBVIOUS
  <2>2. l \in [1..n -> T] /\ buf \in T
    BY <1>2, <2>1
  <2>. QED
    BY ONLY <2>2, n \in Nat, OneMore
<1>4. Numbers(Append(l, buf)) = [k \in 1..(n + 1) |-> LastNum(IF k = n + 1 THEN buf ELSE l[k])]
  BY <1>3 DEF Numbers
<1>5. Numbers(l) = [k \in 1..n |-> LastNum(l[k])]
  BY <1>1 DEF Numbers
<1>6. Numbers(l) \in [1..n -> S] /\ LastNum(buf) \in S
  BY <1>5
<1>. HIDE DEF S
<1>7. Append(Numbers(l), LastNum(buf)) = [k \in 1..(n + 1) |-> IF k = n + 1 THEN LastNum(buf) ELSE Numbers(l)[k]]
  BY <1>6, OneMore
<1>8. \A k \in 1..(n + 1) : k = n + 1 \/ Numbers(l)[k] = LastNum(l[k])
  BY <1>5
<1>9. \A k \in 1..(n + 1) : LastNum(IF k = n + 1 THEN buf ELSE l[k]) = IF k = n + 1 THEN LastNum(buf) ELSE Numbers(l)[k]
  BY <1>8
<1>. QED
  BY <1>4, <1>7, <1>9

\* The head fails.
LEMMA PopFails ==
  ASSUME OrderInv, NEW d \in Nodes, tx[d].queue # <<>>, Pop(d, "failed"), UNCHANGED log
  PROVE  Courier!Fail(d)
<1>. DEFINE q == tx[d].queue
            v == verdict[d]
            i == Head(q).num
<1>1. verdict \in [Nodes -> Seq({"queued", "acked", "failed"})] /\ q \in Seq(Entry) /\ Numbered(d)
  BY TxInvGood DEF OrderInv, DeliveryInv, Ordered, Good, TxType
<1>2. 1 \in 1..Len(q) /\ Head(q) = q[1]
  BY <1>1, EmptySeq
<1>3. i \in DOMAIN v /\ v[i] = "queued"
  BY <1>1, <1>2 DEF Numbered
<1>4. verdict' = [verdict EXCEPT ![d][i] = "failed"]
  BY DEF Pop
<1>. HIDE DEF i
<1>5. PICK lost : lost = {i}
  OBVIOUS
<1>6. [v EXCEPT ![i] = "failed"] = [k \in DOMAIN v |-> IF k \in lost THEN "failed" ELSE v[k]]
  BY <1>5
<1>7. verdict' = [verdict EXCEPT ![d] = [k \in DOMAIN @ |-> IF k \in lost THEN "failed" ELSE @[k]]]
  BY <1>1, <1>4, <1>6
<1>8. lost \in SUBSET {k \in DOMAIN v : v[k] = "queued"} /\ lost # {}
  BY <1>3, <1>5
<1>. QED
  BY <1>7, <1>8 DEF Courier!Fail

\* The head is acknowledged, after a handler took it.
LEMMA AnswerAcknowledges ==
  ASSUME OrderInv, NEW d \in Nodes, NEW i, Awaits(d, i), i \in Taken(d), Pop(d, "acked"), UNCHANGED log
  PROVE  \E k \in DOMAIN verdict[d] : Courier!Acknowledge(d, k)
<1>. DEFINE q == tx[d].queue
<1>1. Good(tx[d]) /\ Numbered(d)
  BY TxInvGood DEF OrderInv, DeliveryInv, Ordered
<1>2. q \in Seq(Entry) /\ q # <<>>
  BY <1>1 DEF Good, Driven, TxType, Awaits
<1>3. 1 \in 1..Len(q) /\ Head(q) = q[1] /\ Head(q).num = i
  BY <1>2, EmptySeq DEF Awaits
<1>4. i \in DOMAIN verdict[d] /\ verdict[d][i] = "queued"
  BY <1>1, <1>3 DEF Numbered, Awaits
<1>5. verdict' = [verdict EXCEPT ![d][i] = "acked"]
  BY <1>3 DEF Pop
<1>6. PICK k \in DOMAIN log[d] : LastNum(log[d][k]) = i
  BY DEF Taken
<1>. QED
  BY <1>4, <1>5, <1>6 DEF Courier!Acknowledge

\* A handler takes a datagram of n.
LEMMA FrameTakes ==
  ASSUME OrderInv, NEW n \in Nodes, NEW f, f \in Range(wire[n]), Closing(f),
         NEW buf \in Seq(Nat \X Nat), LastNum(buf) = f.num,
         log' = [log EXCEPT ![n] = Append(@, buf)], UNCHANGED verdict
  PROVE  \E i \in DOMAIN verdict[n] : Courier!Take(n, i)
<1>1. RxTypeOK /\ Outgoing(n, f)
  BY DEF OrderInv, DeliveryInv, Delivery, Ordered, Truthful
<1>2. f.num \in DOMAIN verdict[n] /\ \A i \in Taken(n) : i < f.num
  BY <1>1 DEF Outgoing, SentBy
<1>3. log \in [Nodes -> Seq(Seq(Nat \X Nat))] /\ log'[n] = Append(log[n], buf)
  BY <1>1 DEF RxTypeOK
<1>4. Numbers(log'[n]) = Append(Numbers(log[n]), f.num)
  BY <1>3, NumbersAppend
<1>5. HandledNums' = [HandledNums EXCEPT ![n] = Append(@, f.num)]
  BY <1>3, <1>4 DEF HandledNums
<1>6. \A k \in DOMAIN HandledNums[n] : HandledNums[n][k] < f.num
  BY <1>2 DEF HandledNums, Numbers, Taken
<1>. QED
  BY <1>2, <1>5, <1>6 DEF Courier!Take, HandledNums, Numbers

\* Every step of punctual nodes is one of the courier or none.
LEMMA CourierStep ==
  ASSUME Punctual, Gapless, OrderInv, [Next]_vars
  PROVE  [Courier!Next]_<<HandledNums, verdict>>
<1>. DEFINE Nothing == UNCHANGED <<HandledNums, verdict>>
<1>. SUFFICES Courier!Next \/ Nothing
  OBVIOUS
<1>1. ASSUME UNCHANGED <<log, verdict>> PROVE Nothing
  BY <1>1 DEF HandledNums, Numbers
<1>2. ASSUME NEW r \in Routes, NEW len \in Lengths, LccDatagramSend(r[1], r[2], len)
      PROVE  Courier!Next
  <2>1. r[1] \in Nodes
    BY ConstantsAssumption
  <2>2. Courier!Submit(r[1])
    BY <1>2 DEF LccDatagramSend, Courier!Submit
  <2>. QED
    BY <2>1, <2>2 DEF Courier!Next
<1>3. ASSUME NEW n \in Nodes, NEW d \in Nodes, wire[n] # <<>>, LccDatagramFrame(n, d, Head(wire[n]))
      PROVE  Courier!Next \/ Nothing
  <2>1. DeliveryInv' /\ DeliveryInv /\ Ordered /\ WiresGood /\ UNCHANGED verdict
    BY <1>3, DeliveryNext DEF OrderInv, DeliveryInv, Delivery, LccDatagramFrame
  <2>2. FrameResult(n, d, Head(wire[n])) /\ Head(wire[n]) \in Range(wire[n])
    BY <1>3, <2>1, FrameHasResult, NextFrame
  <2>3. CASE log' = log
    BY <1>1, <2>1, <2>3
  <2>4. ASSUME Closing(Head(wire[n])), NEW buf \in Seq(Nat \X Nat), LastNum(buf) = Head(wire[n]).num,
               log' = [log EXCEPT ![n] = Append(@, buf)]
        PROVE  Courier!Next
    BY <2>1, <2>2, <2>4, FrameTakes DEF Courier!Next
  <2>. QED
    BY <2>2, <2>3, <2>4 DEF FrameResult
<1>4. ASSUME NEW n \in Nodes, NEW d \in Nodes, wire[n] # <<>>, Head(wire[n]).dst = Alias(d),
             LccDatagramMessage(n, d, Head(wire[n]))
      PROVE  Courier!Next \/ Nothing
  <2>1. Ordered /\ WiresGood /\ UNCHANGED log /\ Head(wire[n]).kind = "answer"
    BY <1>4 DEF OrderInv, DeliveryInv, Delivery, LccDatagramMessage
  <2>2. Incoming(d, Head(wire[n]))
    BY <1>4, <2>1, NextFrame DEF Ordered, Truthful
  <2>3. CASE UNCHANGED verdict
    BY <1>1, <2>1, <2>3
  <2>4. CASE Pop(d, "acked") /\ Head(wire[n]).code = "ok"
    BY <1>4, <2>1, <2>2, <2>4, AnswerAcknowledges DEF Incoming, Courier!Next
  <2>5. CASE Pop(d, "failed") /\ tx[d].queue # <<>>
    BY <2>1, <2>5, PopFails DEF Courier!Next
  <2>. QED
    BY <1>4, <2>3, <2>4, <2>5 DEF LccDatagramMessage
<1>5. ASSUME NEW n \in Nodes, Receive(n)
      PROVE  Courier!Next \/ Nothing
  BY <1>1, <1>3, <1>4, <1>5 DEF Receive
<1>6. ASSUME NEW n \in Nodes, LccDatagramAliasLost(n)
      PROVE  Courier!Next \/ Nothing
  <2>. DEFINE v == verdict[n]
              lost == {i \in DOMAIN v : v[i] = "queued"}
  <2>1. /\ UNCHANGED log
        /\ verdict' = [verdict EXCEPT ![n] = [i \in DOMAIN @ |-> IF @[i] = "queued" THEN "failed" ELSE @[i]]]
    BY <1>6 DEF LccDatagramAliasLost
  <2>2. verdict \in [Nodes -> Seq({"queued", "acked", "failed"})]
    BY DEF OrderInv, DeliveryInv, TxInv, TxTypeOK, Delivery
  <2>3. v = [i \in DOMAIN v |-> v[i]]
    <3>1. v \in [1..Len(v) -> {"queued", "acked", "failed"}]
      BY <2>2, LenProperties
    <3>. HIDE DEF v
    <3>. QED
      BY <3>1
  <2>4. CASE lost = {}
    <3>1. \A i \in DOMAIN v : v[i] # "queued"
      BY <2>4
    <3>. HIDE DEF v, lost
    <3>2. [i \in DOMAIN v |-> IF v[i] = "queued" THEN "failed" ELSE v[i]] = v
      BY <2>3, <3>1
    <3>3. verdict' = [verdict EXCEPT ![n] = v]
      BY <2>1, <2>2, <3>2 DEF v
    <3>4. verdict' = verdict
      BY <2>2, <3>3 DEF v
    <3>. QED
      BY <1>1, <2>1, <3>4
  <2>5. CASE lost # {}
    <3>1. Courier!Fail(n)
      <4>1. [i \in DOMAIN v |-> IF v[i] = "queued" THEN "failed" ELSE v[i]]
              = [i \in DOMAIN v |-> IF i \in lost THEN "failed" ELSE v[i]]
        OBVIOUS
      <4>2. verdict' = [verdict EXCEPT ![n] = [i \in DOMAIN @ |-> IF i \in lost THEN "failed" ELSE @[i]]]
        BY <2>1, <4>1
      <4>3. lost \in SUBSET {i \in DOMAIN verdict[n] : verdict[n][i] = "queued"}
        OBVIOUS
      <4>4. UNCHANGED HandledNums
        BY <2>1 DEF HandledNums, Numbers
      <4>. HIDE DEF lost
      <4>. QED
        BY <2>5, <4>2, <4>3, <4>4 DEF Courier!Fail, HandledNums, Numbers
    <3>. QED
      BY <3>1 DEF Courier!Next
  <2>. QED
    BY <2>4, <2>5
<1>7. ASSUME NEW n \in Nodes, LccDatagramRunTimers(n)
      PROVE  Courier!Next \/ Nothing
  <2>1. CASE ReassemblyTimeout(n) \/ ResendHead(n)
    BY <1>1, <2>1 DEF ReassemblyTimeout, ResendHead
  <2>2. CASE AckTimeout(n)
    <3>1. tx[n].queue # <<>>
      BY <2>2, TxInvGood DEF AckTimeout, OrderInv, DeliveryInv, Good, Driven
    <3>. QED
      BY <2>2, <3>1, PopFails DEF AckTimeout, Courier!Next
  <2>. QED
    BY <1>7, <2>1, <2>2 DEF LccDatagramRunTimers
<1>8. CASE UNCHANGED vars
  BY <1>1, <1>8 DEF vars
<1>9. ASSUME NEW n \in Nodes, Lose(n) PROVE Nothing
  BY <1>1, <1>9 DEF Lose
<1>. QED
  BY <1>2, <1>5, <1>6, <1>7, <1>8, <1>9 DEF Next

\* datagram.c keeps the promise of the courier (at most once, in order, nothing
\* acknowledged that no handler took), with any number of nodes, datagrams, retries
\* and alias losses, while no timeout beats what it waits for, and no frame is lost
\* or no datagram has more than two.
THEOREM TransportImplementsCourier ==
  ASSUME Punctual, Gapless
  PROVE  Spec => CourierSpec
<1>1. Init => Courier!Init
  <2>. SUFFICES ASSUME Init PROVE Courier!Init
    OBVIOUS
  <2>1. \A n \in Nodes : [k \in DOMAIN <<>> |-> LastNum(log[n][k])] = <<>>
    OBVIOUS
  <2>. QED
    BY <2>1 DEF Init, Courier!Init
<1>2. OrderInv /\ [Next]_vars => [Courier!Next]_<<HandledNums, verdict>>
  BY CourierStep
<1>3. Spec => []OrderInv
  BY OrderAlways
<1>. QED
  BY <1>1, <1>2, <1>3, PTL DEF Spec, CourierSpec, Courier!Spec, HandledNums, Numbers

-----------------------------------------------------------------------------
(* Memory configuration over the transport *)

\* What a tool may ask
AskType ==
  [cmd : Queries \cup {"write"}, space : Spaces \cup {"unknown"}, inside : BOOLEAN,
   len : Lengths, since : Nat]

\* The aliases node n talks to
Peers(n) == (IF n = Server THEN Tools ELSE {Server}) \X {0}

\* What node n has queued and what it has on the wire goes to a peer, and is about
\* a datagram of its own unless it is an answer.  A tool sends single frames, and the
\* node never turns one away for a while only.
EntryOK(n, e) ==
  /\ e.dst \in Peers(n)
  /\ e.num \in DOMAIN verdict[n]
  /\ n \in Tools => e.len = 1

FrameOK(n, f) ==
  /\ f.dst \in Peers(n) /\ f.src = <<n, 0>>
  /\ f.kind # "answer" => f.num \in DOMAIN verdict[n] /\ (n \in Tools => f.kind = "one")
  /\ f.kind = "answer" /\ n = Server => f.code \in {"ok", "refused"}

Addressed(n) ==
  /\ alias[n] = 0
  /\ \A k \in 1..Len(tx[n].queue) : EntryOK(n, tx[n].queue[k])
  /\ \A f \in Range(wire[n]) : FrameOK(n, f)
  /\ Taken(n) \subseteq DOMAIN verdict[n]

\* The requests of a tool are in line: those taken before those on the wire before
\* those in the queue.
Line(t) ==
  /\ ~tx[t].resendWait
  /\ \A i, j \in 1..Len(tx[t].queue) : i < j => tx[t].queue[i].num < tx[t].queue[j].num
  /\ Rising(wire[t])
  /\ \A i \in Taken(t) : SentBy(t, i)
  /\ \A f \in Range(wire[t]) : Closing(f) => SentBy(t, f.num) /\ \A i \in Taken(t) : i < f.num

BusInv == (\A n \in Nodes : Addressed(n)) /\ (\A t \in Tools : Line(t))

\* What the datagrams of the tools and of the node say
SentOK ==
  /\ sent = [n \in Nodes |-> sent[n]]
  /\ \A n \in Nodes : DOMAIN sent[n] = DOMAIN verdict[n] /\ sent[n] = [k \in DOMAIN verdict[n] |-> sent[n][k]]
  /\ \A t \in Tools : \A k \in DOMAIN sent[t] : sent[t][k] \in AskType
  /\ memory \in [Spaces -> Nat]

\* A tool asks to read what is there then, or newer.
Since ==
  \A t \in Tools : \A k \in DOMAIN sent[t] :
    sent[t][k].cmd = "read" /\ sent[t][k].space \in Spaces => sent[t][k].since <= memory[sent[t][k].space]

\* The request that is being processed is the last one taken from its tool.
Latest ==
  request = NoRequest \/
    /\ request \in Tools \X Nat
    /\ From(request) \in Tools /\ request[2] \in Taken(From(request))
    /\ \A i \in Taken(From(request)) : i <= request[2]

\* A reply is to a request that was taken before, and not to the one being processed.
ReplyOK(p) ==
  /\ p.req \in Tools \X Nat /\ p.to = From(p.req) /\ p.req # request
  /\ p.req[2] \in Taken(From(p.req))
  /\ p.says[1] = "data" => p.says[2] \in Nat /\ p.says[2] >= Asked(p.req).since

Replies == \A i \in DOMAIN sent[Server] : ReplyOK(sent[Server][i])

\* Tool t has asked k, and the node has not processed it.
Unserved(t, k) ==
  /\ k \in DOMAIN sent[t]
  /\ (\A i \in Taken(t) : i < k) \/ request = <<t, k>>

Unlocking(t, k) == Unserved(t, k) /\ sent[t][k].cmd = "unlock"

\* Who is about to release the lock has it, and does it once.
Releases ==
  \A t \in Tools : \A k \in DOMAIN sent[t] : Unlocking(t, k) =>
    holder = t /\ \A j \in DOMAIN sent[t] : Unlocking(t, j) => j = k

\* Who has been told, or is being told, that it has the lock it asked for last has it.
Granted(t, p) ==
  /\ From(p.req) = t /\ p.says = <<"lock", t>>
  /\ sent[t][p.req[2]].cmd = "lock"
  /\ \A j \in LockRequests(t) : j <= p.req[2]

Grants == \A t \in Tools : \A i \in DOMAIN sent[Server] : Granted(t, sent[Server][i]) => holder = t

\* The inductive invariant
TalkInv == DeliveryInv /\ BusInv /\ SentOK /\ Since /\ Latest /\ Replies

LockInv == TalkInv /\ Releases /\ Grants

-----------------------------------------------------------------------------
(* The bus *)

\* What the invariants say of the types
LEMMA TalkFacts ==
  ASSUME DeliveryInv, BusInv
  PROVE  /\ WiresGood /\ RxTypeOK /\ Tools \subseteq Nodes /\ Server \in Nodes /\ Server \notin Tools
         /\ alias \in [Nodes -> Nat] /\ tx \in [Nodes -> TxType]
         /\ verdict \in [Nodes -> Seq({"queued", "acked", "failed"})]
         /\ \A n \in Nodes : Good(tx[n]) /\ Addressed(n) /\ Alias(n) = <<n, 0>>
         /\ \A n \in Nodes : Len(verdict[n]) \in Nat /\ DOMAIN verdict[n] = 1..Len(verdict[n])
         /\ \A n \in Nodes : tx[n].queue \in Seq(Entry) /\ Len(tx[n].queue) \in Nat
         /\ \A n \in Nodes : \A k \in 1..Len(tx[n].queue) :
              tx[n].queue[k] \in Entry /\ tx[n].queue[k].num \in Nat
         /\ \A t \in Tools : Line(t)
<1>1. /\ WiresGood /\ RxTypeOK /\ alias \in [Nodes -> Nat] /\ tx \in [Nodes -> TxType]
      /\ verdict \in [Nodes -> Seq({"queued", "acked", "failed"})] /\ \A n \in Nodes : Good(tx[n])
  BY TxInvGood DEF DeliveryInv, Delivery
<1>2. Tools \subseteq Nodes /\ Server \in Nodes /\ Server \notin Tools
  BY MemoryConfigAssumption DEF Tools
<1>3. \A n \in Nodes : Addressed(n) /\ Alias(n) = <<n, 0>>
  BY DEF BusInv, Addressed, Alias
<1>4. ASSUME NEW n \in Nodes
      PROVE  /\ Len(verdict[n]) \in Nat /\ DOMAIN verdict[n] = 1..Len(verdict[n])
             /\ tx[n].queue \in Seq(Entry) /\ Len(tx[n].queue) \in Nat
             /\ \A k \in 1..Len(tx[n].queue) : tx[n].queue[k] \in Entry /\ tx[n].queue[k].num \in Nat
  <2>1. verdict[n] \in Seq({"queued", "acked", "failed"}) /\ tx[n].queue \in Seq(Entry)
    BY <1>1 DEF TxType
  <2>2. \A k \in 1..Len(tx[n].queue) : tx[n].queue[k] \in Entry
    BY <2>1, ElementOfSeq
  <2>3. \A e \in Entry : e.num \in Nat
    BY DEF Entry
  <2>. QED
    BY <2>1, <2>2, <2>3, LenProperties
<1>. QED
  BY <1>1, <1>2, <1>3, <1>4 DEF BusInv

\* The frames of a queued datagram
LEMMA FramesOfEntry ==
  ASSUME NEW d \in Nodes, NEW e \in Entry
  PROVE  LET out == FramesOf(Alias(d), e) IN
         /\ Rising(out)
         /\ \A f \in Range(out) : /\ f.dst = e.dst /\ f.src = Alias(d) /\ f.num = e.num
                                  /\ f.kind # "answer" /\ (e.len = 1 => f.kind = "one")
<1>. DEFINE out == FramesOf(Alias(d), e)
<1>1. Rising(out) /\ \A f \in Range(out) : f.src = Alias(d) /\ f.num = e.num /\ f.kind # "answer"
  BY FramesOrdered
<1>2. \A i \in DOMAIN out : out[i].dst = e.dst /\ (e.len = 1 => out[i].kind = "one")
  BY DEF FramesOf
<1>3. \A f \in Range(out) : f.dst = e.dst /\ (e.len = 1 => f.kind = "one")
  BY <1>2 DEF Range
<1>. QED
  BY <1>1, <1>3

\* Everything stays addressed while what is queued and sent is.
LEMMA AddressedKeeps ==
  ASSUME WiresGood, \A n \in Nodes : Addressed(n), UNCHANGED alias,
         NEW taken, NEW d, NEW out, Exchange(taken, d, out),
         \A m \in Nodes : DOMAIN verdict[m] \subseteq DOMAIN verdict'[m],
         \A m \in Nodes \ {d} : tx'[m] = tx[m],
         (\A k \in 1..Len(tx[d].queue) : EntryOK(d, tx[d].queue[k]))',
         \A f \in Range(out) : FrameOK(d, f)',
         \A m \in Nodes : Taken(m)' \subseteq DOMAIN verdict'[m]
  PROVE  \A n \in Nodes : Addressed(n)'
<1>1. /\ \A m \in Nodes : Range(wire'[m]) = Range(Kept(taken, m)) \cup (IF m = d THEN Range(out) ELSE {})
      /\ \A m \in Nodes : Range(Kept(taken, m)) \subseteq Range(wire[m])
  BY WireRange DEF Exchange
<1>2. ASSUME NEW m \in Nodes PROVE /\ \A f : FrameOK(m, f) => FrameOK(m, f)'
                                   /\ \A e : EntryOK(m, e) => EntryOK(m, e)'
  BY DEF FrameOK, EntryOK
<1>. SUFFICES ASSUME NEW n \in Nodes PROVE Addressed(n)'
  OBVIOUS
<1>3. \A f \in Range(wire'[n]) : FrameOK(n, f)'
  BY <1>1, <1>2 DEF Addressed
<1>4. (\A k \in 1..Len(tx[n].queue) : EntryOK(n, tx[n].queue[k]))'
  <2>1. CASE n = d
    BY <2>1
  <2>2. CASE n # d
    BY <1>2, <2>2 DEF Addressed
  <2>. QED
    BY <2>1, <2>2
<1>. QED
  BY <1>3, <1>4 DEF Addressed

\* What is kept of the wire of t is in line, and newer than the front frame.
LEMMA KeptInLine ==
  ASSUME WiresGood, NEW t \in Nodes, Rising(wire[t]), NEW taken, NEW d, NEW out, Exchange(taken, d, out),
         t = d => Rising(out) /\ \A f \in Range(Kept(taken, t)), g \in Range(out) :
                                   Closing(f) /\ Closing(g) => f.num < g.num
  PROVE  /\ Rising(wire'[t])
         /\ t \in taken /\ Closing(Head(wire[t])) =>
              /\ Head(wire[t]) \in Range(wire[t])
              /\ \A f \in Range(Kept(taken, t)) : Closing(f) => Head(wire[t]).num < f.num
<1>. DEFINE kept == Kept(taken, t)
            more == IF t = d THEN out ELSE <<>>
<1>1. wire[t] \in Seq(Frame) /\ WireGood(t, wire[t])
  BY DEF WiresGood, WireGood
<1>2. /\ kept \in Seq(Frame) /\ Rising(kept)
      /\ t \in taken /\ Closing(Head(wire[t])) =>
              /\ Head(wire[t]) \in Range(wire[t])
              /\ \A f \in Range(kept) : Closing(f) => Head(wire[t]).num < f.num
  <2>1. CASE t \in taken
    <3>1. wire[t] # <<>> /\ kept = Tail(wire[t])
      BY <2>1 DEF Exchange, Kept
    <3>2. Tail(wire[t]) \in Seq(Frame) /\ Head(wire[t]) \in Range(wire[t])
      BY <1>1, <3>1, TailWire DEF WireGood
    <3>. QED
      BY <1>1, <3>1, <3>2, TailRising
  <2>2. CASE t \notin taken
    BY <1>1, <2>2 DEF Kept
  <2>. QED
    BY <2>1, <2>2
<1>3. wire'[t] = kept \o more
  BY DEF Exchange, Changed
<1>4. more \in Seq(Frame) /\ Rising(more)
      /\ \A f \in Range(kept), g \in Range(more) : Closing(f) /\ Closing(g) => f.num < g.num
  <2>1. Range(<<>>) = {}
    BY NothingGood
  <2>. QED
    BY <2>1, NothingOrdered DEF Exchange, WireGood
<1>. HIDE DEF kept, more
<1>5. Rising(wire'[t])
  BY <1>2, <1>3, <1>4, ConcatRising
<1>. QED
  BY <1>2, <1>5 DEF kept

\* A tool stays in line while it sends no datagram.
LEMMA LineStays ==
  ASSUME WiresGood, NEW t \in Tools, t \in Nodes, Line(t), tx'[t] = tx[t], verdict'[t] = verdict[t],
         NEW taken, NEW d, NEW out, Exchange(taken, d, out),
         d = t => \A f \in Range(out) : ~Closing(f),
         \/ Taken(t)' = Taken(t)
         \/ /\ t \in taken /\ Closing(Head(wire[t]))
            /\ Taken(t)' = Taken(t) \cup {Head(wire[t]).num}
  PROVE  Line(t)'
<1>1. /\ Range(wire'[t]) = Range(Kept(taken, t)) \cup (IF t = d THEN Range(out) ELSE {})
      /\ Range(Kept(taken, t)) \subseteq Range(wire[t])
  BY WireRange DEF Exchange
<1>2. d = t => Rising(out)
  <2>. SUFFICES ASSUME d = t PROVE Rising(out)
    OBVIOUS
  <2>1. out \in Seq(Frame)
    BY DEF Exchange, WireGood
  <2>2. \A i \in 1..Len(out) : out[i] \in Range(out)
    BY <2>1, LenProperties DEF Range
  <2>. QED
    BY <2>2 DEF Rising
<1>3. /\ Rising(wire'[t])
      /\ t \in taken /\ Closing(Head(wire[t])) =>
              /\ Head(wire[t]) \in Range(wire[t])
              /\ \A f \in Range(Kept(taken, t)) : Closing(f) => Head(wire[t]).num < f.num
  BY <1>2, KeptInLine DEF Line
<1>4. \A i : SentBy(t, i)' <=> SentBy(t, i)
  BY DEF SentBy
<1>5. \A f \in Range(wire'[t]) : Closing(f) => f \in Range(Kept(taken, t)) /\ SentBy(t, f.num)
  BY <1>1 DEF Line
<1>6. \A i \in Taken(t)' : SentBy(t, i)
  BY <1>3 DEF Line
<1>7. \A f \in Range(wire'[t]) : Closing(f) => \A i \in Taken(t)' : i < f.num
  BY <1>1, <1>3, <1>5 DEF Line
<1>. QED
  BY <1>3, <1>4, <1>5, <1>6, <1>7 DEF Line

\* A tool that sends something new stays in line.
LEMMA LineSends ==
  ASSUME WiresGood, NEW t \in Tools, t \in Nodes, Line(t), log' = log,
         NEW taken, NEW out, Exchange(taken, t, out), Rising(out),
         ~tx'[t].resendWait,
         (\A i, j \in 1..Len(tx[t].queue) : i < j => tx[t].queue[i].num < tx[t].queue[j].num)',
         \A i : SentBy(t, i) => SentBy(t, i)',
         \A g \in Range(out) : SentBy(t, g.num)' /\ \A i : SentBy(t, i) => i < g.num
  PROVE  Line(t)'
<1>1. /\ Range(wire'[t]) = Range(Kept(taken, t)) \cup Range(out)
      /\ Range(Kept(taken, t)) \subseteq Range(wire[t])
  <2>1. \A m \in Nodes : Range(wire'[m]) = Range(Kept(taken, m)) \cup (IF m = t THEN Range(out) ELSE {})
    BY WireRange DEF Exchange
  <2>2. \A m \in Nodes : Range(Kept(taken, m)) \subseteq Range(wire[m])
    BY WireRange DEF Exchange
  <2>. QED
    BY <2>1, <2>2
<1>2. Taken(t)' = Taken(t)
  BY DEF Taken
<1>3. \A f \in Range(Kept(taken, t)), g \in Range(out) : Closing(f) /\ Closing(g) => f.num < g.num
  BY <1>1 DEF Line
<1>4. Rising(wire'[t])
  BY <1>3, KeptInLine DEF Line
<1>5. \A f \in Range(wire'[t]) : Closing(f) => SentBy(t, f.num)' /\ \A i \in Taken(t) : i < f.num
  BY <1>1 DEF Line
<1>6. \A i \in Taken(t) : SentBy(t, i)'
  BY DEF Line
<1>. QED
  BY <1>2, <1>4, <1>5, <1>6 DEF Line

-----------------------------------------------------------------------------
(* The bus: sending *)

\* The head of a queue leaves it, and the next datagram goes out.
LEMMA PopBus ==
  ASSUME DeliveryInv, BusInv, NEW d \in Nodes, tx[d].queue # <<>>,
         NEW taken, Exchange(taken, d, PopSends(d, tx[d])),
         NEW result \in {"acked", "failed"}, Pop(d, result), UNCHANGED <<alias, log>>
  PROVE  BusInv'
<1>. DEFINE q == tx[d].queue
            s == PopHead(tx[d])
            out == PopSends(d, tx[d])
            v == verdict[d]
<1>1. /\ WiresGood /\ alias \in [Nodes -> Nat] /\ Tools \subseteq Nodes /\ tx \in [Nodes -> TxType]
      /\ verdict \in [Nodes -> Seq({"queued", "acked", "failed"})]
      /\ \A n \in Nodes : Addressed(n) /\ Alias(n) = <<n, 0>>
      /\ q \in Seq(Entry) /\ Len(q) \in Nat
      /\ \A k \in 1..Len(q) : q[k] \in Entry /\ q[k].num \in Nat
      /\ DOMAIN v = 1..Len(v) /\ \A t \in Tools : Line(t)
  BY TalkFacts
<1>2. 1 \in 1..Len(q) /\ Head(q) = q[1]
  BY <1>1, EmptySeq
<1>3. /\ tx' = [tx EXCEPT ![d] = s] /\ tx'[d] = s
      /\ \A m \in Nodes \ {d} : tx'[m] = tx[m] /\ verdict'[m] = verdict[m]
      /\ \A m \in Nodes : DOMAIN verdict'[m] = DOMAIN verdict[m]
  BY <1>1, <1>2 DEF Pop
<1>4. \A m \in Nodes : Taken(m)' = Taken(m)
  BY DEF Taken
<1>5. \A k \in 1..Len(q) : EntryOK(d, q[k])
  BY <1>1 DEF Addressed
<1>6. ASSUME NEW i, SentBy(d, i), d \in Tools, NEW k \in 1..Len(q), k # 1
      PROVE  i < q[k].num
  <2>1. q[1].num < q[k].num
    <3>1. 1 < k
      BY <1>6
    <3>. QED
      BY <1>1, <1>2, <1>6, <3>1 DEF Line
  <2>2. i \in 1..Len(v)
    BY <1>1, <1>6 DEF SentBy
  <2>3. i < q[1].num \/ i = q[1].num
    BY <1>2, <1>6 DEF SentBy
  <2>4. i \in Int /\ q[1].num \in Int /\ q[k].num \in Int
    <3>1. i \in Int
      BY <2>2
    <3>2. q[1].num \in Nat /\ q[k].num \in Nat
      BY <1>1, <1>2
    <3>. HIDE DEF q
    <3>. QED
      BY <3>1, <3>2
  <2>. HIDE DEF q
  <2>. QED
    BY <2>1, <2>3, <2>4
<1>7. /\ (\A k \in 1..Len(tx[d].queue) : EntryOK(d, tx[d].queue[k]))'
      /\ \A f \in Range(out) : FrameOK(d, f)'
      /\ d \in Tools => Line(d)'
  <2>1. CASE Len(q) <= 1
    <3>1. s = Idle /\ out = <<>>
      BY <2>1 DEF PopHead, PopSends
    <3>2. ~s.resendWait /\ Len(s.queue) = 0 /\ Range(out) = {} /\ Rising(out)
      BY <3>1, NothingGood, NothingOrdered DEF Idle, Sender
    <3>3. \A k \in 1..Len(s.queue) : FALSE
      BY <3>2
    <3>4. Exchange(taken, d, out)
      BY DEF out
    <3>. HIDE DEF s, out
    <3>5. \A i : SentBy(d, i) => SentBy(d, i)'
      BY <1>3, <3>3 DEF SentBy
    <3>6. d \in Tools => Line(d)'
      BY <1>1, <1>3, <3>2, <3>3, <3>4, <3>5, LineSends
    <3>. QED
      BY <1>3, <3>2, <3>3, <3>6
  <2>2. CASE ~(Len(q) <= 1)
    <3>1. s.queue = Tail(q) /\ s.inFlight /\ ~s.resendWait /\ out = FramesOf(Alias(d), q[2])
      BY <2>2 DEF PopHead, PopSends, TransmitHead, Sender
    <3>2. /\ Len(Tail(q)) = Len(q) - 1 /\ \A k \in 1..Len(Tail(q)) : Tail(q)[k] = q[k + 1]
      BY <1>1, <1>2, EmptySeq, HeadTailProperties
    <3>3. Exchange(taken, d, out)
      BY DEF out
    <3>. HIDE DEF s, out, q
    <3>4. /\ Len(s.queue) = Len(q) - 1
          /\ \A k \in 1..Len(s.queue) : s.queue[k] = q[k + 1] /\ k + 1 \in 1..Len(q) /\ k + 1 # 1
          /\ 2 \in 1..Len(q) /\ 2 # 1 /\ q[2] \in Entry /\ EntryOK(d, q[2])
      BY <1>1, <1>5, <2>2, <3>1, <3>2
    <3>5. (\A k \in 1..Len(tx[d].queue) : EntryOK(d, tx[d].queue[k]))'
      <4>1. \A x : EntryOK(d, x) => EntryOK(d, x)'
        BY <1>3 DEF EntryOK
      <4>2. \A k \in 1..Len(s.queue) : \A x : x = s.queue[k] => EntryOK(d, x)'
        BY <1>5, <3>4, <4>1
      <4>. QED
        BY <1>3, <4>2 DEF EntryOK
    <3>6. /\ Rising(out)
          /\ \A f \in Range(out) : /\ f.dst = q[2].dst /\ f.src = Alias(d) /\ f.num = q[2].num
                                   /\ f.kind # "answer" /\ (q[2].len = 1 => f.kind = "one")
      BY <3>1, <3>4, FramesOfEntry
    <3>7. \A f \in Range(out) : FrameOK(d, f)'
      BY <1>1, <1>3, <3>4, <3>6 DEF FrameOK, EntryOK
    <3>8. ASSUME d \in Tools PROVE Line(d)'
      <4>1. \A i : SentBy(d, i) => SentBy(d, i)'
        BY <1>3, <1>6, <3>4, <3>8 DEF SentBy
      <4>2. ASSUME NEW i \in 1..Len(s.queue), NEW j \in 1..Len(s.queue), i < j
            PROVE  s.queue[i].num < s.queue[j].num
        <5>1. i + 1 < j + 1 /\ i + 1 \in 1..Len(q) /\ j + 1 \in 1..Len(q)
          BY <3>4, <4>2
        <5>. QED
          BY <1>1, <3>4, <3>8, <5>1 DEF Line, q
      <4>3. q[2].num = s.queue[1].num /\ 1 \in 1..Len(s.queue)
        BY <1>1, <2>2, <3>4
      <4>4. \A i : i = q[2].num => SentBy(d, i)'
        <5>1. q[2].num \in DOMAIN verdict'[d]
          BY <1>3, <3>4 DEF EntryOK
        <5>2. \A k \in 1..Len(s.queue) : k = 1 \/ q[2].num < s.queue[k].num
          <6>1. \A k \in 1..Len(s.queue) : k = 1 \/ 1 < k
            OBVIOUS
          <6>. QED
            BY <4>2, <4>3, <6>1
        <5>. QED
          BY <1>3, <3>1, <4>3, <5>1, <5>2 DEF SentBy
      <4>5. \A i : SentBy(d, i) => i < q[2].num
        BY <1>6, <3>4, <3>8 DEF q
      <4>. QED
        BY <1>1, <1>3, <3>1, <3>3, <3>6, <3>8, <4>1, <4>2, <4>4, <4>5, LineSends
    <3>. QED
      BY <3>5, <3>7, <3>8
  <2>. QED
    BY <2>1, <2>2
<1>8. \A n \in Nodes : Addressed(n)'
  <2>1. Exchange(taken, d, out) /\ UNCHANGED alias
    BY DEF out
  <2>2. \A m \in Nodes : Taken(m)' \subseteq DOMAIN verdict'[m]
    BY <1>1, <1>3, <1>4 DEF Addressed
  <2>. HIDE DEF out
  <2>. QED
    BY <1>1, <1>3, <1>7, <2>1, <2>2, AddressedKeeps
<1>9. ASSUME NEW t \in Tools, t # d PROVE Line(t)'
  <2>1. Exchange(taken, d, out)
    BY DEF out
  <2>. HIDE DEF out
  <2>. QED
    BY <1>1, <1>3, <1>4, <1>9, <2>1, LineStays
<1>. QED
  BY <1>7, <1>8, <1>9 DEF BusInv

\* A datagram is queued, one frame long if it is a tool's.
LEMMA SendBus ==
  ASSUME DeliveryInv, BusInv, NEW d \in Nodes, NEW to \in Nodes, NEW len \in Lengths,
         <<to, 0>> \in Peers(d), d \in Tools => len = 1, LccDatagramSend(d, to, len)
  PROVE  /\ BusInv' /\ UNCHANGED <<alias, log>>
         /\ \A m \in Nodes \ {d} : verdict'[m] = verdict[m]
         /\ DOMAIN verdict'[d] = DOMAIN verdict[d] \cup {Len(verdict[d]) + 1}
<1>. DEFINE num == Len(verdict[d]) + 1
            e == [dst |-> Alias(to), num |-> num, len |-> len]
            t == Enqueue(tx[d], e)
            q == tx[d].queue
            p == Append(q, e)
            v == verdict[d]
            none == {}
<1>1. /\ WiresGood /\ alias \in [Nodes -> Nat] /\ Tools \subseteq Nodes /\ tx \in [Nodes -> TxType] /\ Good(tx[d])
      /\ verdict \in [Nodes -> Seq({"queued", "acked", "failed"})]
      /\ \A n \in Nodes : Addressed(n) /\ Alias(n) = <<n, 0>>
      /\ q \in Seq(Entry) /\ Len(q) \in Nat
      /\ \A k \in 1..Len(q) : q[k] \in Entry /\ q[k].num \in Nat
      /\ v \in Seq({"queued", "acked", "failed"})
      /\ Len(v) \in Nat /\ DOMAIN v = 1..Len(v) /\ \A m \in Tools : Line(m)
  BY TalkFacts
<1>2. num \in Nat /\ num = Len(v) + 1 /\ e \in Entry /\ e.num = num /\ e.dst = <<to, 0>> /\ e.len = len
  BY <1>1 DEF Entry, Aliases
<1>3. /\ UNCHANGED <<alias, log>> /\ verdict' = [verdict EXCEPT ![d] = Append(v, "queued")]
      /\ Len(t.queue) = 1 => /\ tx' = [tx EXCEPT ![d] = TransmitHead(t)]
                             /\ wire' = [wire EXCEPT ![d] = @ \o FramesOf(Alias(d), e)]
      /\ Len(t.queue) # 1 => tx' = [tx EXCEPT ![d] = t] /\ wire' = wire
  BY DEF LccDatagramSend
<1>4. /\ t.queue = p /\ t.inFlight = tx[d].inFlight /\ t.resendWait = tx[d].resendWait
      /\ TransmitHead(t).queue = p /\ TransmitHead(t).inFlight /\ ~TransmitHead(t).resendWait
  BY DEF Enqueue, TransmitHead, Sender
<1>. HIDE DEF num, e, v, q
<1>5. /\ Len(p) = Len(q) + 1 /\ p[Len(q) + 1] = e
      /\ \A k \in 1..Len(q) : p[k] = q[k]
      /\ \A k \in 1..Len(p) : k \in 1..Len(q) \/ k = Len(q) + 1
  <2>1. /\ Len(p) = Len(q) + 1 /\ p[Len(q) + 1] = e
        /\ \A k \in 1..Len(q) : p[k] = q[k]
    BY <1>1, <1>2, AppendProperties
  <2>. QED
    BY <1>1, <2>1
<1>6. /\ \A m \in Nodes \ {d} : verdict'[m] = verdict[m]
      /\ DOMAIN verdict'[d] = DOMAIN v \cup {num}
      /\ \A i \in DOMAIN v : i < num
  <2>1. verdict'[d] = Append(v, "queued") /\ \A m \in Nodes \ {d} : verdict'[m] = verdict[m]
    BY <1>1, <1>3
  <2>2. DOMAIN verdict'[d] = 1..(Len(v) + 1)
    BY <1>1, <2>1, AppendProperties, LenProperties
  <2>3. 1..(Len(v) + 1) = 1..Len(v) \cup {Len(v) + 1}
    BY <1>1
  <2>. QED
    BY <1>1, <1>2, <2>1, <2>2, <2>3
<1>. HIDE DEF p, none, t
<1>7. ASSUME NEW k \in 1..Len(p), NEW x, x = p[k] PROVE EntryOK(d, x)'
  <2>1. CASE k \in 1..Len(q)
    <3>1. EntryOK(d, q[k]) /\ x = q[k]
      BY <1>1, <1>5, <1>7, <2>1 DEF Addressed, q
    <3>. QED
      BY <1>6, <3>1 DEF EntryOK, v
  <2>2. CASE k = Len(q) + 1
    <3>1. x.dst = <<to, 0>> /\ x.num = num /\ x.len = len
      BY <1>2, <1>5, <1>7, <2>2
    <3>. QED
      BY <1>6, <3>1 DEF EntryOK
  <2>. QED
    BY <1>5, <2>1, <2>2
<1>8. ASSUME d \in Tools, NEW i \in 1..Len(p), NEW j \in 1..Len(p), i < j
      PROVE  p[i].num < p[j].num
  <2>1. i \in 1..Len(q) /\ p[i] = q[i]
    BY <1>1, <1>5, <1>8
  <2>2. q[i].num < num
    BY <1>1, <1>6, <2>1 DEF Addressed, EntryOK, q, v
  <2>3. CASE j \in 1..Len(q)
    BY <1>1, <1>5, <1>8, <2>1, <2>3 DEF Line, q
  <2>4. CASE j = Len(q) + 1
    BY <1>2, <1>5, <2>1, <2>2, <2>4
  <2>. QED
    BY <1>5, <2>3, <2>4
<1>9. \A m \in Nodes : Taken(m)' = Taken(m) /\ DOMAIN verdict[m] \subseteq DOMAIN verdict'[m]
                       /\ Taken(m)' \subseteq DOMAIN verdict'[m]
  <2>1. \A m \in Nodes : Taken(m)' = Taken(m)
    BY <1>3 DEF Taken
  <2>2. \A m \in Nodes : Taken(m) \subseteq DOMAIN verdict[m]
    BY <1>1 DEF Addressed
  <2>3. \A m \in Nodes : DOMAIN verdict[m] \subseteq DOMAIN verdict'[m]
    BY <1>6 DEF v
  <2>. QED
    BY <2>1, <2>2, <2>3
<1>10. ASSUME NEW out, Exchange(none, d, out), \A f \in Range(out) : FrameOK(d, f)',
              tx'[d].queue = p, \A m \in Nodes \ {d} : tx'[m] = tx[m], d \in Tools => Line(d)'
       PROVE  BusInv'
  <2>1. (\A k \in 1..Len(tx[d].queue) : EntryOK(d, tx[d].queue[k]))'
    BY <1>7, <1>10 DEF EntryOK
  <2>2. \A n \in Nodes : Addressed(n)'
    BY <1>1, <1>3, <1>9, <1>10, <2>1, AddressedKeeps
  <2>3. ASSUME NEW m \in Tools, m # d PROVE Line(m)'
    BY <1>1, <1>6, <1>9, <1>10, <2>3, LineStays
  <2>. QED
    BY <1>10, <2>2, <2>3 DEF BusInv
<1>11. CASE Len(p) = 1
  <2>. DEFINE u == TransmitHead(t)
              out == FramesOf(Alias(d), e)
  <2>1. tx' = [tx EXCEPT ![d] = u] /\ u.queue = p /\ u.inFlight /\ ~u.resendWait
    BY <1>3, <1>4, <1>11
  <2>2. wire' = [wire EXCEPT ![d] = @ \o out] /\ WireGood(d, out)
    BY <1>1, <1>2, <1>3, <1>4, <1>11, FramesGood
  <2>3. Exchange(none, d, out)
    BY <1>1, <2>2, SendMoves DEF Exchange, none
  <2>4. /\ Rising(out)
        /\ \A f \in Range(out) : /\ f.dst = <<to, 0>> /\ f.src = Alias(d) /\ f.num = num
                                 /\ f.kind # "answer" /\ (len = 1 => f.kind = "one")
    BY <1>2, FramesOfEntry
  <2>5. \A f \in Range(out) : FrameOK(d, f)'
    BY <1>1, <1>6, <2>4 DEF FrameOK
  <2>. HIDE DEF u, out
  <2>6. tx'[d] = u /\ \A m \in Nodes \ {d} : tx'[m] = tx[m]
    BY <1>1, <2>1
  <2>7. \A k \in 1..Len(p) : k = 1 /\ p[k].num = num
    <3>1. Len(q) \in Nat /\ Len(p) = Len(q) + 1 /\ Len(p) = 1
      BY <1>1, <1>5, <1>11
    <3>2. \A i \in Nat : i + 1 = 1 => i = 0
      OBVIOUS
    <3>3. \A k \in 1..Len(p) : k = 1
      <4>1. \A k \in 1..1 : k = 1
        OBVIOUS
      <4>. QED
        BY <3>1, <4>1
    <3>. QED
      BY <1>2, <1>5, <3>1, <3>2, <3>3
  <2>8. /\ \A i : SentBy(d, i) => SentBy(d, i)' /\ i < num
        /\ \A i : i = num => SentBy(d, i)'
    <3>1. \A i : SentBy(d, i) => i \in DOMAIN v
      BY DEF SentBy, v
    <3>. QED
      BY <1>6, <2>1, <2>6, <2>7, <3>1 DEF SentBy
  <2>9. d \in Tools => Line(d)'
    <3>. SUFFICES ASSUME d \in Tools PROVE Line(d)'
      OBVIOUS
    <3>1. Line(d) /\ log' = log /\ ~tx'[d].resendWait /\ Rising(out)
      BY <1>1, <1>3, <2>1, <2>4, <2>6
    <3>2. (\A i, j \in 1..Len(tx[d].queue) : i < j => tx[d].queue[i].num < tx[d].queue[j].num)'
      BY <1>8, <2>1, <2>6
    <3>3. \A g \in Range(out) : SentBy(d, g.num)' /\ \A i : SentBy(d, i) => i < g.num
      BY <2>4, <2>8
    <3>. QED
      BY <1>1, <2>3, <2>8, <3>1, <3>2, <3>3, LineSends
  <2>10. BusInv'
    BY <1>10, <2>1, <2>3, <2>5, <2>6, <2>9
  <2>. QED
    BY <1>3, <1>6, <2>10 DEF v, num
<1>12. CASE Len(p) # 1
  <2>. DEFINE out == <<>>
  <2>1. wire' = wire /\ tx'[d] = t /\ \A m \in Nodes \ {d} : tx'[m] = tx[m]
    BY <1>1, <1>3, <1>4, <1>12
  <2>2. Exchange(none, d, out)
    BY <1>1, <2>1, StayMoves, NothingGood DEF Exchange, none
  <2>3. Range(out) = {} /\ Rising(out)
    BY NothingGood, NothingOrdered
  <2>. HIDE DEF out
  <2>4. ASSUME d \in Tools PROVE \A i : SentBy(d, i) => SentBy(d, i)'
    <3>. SUFFICES ASSUME NEW i, SentBy(d, i) PROVE SentBy(d, i)'
      OBVIOUS
    <3>1. i \in DOMAIN v /\ i \in DOMAIN verdict'[d] /\ i < num
      BY <1>6 DEF SentBy, v
    <3>2. ASSUME NEW k \in 1..Len(p) PROVE i < p[k].num \/ (i = p[k].num /\ k = 1 /\ t.inFlight)
      BY <1>2, <1>4, <1>5, <3>1, <3>2 DEF SentBy, q
    <3>. QED
      BY <1>4, <2>1, <3>1, <3>2 DEF SentBy
  <2>5. d \in Tools => Line(d)'
    <3>. SUFFICES ASSUME d \in Tools PROVE Line(d)'
      OBVIOUS
    <3>1. ~t.resendWait /\ Line(d)
      BY <1>1, <1>4 DEF Line
    <3>. QED
      BY <1>1, <1>3, <1>4, <1>8, <2>1, <2>2, <2>3, <2>4, <3>1, LineSends
  <2>6. BusInv'
    BY <1>4, <1>10, <2>1, <2>2, <2>3, <2>5
  <2>. QED
    BY <1>3, <1>6, <2>6 DEF v, num
<1>. QED
  BY <1>11, <1>12

\* The timers: nothing of a tool is sent again.
LEMMA TimersBus ==
  ASSUME DeliveryInv, BusInv, NEW d \in Nodes, LccDatagramRunTimers(d)
  PROVE  /\ BusInv' /\ UNCHANGED <<alias, log>>
         /\ \A m \in Nodes : DOMAIN verdict'[m] = DOMAIN verdict[m]
<1>. DEFINE q == tx[d].queue
            none == {}
<1>1. /\ WiresGood /\ alias \in [Nodes -> Nat] /\ Tools \subseteq Nodes /\ tx \in [Nodes -> TxType] /\ Good(tx[d])
      /\ verdict \in [Nodes -> Seq({"queued", "acked", "failed"})]
      /\ \A n \in Nodes : Addressed(n) /\ Alias(n) = <<n, 0>>
      /\ q \in Seq(Entry) /\ \A m \in Tools : Line(m)
  BY TalkFacts
<1>2. CASE ReassemblyTimeout(d)
  <2>1. UNCHANGED <<alias, tx, wire, log, verdict>>
    BY <1>2 DEF ReassemblyTimeout
  <2>2. \A n \in Nodes : Taken(n)' = Taken(n) /\ \A i : SentBy(n, i)' <=> SentBy(n, i)
    BY <2>1 DEF Taken, SentBy
  <2>3. \A n \in Nodes : Addressed(n)'
    BY <1>1, <2>1, <2>2 DEF Addressed, EntryOK, FrameOK
  <2>4. \A t \in Tools : Line(t)'
    BY <1>1, <2>1, <2>2 DEF Line
  <2>. QED
    BY <2>1, <2>3, <2>4 DEF BusInv
<1>3. CASE ResendHead(d)
  <2>. DEFINE out == FramesOf(Alias(d), Head(q))
  <2>1. d \notin Tools
    BY <1>1, <1>3 DEF ResendHead, Line
  <2>2. q # <<>>
    BY <1>1, <1>3 DEF ResendHead, Good, Driven
  <2>3. 1 \in 1..Len(q) /\ Head(q) = q[1] /\ q[1] \in Entry /\ EntryOK(d, q[1])
    BY <1>1, <2>2, EmptySeq, ElementOfSeq DEF Addressed
  <2>4. /\ UNCHANGED <<alias, log, verdict>> /\ tx' = [tx EXCEPT ![d] = TransmitHead(@)]
        /\ wire' = [wire EXCEPT ![d] = @ \o out]
    BY <1>3 DEF ResendHead
  <2>5. tx'[d].queue = q /\ \A m \in Nodes \ {d} : tx'[m] = tx[m]
    BY <1>1, <2>4 DEF TransmitHead, Sender
  <2>6. WireGood(d, out) /\ \A f \in Range(out) : FrameOK(d, f)
    BY <1>1, <2>1, <2>3, FramesGood, FramesOfEntry DEF FrameOK, EntryOK
  <2>7. Exchange(none, d, out)
    BY <1>1, <2>4, <2>6, SendMoves DEF Exchange
  <2>. HIDE DEF out, none
  <2>8. \A n \in Nodes : Taken(n)' = Taken(n)
    BY <2>4 DEF Taken
  <2>9. \A f \in Range(out) : FrameOK(d, f)'
    BY <2>4, <2>6 DEF FrameOK
  <2>10. (\A k \in 1..Len(tx[d].queue) : EntryOK(d, tx[d].queue[k]))'
    BY <1>1, <2>4, <2>5 DEF Addressed, EntryOK
  <2>11. \A n \in Nodes : Taken(n)' \subseteq DOMAIN verdict'[n]
    BY <1>1, <2>4, <2>8 DEF Addressed
  <2>12. \A n \in Nodes : Addressed(n)'
    BY <1>1, <2>4, <2>5, <2>7, <2>9, <2>10, <2>11, AddressedKeeps
  <2>13. ASSUME NEW t \in Tools PROVE Line(t)'
    BY <1>1, <2>1, <2>4, <2>5, <2>7, <2>8, LineStays
  <2>. QED
    BY <2>4, <2>12, <2>13 DEF BusInv
<1>4. CASE AckTimeout(d)
  <2>. DEFINE out == PopSends(d, tx[d])
  <2>1. /\ q # <<>> /\ Pop(d, "failed") /\ UNCHANGED <<alias, log>>
        /\ wire' = [wire EXCEPT ![d] = @ \o out]
    BY <1>1, <1>4 DEF AckTimeout, Good, Driven
  <2>2. WireGood(d, out)
    BY <1>1, <2>1, PopGoesOn
  <2>3. Exchange(none, d, out)
    BY <1>1, <2>1, <2>2, SendMoves DEF Exchange
  <2>4. \A m \in Nodes : DOMAIN verdict'[m] = DOMAIN verdict[m]
    BY <1>1, <2>1 DEF Pop
  <2>. HIDE DEF none
  <2>. QED
    BY <2>1, <2>3, <2>4, PopBus
<1>. QED
  BY <1>2, <1>3, <1>4 DEF LccDatagramRunTimers
-----------------------------------------------------------------------------
(* The steps of the transport *)

\* The request that is being processed came from a tool, and is known.
LEMMA RequestKnown ==
  ASSUME TalkInv, request # NoRequest
  PROVE  /\ From(request) \in Tools /\ From(request) \in Nodes /\ From(request) # Server
         /\ request = <<From(request), request[2]>> /\ request[2] \in Taken(From(request))
         /\ request[2] \in DOMAIN sent[From(request)]
         /\ Asked(request) \in AskType /\ Asked(request) = sent[From(request)][request[2]]
<1>1. /\ request \in Tools \X Nat
      /\ From(request) \in Tools /\ request[2] \in Taken(From(request))
  BY DEF TalkInv, Latest
<1>2. From(request) \in Nodes /\ From(request) # Server
  BY <1>1 DEF Tools
<1>3. request[2] \in DOMAIN sent[From(request)]
  BY <1>1, <1>2 DEF TalkInv, BusInv, Addressed, SentOK
<1>4. \A p \in Tools \X Nat : p = <<p[1], p[2]>>
  OBVIOUS
<1>5. request = <<From(request), request[2]>>
  BY <1>1, <1>4 DEF From
<1>6. Asked(request) = sent[From(request)][request[2]]
  BY DEF From, Asked
<1>7. sent[From(request)][request[2]] \in AskType
  BY <1>1, <1>3 DEF TalkInv, SentOK
<1>. QED
  BY <1>1, <1>2, <1>3, <1>5, <1>6, <1>7

\* A reply has a length that occurs.
LEMMA ReplyFits ==
  ASSUME NEW r \in AskType
  PROVE  ReplyLength(r) \in Lengths
  BY MemoryConfigAssumption DEF AskType, ReplyLength

\* Every step is one of the transport, or leaves it alone.
LEMMA UsesDatagram ==
  ASSUME TalkInv, [MemoryConfigNext]_mvars
  PROVE  [Next]_vars
<1>1. CASE UNCHANGED mvars
  BY <1>1 DEF mvars
<1>2. CASE Process
  <2>1. CASE UNCHANGED vars
    BY <2>1
  <2>2. CASE LccDatagramSend(Server, From(request), ReplyLength(Asked(request)))
    <3>1. request # NoRequest
      BY <1>2 DEF Process
    <3>2. From(request) \in Tools /\ Asked(request) \in AskType
      BY <3>1, RequestKnown
    <3>3. <<Server, From(request)>> \in Routes /\ ReplyLength(Asked(request)) \in Lengths
      BY <3>2, ReplyFits, MemoryConfigAssumption
    <3>. DEFINE rt == <<Server, From(request)>>
    <3>4. rt[1] = Server /\ rt[2] = From(request)
      OBVIOUS
    <3>. QED
      BY <2>2, <3>3, <3>4 DEF Next
  <2>. QED
    BY <1>2, <2>1, <2>2 DEF Process
<1>3. ASSUME NEW q \in Requests, Ask(q[1], q[2]) PROVE Next
  <2>1. q[1] \in Tools /\ LccDatagramSend(q[1], Server, 1)
    BY <1>3, MemoryConfigAssumption DEF Ask
  <2>2. <<q[1], Server>> \in Routes /\ 1 \in Lengths
    BY <2>1, MemoryConfigAssumption
  <2>. DEFINE rt == <<q[1], Server>>
  <2>3. rt[1] = q[1] /\ rt[2] = Server
    OBVIOUS
  <2>. QED
    BY <2>1, <2>2, <2>3 DEF Next
<1>4. ASSUME NEW n \in Nodes, Arrive(n) \/ RunTimers(n) PROVE Next
  BY <1>4 DEF Arrive, RunTimers, Next
<1>. QED
  BY <1>1, <1>2, <1>3, <1>4 DEF MemoryConfigNext

\* What is left of the transport's invariant to prove after a step
LEMMA DeliveryKept ==
  ASSUME TalkInv, [MemoryConfigNext]_mvars
  PROVE  DeliveryInv'
  BY UsesDatagram, DeliveryNext DEF TalkInv

-----------------------------------------------------------------------------
(* The bus: arriving *)

\* Frame f of n completes a datagram at d and a handler decides with `code`
Decided(n, d, f, code) ==
  /\ Closing(f) /\ Handle(n, d, Answer(Alias(d), f, code))
  /\ \E buf \in Seq(Nat \X Nat) :
       /\ LastNum(buf) = f.num
       /\ log' = IF code = "ok" THEN [log EXCEPT ![n] = Append(@, buf)] ELSE log

\* Frame f of n completes nothing at d
Undecided(n, d, f) ==
  /\ log' = log
  /\ \/ Handle(n, d, <<>>)
     \/ \E code \in Transport : Handle(n, d, Answer(Alias(d), f, code))

\* What becomes of a frame of a datagram
LEMMA FrameDecides ==
  ASSUME DeliveryInv, NEW n \in Nodes, NEW d \in Nodes, wire[n] # <<>>,
         LccDatagramFrame(n, d, Head(wire[n]))
  PROVE  /\ UNCHANGED <<alias, tx, verdict>> /\ Head(wire[n]).kind # "answer"
         /\ IF Completes(d, Head(wire[n])) THEN \E code \in Verdicts : Decided(n, d, Head(wire[n]), code)
                                           ELSE Undecided(n, d, Head(wire[n]))
<1>. DEFINE f == Head(wire[n])
            buf == Append(rx[d].buf, <<f.num, f.part>>)
            one == << <<f.num, f.part>> >>
<1>. SUFFICES /\ UNCHANGED <<alias, tx, verdict>> /\ f.kind # "answer"
              /\ IF Completes(d, f) THEN \E code \in Verdicts : Decided(n, d, f, code)
                                    ELSE Undecided(n, d, f)
  OBVIOUS
<1>1. WiresGood /\ RxTypeOK
  BY DEF DeliveryInv, Delivery
<1>2. f \in Frame /\ f \in Range(wire[n]) /\ f.src[1] = n
  BY <1>1, NextFrame
<1>3. f.num \in Nat /\ f.part \in Nat
  BY <1>2, ConstantsAssumption DEF Frame
<1>4. one \in Seq(Nat \X Nat) /\ LastNum(one) = f.num
  <2>1. <<f.num, f.part>> \in Nat \X Nat
    BY <1>3
  <2>2. one \in Seq(Nat \X Nat) /\ Len(one) = 1 /\ one[1] = <<f.num, f.part>>
    BY <2>1, OnePair
  <2>. QED
    BY <2>2 DEF LastNum
<1>5. buf \in Seq(Nat \X Nat) /\ LastNum(buf) = f.num
  <2>1. rx[d].buf \in Seq(Nat \X Nat) /\ <<f.num, f.part>> \in Nat \X Nat
    BY <1>1, <1>3 DEF RxTypeOK, RxType
  <2>2. /\ buf \in Seq(Nat \X Nat) /\ Len(buf) = Len(rx[d].buf) + 1
        /\ buf[Len(rx[d].buf) + 1] = <<f.num, f.part>>
    BY <2>1, AppendProperties
  <2>. QED
    BY <2>2 DEF LastNum
<1>6. LccDatagramFrame(n, d, f) /\ Completes(d, f) =
        (f.kind = "one" \/ (f.kind = "final" /\ Ours(rx[d], f) /\ Fits(buf)))
  BY DEF f, Completes
<1>. HIDE DEF f, buf, one
<1>7. ASSUME NEW b \in Seq(Nat \X Nat), LastNum(b) = f.num, Deliver(n, d, f, b), Closing(f)
      PROVE  \E code \in Verdicts : Decided(n, d, f, code)
  BY <1>2, <1>7 DEF Deliver, Decided
<1>8. UNCHANGED <<alias, tx, verdict>> /\ f.kind # "answer"
  BY <1>6 DEF LccDatagramFrame
<1>9. CASE f.kind = "one" /\ Deliver(n, d, f, one)
  BY <1>4, <1>6, <1>7, <1>8, <1>9 DEF Closing
<1>10. CASE f.kind = "final" /\ Ours(rx[d], f) /\ Fits(buf) /\ Deliver(n, d, f, buf)
  BY <1>5, <1>6, <1>7, <1>8, <1>10 DEF Closing
<1>11. CASE f.kind = "final" /\ ~Ours(rx[d], f) /\ Handle(n, d, Refuse(d, f)) /\ UNCHANGED log
  <2>1. PICK code \in Transport : Refuse(d, f) = Answer(Alias(d), f, code)
    BY DEF Transport, Refuse
  <2>. QED
    BY <1>6, <1>8, <1>11, <2>1 DEF Undecided
<1>12. CASE /\ f.kind \in {"middle", "final"} /\ ~Fits(buf) /\ UNCHANGED log
            /\ Handle(n, d, Answer(Alias(d), f, "invalid_args"))
  BY <1>6, <1>8, <1>12 DEF Undecided, Transport
<1>13. CASE f.kind \in {"first", "middle"} /\ Handle(n, d, <<>>) /\ UNCHANGED log
  BY <1>6, <1>8, <1>13 DEF Undecided
<1>. QED
  BY <1>6, <1>9, <1>10, <1>11, <1>12, <1>13 DEF LccDatagramFrame, buf, one

\* An answer that has just been sent is the last frame on the wire.
LEMMA AnswerIsLast ==
  ASSUME WiresGood, NEW n \in Nodes, NEW d \in Nodes, n # d, NEW f, NEW code,
         Handle(n, d, Answer(Alias(d), f, code))
  PROVE  wire'[d][Len(wire'[d])].code = code
<1>. DEFINE g == [kind |-> "answer", src |-> Alias(d), dst |-> f.src, num |-> f.num, part |-> 0, code |-> code]
            w == wire[d]
<1>1. wire'[d] = w \o <<g>>
  BY DEF WiresGood, Handle, Answer
<1>2. PICK S : w \in Seq(S) /\ g \in S
  <2>1. w \in Seq(Frame)
    BY DEF WiresGood, WireGood
  <2>2. w \in Seq(Frame \cup {g})
    BY <2>1
  <2>. QED
    BY <2>2
<1>3. g.code = code
  OBVIOUS
<1>. HIDE DEF g, w
<1>4. Len(w \o <<g>>) = Len(w) + 1 /\ (w \o <<g>>)[Len(w) + 1] = g
  BY <1>2
<1>. QED
  BY <1>1, <1>3, <1>4

\* A frame arrives, and its receiver only answers or takes note.
LEMMA StayBus ==
  ASSUME DeliveryInv, BusInv, NEW n \in Nodes, NEW d \in Nodes, wire[n] # <<>>,
         NEW out, WireGood(d, out), Handle(n, d, out), UNCHANGED <<alias, verdict>>,
         \A m \in Nodes \ {d} : tx'[m] = tx[m], tx'[d].queue = tx[d].queue,
         d \in Tools => tx'[d] = tx[d],
         \A g \in Range(out) : ~Closing(g) /\ FrameOK(d, g),
         \A m \in Nodes \ {n} : Taken(m)' = Taken(m),
         \/ Taken(n)' = Taken(n)
         \/ Closing(Head(wire[n])) /\ Taken(n)' = Taken(n) \cup {Head(wire[n]).num}
  PROVE  BusInv'
<1>1. /\ WiresGood /\ Tools \subseteq Nodes /\ \A m \in Nodes : Addressed(m)
      /\ \A t \in Tools : Line(t)
  BY TalkFacts
<1>2. PICK taken : taken = {n}
  OBVIOUS
<1>3. Exchange(taken, d, out)
  BY <1>1, <1>2, HandleExchange
<1>4. \A m \in Nodes : Taken(m)' \subseteq DOMAIN verdict'[m]
  <2>1. FrameOK(n, Head(wire[n]))
    BY <1>1, NextFrame DEF Addressed
  <2>2. Closing(Head(wire[n])) => Head(wire[n]).num \in DOMAIN verdict[n]
    BY <2>1 DEF FrameOK, Closing
  <2>. QED
    BY <1>1, <2>2 DEF Addressed
<1>5. /\ (\A k \in 1..Len(tx[d].queue) : EntryOK(d, tx[d].queue[k]))'
      /\ \A g \in Range(out) : FrameOK(d, g)'
  BY <1>1 DEF Addressed, EntryOK, FrameOK
<1>6. \A m \in Nodes : Addressed(m)'
  BY <1>1, <1>3, <1>4, <1>5, AddressedKeeps
<1>7. ASSUME NEW t \in Tools PROVE Line(t)'
  <2>1. tx'[t] = tx[t] /\ verdict'[t] = verdict[t] /\ t \in Nodes /\ Line(t)
    BY <1>1
  <2>2. \/ Taken(t)' = Taken(t)
        \/ /\ t \in taken /\ Closing(Head(wire[t]))
           /\ Taken(t)' = Taken(t) \cup {Head(wire[t]).num}
    BY <1>2, <2>1
  <2>. QED
    BY <1>1, <1>3, <2>1, <2>2, LineStays
<1>. QED
  BY <1>6, <1>7 DEF BusInv

\* Who gets the next frame
LEMMA ArrivalFacts ==
  ASSUME DeliveryInv, BusInv, NEW n \in Nodes, wire[n] # <<>>
  PROVE  LET f == Head(wire[n]) IN
         /\ f \in Frame /\ f \in Range(wire[n]) /\ FrameOK(n, f) /\ f.src = Alias(n)
         /\ f.dst[1] \in Nodes /\ f.dst = Alias(f.dst[1]) /\ f.dst[1] # n
         /\ \A m \in Nodes : f.dst = Alias(m) => m = f.dst[1]
         /\ (n \in Tools /\ f.dst[1] = Server) \/ (n = Server /\ f.dst[1] \in Tools)
<1>. DEFINE f == Head(wire[n])
<1>1. /\ WiresGood /\ Tools \subseteq Nodes /\ Server \in Nodes /\ Server \notin Tools
      /\ \A m \in Nodes : Addressed(m) /\ Alias(m) = <<m, 0>>
  BY TalkFacts
<1>2. f \in Frame /\ f \in Range(wire[n])
  BY <1>1, NextFrame
<1>3. FrameOK(n, f)
  BY <1>1, <1>2 DEF Addressed
<1>. HIDE DEF f
<1>4. f.dst \in Peers(n) /\ f.src = Alias(n)
  BY <1>1, <1>3 DEF FrameOK
<1>5. PICK d : f.dst = <<d, 0>> /\ d \in Nodes /\ d # n /\ ((n \in Tools /\ d = Server) \/ (n = Server /\ d \in Tools))
  <2>1. n \in Tools \/ n = Server
    BY DEF Tools
  <2>. QED
    BY <1>1, <1>4, <2>1 DEF Peers
<1>6. f.dst[1] = d
  BY <1>5
<1>7. \A m \in Nodes : <<d, 0>> = <<m, 0>> => m = d
  OBVIOUS
<1>. QED
  BY <1>1, <1>2, <1>3, <1>4, <1>5, <1>6, <1>7 DEF f

\* An answer arrives.
LEMMA MessageArrives ==
  ASSUME DeliveryInv, BusInv, NEW n \in Nodes, NEW d \in Nodes, wire[n] # <<>>,
         d = Head(wire[n]).dst[1], LccDatagramMessage(n, d, Head(wire[n]))
  PROVE  /\ BusInv' /\ UNCHANGED <<alias, log>>
         /\ \A m \in Nodes : DOMAIN verdict'[m] = DOMAIN verdict[m]
<1>. DEFINE f == Head(wire[n])
<1>1. /\ f \in Frame /\ FrameOK(n, f) /\ d # n
      /\ (n \in Tools /\ d = Server) \/ (n = Server /\ d \in Tools)
  BY ArrivalFacts
<1>2. LccDatagramMessage(n, d, f)
  OBVIOUS
<1>3. /\ WiresGood /\ Tools \subseteq Nodes /\ Server \notin Tools /\ tx \in [Nodes -> TxType] /\ Good(tx[d])
      /\ alias \in [Nodes -> Nat] /\ verdict \in [Nodes -> Seq({"queued", "acked", "failed"})]
  BY TalkFacts
<1>. HIDE DEF f
<1>4. UNCHANGED <<alias, log>> /\ f.kind = "answer"
  BY <1>2 DEF LccDatagramMessage
<1>5. \A m \in Nodes : Taken(m)' = Taken(m)
  BY <1>4 DEF Taken
<1>6. ASSUME Handle(n, d, <<>>), verdict' = verdict, \A m \in Nodes \ {d} : tx'[m] = tx[m],
             tx'[d].queue = tx[d].queue, d \in Tools => tx'[d] = tx[d]
      PROVE  BusInv'
  <2>1. PICK none : none = <<>>
    OBVIOUS
  <2>2. Handle(n, d, none) /\ WireGood(d, none) /\ \A g \in Range(none) : ~Closing(g) /\ FrameOK(d, g)
    BY <1>6, <2>1, NothingGood
  <2>. QED
    BY <1>4, <1>5, <1>6, <2>2, StayBus
<1>7. ASSUME NEW result \in {"acked", "failed"}, tx[d].queue # <<>>, Pop(d, result), Handle(n, d, PopSends(d, tx[d]))
      PROVE  BusInv' /\ \A m \in Nodes : DOMAIN verdict'[m] = DOMAIN verdict[m]
  <2>1. PICK taken : taken = {n}
    OBVIOUS
  <2>2. WireGood(d, PopSends(d, tx[d]))
    BY <1>3, <1>7, PopGoesOn
  <2>3. Exchange(taken, d, PopSends(d, tx[d]))
    BY <1>3, <1>7, <2>1, <2>2, HandleExchange
  <2>4. \A m \in Nodes : DOMAIN verdict'[m] = DOMAIN verdict[m]
    BY <1>3, <1>7 DEF Pop
  <2>. QED
    BY <1>4, <1>7, <2>3, <2>4, PopBus
<1>8. CASE Handle(n, d, <<>>) /\ UNCHANGED <<tx, verdict>>
  BY <1>4, <1>6, <1>8
<1>9. CASE tx[d].queue # <<>> /\ Pop(d, "acked") /\ Handle(n, d, PopSends(d, tx[d]))
  BY <1>4, <1>7, <1>9
<1>10. CASE tx[d].queue # <<>> /\ Pop(d, "failed") /\ Handle(n, d, PopSends(d, tx[d]))
  BY <1>4, <1>7, <1>10
<1>11. CASE /\ Retry(tx[d], f.code) /\ tx' = [tx EXCEPT ![d] = Postpone(tx[d])]
            /\ Handle(n, d, <<>>) /\ UNCHANGED verdict
  <2>1. d \notin Tools
    <3>. SUFFICES ASSUME d \in Tools PROVE FALSE
      OBVIOUS
    <3>1. f.code \in {"ok", "refused"}
      BY <1>1, <1>3, <1>4 DEF FrameOK
    <3>. QED
      BY <1>11, <3>1 DEF Retry, Temporary
  <2>2. tx'[d].queue = tx[d].queue /\ \A m \in Nodes \ {d} : tx'[m] = tx[m]
    BY <1>3, <1>11 DEF Postpone, Sender
  <2>. QED
    BY <1>4, <1>6, <1>11, <2>1, <2>2
<1>. QED
  BY <1>2, <1>8, <1>9, <1>10, <1>11 DEF LccDatagramMessage

\* The node takes request k of tool t.
Takes(t, k) ==
  /\ request = NoRequest /\ request' = <<t, k>>
  /\ k \in DOMAIN verdict[t] /\ \A i \in Taken(t) : i < k
  /\ Taken(t)' = Taken(t) \cup {k}
  /\ \A u \in Tools \ {t} : Taken(u)' = Taken(u)

\* Nothing that the node and the tools say or take changes.
NothingTaken == request' = request /\ \A t \in Tools : Taken(t)' = Taken(t)

\* A frame of a datagram arrives.
LEMMA FrameArrives ==
  ASSUME DeliveryInv, BusInv, NEW n \in Nodes, Arrive(n),
         LccDatagramFrame(n, Head(wire[n]).dst[1], Head(wire[n]))
  PROVE  /\ BusInv' /\ UNCHANGED <<alias, verdict>>
         /\ NothingTaken \/ \E t \in Tools, k \in Nat : Takes(t, k)
<1>. DEFINE f == Head(wire[n])
            d == f.dst[1]
<1>1. /\ wire[n] # <<>> /\ f \in Frame /\ f \in Range(wire[n]) /\ FrameOK(n, f) /\ f.src = Alias(n)
      /\ d \in Nodes /\ d # n /\ ((n \in Tools /\ d = Server) \/ (n = Server /\ d \in Tools))
  BY ArrivalFacts DEF Arrive
<1>2. /\ UNCHANGED <<alias, tx, verdict>> /\ f.kind # "answer"
      /\ IF Completes(d, f) THEN \E code \in Verdicts : Decided(n, d, f, code)
                            ELSE Undecided(n, d, f)
  BY <1>1, FrameDecides
<1>3. /\ d = Server => request = NoRequest
      /\ IF Completes(d, f)
         THEN /\ wire'[d][Len(wire'[d])].code = Verdict(n, f.num, d)
              /\ request' = IF d = Server /\ wire'[d][Len(wire'[d])].code = "ok" THEN <<n, f.num>> ELSE request
         ELSE UNCHANGED request
  BY DEF Arrive
<1>4. /\ WiresGood /\ RxTypeOK /\ Tools \subseteq Nodes /\ Server \notin Tools /\ alias \in [Nodes -> Nat]
      /\ \A m \in Nodes : Alias(m) = <<m, 0>> /\ \A t \in Tools : Line(t)
  BY TalkFacts
<1>5. f = Head(wire[n]) /\ f.num \in Nat
  BY <1>1 DEF Frame
<1>. HIDE DEF f, d
<1>6. ASSUME NEW code \in Verdicts \cup Transport, d = Server => code \in {"ok", "refused"}
      PROVE  /\ WireGood(d, Answer(Alias(d), f, code))
             /\ \A g \in Range(Answer(Alias(d), f, code)) : ~Closing(g) /\ FrameOK(d, g)
  <2>1. \A g \in Range(Answer(Alias(d), f, code)) :
          g.kind = "answer" /\ g.dst = f.src /\ g.num = f.num /\ g.code = code
    BY AnswerOrdered
  <2>2. WireGood(d, Answer(Alias(d), f, code))
    BY <1>1, <1>4, AnswerGood
  <2>3. \A g \in Range(Answer(Alias(d), f, code)) : g.src = Alias(d)
    BY DEF Answer, Range
  <2>4. f.src \in Peers(d)
    BY <1>1, <1>4 DEF Peers
  <2>. QED
    BY <1>1, <1>4, <1>6, <2>1, <2>2, <2>3, <2>4 DEF FrameOK, Closing
<1>7. CASE ~Completes(d, f)
  <2>1. d # Server
    <3>. SUFFICES ASSUME d = Server PROVE FALSE
      OBVIOUS
    <3>1. f.kind = "one"
      BY <1>1, <1>2, <1>4 DEF FrameOK
    <3>. QED
      BY <1>7, <3>1 DEF Completes
  <2>2. Undecided(n, d, f)
    BY <1>2, <1>7
  <2>3. \A m \in Nodes : Taken(m)' = Taken(m)
    BY <2>2 DEF Undecided, Taken
  <2>4. BusInv'
    <3>1. CASE Handle(n, d, <<>>)
      <4>1. PICK none : none = <<>>
        OBVIOUS
      <4>2. Handle(n, d, none) /\ WireGood(d, none) /\ \A g \in Range(none) : ~Closing(g) /\ FrameOK(d, g)
        BY <3>1, <4>1, NothingGood
      <4>. QED
        BY <1>1, <1>2, <2>3, <4>2, StayBus
    <3>2. ASSUME NEW code \in Transport, Handle(n, d, Answer(Alias(d), f, code)) PROVE BusInv'
      <4>1. PICK out : out = Answer(Alias(d), f, code)
        OBVIOUS
      <4>2. Handle(n, d, out) /\ WireGood(d, out) /\ \A g \in Range(out) : ~Closing(g) /\ FrameOK(d, g)
        BY <1>6, <2>1, <3>2, <4>1
      <4>. QED
        BY <1>1, <1>2, <2>3, <4>2, StayBus
    <3>. QED
      BY <2>2, <3>1, <3>2 DEF Undecided
  <2>. QED
    BY <1>2, <1>3, <1>4, <1>7, <2>3, <2>4 DEF NothingTaken
<1>8. CASE Completes(d, f)
  <2>1. PICK code \in Verdicts : Decided(n, d, f, code)
    BY <1>2, <1>8
  <2>2. code = Verdict(n, f.num, d)
    BY <1>1, <1>3, <1>4, <1>8, <2>1, AnswerIsLast DEF Decided
  <2>3. wire'[d][Len(wire'[d])].code = code
    BY <1>3, <1>8, <2>2
  <2>4. d = Server => code \in {"ok", "refused"}
    BY <2>2 DEF Verdict, Accept
  <2>5. PICK out : out = Answer(Alias(d), f, code)
    OBVIOUS
  <2>6. Handle(n, d, out) /\ WireGood(d, out) /\ \A g \in Range(out) : ~Closing(g) /\ FrameOK(d, g)
    BY <1>6, <2>1, <2>4, <2>5 DEF Decided
  <2>7. Closing(f) /\ \E buf \in Seq(Nat \X Nat) :
          /\ LastNum(buf) = f.num
          /\ log' = IF code = "ok" THEN [log EXCEPT ![n] = Append(@, buf)] ELSE log
    BY <2>1 DEF Decided
  <2>8. CASE code = "ok"
    <3>1. Taken(n)' = Taken(n) \cup {f.num} /\ \A m \in Nodes \ {n} : Taken(m)' = Taken(m)
      BY <1>4, <2>7, <2>8, TakenMore
    <3>2. BusInv'
      BY <1>1, <1>2, <1>5, <2>6, <2>7, <3>1, StayBus
    <3>3. CASE d = Server
      <4>1. n \in Tools /\ request = NoRequest /\ request' = <<n, f.num>>
        BY <1>1, <1>3, <1>4, <1>8, <2>3, <2>8, <3>3
      <4>2. f.num \in DOMAIN verdict[n]
        BY <1>1, <1>2 DEF FrameOK
      <4>3. \A i \in Taken(n) : i < f.num
        BY <1>1, <1>4, <2>7, <4>1 DEF Line
      <4>4. Takes(n, f.num)
        BY <1>4, <3>1, <4>1, <4>2, <4>3 DEF Takes
      <4>. QED
        BY <1>2, <1>5, <3>2, <4>1, <4>4
    <3>4. CASE d # Server
      <4>1. n \notin Tools /\ request' = request
        BY <1>1, <1>3, <1>4, <1>8, <3>4
      <4>2. NothingTaken
        BY <1>4, <3>1, <4>1 DEF NothingTaken
      <4>. QED
        BY <1>2, <3>2, <4>2
    <3>. QED
      BY <3>3, <3>4
  <2>9. CASE code # "ok"
    <3>1. \A m \in Nodes : Taken(m)' = Taken(m)
      BY <2>7, <2>9 DEF Taken
    <3>2. BusInv'
      BY <1>1, <1>2, <1>5, <2>6, <3>1, StayBus
    <3>3. NothingTaken
      BY <1>3, <1>4, <1>8, <2>3, <2>9, <3>1 DEF NothingTaken
    <3>. QED
      BY <1>2, <3>2, <3>3
  <2>. QED
    BY <2>8, <2>9
<1>. QED
  BY <1>7, <1>8

\* What arrives leaves the bus in order, and the node takes at most one request.
LEMMA ArriveBus ==
  ASSUME DeliveryInv, BusInv, NEW n \in Nodes, Arrive(n)
  PROVE  /\ BusInv' /\ UNCHANGED <<alias, sent, memory, holder>>
         /\ \A m \in Nodes : DOMAIN verdict'[m] = DOMAIN verdict[m]
         /\ NothingTaken \/ \E t \in Tools, k \in Nat : Takes(t, k)
<1>. DEFINE f == Head(wire[n])
            d == f.dst[1]
<1>1. /\ wire[n] # <<>> /\ d \in Nodes /\ f.dst = Alias(d)
      /\ \A m \in Nodes : f.dst = Alias(m) => m = d
  BY ArrivalFacts DEF Arrive
<1>2. UNCHANGED <<sent, memory, holder>> /\ Receive(n)
  BY DEF Arrive
<1>3. LccDatagramFrame(n, d, f) \/ LccDatagramMessage(n, d, f)
  BY <1>1, <1>2 DEF Receive
<1>4. CASE LccDatagramFrame(n, d, f)
  <2>1. /\ BusInv' /\ UNCHANGED <<alias, verdict>>
        /\ NothingTaken \/ \E t \in Tools, k \in Nat : Takes(t, k)
    BY <1>4, FrameArrives
  <2>. QED
    BY <1>2, <2>1
<1>5. CASE LccDatagramMessage(n, d, f)
  <2>1. /\ BusInv' /\ UNCHANGED <<alias, log>>
        /\ \A m \in Nodes : DOMAIN verdict'[m] = DOMAIN verdict[m]
    BY <1>1, <1>5, MessageArrives
  <2>2. f.kind = "answer"
    BY <1>5 DEF LccDatagramMessage
  <2>3. UNCHANGED request
    BY <2>2 DEF Arrive, Completes
  <2>4. NothingTaken
    BY <2>1, <2>3 DEF NothingTaken, Taken
  <2>. QED
    BY <1>2, <2>1, <2>4
<1>. QED
  BY <1>3, <1>4, <1>5

-----------------------------------------------------------------------------
(* What is said and taken *)

\* What the invariant says of the numbers of datagrams
LEMMA SaidFacts ==
  ASSUME TalkInv
  PROVE  /\ Tools \subseteq Nodes /\ Server \in Nodes /\ Server \notin Tools /\ NoAlias \notin Tools
         /\ \A n \in Nodes : /\ Len(verdict[n]) \in Nat /\ DOMAIN verdict[n] = 1..Len(verdict[n])
                             /\ DOMAIN sent[n] = DOMAIN verdict[n] /\ Taken(n) \subseteq DOMAIN verdict[n]
         /\ \A n \in Nodes : \A k \in DOMAIN sent[n] : k \in Nat
         /\ \A n \in Nodes : Taken(n) \subseteq Nat
         /\ \A t \in Tools : \A k \in DOMAIN sent[t] : sent[t][k] \in AskType
<1>1. /\ Tools \subseteq Nodes /\ Server \in Nodes /\ Server \notin Tools
      /\ \A n \in Nodes : Addressed(n) /\ Len(verdict[n]) \in Nat /\ DOMAIN verdict[n] = 1..Len(verdict[n])
  BY TalkFacts DEF TalkInv
<1>2. NoAlias \notin Tools
  BY <1>1, MemoryConfigAssumption
<1>3. /\ \A n \in Nodes : DOMAIN sent[n] = DOMAIN verdict[n]
      /\ \A t \in Tools : \A k \in DOMAIN sent[t] : sent[t][k] \in AskType
  BY DEF TalkInv, SentOK
<1>4. \A n \in Nodes : Taken(n) \subseteq DOMAIN verdict[n]
  BY <1>1 DEF Addressed
<1>5. \A L \in Nat : \A k \in 1..L : k \in Nat
  OBVIOUS
<1>. QED
  BY <1>1, <1>2, <1>3, <1>4, <1>5

\* One more thing said
LEMMA SentMore ==
  ASSUME NEW L \in Nat, NEW f, f = [k \in 1..L |-> f[k]], NEW x
  PROVE  LET g == Append(f, x) IN
         /\ DOMAIN g = 1..(L + 1) /\ g = [k \in 1..(L + 1) |-> g[k]]
         /\ g[L + 1] = x /\ \A k \in 1..L : g[k] = f[k]
<1>. DEFINE S == {f[k] : k \in 1..L} \cup {x}
            g == Append(f, x)
            h == [k \in 1..(L + 1) |-> IF k = L + 1 THEN x ELSE f[k]]
<1>1. f \in [1..L -> S] /\ x \in S
  OBVIOUS
<1>. HIDE DEF S
<1>2. g = h
  BY <1>1, OneMore
<1>3. /\ DOMAIN h = 1..(L + 1) /\ h = [k \in 1..(L + 1) |-> h[k]]
      /\ h[L + 1] = x /\ \A k \in 1..L : h[k] = f[k]
  OBVIOUS
<1>. QED
  BY <1>2, <1>3

\* What is said and what is taken, and what is known of it
Talk == SentOK /\ Since /\ Latest /\ Replies /\ Releases /\ Grants

\* A request that nobody took or processed before the step is unserved before it.
LEMMA UnservedBefore ==
  ASSUME NEW t, NEW k, k \in DOMAIN sent[t], Taken(t) \subseteq Taken(t)',
         Unserved(t, k)', request' = <<t, k>> => Unserved(t, k)
  PROVE  Unserved(t, k)
  BY DEF Unserved

\* Nothing said, nothing taken
LEMMA QuietTalk ==
  ASSUME LockInv, UNCHANGED <<sent, memory, holder>>, NothingTaken,
         \A m \in Nodes : DOMAIN verdict'[m] = DOMAIN verdict[m]
  PROVE  Talk'
<1>1. SentOK' /\ Since'
  BY DEF LockInv, TalkInv, SentOK, Since
<1>2. request' = request /\ \A t \in Tools : Taken(t)' = Taken(t)
  BY DEF NothingTaken
<1>3. Latest'
  <2>1. Latest
    BY DEF LockInv, TalkInv
  <2>. QED
    BY <1>2, <2>1 DEF Latest
<1>4. Replies'
  <2>1. \A p : ReplyOK(p) => ReplyOK(p)'
    <3>. SUFFICES ASSUME NEW p, ReplyOK(p) PROVE ReplyOK(p)'
      OBVIOUS
    <3>1. From(p.req) \in Tools
      BY DEF ReplyOK, From
    <3>2. Asked(p.req)' = Asked(p.req) /\ From(p.req)' = From(p.req)
      BY DEF Asked, From
    <3>. QED
      BY <1>2, <3>1, <3>2 DEF ReplyOK
  <2>. QED
    BY <2>1 DEF LockInv, TalkInv, Replies
<1>5. Releases'
  <2>1. \A t \in Tools : \A k : Unlocking(t, k)' <=> Unlocking(t, k)
    BY <1>2 DEF Unlocking, Unserved
  <2>. QED
    BY <2>1 DEF LockInv, Releases
<1>6. Grants'
  <2>1. \A t : LockRequests(t)' = LockRequests(t)
    BY DEF LockRequests
  <2>2. \A t, p : Granted(t, p)' <=> Granted(t, p)
    BY <2>1 DEF Granted, From
  <2>. QED
    BY <2>2 DEF LockInv, Grants
<1>. QED
  BY <1>1, <1>3, <1>4, <1>5, <1>6 DEF Talk

\* The node takes a request.
LEMMA TakesTalk ==
  ASSUME LockInv, UNCHANGED <<sent, memory, holder>>, NEW t \in Tools, NEW k \in Nat, Takes(t, k),
         \A m \in Nodes : DOMAIN verdict'[m] = DOMAIN verdict[m]
  PROVE  Talk'
<1>1. /\ Tools \subseteq Nodes /\ \A n \in Nodes : Taken(n) \subseteq Nat
      /\ \A n \in Nodes : DOMAIN sent[n] = DOMAIN verdict[n]
  BY SaidFacts DEF LockInv
<1>2. /\ request' = <<t, k>> /\ k \in DOMAIN sent[t] /\ \A i \in Taken(t) : i < k
      /\ Taken(t)' = Taken(t) \cup {k} /\ \A u \in Tools : Taken(u) \subseteq Taken(u)'
  BY <1>1 DEF Takes
<1>3. SentOK' /\ Since'
  BY DEF LockInv, TalkInv, SentOK, Since
<1>4. Latest'
  <2>1. request' \in Tools \X Nat /\ From(request') = t /\ request'[2] = k
    BY <1>2 DEF From
  <2>2. \A i \in Taken(t)' : i <= k
    BY <1>1, <1>2
  <2>3. k \in Taken(t)' /\ t \in Tools
    BY <1>2
  <2>. QED
    BY <2>1, <2>2, <2>3 DEF Latest
<1>5. Replies'
  <2>1. ASSUME NEW p, ReplyOK(p) PROVE ReplyOK(p)'
    <3>1. From(p.req) \in Tools /\ p.req[2] \in Taken(From(p.req))
      BY <2>1 DEF ReplyOK, From
    <3>2. Asked(p.req)' = Asked(p.req) /\ From(p.req)' = From(p.req)
      BY DEF Asked, From
    <3>3. p.req # request'
      <4>. SUFFICES ASSUME p.req = <<t, k>> PROVE FALSE
        BY <1>2
      <4>1. k \in Taken(t)
        BY <3>1 DEF From
      <4>. QED
        BY <1>2, <4>1
    <3>4. p.req[2] \in Taken(From(p.req))'
      BY <1>2, <3>1
    <3>. QED
      BY <2>1, <3>2, <3>3, <3>4 DEF ReplyOK
  <2>. QED
    BY <2>1 DEF LockInv, TalkInv, Replies
<1>6. Releases'
  <2>1. Unserved(t, k)
    BY <1>2 DEF Unserved
  <2>2. ASSUME NEW u \in Tools, NEW j, Unlocking(u, j)' PROVE Unlocking(u, j)
    <3>1. j \in DOMAIN sent[u] /\ Unserved(u, j)' /\ sent[u][j].cmd = "unlock"
      BY <2>2 DEF Unlocking, Unserved
    <3>2. request' = <<u, j>> => Unserved(u, j)
      BY <1>2, <2>1
    <3>. QED
      BY <1>2, <3>1, <3>2, UnservedBefore DEF Unlocking
  <2>. QED
    BY <2>2 DEF LockInv, Releases
<1>7. Grants'
  <2>1. \A u : LockRequests(u)' = LockRequests(u)
    BY DEF LockRequests
  <2>2. \A u, p : Granted(u, p)' <=> Granted(u, p)
    BY <2>1 DEF Granted, From
  <2>. QED
    BY <2>2 DEF LockInv, Grants
<1>. QED
  BY <1>3, <1>4, <1>5, <1>6, <1>7 DEF Talk

\* What a tool has been granted it still has, as far as anybody said.
LEMMA GrantedBefore ==
  ASSUME LockInv, NEW t \in Tools, NEW i \in DOMAIN sent[Server],
         LockRequests(t) \subseteq LockRequests(t)',
         \A k \in DOMAIN sent[t] : sent'[t][k] = sent[t][k],
         NEW p, p = sent[Server][i], Granted(t, p)'
  PROVE  Granted(t, p)
<1>1. /\ Tools \subseteq Nodes /\ \A n \in Nodes : DOMAIN sent[n] = DOMAIN verdict[n] /\ Taken(n) \subseteq DOMAIN verdict[n]
  BY SaidFacts DEF LockInv
<1>2. ReplyOK(p)
  BY DEF LockInv, TalkInv, Replies
<1>3. From(p.req) = t /\ p.says = <<"lock", t>> /\ sent'[t][p.req[2]].cmd = "lock"
      /\ \A j \in LockRequests(t) : j <= p.req[2]
  BY DEF Granted, From
<1>4. p.req[2] \in DOMAIN sent[t]
  BY <1>1, <1>2, <1>3 DEF ReplyOK
<1>. QED
  BY <1>3, <1>4 DEF Granted

\* What the node does with a request it processes
LEMMA ProcessTalk ==
  ASSUME LockInv, Process
  PROVE  Talk'
<1>. DEFINE t == From(request)
            k == request[2]
            r == Asked(request)
            reply == [to |-> t, req |-> request, says |-> Reply(r, t)]
<1>1. /\ request # NoRequest /\ request' = NoRequest /\ memory' = Written(r)
      /\ holder' = IF r.cmd \in {"lock", "unlock"} THEN LockHolder(r, t) ELSE holder
  BY DEF Process
<1>2. /\ t \in Tools /\ t \in Nodes /\ t # Server /\ request = <<t, k>> /\ k \in Taken(t)
      /\ k \in DOMAIN sent[t] /\ r \in AskType /\ r = sent[t][k]
  BY <1>1, RequestKnown DEF LockInv
<1>3. /\ Tools \subseteq Nodes /\ Server \in Nodes /\ Server \notin Tools /\ NoAlias \notin Tools
      /\ \A n \in Nodes : /\ Len(verdict[n]) \in Nat /\ DOMAIN verdict[n] = 1..Len(verdict[n])
                          /\ DOMAIN sent[n] = DOMAIN verdict[n]
      /\ \A n \in Nodes : Taken(n) \subseteq Nat
      /\ \A u \in Tools : \A j \in DOMAIN sent[u] : sent[u][j] \in AskType /\ j \in Nat
  BY SaidFacts DEF LockInv
<1>4. /\ sent = [n \in Nodes |-> sent[n]] /\ memory \in [Spaces -> Nat]
      /\ \A n \in Nodes : sent[n] = [j \in DOMAIN verdict[n] |-> sent[n][j]]
  BY DEF LockInv, TalkInv, SentOK
<1>5. UNCHANGED log
  BY DEF Process, LccDatagramSend, vars
<1>6. \A n \in Nodes : Taken(n)' = Taken(n)
  BY <1>5 DEF Taken
\* The reply is queued, or nothing is said.
<1>7. \/ /\ UNCHANGED <<sent, verdict>>
      \/ /\ r.cmd \in Queries
         /\ sent' = [sent EXCEPT ![Server] = Append(sent[Server], reply)]
         /\ verdict' = [verdict EXCEPT ![Server] = Append(verdict[Server], "queued")]
  BY DEF Process, Answered, LccDatagramSend, vars, Queued
<1>. DEFINE L == Len(verdict[Server])
<1>8. /\ sent' = [n \in Nodes |-> sent'[n]]
      /\ \A n \in Nodes : /\ DOMAIN sent'[n] = DOMAIN verdict'[n]
                          /\ sent'[n] = [j \in DOMAIN verdict'[n] |-> sent'[n][j]]
      /\ \A u \in Tools : sent'[u] = sent[u]
      /\ \A j \in DOMAIN sent'[Server] :
           \/ j \in DOMAIN sent[Server] /\ sent'[Server][j] = sent[Server][j]
           \/ r.cmd \in Queries /\ sent'[Server][j] = reply
  <2>. HIDE DEF reply, r
  <2>1. CASE UNCHANGED <<sent, verdict>>
    BY <1>3, <1>4, <2>1
  <2>2. CASE /\ r.cmd \in Queries
             /\ sent' = [sent EXCEPT ![Server] = Append(sent[Server], reply)]
             /\ verdict' = [verdict EXCEPT ![Server] = Append(verdict[Server], "queued")]
    <3>1. /\ sent' = [n \in Nodes |-> sent'[n]] /\ sent'[Server] = Append(sent[Server], reply)
          /\ \A n \in Nodes \ {Server} : sent'[n] = sent[n]
      BY <1>3, <1>4, <2>2
    <3>2. /\ verdict \in [Nodes -> Seq({"queued", "acked", "failed"})]
      BY TalkFacts DEF LockInv, TalkInv
    <3>3. /\ verdict'[Server] = Append(verdict[Server], "queued")
          /\ \A n \in Nodes \ {Server} : verdict'[n] = verdict[n]
      BY <1>3, <2>2, <3>2
    <3>4. verdict[Server] \in Seq({"queued", "acked", "failed"}) /\ "queued" \in {"queued", "acked", "failed"}
      BY <1>3, <3>2
    <3>5. DOMAIN verdict'[Server] = 1..(L + 1)
      BY <3>3, <3>4, AppendProperties, LenProperties
    <3>6. L \in Nat /\ sent[Server] = [j \in 1..L |-> sent[Server][j]] /\ DOMAIN sent[Server] = 1..L
      BY <1>3, <1>4
    <3>. HIDE DEF L
    <3>7. /\ DOMAIN sent'[Server] = 1..(L + 1) /\ sent'[Server] = [j \in 1..(L + 1) |-> sent'[Server][j]]
          /\ sent'[Server][L + 1] = reply /\ \A j \in 1..L : sent'[Server][j] = sent[Server][j]
      BY <3>1, <3>6, SentMore
    <3>8. \A j \in 1..(L + 1) : j \in 1..L \/ j = L + 1
      BY <3>6
    <3>9. ASSUME NEW n \in Nodes
          PROVE  /\ DOMAIN sent'[n] = DOMAIN verdict'[n]
                 /\ sent'[n] = [j \in DOMAIN verdict'[n] |-> sent'[n][j]]
      <4>1. CASE n = Server
        BY <3>5, <3>7, <4>1
      <4>2. CASE n # Server
        BY <1>3, <1>4, <3>1, <3>3, <4>2
      <4>. QED
        BY <4>1, <4>2
    <3>10. \A j \in DOMAIN sent'[Server] :
             \/ j \in DOMAIN sent[Server] /\ sent'[Server][j] = sent[Server][j]
             \/ sent'[Server][j] = reply
      BY <3>6, <3>7, <3>8
    <3>. QED
      BY <1>3, <2>2, <3>1, <3>9, <3>10
  <2>. QED
    BY <1>7, <2>1, <2>2
<1>9. memory' \in [Spaces -> Nat] /\ \A sp \in Spaces : memory[sp] <= memory'[sp]
  <2>1. PICK sp0 : memory' = memory \/ memory' = [memory EXCEPT ![sp0] = @ + 1]
    BY <1>1 DEF Written
  <2>. QED
    BY <1>4, <2>1
<1>10. SentOK'
  BY <1>3, <1>8, <1>9 DEF SentOK
<1>11. Since'
  <2>1. ASSUME NEW u \in Tools, NEW j \in DOMAIN sent[u], sent[u][j].cmd = "read", sent[u][j].space \in Spaces
        PROVE  sent[u][j].since <= memory'[sent[u][j].space]
    <3>1. sent[u][j].since <= memory[sent[u][j].space]
      BY <2>1 DEF LockInv, TalkInv, Since
    <3>2. sent[u][j].since \in Nat
      BY <1>3, <2>1 DEF AskType
    <3>3. memory[sent[u][j].space] \in Nat /\ memory'[sent[u][j].space] \in Nat
      BY <1>4, <1>9, <2>1
    <3>. QED
      BY <1>9, <2>1, <3>1, <3>2, <3>3
  <2>. QED
    BY <1>8, <2>1 DEF Since
<1>12. Latest'
  BY <1>1 DEF Latest
<1>13. \A p \in Tools \X Nat : p # NoRequest /\ p[1] \in Tools /\ p[2] \in Nat
  BY DEF NoRequest
<1>14. \A p : p.req \in Tools \X Nat => Asked(p.req)' = Asked(p.req) /\ From(p.req)' = From(p.req)
  BY <1>8, <1>13 DEF Asked, From
<1>15. ASSUME NEW p, ReplyOK(p) PROVE ReplyOK(p)'
  <2>1. p.req \in Tools \X Nat /\ From(p.req) \in Tools /\ From(p.req) \in Nodes
    BY <1>3, <1>13, <1>15 DEF ReplyOK, From
  <2>2. p.req # request' /\ Asked(p.req)' = Asked(p.req) /\ From(p.req)' = From(p.req)
        /\ Taken(From(p.req))' = Taken(From(p.req))
    BY <1>1, <1>6, <1>13, <1>14, <2>1 DEF From
  <2>. QED
    BY <1>15, <2>1, <2>2 DEF ReplyOK
<1>16. ASSUME r.cmd \in Queries, NEW p, p = reply PROVE ReplyOK(p)'
  <2>1. request \in Tools \X Nat
    BY <1>1 DEF LockInv, TalkInv, Latest
  <2>2. p.req = request /\ p.to = t /\ p.says = Reply(r, t)
    BY <1>16
  <2>3. Reply(r, t)[1] = "data" => Reply(r, t)[2] \in Nat /\ Reply(r, t)[2] >= r.since
    <3>1. CASE r.cmd = "read" /\ Readable(r)
      <4>1. Reply(r, t) = <<"data", memory[r.space]>> /\ r.space \in Spaces
        BY <3>1 DEF Reply, ReadReply, Readable
      <4>2. memory[r.space] \in Nat /\ r.since \in Nat
        BY <1>2, <1>4, <4>1 DEF AskType
      <4>3. r.since <= memory[r.space]
        BY <1>2, <3>1, <4>1 DEF LockInv, TalkInv, Since
      <4>. QED
        BY <4>1, <4>2, <4>3
    <3>2. CASE r.cmd = "read" /\ ~Readable(r)
      <4>1. Reply(r, t) = <<"failed">>
        BY <3>2 DEF Reply, ReadReply
      <4>. QED
        BY <4>1
    <3>3. CASE r.cmd = "options"
      <4>1. Reply(r, t) = <<"spaces", Spaces>>
        BY <3>3 DEF Reply, OptionsReply
      <4>. QED
        BY <4>1
    <3>4. CASE r.cmd = "info"
      <4>1. Reply(r, t)[1] \in {"present", "absent"}
        BY <3>4 DEF Reply, SpaceInfoReply
      <4>. QED
        BY <4>1
    <3>5. CASE r.cmd \in {"lock", "unlock"}
      <4>1. Reply(r, t) = LockReply(r, t)
        BY <3>5 DEF Reply
      <4>2. LockReply(r, t)[1] = "lock"
        BY DEF LockReply
      <4>. QED
        BY <4>1, <4>2
    <3>. QED
      BY <1>16, <3>1, <3>2, <3>3, <3>4, <3>5 DEF Queries
  <2>4. From(p.req) = t /\ Asked(p.req) = r
    BY <2>2
  <2>5. From(p.req) \in Nodes /\ p.req[2] \in Taken(From(p.req))
    BY <1>2, <2>2, <2>4
  <2>6. /\ p.req # request' /\ From(p.req)' = From(p.req) /\ Asked(p.req)' = Asked(p.req)
        /\ p.req[2] \in Taken(From(p.req))'
    BY <1>1, <1>6, <1>14, <2>1, <2>2, <2>5 DEF From
  <2>. HIDE DEF t, r, reply
  <2>. QED
    BY <2>1, <2>2, <2>3, <2>4, <2>6 DEF ReplyOK
<1>17. Replies'
  <2>1. ASSUME NEW i \in DOMAIN sent'[Server], NEW p, p = sent'[Server][i] PROVE ReplyOK(p)'
    <3>1. CASE i \in DOMAIN sent[Server] /\ p = sent[Server][i]
      BY <1>15, <3>1 DEF LockInv, TalkInv, Replies
    <3>2. CASE r.cmd \in Queries /\ p = reply
      BY <1>16, <3>2
    <3>. QED
      BY <1>8, <2>1, <3>1, <3>2
  <2>. QED
    BY <2>1 DEF Replies, ReplyOK
<1>18. Releases'
  <2>1. ASSUME NEW u \in Tools, NEW j, Unlocking(u, j)'
        PROVE  Unlocking(u, j) /\ <<u, j>> # <<t, k>>
    <3>1. j \in DOMAIN sent[u] /\ Unserved(u, j)' /\ sent[u][j].cmd = "unlock" /\ u \in Nodes
      BY <1>3, <1>8, <2>1 DEF Unlocking, Unserved
    <3>2. request' # <<u, j>>
      BY <1>1 DEF NoRequest
    <3>3. \A i \in Taken(u) : i < j
      BY <1>6, <3>1, <3>2 DEF Unserved
    <3>4. Unlocking(u, j)
      BY <3>1, <3>3 DEF Unlocking, Unserved
    <3>5. ~(k < k)
      BY <1>2, <1>3
    <3>. QED
      BY <1>2, <3>3, <3>4, <3>5
  <2>2. ASSUME NEW u \in Tools, NEW j, Unlocking(u, j)' PROVE holder' = u
    <3>1. holder = u /\ u # NoAlias /\ \A i : Unlocking(u, i) => i = j
      BY <1>3, <2>1, <2>2 DEF LockInv, Releases, Unlocking, Unserved
    <3>2. r.cmd # "unlock"
      <4>. SUFFICES ASSUME r.cmd = "unlock" PROVE FALSE
        OBVIOUS
      <4>1. Unlocking(t, k)
        BY <1>2 DEF Unlocking, Unserved
      <4>2. holder = t
        BY <1>2, <4>1 DEF LockInv, Releases
      <4>3. t = u /\ k = j
        BY <3>1, <4>1, <4>2
      <4>. QED
        BY <2>1, <2>2, <4>3
    <3>. QED
      BY <1>1, <3>1, <3>2 DEF LockHolder
  <2>3. ASSUME NEW u \in Tools, NEW j \in DOMAIN sent'[u], Unlocking(u, j)',
               NEW i \in DOMAIN sent'[u], Unlocking(u, i)'
        PROVE  i = j
    BY <1>8, <2>1, <2>3 DEF LockInv, Releases
  <2>. QED
    BY <2>2, <2>3 DEF Releases
<1>19. Grants'
  <2>1. \A u \in Tools : LockRequests(u)' = LockRequests(u)
    BY <1>8 DEF LockRequests
  <2>2. ASSUME NEW u \in Tools, NEW i \in DOMAIN sent[Server], NEW p, p = sent[Server][i], Granted(u, p)'
        PROVE  holder' = u
    <3>1. Granted(u, p)
      BY <1>8, <2>1, <2>2, GrantedBefore
    <3>2. holder = u /\ u # NoAlias /\ ReplyOK(p)
      BY <1>3, <2>2, <3>1 DEF LockInv, TalkInv, Grants, Replies
    <3>3. r.cmd # "unlock"
      <4>. SUFFICES ASSUME r.cmd = "unlock" PROVE FALSE
        OBVIOUS
      <4>1. Unlocking(t, k)
        BY <1>2 DEF Unlocking, Unserved
      <4>2. u = t
        BY <1>2, <3>2, <4>1 DEF LockInv, Releases
      <4>3. k <= p.req[2]
        BY <1>2, <3>1, <4>2 DEF Granted, LockRequests
      <4>4. p.req[2] \in Taken(t) /\ p.req \in Tools \X Nat /\ p.req[1] = t
        BY <3>1, <3>2, <4>2 DEF ReplyOK, Granted, From
      <4>5. p.req[2] <= k
        BY <1>1, <4>4 DEF LockInv, TalkInv, Latest
      <4>6. p.req[2] = k
        BY <1>2, <1>3, <4>3, <4>4, <4>5
      <4>7. p.req = <<t, k>>
        BY <4>4, <4>6
      <4>. QED
        BY <1>2, <3>2, <4>7 DEF ReplyOK
    <3>. QED
      BY <1>1, <3>2, <3>3 DEF LockHolder
  <2>3. ASSUME r.cmd \in Queries, NEW u \in Tools, NEW p, p = reply, Granted(u, p)'
        PROVE  holder' = u
    <3>1. p.req = request /\ p.says = Reply(r, t)
      BY <2>3
    <3>2. t = u
      BY <2>3, <3>1 DEF Granted, From
    <3>3. sent'[u][k].cmd = "lock" /\ Reply(r, t) = <<"lock", u>>
      BY <2>3, <3>1 DEF Granted
    <3>4. r.cmd = "lock"
      BY <1>2, <1>8, <3>2, <3>3
    <3>5. Reply(r, t) = <<"lock", LockHolder(r, t)>>
      BY <3>4 DEF Reply, LockReply
    <3>. QED
      BY <1>1, <3>3, <3>4, <3>5
  <2>4. ASSUME NEW u \in Tools, NEW i \in DOMAIN sent'[Server], Granted(u, sent[Server][i])'
        PROVE  holder' = u
    <3>1. PICK p : p = sent'[Server][i]
      OBVIOUS
    <3>2. Granted(u, p)'
      BY <2>4, <3>1 DEF Granted
    <3>. QED
      BY <1>8, <2>2, <2>3, <3>1, <3>2
  <2>. QED
    BY <2>4 DEF Grants
<1>. QED
  BY <1>10, <1>11, <1>12, <1>17, <1>18, <1>19 DEF Talk

\* A tool that believes to have the lock has it, and has not asked to release it.
LEMMA HolderKnows ==
  ASSUME LockInv, NEW t \in Tools, Holds(t)
  PROVE  holder = t /\ \A j \in DOMAIN sent[t] : ~Unlocking(t, j)
<1>1. /\ Tools \subseteq Nodes /\ Server \in Nodes
      /\ \A n \in Nodes : DOMAIN sent[n] = DOMAIN verdict[n] /\ Taken(n) \subseteq DOMAIN verdict[n]
      /\ \A j \in DOMAIN sent[t] : j \in Nat
  BY SaidFacts DEF LockInv
<1>2. PICK k \in LockRequests(t) :
        /\ \A j \in LockRequests(t) : j <= k
        /\ sent[t][k].cmd = "lock" /\ \E i \in Answers(t, k) : sent[Server][i].says = <<"lock", t>>
  BY DEF Holds
<1>. PICK i \in Answers(t, k) : sent[Server][i].says = <<"lock", t>>
  BY <1>2
<1>. DEFINE p == sent[Server][i]
<1>3. i \in DOMAIN sent[Server] /\ p.req = <<t, k>> /\ k \in DOMAIN sent[t]
  BY <1>1, <1>2 DEF Answers, Handled, Taken, LockRequests
<1>4. Granted(t, p) /\ ReplyOK(p)
  BY <1>2, <1>3 DEF Granted, From, LockInv, TalkInv, Replies
<1>5. holder = t /\ k \in Taken(t)
  BY <1>3, <1>4 DEF LockInv, Grants, ReplyOK, From
<1>6. ASSUME NEW j \in DOMAIN sent[t], Unlocking(t, j) PROVE FALSE
  <2>1. sent[t][j].cmd = "unlock" /\ j \in LockRequests(t)
    BY <1>6 DEF Unlocking, LockRequests
  <2>2. j <= k /\ j # k
    BY <1>2, <2>1
  <2>3. CASE \A l \in Taken(t) : l < j
    BY <1>1, <1>3, <1>5, <2>2, <2>3
  <2>4. CASE request = <<t, j>>
    <3>1. From(request) = t /\ request[2] = j /\ request # NoRequest
      BY <2>4 DEF From, NoRequest
    <3>2. k <= j
      BY <1>5, <3>1 DEF LockInv, TalkInv, Latest
    <3>. QED
      BY <1>1, <1>3, <2>2, <3>2
  <2>. QED
    BY <1>6, <2>3, <2>4 DEF Unlocking, Unserved
<1>. QED
  BY <1>5, <1>6

\* A tool asks.
LEMMA AskTalk ==
  ASSUME LockInv, NEW q \in Requests, Ask(q[1], q[2]),
         UNCHANGED log, \A m \in Nodes \ {q[1]} : verdict'[m] = verdict[m],
         DOMAIN verdict'[q[1]] = DOMAIN verdict[q[1]] \cup {Len(verdict[q[1]]) + 1}
  PROVE  Talk'
<1>. DEFINE t == q[1]
            r == q[2]
            k == Len(verdict[t]) + 1
            x == [cmd |-> r.cmd, space |-> r.space, inside |-> r.inside, len |-> r.len,
                  since |-> IF r.cmd = "read" /\ r.space \in Spaces THEN memory[r.space] ELSE 0]
<1>1. /\ Tools \subseteq Nodes /\ Server \in Nodes /\ Server \notin Tools
      /\ \A n \in Nodes : /\ Len(verdict[n]) \in Nat /\ DOMAIN verdict[n] = 1..Len(verdict[n])
                          /\ DOMAIN sent[n] = DOMAIN verdict[n] /\ Taken(n) \subseteq DOMAIN verdict[n]
      /\ \A n \in Nodes : Taken(n) \subseteq Nat
      /\ \A u \in Tools : \A j \in DOMAIN sent[u] : sent[u][j] \in AskType /\ j \in Nat
  BY SaidFacts DEF LockInv
<1>2. /\ sent = [n \in Nodes |-> sent[n]] /\ memory \in [Spaces -> Nat]
      /\ \A n \in Nodes : sent[n] = [j \in DOMAIN verdict[n] |-> sent[n][j]]
  BY DEF LockInv, TalkInv, SentOK
<1>3. t \in Tools /\ t \in Nodes /\ t # Server
  BY <1>1, MemoryConfigAssumption
<1>4. /\ x \in AskType /\ x.cmd = r.cmd
      /\ x.cmd = "read" /\ x.space \in Spaces => x.since <= memory[x.space]
  <2>1. /\ r.cmd \in Queries \cup {"write"} /\ r.space \in Spaces \cup {"unknown"}
        /\ r.inside \in BOOLEAN /\ r.len \in Lengths
    BY MemoryConfigAssumption
  <2>2. x.since \in Nat
    BY <1>2
  <2>3. /\ x.cmd = r.cmd /\ x.space = r.space /\ x.inside = r.inside /\ x.len = r.len
        /\ x.cmd = "read" /\ x.space \in Spaces => x.since = memory[x.space]
    OBVIOUS
  <2>4. x = [cmd |-> x.cmd, space |-> x.space, inside |-> x.inside, len |-> x.len, since |-> x.since]
    OBVIOUS
  <2>. HIDE DEF x, r
  <2>5. x \in AskType
    BY <2>1, <2>2, <2>3, <2>4 DEF AskType
  <2>6. x.cmd = "read" /\ x.space \in Spaces => x.since <= memory[x.space]
    BY <1>2, <2>3
  <2>. QED
    BY <2>3, <2>5, <2>6
<1>5. sent' = [sent EXCEPT ![t] = Append(@, x)] /\ (r.cmd = "unlock" => Holds(t))
  BY DEF Ask
<1>6. UNCHANGED <<request, memory, holder>>
  BY DEF Ask
<1>7. DOMAIN verdict'[t] = 1..k /\ \A n \in Nodes \ {t} : verdict'[n] = verdict[n]
  <2>1. 1..(Len(verdict[t]) + 1) = 1..Len(verdict[t]) \cup {Len(verdict[t]) + 1}
    BY <1>1, <1>3
  <2>. QED
    BY <1>1, <1>3, <2>1
<1>. HIDE DEF x, r, t
<1>8. /\ sent' = [n \in Nodes |-> sent'[n]] /\ \A n \in Nodes \ {t} : sent'[n] = sent[n]
      /\ sent'[t] = Append(sent[t], x)
  BY <1>2, <1>3, <1>5
<1>9. /\ DOMAIN sent'[t] = 1..k /\ sent'[t] = [j \in 1..k |-> sent'[t][j]] /\ sent'[t][k] = x
      /\ \A j \in DOMAIN sent[t] : sent'[t][j] = sent[t][j] /\ j \in DOMAIN sent'[t] /\ j < k
      /\ \A j \in DOMAIN sent'[t] : j \in DOMAIN sent[t] \/ j = k
  <2>. DEFINE L == Len(verdict[t])
  <2>1. L \in Nat /\ sent[t] = [j \in 1..L |-> sent[t][j]] /\ DOMAIN sent[t] = 1..L /\ k = L + 1
    BY <1>1, <1>2, <1>3
  <2>. HIDE DEF L, k
  <2>2. /\ DOMAIN sent'[t] = 1..(L + 1) /\ sent'[t] = [j \in 1..(L + 1) |-> sent'[t][j]]
        /\ sent'[t][L + 1] = x /\ \A j \in 1..L : sent'[t][j] = sent[t][j]
    BY <1>8, <2>1, SentMore
  <2>3. /\ \A j \in 1..L : j \in 1..(L + 1) /\ j < L + 1
        /\ \A j \in 1..(L + 1) : j \in 1..L \/ j = L + 1
    BY <2>1
  <2>. QED
    BY <2>1, <2>2, <2>3
<1>. HIDE DEF k
<1>10. \A n \in Nodes : Taken(n)' = Taken(n)
  BY DEF Taken
<1>11. \A u \in Tools : \A j \in DOMAIN sent'[u] :
         \/ j \in DOMAIN sent[u] /\ sent'[u][j] = sent[u][j] /\ <<u, j>> # <<t, k>>
         \/ u = t /\ j = k /\ sent'[u][j] = x
  <2>1. ~(k < k)
    BY <1>1, <1>3 DEF k
  <2>. QED
    BY <1>1, <1>8, <1>9, <2>1
<1>12. SentOK'
  <2>1. ASSUME NEW n \in Nodes
        PROVE  DOMAIN sent'[n] = DOMAIN verdict'[n] /\ sent'[n] = [j \in DOMAIN verdict'[n] |-> sent'[n][j]]
    BY <1>1, <1>2, <1>7, <1>8, <1>9
  <2>2. \A u \in Tools : \A j \in DOMAIN sent'[u] : sent'[u][j] \in AskType
    BY <1>1, <1>4, <1>11
  <2>. QED
    BY <1>2, <1>6, <1>8, <2>1, <2>2 DEF SentOK
<1>13. Since'
  BY <1>4, <1>6, <1>11 DEF LockInv, TalkInv, Since
<1>14. Latest'
  <2>1. Latest
    BY DEF LockInv, TalkInv
  <2>2. request \in Tools \X Nat => From(request) \in Nodes /\ From(request)' = From(request)
    BY <1>1, <1>6 DEF From
  <2>. QED
    BY <1>6, <1>10, <2>1, <2>2 DEF Latest
<1>15. Replies'
  <2>1. ASSUME NEW p, ReplyOK(p) PROVE ReplyOK(p)'
    <3>1. /\ p.req \in Tools \X Nat /\ From(p.req) \in Tools /\ p.req[1] = From(p.req)
          /\ p.req[2] \in Taken(From(p.req))
      BY <2>1 DEF ReplyOK, From
    <3>2. From(p.req)' = From(p.req) /\ From(p.req) \in Nodes
      BY <1>1, <3>1 DEF From
    <3>3. p.req[2] \in DOMAIN sent[From(p.req)]
      BY <1>1, <3>1, <3>2
    <3>4. sent'[From(p.req)][p.req[2]] = sent[From(p.req)][p.req[2]]
      BY <1>8, <1>9, <3>2, <3>3
    <3>5. Asked(p.req)' = Asked(p.req)
      BY <3>1, <3>4 DEF Asked
    <3>6. Taken(From(p.req))' = Taken(From(p.req))
      BY <1>10, <3>2
    <3>. QED
      BY <1>6, <2>1, <3>1, <3>2, <3>5, <3>6 DEF ReplyOK
  <2>2. sent'[Server] = sent[Server] /\ Replies
    BY <1>1, <1>3, <1>8 DEF LockInv, TalkInv
  <2>. QED
    BY <2>1, <2>2 DEF Replies, ReplyOK
<1>16. Releases'
  <2>1. ASSUME NEW u \in Tools, NEW j, Unlocking(u, j)'
        PROVE  \/ Unlocking(u, j)
               \/ u = t /\ j = k /\ holder = t /\ \A i \in DOMAIN sent[t] : ~Unlocking(t, i)
    <3>1. j \in DOMAIN sent'[u] /\ Unserved(u, j)' /\ sent'[u][j].cmd = "unlock" /\ u \in Nodes
      BY <1>1, <2>1 DEF Unlocking, Unserved
    <3>2. CASE j \in DOMAIN sent[u] /\ sent'[u][j] = sent[u][j]
      <4>1. Unserved(u, j)
        BY <1>6, <1>10, <3>1, <3>2 DEF Unserved
      <4>. QED
        BY <3>1, <3>2, <4>1 DEF Unlocking
    <3>3. CASE u = t /\ j = k /\ sent'[u][j] = x
      <4>1. Holds(t)
        BY <1>4, <1>5, <3>1, <3>3
      <4>. QED
        BY <1>3, <3>3, <4>1, HolderKnows
    <3>. QED
      BY <1>11, <3>1, <3>2, <3>3
  <2>2. \A u \in Tools : \A j : Unlocking(u, j) =>
          j \in DOMAIN sent[u] /\ holder = u /\ \A i : Unlocking(u, i) => i = j
    BY DEF LockInv, Releases, Unlocking, Unserved
  <2>3. ASSUME NEW u \in Tools, NEW j, Unlocking(u, j)' PROVE holder' = u
    BY <1>6, <2>1, <2>2, <2>3
  <2>4. ASSUME NEW u \in Tools, NEW j, Unlocking(u, j)', NEW i, Unlocking(u, i)' PROVE i = j
    BY <2>1, <2>2, <2>4
  <2>. QED
    BY <2>3, <2>4 DEF Releases
<1>17. Grants'
  <2>1. sent'[Server] = sent[Server]
    BY <1>1, <1>3, <1>8
  <2>2. \A u \in Tools : \A j \in DOMAIN sent[u] : j \in DOMAIN sent'[u] /\ sent'[u][j] = sent[u][j]
    BY <1>1, <1>8, <1>9
  <2>3. \A u \in Tools : LockRequests(u) \subseteq LockRequests(u)'
    BY <2>2 DEF LockRequests
  <2>4. ASSUME NEW u \in Tools, NEW i \in DOMAIN sent[Server], NEW p, p = sent[Server][i], Granted(u, p)'
        PROVE  holder' = u
    <3>1. Granted(u, p)
      BY <2>2, <2>3, <2>4, GrantedBefore
    <3>. QED
      BY <1>6, <2>4, <3>1 DEF LockInv, Grants
  <2>5. ASSUME NEW u \in Tools, NEW i \in DOMAIN sent'[Server], Granted(u, sent[Server][i])'
        PROVE  holder' = u
    <3>1. PICK p : p = sent[Server][i]
      OBVIOUS
    <3>2. Granted(u, p)'
      BY <2>1, <2>5, <3>1 DEF Granted
    <3>. QED
      BY <2>1, <2>4, <2>5, <3>1, <3>2
  <2>. QED
    BY <2>5 DEF Grants
<1>. QED
  BY <1>12, <1>13, <1>14, <1>15, <1>16, <1>17 DEF Talk

-----------------------------------------------------------------------------
(* The theorems *)

LEMMA LockInit == MemoryConfigInit => LockInv
<1>. SUFFICES ASSUME MemoryConfigInit PROVE LockInv
  OBVIOUS
<1>1. /\ Init /\ sent = [n \in Nodes |-> <<>>] /\ request = NoRequest
      /\ memory = [sp \in Spaces |-> 0] /\ holder = NoAlias
  BY DEF MemoryConfigInit
<1>2. /\ DeliveryInv /\ alias = [n \in Nodes |-> 0] /\ tx = [n \in Nodes |-> Idle]
      /\ wire = [n \in Nodes |-> <<>>] /\ log = [n \in Nodes |-> <<>>]
      /\ verdict = [n \in Nodes |-> <<>>]
  BY <1>1, DeliveryInit DEF Init
<1>3. Tools \subseteq Nodes /\ Server \in Nodes
  BY MemoryConfigAssumption DEF Tools
<1>4. /\ DOMAIN <<>> = {} /\ Len(<<>>) = 0 /\ Range(<<>>) = {} /\ Rising(<<>>)
      /\ <<>> = [j \in {} |-> <<>>[j]]
  BY NothingGood, NothingOrdered
<1>5. \A n \in Nodes : /\ alias[n] = 0 /\ tx[n].queue = <<>> /\ ~tx[n].resendWait /\ wire[n] = <<>>
                       /\ log[n] = <<>> /\ verdict[n] = <<>> /\ sent[n] = <<>>
  BY <1>1, <1>2 DEF Idle, Sender
<1>6. \A n \in Nodes : Taken(n) = {}
  <2>1. \A n \in Nodes : DOMAIN log[n] = {}
    BY <1>4, <1>5
  <2>. QED
    BY <2>1 DEF Taken
<1>7. BusInv
  <2>1. \A k : k \notin 1..0
    OBVIOUS
  <2>2. \A n \in Nodes : Addressed(n)
    BY <1>4, <1>5, <1>6, <2>1 DEF Addressed
  <2>3. \A t \in Tools : Line(t)
    BY <1>3, <1>4, <1>5, <1>6, <2>1 DEF Line
  <2>. QED
    BY <2>2, <2>3 DEF BusInv
<1>8. \A n \in Nodes : DOMAIN sent[n] = {} /\ DOMAIN verdict[n] = {} /\ sent[n] = [j \in {} |-> sent[n][j]]
  BY <1>4, <1>5
<1>9. SentOK
  BY <1>1, <1>3, <1>8 DEF SentOK
<1>10. Since /\ Latest /\ Replies /\ Releases /\ Grants
  BY <1>1, <1>3, <1>8 DEF Since, Latest, Replies, Releases, Grants
<1>. QED
  BY <1>2, <1>7, <1>9, <1>10 DEF LockInv, TalkInv

LEMMA LockNext == LockInv /\ [MemoryConfigNext]_mvars => LockInv'
<1>. SUFFICES ASSUME LockInv, [MemoryConfigNext]_mvars PROVE LockInv'
  OBVIOUS
<1>1. DeliveryInv' /\ DeliveryInv /\ BusInv /\ TalkInv
  BY DeliveryKept DEF LockInv, TalkInv
<1>2. SUFFICES BusInv' /\ Talk'
  BY <1>1 DEF LockInv, TalkInv, Talk
<1>3. CASE UNCHANGED mvars
  <2>1. UNCHANGED <<alias, tx, wire, log, verdict, sent, request, memory, holder>>
    BY <1>3 DEF mvars, vars, memconfig
  <2>2. \A n \in Nodes : Taken(n)' = Taken(n) /\ \A i : SentBy(n, i)' <=> SentBy(n, i)
    BY <2>1 DEF Taken, SentBy
  <2>3. Tools \subseteq Nodes
    BY DEF Tools
  <2>4. BusInv'
    BY <1>1, <2>1, <2>2, <2>3 DEF BusInv, Addressed, EntryOK, FrameOK, Line
  <2>5. NothingTaken
    BY <2>1, <2>2, <2>3 DEF NothingTaken
  <2>. QED
    BY <2>1, <2>4, <2>5, QuietTalk
<1>4. CASE Process
  <2>1. Talk'
    BY <1>4, ProcessTalk
  <2>2. request # NoRequest
    BY <1>4 DEF Process
  <2>3. CASE UNCHANGED vars
    <3>1. UNCHANGED <<alias, tx, wire, log, verdict>>
      BY <2>3 DEF vars
    <3>2. \A n \in Nodes : Taken(n)' = Taken(n) /\ \A i : SentBy(n, i)' <=> SentBy(n, i)
      BY <3>1 DEF Taken, SentBy
    <3>3. Tools \subseteq Nodes
      BY DEF Tools
    <3>4. BusInv'
      BY <1>1, <3>1, <3>2, <3>3 DEF BusInv, Addressed, EntryOK, FrameOK, Line
    <3>. QED
      BY <2>1, <3>4
  <2>4. CASE LccDatagramSend(Server, From(request), ReplyLength(Asked(request)))
    <3>1. /\ From(request) \in Tools /\ From(request) \in Nodes /\ Server \in Nodes /\ Server \notin Tools
          /\ ReplyLength(Asked(request)) \in Lengths
      BY <1>1, <2>2, RequestKnown, ReplyFits, TalkFacts
    <3>2. PICK to \in Nodes, len \in Lengths :
            to = From(request) /\ to \in Tools /\ LccDatagramSend(Server, to, len)
      BY <2>4, <3>1
    <3>3. <<to, 0>> \in Peers(Server)
      BY <3>2 DEF Peers
    <3>4. BusInv'
      BY <1>1, <3>1, <3>2, <3>3, SendBus
    <3>. QED
      BY <2>1, <3>4
  <2>. QED
    BY <1>4, <2>3, <2>4 DEF Process
<1>5. ASSUME NEW q \in Requests, Ask(q[1], q[2]) PROVE BusInv' /\ Talk'
  <2>1. q[1] \in Tools /\ q[1] \in Nodes /\ q[1] # Server /\ Server \in Nodes /\ 1 \in Lengths
    BY MemoryConfigAssumption DEF Tools
  <2>2. LccDatagramSend(q[1], Server, 1)
    BY <1>5 DEF Ask
  <2>3. <<Server, 0>> \in Peers(q[1])
    BY <2>1 DEF Peers
  <2>4. /\ BusInv' /\ UNCHANGED <<alias, log>>
        /\ \A m \in Nodes \ {q[1]} : verdict'[m] = verdict[m]
        /\ DOMAIN verdict'[q[1]] = DOMAIN verdict[q[1]] \cup {Len(verdict[q[1]]) + 1}
    BY <1>1, <2>1, <2>2, <2>3, SendBus
  <2>. QED
    BY <1>5, <2>4, AskTalk
<1>6. ASSUME NEW n \in Nodes, Arrive(n) PROVE BusInv' /\ Talk'
  <2>1. /\ BusInv' /\ UNCHANGED <<alias, sent, memory, holder>>
        /\ \A m \in Nodes : DOMAIN verdict'[m] = DOMAIN verdict[m]
        /\ NothingTaken \/ \E t \in Tools, k \in Nat : Takes(t, k)
    BY <1>1, <1>6, ArriveBus
  <2>. QED
    BY <2>1, QuietTalk, TakesTalk
<1>7. ASSUME NEW n \in Nodes, RunTimers(n) PROVE BusInv' /\ Talk'
  <2>1. UNCHANGED <<sent, memory, holder, request>> /\ LccDatagramRunTimers(n)
    BY <1>7 DEF RunTimers, memconfig
  <2>2. /\ BusInv' /\ UNCHANGED <<alias, log>>
        /\ \A m \in Nodes : DOMAIN verdict'[m] = DOMAIN verdict[m]
    BY <1>1, <2>1, TimersBus
  <2>3. NothingTaken
    BY <2>1, <2>2 DEF NothingTaken, Taken
  <2>. QED
    BY <2>1, <2>2, <2>3, QuietTalk
<1>. QED
  BY <1>3, <1>4, <1>5, <1>6, <1>7 DEF MemoryConfigNext

LEMMA LockAlways == MemoryConfigSpec => []LockInv
  BY LockInit, LockNext, PTL DEF MemoryConfigSpec

\* Whatever the tools ask and however late the answers come, memconfig.c uses the
\* datagram transport as Datagram describes it, so that what is proved of the
\* transport holds under it.
THEOREM MemoryConfigUsesDatagram == MemoryConfigSpec => Spec
<1>1. MemoryConfigInit => Init
  BY DEF MemoryConfigInit
<1>2. LockInv /\ [MemoryConfigNext]_mvars => [Next]_vars
  BY UsesDatagram DEF LockInv
<1>. QED
  BY <1>1, <1>2, LockAlways, PTL DEF MemoryConfigSpec, Spec

\* The lock of memconfig.c is held by one tool at a time, as the tools know from the
\* answers they got, however late: what the node says of its lock (do_lock) is true
\* as long as the tool it told has not asked to release it.
THEOREM LockIsExclusive == MemoryConfigSpec => []LockExclusive
<1>1. LockInv => LockExclusive
  BY HolderKnows DEF LockExclusive
<1>. QED
  BY <1>1, LockAlways, PTL

\* A tool gets the answer to its own request, and what it reads is not older than
\* the request, however long the reply waited in the send queue of datagram.c.
THEOREM AnswersBelong == MemoryConfigSpec => []OwnAnswers
<1>1. LockInv => OwnAnswers
  <2>. SUFFICES ASSUME LockInv, NEW i \in Handled(Server)
                PROVE  /\ From(sent[Server][i].req) = sent[Server][i].to
                       /\ sent[Server][i].says[1] = "data" =>
                            sent[Server][i].says[2] >= Asked(sent[Server][i].req).since
    BY DEF OwnAnswers
  <2>1. i \in DOMAIN sent[Server]
    BY SaidFacts DEF LockInv, Handled, Taken
  <2>2. ReplyOK(sent[Server][i])
    BY <2>1 DEF LockInv, TalkInv, Replies
  <2>. QED
    BY <2>2 DEF ReplyOK
<1>. QED
  BY <1>1, LockAlways, PTL

-----------------------------------------------------------------------------
(* Every query is answered: the invariant *)

\* The last frames of datagrams to tool t, and the answers
Final(t) == {f \in Frame : Closing(f) /\ f.dst = <<t, 0>>}
AnswerFrame == {f \in Frame : f.kind = "answer"}

\* There is at most one of the frames F on the wire w.
Lone(w, F) == \A i, j \in 1..Len(w) : w[i] \in F /\ w[j] \in F => i = j

\* What is on its way to t, or back, and will decide about a reply
Pending(t) == (Range(wire[Server]) \cap Final(t)) \cup (Range(wire[t]) \cap AnswerFrame)

\* There is one such thing at most, it is about the reply in flight, and an OK is for
\* a reply that t has taken.
Due(t) ==
  /\ Lone(wire[Server], Final(t)) /\ Lone(wire[t], AnswerFrame)
  /\ Range(wire[Server]) \cap Final(t) = {} \/ Range(wire[t]) \cap AnswerFrame = {}
  /\ \A f \in Pending(t) :
       /\ tx[Server].inFlight /\ f.num = tx[Server].queue[1].num
       /\ tx[Server].queue[1].dst = <<t, 0>>
       /\ f.kind = "answer" /\ f.code = "ok" => f.num \in Taken(Server)

\* No reply to t was given up, or none up to the i-th.
Clean(t) == \A j \in DOMAIN sent[Server] : sent[Server][j].to = t => verdict[Server][j] # "failed"

CleanTo(t, i) == \A j \in 1..i : sent[Server][j].to = t => verdict[Server][j] # "failed"

\* The replies in the queue are the undecided ones, in order.
Waiting ==
  LET q == tx[Server].queue IN
  /\ \A i, j \in 1..Len(q) : i < j => q[i].num < q[j].num
  /\ \A k \in 1..Len(q) : /\ verdict[Server][q[k].num] = "queued"
                          /\ q[k].dst = <<sent[Server][q[k].num].to, 0>>
  /\ \A i \in DOMAIN verdict[Server] :
       /\ verdict[Server][i] = "queued" => \E k \in 1..Len(q) : q[k].num = i
       /\ \A k \in 1..Len(q) : q[k].num < i => verdict[Server][i] = "queued"

\* Tools have taken the replies they acknowledged.
Acknowledged ==
  \A i \in DOMAIN sent[Server] :
    verdict[Server][i] = "acked" /\ CleanTo(sent[Server][i].to, i) => i \in Taken(Server)

\* A query that was taken is being processed, or has a reply, or found the queue full.
Replied ==
  \A t \in Tools : \A k \in Taken(t) : sent[t][k].cmd \in Queries =>
    \/ request = <<t, k>> \/ <<t, k>> \in unsaid
    \/ \E i \in DOMAIN sent[Server] : sent[Server][i].req = <<t, k>>

DueInv == \A t \in Tools : Clean(t) => Due(t)

QueryInv == LockInv /\ lossy = {} /\ Waiting /\ Acknowledged /\ Replied /\ DueInv

-----------------------------------------------------------------------------
(* At most one frame on a wire *)

\* Where there is none there is not more than one.
LEMMA LoneNone ==
  ASSUME NEW w \in Seq(Frame), NEW F, Range(w) \cap F = {}
  PROVE  Lone(w, F)
<1>1. DOMAIN w = 1..Len(w)
  BY LenProperties
<1>2. \A i \in 1..Len(w) : w[i] \in Range(w)
  BY <1>1 DEF Range
<1>. QED
  BY <1>2 DEF Lone

\* When the front frame was the one, none is left.
LEMMA LoneTail ==
  ASSUME NEW w \in Seq(Frame), w # <<>>, NEW F, Lone(w, F)
  PROVE  Lone(Tail(w), F) /\ (Head(w) \in F => Range(Tail(w)) \cap F = {})
<1>. DEFINE t == Tail(w)
<1>1. /\ Len(w) \in Nat /\ 1 \in 1..Len(w) /\ Head(w) = w[1]
      /\ t \in Seq(Frame) /\ Len(t) = Len(w) - 1 /\ DOMAIN t = 1..Len(t)
      /\ \A i \in 1..Len(t) : t[i] = w[i + 1]
  BY HeadTailProperties, LenProperties, EmptySeq
<1>. HIDE DEF t
<1>2. \A i \in 1..Len(t) : i + 1 \in 1..Len(w) /\ t[i] = w[i + 1] /\ 1 < i + 1
  BY <1>1
<1>3. Lone(t, F)
  BY <1>1, <1>2 DEF Lone
<1>4. Range(t) = {t[i] : i \in 1..Len(t)}
  BY <1>1 DEF Range
<1>5. Head(w) \in F => Range(t) \cap F = {}
  BY <1>1, <1>2, <1>4 DEF Lone
<1>. QED
  BY <1>3, <1>5 DEF t

\* What is sent adds one where there was none.
LEMMA LoneConcat ==
  ASSUME NEW u \in Seq(Frame), NEW v \in Seq(Frame), NEW F, Lone(u, F), Lone(v, F),
         Range(u) \cap F = {} \/ Range(v) \cap F = {}
  PROVE  Lone(u \o v, F)
<1>. DEFINE w == u \o v
<1>1. /\ w \in Seq(Frame) /\ Len(u) \in Nat /\ Len(v) \in Nat /\ Len(w) = Len(u) + Len(v)
      /\ \A i \in 1..(Len(u) + Len(v)) : w[i] = IF i <= Len(u) THEN u[i] ELSE v[i - Len(u)]
      /\ DOMAIN u = 1..Len(u) /\ DOMAIN v = 1..Len(v)
  BY ConcatProperties, LenProperties
<1>. HIDE DEF w
<1>2. /\ \A i \in 1..Len(u) : u[i] \in Range(u)
      /\ \A i \in 1..Len(v) : v[i] \in Range(v)
  BY <1>1 DEF Range
<1>3. ASSUME NEW i \in 1..Len(w)
      PROVE  \/ i \in 1..Len(u) /\ w[i] = u[i]
             \/ i - Len(u) \in 1..Len(v) /\ i > Len(u) /\ w[i] = v[i - Len(u)]
  BY <1>1
<1>4. ASSUME NEW i \in 1..Len(w), NEW j \in 1..Len(w), w[i] \in F, w[j] \in F
      PROVE  i = j
  <2>1. CASE i \in 1..Len(u) /\ w[i] = u[i] /\ j \in 1..Len(u) /\ w[j] = u[j]
    BY <1>4, <2>1 DEF Lone
  <2>2. CASE i - Len(u) \in 1..Len(v) /\ w[i] = v[i - Len(u)] /\ j - Len(u) \in 1..Len(v) /\ w[j] = v[j - Len(u)]
    <3>1. i - Len(u) = j - Len(u)
      BY <1>4, <2>2 DEF Lone
    <3>. QED
      BY <1>1, <3>1
  <2>3. CASE i \in 1..Len(u) /\ w[i] = u[i] /\ j - Len(u) \in 1..Len(v) /\ w[j] = v[j - Len(u)]
    BY <1>2, <1>4, <2>3
  <2>4. CASE j \in 1..Len(u) /\ w[j] = u[j] /\ i - Len(u) \in 1..Len(v) /\ w[i] = v[i - Len(u)]
    BY <1>2, <1>4, <2>4
  <2>. QED
    BY <1>3, <2>1, <2>2, <2>3, <2>4
<1>. QED
  BY <1>4 DEF Lone, w

\* The frames of a datagram: one of them is the last.
LEMMA LoneFrames ==
  ASSUME NEW n \in Nodes, NEW e \in Entry, NEW t, WireGood(n, FramesOf(Alias(n), e))
  PROVE  LET out == FramesOf(Alias(n), e) IN
         /\ Lone(out, Final(t)) /\ Range(out) \cap AnswerFrame = {}
         /\ \A f \in Range(out) : f.dst = e.dst /\ f.num = e.num /\ f.kind # "answer"
<1>. DEFINE out == FramesOf(Alias(n), e)
<1>1. /\ Single(out)
      /\ \A f \in Range(out) : f.kind # "answer" /\ f.src = Alias(n) /\ f.num = e.num
  BY FramesOrdered
<1>2. \A f \in Range(out) : f.dst = e.dst
  BY FramesOfEntry
<1>3. out \in Seq(Frame)
  BY DEF WireGood
<1>. HIDE DEF out
<1>4. \A i \in 1..Len(out) : out[i] \in Range(out)
  BY <1>3, LenProperties DEF Range
<1>5. Lone(out, Final(t))
  BY <1>1, <1>4 DEF Lone, Single, Final, Decisive, Closing, Asker
<1>. QED
  BY <1>1, <1>2, <1>5 DEF AnswerFrame, out

\* What is left on a wire and what is sent on it
LEMMA LoneAfter ==
  ASSUME WiresGood, NEW taken, NEW d, NEW out, Exchange(taken, d, out), NEW m \in Nodes, NEW F,
         Lone(wire[m], F),
         m = d => Lone(out, F) /\ (Range(Kept(taken, m)) \cap F = {} \/ Range(out) \cap F = {})
  PROVE  Lone(wire'[m], F)
<1>. DEFINE kept == Kept(taken, m)
            more == IF m = d THEN out ELSE <<>>
<1>1. wire[m] \in Seq(Frame) /\ (m \in taken => wire[m] # <<>>)
  BY DEF WiresGood, WireGood, Exchange
<1>2. kept \in Seq(Frame) /\ Lone(kept, F)
  BY <1>1, LoneTail, WireRange DEF Kept, Exchange
<1>3. <<>> \in Seq(Frame) /\ Range(<<>>) = {} /\ Lone(<<>>, F)
  <2>1. <<>> \in Seq(Frame) /\ Range(<<>>) = {}
    BY NothingGood
  <2>2. Lone(<<>>, F)
    BY DEF Lone
  <2>. QED
    BY <2>1, <2>2
<1>4. more \in Seq(Frame) /\ Lone(more, F) /\ (Range(kept) \cap F = {} \/ Range(more) \cap F = {})
  BY <1>3 DEF Exchange, WireGood
<1>5. wire'[m] = kept \o more
  BY DEF Exchange, Changed
<1>. HIDE DEF kept, more
<1>. QED
  BY <1>2, <1>4, <1>5, LoneConcat

-----------------------------------------------------------------------------
(* What a step does to what is pending *)

\* Nothing about replies to t is left on the wires.
Gone(taken, t) ==
  Range(Kept(taken, Server)) \cap Final(t) = {} /\ Range(Kept(taken, t)) \cap AnswerFrame = {}

\* What is pending after a step was so before it, or has been sent.
LEMMA PendingAfter ==
  ASSUME WiresGood, NEW taken, NEW d, NEW out, Exchange(taken, d, out), NEW t \in Tools
  PROVE  /\ Range(wire'[Server]) = Range(Kept(taken, Server)) \cup (IF d = Server THEN Range(out) ELSE {})
         /\ Range(wire'[t]) = Range(Kept(taken, t)) \cup (IF d = t THEN Range(out) ELSE {})
         /\ Range(Kept(taken, Server)) \subseteq Range(wire[Server])
         /\ Range(Kept(taken, t)) \subseteq Range(wire[t])
         /\ t \in Nodes /\ Server \in Nodes /\ t # Server
<1>1. t \in Nodes /\ Server \in Nodes /\ t # Server
  BY MemoryConfigAssumption DEF Tools
<1>. QED
  BY <1>1, WireRange DEF Exchange

\* Nothing changes for t while nothing is sent to it, or by it, that decides.
LEMMA DueStays ==
  ASSUME WiresGood, NEW taken, NEW d, NEW out, Exchange(taken, d, out), NEW t \in Tools, Due(t),
         tx[Server].inFlight => tx'[Server].inFlight /\ tx'[Server].queue[1] = tx[Server].queue[1],
         Taken(Server) \subseteq Taken(Server)',
         d = Server => Range(out) \cap Final(t) = {},
         d = t => Range(out) \cap AnswerFrame = {}
  PROVE  Due(t)'
<1>1. /\ Range(wire'[Server]) = Range(Kept(taken, Server)) \cup (IF d = Server THEN Range(out) ELSE {})
      /\ Range(wire'[t]) = Range(Kept(taken, t)) \cup (IF d = t THEN Range(out) ELSE {})
      /\ Range(Kept(taken, Server)) \subseteq Range(wire[Server])
      /\ Range(Kept(taken, t)) \subseteq Range(wire[t])
      /\ t \in Nodes /\ Server \in Nodes /\ t # Server
  BY PendingAfter
<1>2. out \in Seq(Frame)
  BY DEF Exchange, WireGood
<1>3. Lone(wire'[Server], Final(t))
  <2>1. d = Server => Lone(out, Final(t))
    BY <1>2, LoneNone
  <2>. QED
    BY <1>1, <2>1, LoneAfter DEF Due
<1>4. Lone(wire'[t], AnswerFrame)
  <2>1. d = t => Lone(out, AnswerFrame)
    BY <1>2, LoneNone
  <2>. QED
    BY <1>1, <2>1, LoneAfter DEF Due
<1>5. /\ Range(wire'[Server]) \cap Final(t) \subseteq Range(wire[Server]) \cap Final(t)
      /\ Range(wire'[t]) \cap AnswerFrame \subseteq Range(wire[t]) \cap AnswerFrame
  BY <1>1
<1>6. Pending(t)' \subseteq Pending(t)
  BY <1>5 DEF Pending
<1>. QED
  BY <1>3, <1>4, <1>5, <1>6 DEF Due

\* While the node waits for nothing from t, nothing is pending.
LEMMA NothingDue ==
  ASSUME WiresGood, NEW taken, NEW d, NEW out, Exchange(taken, d, out), NEW t \in Tools, Due(t),
         ~(tx[Server].inFlight /\ tx[Server].queue[1].dst = <<t, 0>>)
  PROVE  Gone(taken, t)
<1>1. Pending(t) = {}
  BY DEF Due
<1>. QED
  BY <1>1, PendingAfter DEF Gone, Pending

\* When the answer of t is taken from its wire, nothing is left.
LEMMA AnswerTaken ==
  ASSUME WiresGood, NEW t \in Tools, wire[t] # <<>>, Head(wire[t]).kind = "answer", Due(t)
  PROVE  Gone({t}, t)
<1>1. t \in Nodes /\ Server \in Nodes /\ t # Server
  BY MemoryConfigAssumption DEF Tools
<1>2. Head(wire[t]) \in AnswerFrame /\ Head(wire[t]) \in Range(wire[t]) /\ wire[t] \in Seq(Frame)
  BY <1>1, NextFrame DEF AnswerFrame, WiresGood, WireGood
<1>3. Range(wire[Server]) \cap Final(t) = {}
  BY <1>2 DEF Due
<1>4. Range(Tail(wire[t])) \cap AnswerFrame = {}
  BY <1>2, LoneTail DEF Due
<1>. QED
  BY <1>1, <1>3, <1>4 DEF Gone, Kept

\* The node sends the head of its queue when nothing is left to hear for, or nothing.
LEMMA DueAnew ==
  ASSUME WiresGood, NEW taken, NEW out, Exchange(taken, Server, out), NEW t \in Tools, Gone(taken, t),
         \/ out = <<>>
         \/ \E e \in Entry : /\ out = FramesOf(Alias(Server), e)
                             /\ tx'[Server].inFlight /\ tx'[Server].queue[1] = e
  PROVE  Due(t)'
<1>0. t \in Nodes /\ Server \in Nodes /\ t # Server
  BY MemoryConfigAssumption DEF Tools
<1>1. /\ Range(wire'[Server]) = Range(Kept(taken, Server)) \cup Range(out)
      /\ Range(wire'[t]) = Range(Kept(taken, t))
      /\ t \in Nodes /\ Server \in Nodes /\ t # Server
  <2>1. \A m \in Nodes : Range(wire'[m]) = Range(Kept(taken, m)) \cup (IF m = Server THEN Range(out) ELSE {})
    BY WireRange DEF Exchange
  <2>2. \A S : S \cup {} = S
    OBVIOUS
  <2>. QED
    BY <1>0, <2>1, <2>2
<1>2. /\ Lone(out, Final(t)) /\ Range(out) \cap AnswerFrame = {} /\ out \in Seq(Frame)
      /\ \A f \in Range(out) : f \in Final(t) =>
           /\ tx'[Server].inFlight /\ f.num = tx'[Server].queue[1].num
           /\ tx'[Server].queue[1].dst = <<t, 0>> /\ f.kind # "answer"
  <2>1. WireGood(Server, out)
    BY DEF Exchange
  <2>2. CASE out = <<>>
    <3>1. Range(out) = {} /\ out \in Seq(Frame)
      BY <2>1, <2>2, NothingGood DEF WireGood
    <3>. QED
      BY <3>1, LoneNone
  <2>3. ASSUME NEW e \in Entry, out = FramesOf(Alias(Server), e),
               tx'[Server].inFlight, tx'[Server].queue[1] = e
        PROVE  /\ Lone(out, Final(t)) /\ Range(out) \cap AnswerFrame = {} /\ out \in Seq(Frame)
               /\ \A f \in Range(out) : f \in Final(t) =>
                    /\ tx'[Server].inFlight /\ f.num = tx'[Server].queue[1].num
                    /\ tx'[Server].queue[1].dst = <<t, 0>> /\ f.kind # "answer"
    <3>1. /\ Lone(out, Final(t)) /\ Range(out) \cap AnswerFrame = {}
          /\ \A f \in Range(out) : f.dst = e.dst /\ f.num = e.num /\ f.kind # "answer"
      BY <1>1, <2>1, <2>3, LoneFrames
    <3>. QED
      BY <2>1, <2>3, <3>1 DEF WireGood, Final
  <2>. QED
    BY <2>2, <2>3
<1>3. Kept(taken, Server) \in Seq(Frame) /\ Kept(taken, t) \in Seq(Frame)
  BY <1>1, WireRange DEF Exchange
<1>4. /\ Range(wire'[t]) \cap AnswerFrame = {}
      /\ Range(wire'[Server]) \cap Final(t) = Range(out) \cap Final(t)
  BY <1>1 DEF Gone
<1>5. Lone(wire'[t], AnswerFrame) /\ Lone(wire'[Server], Final(t))
  <2>1. wire'[t] = Kept(taken, t) \o <<>> /\ wire'[Server] = Kept(taken, Server) \o out
    BY <1>1 DEF Exchange, Changed
  <2>2. wire'[t] \in Seq(Frame)
    BY <1>3, <2>1
  <2>3. Lone(Kept(taken, Server), Final(t))
    BY <1>3, LoneNone DEF Gone
  <2>4. Lone(Kept(taken, Server) \o out, Final(t))
    BY <1>2, <1>3, <2>3, LoneConcat DEF Gone
  <2>. QED
    BY <1>4, <2>1, <2>2, <2>4, LoneNone
<1>6. \A f \in Pending(t)' : f \in Range(out) /\ f \in Final(t)
  BY <1>4 DEF Pending
<1>. QED
  BY <1>2, <1>4, <1>5, <1>6 DEF Due

\* The last frame of a datagram for t arrives, and t answers.
LEMMA DueAnswered ==
  ASSUME WiresGood, NEW t \in Tools, wire[Server] # <<>>, Due(t), NEW code,
         LET f == Head(wire[Server]) IN
         /\ Closing(f) /\ f.dst = <<t, 0>>
         /\ WireGood(t, Answer(Alias(t), f, code)) /\ Handle(Server, t, Answer(Alias(t), f, code))
         /\ code = "ok" => f.num \in Taken(Server)',
         tx'[Server] = tx[Server]
  PROVE  Due(t)'
<1>. DEFINE f == Head(wire[Server])
            out == Answer(Alias(t), f, code)
<1>1. t \in Nodes /\ Server \in Nodes /\ t # Server
  BY MemoryConfigAssumption DEF Tools
<1>2. f \in Final(t) /\ f \in Range(wire[Server]) /\ wire[Server] \in Seq(Frame) /\ wire[t] \in Seq(Frame)
  BY <1>1, NextFrame DEF Final, WiresGood, WireGood
<1>3. /\ tx[Server].inFlight /\ f.num = tx[Server].queue[1].num
      /\ tx[Server].queue[1].dst = <<t, 0>>
  BY <1>2 DEF Due, Pending
<1>4. Range(wire[t]) \cap AnswerFrame = {} /\ Range(Tail(wire[Server])) \cap Final(t) = {}
  BY <1>2, LoneTail DEF Due
<1>5. PICK taken : taken = {Server}
  OBVIOUS
<1>6. Exchange(taken, t, out)
  BY <1>1, <1>5, HandleExchange
<1>7. /\ \A g \in Range(out) : g.kind = "answer" /\ g.num = f.num /\ g.code = code
      /\ Len(out) = 1 /\ out \in Seq(Frame)
  <2>1. \A g \in Range(out) : g.kind = "answer" /\ g.num = f.num /\ g.code = code
    BY AnswerOrdered
  <2>2. Len(out) = 1
    BY DEF Answer
  <2>. QED
    BY <2>1, <2>2 DEF WireGood
<1>. HIDE DEF out, f
<1>8. Lone(out, AnswerFrame)
  <2>1. \A i, j \in 1..1 : i = j
    OBVIOUS
  <2>. QED
    BY <1>7, <2>1 DEF Lone
<1>9. /\ Range(wire'[Server]) = Range(Kept(taken, Server))
      /\ Range(wire'[t]) = Range(Kept(taken, t)) \cup Range(out)
  <2>1. \A m \in Nodes : Range(wire'[m]) = Range(Kept(taken, m)) \cup (IF m = t THEN Range(out) ELSE {})
    BY <1>6, WireRange DEF Exchange
  <2>2. \A S : S \cup {} = S
    OBVIOUS
  <2>. QED
    BY <1>1, <2>1, <2>2
<1>10. Kept(taken, Server) = Tail(wire[Server]) /\ Kept(taken, t) = wire[t]
  BY <1>1, <1>5 DEF Kept
<1>11. Lone(wire'[t], AnswerFrame)
  BY <1>1, <1>4, <1>6, <1>8, <1>10, LoneAfter DEF Due
<1>12. Lone(wire'[Server], Final(t))
  BY <1>1, <1>6, LoneAfter DEF Due
<1>13. Range(wire'[Server]) \cap Final(t) = {}
  BY <1>4, <1>9, <1>10
<1>14. \A g \in Pending(t)' : g \in Range(out)
  BY <1>4, <1>9, <1>10, <1>13 DEF Pending
<1>. QED
  BY <1>3, <1>7, <1>11, <1>12, <1>13, <1>14 DEF Due, f

-----------------------------------------------------------------------------
(* What a step does to the replies *)

\* What the invariant says of the types of the node's queue and replies
LEMMA ReplyFacts ==
  ASSUME LockInv
  PROVE  /\ WiresGood /\ Server \in Nodes /\ Tools \subseteq Nodes /\ Server \notin Tools
         /\ tx \in [Nodes -> TxType] /\ verdict \in [Nodes -> Seq({"queued", "acked", "failed"})]
         /\ \A n \in Nodes : Alias(n) = <<n, 0>>
         /\ Good(tx[Server])
         /\ verdict[Server] \in Seq({"queued", "acked", "failed"}) /\ Len(verdict[Server]) \in Nat
         /\ DOMAIN verdict[Server] = 1..Len(verdict[Server])
         /\ DOMAIN sent[Server] = 1..Len(verdict[Server])
         /\ tx[Server].queue \in Seq(Entry) /\ Len(tx[Server].queue) \in Nat
         /\ \A k \in 1..Len(tx[Server].queue) :
              /\ tx[Server].queue[k] \in Entry
              /\ tx[Server].queue[k].num \in 1..Len(verdict[Server])
              /\ tx[Server].queue[k].dst \in Tools \X {0}
<1>1. DeliveryInv /\ BusInv /\ SentOK
  BY DEF LockInv, TalkInv
<1>2. /\ WiresGood /\ Server \in Nodes /\ Tools \subseteq Nodes /\ Server \notin Tools
      /\ tx \in [Nodes -> TxType] /\ verdict \in [Nodes -> Seq({"queued", "acked", "failed"})]
      /\ \A n \in Nodes : Good(tx[n]) /\ Addressed(n) /\ Alias(n) = <<n, 0>>
      /\ \A n \in Nodes : Len(verdict[n]) \in Nat /\ DOMAIN verdict[n] = 1..Len(verdict[n])
      /\ \A n \in Nodes : tx[n].queue \in Seq(Entry) /\ Len(tx[n].queue) \in Nat
      /\ \A n \in Nodes : \A k \in 1..Len(tx[n].queue) : tx[n].queue[k] \in Entry
  BY <1>1, TalkFacts
<1>3. DOMAIN sent[Server] = DOMAIN verdict[Server]
  BY <1>1, <1>2 DEF SentOK
<1>4. \A k \in 1..Len(tx[Server].queue) : EntryOK(Server, tx[Server].queue[k])
  BY <1>2 DEF Addressed
<1>. QED
  BY <1>2, <1>3, <1>4 DEF EntryOK, Peers

\* Nothing is decided, and nothing queued.
LEMMA RepliesStay ==
  ASSUME Waiting, Acknowledged, verdict'[Server] = verdict[Server], sent'[Server] = sent[Server],
         tx'[Server].queue = tx[Server].queue, Taken(Server) \subseteq Taken(Server)'
  PROVE  Waiting' /\ Acknowledged' /\ \A t : Clean(t)' => Clean(t)
<1>1. Waiting'
  BY DEF Waiting
<1>2. \A t : Clean(t)' => Clean(t)
  BY DEF Clean
<1>3. \A t, i : CleanTo(t, i)' => CleanTo(t, i)
  BY DEF CleanTo
<1>. QED
  BY <1>1, <1>2, <1>3 DEF Acknowledged

\* The head of the queue is decided.
LEMMA ReplyDecided ==
  ASSUME LockInv, Waiting, Acknowledged, NEW result \in {"acked", "failed"},
         tx[Server].queue # <<>>, Pop(Server, result), UNCHANGED <<sent, log>>,
         result = "acked" =>
           \A t \in Tools : tx[Server].queue[1].dst = <<t, 0>> /\ Clean(t) =>
             tx[Server].queue[1].num \in Taken(Server)
  PROVE  /\ Waiting' /\ Acknowledged'
         /\ \A t \in Tools : Clean(t)' =>
              Clean(t) /\ (result = "failed" => tx[Server].queue[1].dst # <<t, 0>>)
<1>. DEFINE q == tx[Server].queue
            p == tx'[Server].queue
            v == verdict[Server]
            w == verdict'[Server]
            L == Len(verdict[Server])
            h == q[1].num
            said == sent[Server]
<1>1. /\ Server \in Nodes /\ tx \in [Nodes -> TxType]
      /\ verdict \in [Nodes -> Seq({"queued", "acked", "failed"})]
      /\ L \in Nat /\ DOMAIN v = 1..L /\ DOMAIN said = 1..L
      /\ q \in Seq(Entry) /\ Len(q) \in Nat
      /\ \A k \in 1..Len(q) : q[k].num \in 1..L /\ q[k].dst \in Tools \X {0}
  BY ReplyFacts
<1>2. 1 \in 1..Len(q) /\ Head(q) = q[1] /\ Len(q) > 0
  BY <1>1, EmptySeq
<1>3. p = PopHead(tx[Server]).queue /\ w = [v EXCEPT ![h] = result]
  BY <1>1, <1>2 DEF Pop
<1>4. Len(p) = Len(q) - 1 /\ \A k \in 1..Len(p) : p[k] = q[k + 1]
  <2>1. CASE Len(q) <= 1
    <3>1. p = <<>>
      BY <1>3, <2>1 DEF PopHead, Idle, Sender
    <3>2. Len(<<>>) = 0
      OBVIOUS
    <3>. HIDE DEF p, q
    <3>3. Len(p) = 0
      BY <3>1, <3>2
    <3>4. Len(q) = 1
      <4>1. \A n \in Nat : n > 0 /\ n <= 1 => n = 1
        OBVIOUS
      <4>. QED
        BY <1>1, <1>2, <2>1, <4>1, Zenon
    <3>5. 1..0 = {}
      OBVIOUS
    <3>. QED
      BY <3>3, <3>4, <3>5
  <2>2. CASE ~(Len(q) <= 1)
    <3>1. p = Tail(q)
      BY <1>3, <2>2 DEF PopHead, TransmitHead, Sender
    <3>2. /\ Len(Tail(q)) = Len(q) - 1 /\ \A k \in 1..Len(Tail(q)) : Tail(q)[k] = q[k + 1]
      BY <1>1, <1>2, EmptySeq, HeadTailProperties
    <3>. HIDE DEF p, q
    <3>. QED
      BY <3>1, <3>2
  <2>. QED
    BY <2>1, <2>2
<1>5. /\ \A i, j \in 1..Len(q) : i < j => q[i].num < q[j].num
      /\ \A k \in 1..Len(q) : v[q[k].num] = "queued" /\ q[k].dst = <<said[q[k].num].to, 0>>
      /\ \A i \in 1..L : /\ v[i] = "queued" => \E k \in 1..Len(q) : q[k].num = i
                         /\ \A k \in 1..Len(q) : q[k].num < i => v[i] = "queued"
  BY <1>1 DEF Waiting
<1>6. Taken(Server)' = Taken(Server) /\ sent' = sent
  BY DEF Taken
<1>7. h \in 1..L /\ v[h] = "queued" /\ q[1].dst = <<said[h].to, 0>> /\ q[1].dst \in Tools \X {0}
  BY <1>1, <1>2, <1>5
<1>8. said[h].to \in Tools
  BY <1>7
<1>. HIDE DEF p, q, w, v, L, h
<1>9. /\ DOMAIN w = 1..L /\ w[h] = result /\ \A i \in 1..L : i # h => w[i] = v[i]
  BY <1>1, <1>3, <1>7
<1>10. ASSUME NEW k \in 1..Len(p)
       PROVE  k + 1 \in 1..Len(q) /\ p[k] = q[k + 1] /\ h < q[k + 1].num /\ q[k + 1].num # h
  <2>1. k + 1 \in 1..Len(q) /\ p[k] = q[k + 1] /\ 1 < k + 1
    BY <1>1, <1>4
  <2>2. h < q[k + 1].num
    BY <1>2, <1>5, <2>1 DEF h
  <2>. QED
    BY <1>1, <1>7, <2>1, <2>2
<1>11. Waiting'
  <2>1. \A i, j \in 1..Len(p) : i < j => p[i].num < p[j].num
    <3>. SUFFICES ASSUME NEW i \in 1..Len(p), NEW j \in 1..Len(p), i < j PROVE p[i].num < p[j].num
      OBVIOUS
    <3>1. i + 1 < j + 1
      BY <1>1, <1>4
    <3>2. i + 1 \in 1..Len(q) /\ p[i] = q[i + 1] /\ j + 1 \in 1..Len(q) /\ p[j] = q[j + 1]
      BY <1>10
    <3>3. q[i + 1].num < q[j + 1].num
      BY <1>5, <3>1, <3>2
    <3>. QED
      BY <3>2, <3>3
  <2>2. ASSUME NEW k \in 1..Len(p)
        PROVE  w[p[k].num] = "queued" /\ p[k].dst = <<said[p[k].num].to, 0>>
    <3>1. /\ k + 1 \in 1..Len(q) /\ p[k] = q[k + 1] /\ q[k + 1].num # h
      BY <1>10
    <3>2. q[k + 1].num \in 1..L
      BY <1>1, <3>1
    <3>3. v[q[k + 1].num] = "queued" /\ q[k + 1].dst = <<said[q[k + 1].num].to, 0>>
      BY <1>5, <3>1
    <3>4. w[q[k + 1].num] = "queued"
      BY <1>9, <3>1, <3>2, <3>3
    <3>. QED
      BY <3>1, <3>3, <3>4
  <2>3. ASSUME NEW i \in 1..L, w[i] = "queued" PROVE \E k \in 1..Len(p) : p[k].num = i
    <3>1. i # h /\ v[i] = "queued"
      BY <1>9, <2>3
    <3>2. PICK k \in 1..Len(q) : q[k].num = i
      BY <1>5, <3>1
    <3>3. k # 1
      BY <3>1, <3>2 DEF h
    <3>4. k - 1 \in 1..Len(p) /\ (k - 1) + 1 = k
      BY <1>1, <1>4, <3>3
    <3>5. p[k - 1] = q[k]
      BY <1>4, <3>4
    <3>. QED
      BY <3>2, <3>4, <3>5
  <2>4. ASSUME NEW i \in 1..L, NEW k \in 1..Len(p), p[k].num < i PROVE w[i] = "queued"
    <3>1. q[k + 1].num < i /\ v[i] = "queued"
      BY <1>5, <1>10, <2>4
    <3>2. i # h
      BY <1>1, <1>7, <1>10, <3>1
    <3>. QED
      BY <1>9, <3>1, <3>2
  <2>. QED
    BY <1>6, <1>9, <2>1, <2>2, <2>3, <2>4 DEF Waiting, p, w
<1>12. \A j \in 1..L : w[j] # "failed" => v[j] # "failed"
  BY <1>7, <1>9
<1>13. \A j \in 1..L : h < j => v[j] = "queued"
  BY <1>2, <1>5 DEF h
<1>14. Acknowledged'
  <2>1. ASSUME NEW i \in 1..L, w[i] = "acked", \A j \in 1..i : said[j].to = said[i].to => w[j] # "failed"
        PROVE  i \in Taken(Server)
    <3>0. \A j \in 1..i : j \in 1..L
      BY <1>1
    <3>1. \A j \in 1..i : said[j].to = said[i].to => v[j] # "failed"
      BY <1>12, <2>1, <3>0
    <3>2. CASE i # h
      <4>1. v[i] = "acked"
        BY <1>9, <2>1, <3>2
      <4>. QED
        BY <1>1, <3>1, <4>1 DEF Acknowledged, CleanTo, v
    <3>3. CASE i = h
      <4>1. result = "acked"
        BY <1>9, <2>1, <3>3
      <4>2. Clean(said[h].to)
        <5>. SUFFICES ASSUME NEW j \in 1..L, said[j].to = said[h].to PROVE v[j] # "failed"
          BY <1>1 DEF Clean, v
        <5>1. CASE j <= i
          BY <1>1, <3>1, <3>3, <5>1
        <5>2. CASE ~(j <= i)
          <6>1. h < j
            BY <1>1, <1>7, <3>3, <5>2
          <6>2. v[j] = "queued"
            BY <1>13, <6>1
          <6>. QED
            BY <6>2
        <5>. QED
          BY <5>1, <5>2
      <4>. QED
        BY <1>7, <1>8, <3>3, <4>1, <4>2 DEF h, q
    <3>. QED
      BY <3>2, <3>3
  <2>. QED
    BY <1>1, <1>6, <2>1 DEF Acknowledged, CleanTo, w
<1>15. ASSUME NEW t \in Tools, Clean(t)'
       PROVE  Clean(t) /\ (result = "failed" => q[1].dst # <<t, 0>>)
  <2>1. \A j \in 1..L : said[j].to = t => w[j] # "failed"
    BY <1>1, <1>6, <1>15 DEF Clean, w
  <2>2. Clean(t)
    BY <1>1, <1>12, <2>1 DEF Clean, v
  <2>3. ASSUME result = "failed", q[1].dst = <<t, 0>> PROVE FALSE
    <3>1. said[h].to = t
      BY <1>7, <2>3
    <3>. QED
      BY <1>7, <1>9, <2>1, <2>3, <3>1
  <2>. QED
    BY <2>2, <2>3
<1>. QED
  BY <1>11, <1>14, <1>15 DEF q

\* A reply is queued.
LEMMA ReplyQueued ==
  ASSUME LockInv, Waiting, Acknowledged, NEW t \in Tools, NEW len \in Lengths, NEW reply, reply.to = t,
         LccDatagramSend(Server, t, len),
         sent' = [sent EXCEPT ![Server] = Append(sent[Server], reply)]
  PROVE  /\ Waiting' /\ Acknowledged' /\ \A u : Clean(u)' => Clean(u)
         /\ DOMAIN sent'[Server] = DOMAIN sent[Server] \cup {Len(verdict[Server]) + 1}
         /\ sent'[Server][Len(verdict[Server]) + 1] = reply
         /\ \A j \in DOMAIN sent[Server] : sent'[Server][j] = sent[Server][j]
<1>. DEFINE q == tx[Server].queue
            p == tx'[Server].queue
            v == verdict[Server]
            w == verdict'[Server]
            L == Len(verdict[Server])
            N1 == L + 1
            e == [dst |-> Alias(t), num |-> L + 1, len |-> len]
            s == Enqueue(tx[Server], e)
            said == sent[Server]
            more == sent'[Server]
<1>1. /\ Server \in Nodes /\ tx \in [Nodes -> TxType] /\ Tools \subseteq Nodes
      /\ verdict \in [Nodes -> Seq({"queued", "acked", "failed"})]
      /\ \A n \in Nodes : Alias(n) = <<n, 0>>
      /\ v \in Seq({"queued", "acked", "failed"})
      /\ L \in Nat /\ DOMAIN v = 1..L /\ DOMAIN said = 1..L
      /\ q \in Seq(Entry) /\ Len(q) \in Nat
      /\ \A k \in 1..Len(q) : q[k].num \in 1..L
  BY ReplyFacts
<1>2. /\ UNCHANGED log /\ w = Append(v, "queued")
      /\ p = Append(q, e)
  <2>1. UNCHANGED log /\ verdict' = [verdict EXCEPT ![Server] = Append(@, "queued")]
    BY DEF LccDatagramSend
  <2>2. tx' = [tx EXCEPT ![Server] = TransmitHead(s)] \/ tx' = [tx EXCEPT ![Server] = s]
    BY DEF LccDatagramSend
  <2>3. s.queue = Append(q, e) /\ TransmitHead(s).queue = Append(q, e)
    BY DEF Enqueue, TransmitHead, Sender
  <2>. HIDE DEF s
  <2>. QED
    BY <1>1, <2>1, <2>2, <2>3
<1>3. Taken(Server)' = Taken(Server)
  BY <1>2 DEF Taken
<1>4. /\ DOMAIN w = 1..(L + 1) /\ w[L + 1] = "queued" /\ \A i \in 1..L : w[i] = v[i]
  <2>1. "queued" \in {"queued", "acked", "failed"}
    OBVIOUS
  <2>. QED
    BY <1>1, <1>2, <2>1, AppendProperties, LenProperties
<1>5. /\ DOMAIN more = 1..(L + 1) /\ more[L + 1] = reply /\ \A j \in 1..L : more[j] = said[j]
  <2>1. said = [k \in 1..L |-> said[k]]
    BY <1>1 DEF LockInv, TalkInv, SentOK
  <2>2. more = Append(said, reply)
    BY <1>1 DEF LockInv, TalkInv, SentOK
  <2>. HIDE DEF more, said, L
  <2>. QED
    BY <1>1, <2>1, <2>2, SentMore
<1>6. /\ Len(p) = Len(q) + 1 /\ p[Len(q) + 1] = e
      /\ \A k \in 1..Len(q) : p[k] = q[k]
      /\ e.num = L + 1 /\ e.dst = <<t, 0>>
  <2>1. e \in Entry
    BY <1>1 DEF Entry, Aliases
  <2>. QED
    BY <1>1, <1>2, <2>1, AppendProperties
<1>7. /\ \A i, j \in 1..Len(q) : i < j => q[i].num < q[j].num
      /\ \A k \in 1..Len(q) : v[q[k].num] = "queued" /\ q[k].dst = <<said[q[k].num].to, 0>>
      /\ \A i \in 1..L : /\ v[i] = "queued" => \E k \in 1..Len(q) : q[k].num = i
                         /\ \A k \in 1..Len(q) : q[k].num < i => v[i] = "queued"
  BY <1>1 DEF Waiting
<1>8. 1..(L + 1) = 1..L \cup {L + 1} /\ 1..Len(p) = 1..Len(q) \cup {Len(q) + 1}
  BY <1>1, <1>6
<1>. HIDE DEF p, q, w, v, L, e, s, more, said
<1>9. Waiting'
  <2>1. ASSUME NEW i \in 1..Len(p), NEW j \in 1..Len(p), i < j PROVE p[i].num < p[j].num
    <3>1. i \in 1..Len(q)
      BY <1>1, <1>6, <2>1
    <3>2. CASE j \in 1..Len(q)
      BY <1>6, <1>7, <2>1, <3>1, <3>2
    <3>3. CASE j = Len(q) + 1
      <4>1. p[i].num \in 1..L
        BY <1>1, <1>6, <3>1
      <4>2. p[j].num = L + 1
        BY <1>6, <3>3
      <4>. QED
        BY <1>1, <4>1, <4>2
    <3>. QED
      BY <1>8, <3>2, <3>3
  <2>2. ASSUME NEW k \in 1..Len(p)
        PROVE  w[p[k].num] = "queued" /\ p[k].dst = <<more[p[k].num].to, 0>>
    <3>1. CASE k \in 1..Len(q)
      BY <1>1, <1>4, <1>5, <1>6, <1>7, <3>1
    <3>2. CASE k = Len(q) + 1
      BY <1>4, <1>5, <1>6, <3>2
    <3>. QED
      BY <1>8, <3>1, <3>2
  <2>3. ASSUME NEW i \in 1..(L + 1), w[i] = "queued" PROVE \E k \in 1..Len(p) : p[k].num = i
    <3>1. CASE i \in 1..L
      <4>1. PICK k \in 1..Len(q) : q[k].num = i
        BY <1>4, <1>7, <2>3, <3>1
      <4>. QED
        BY <1>6, <1>8, <4>1
    <3>2. CASE i = L + 1
      BY <1>6, <1>8, <3>2
    <3>. QED
      BY <1>8, <3>1, <3>2
  <2>4. ASSUME NEW i \in 1..(L + 1), NEW k \in 1..Len(p), p[k].num < i PROVE w[i] = "queued"
    <3>1. CASE i = L + 1
      BY <1>4, <3>1
    <3>2. CASE i \in 1..L
      <4>1. k # Len(q) + 1
        BY <1>1, <1>6, <2>4, <3>2
      <4>2. k \in 1..Len(q)
        BY <1>8, <4>1
      <4>. QED
        BY <1>4, <1>6, <1>7, <2>4, <3>2, <4>2
    <3>. QED
      BY <1>8, <3>1, <3>2
  <2>. QED
    BY <1>4, <2>1, <2>2, <2>3, <2>4 DEF Waiting, p, w, more
<1>10. Acknowledged'
  <2>1. ASSUME NEW i \in 1..(L + 1), w[i] = "acked",
               \A j \in 1..i : more[j].to = more[i].to => w[j] # "failed"
        PROVE  i \in Taken(Server)
    <3>1. i \in 1..L /\ \A j \in 1..i : j \in 1..L
      BY <1>1, <1>4, <1>8, <2>1
    <3>2. \A j \in 1..i : said[j].to = said[i].to => v[j] # "failed"
      BY <1>4, <1>5, <2>1, <3>1
    <3>3. v[i] = "acked"
      BY <1>4, <2>1, <3>1
    <3>. QED
      BY <1>1, <3>1, <3>2, <3>3 DEF Acknowledged, CleanTo, v, said
  <2>. QED
    BY <1>3, <1>5, <2>1 DEF Acknowledged, CleanTo, w, more
<1>11. ASSUME NEW u, Clean(u)' PROVE Clean(u)
  <2>1. \A j \in 1..(L + 1) : more[j].to = u => w[j] # "failed"
    BY <1>5, <1>11 DEF Clean, w, more
  <2>2. \A j \in 1..L : said[j].to = u => v[j] # "failed"
    BY <1>4, <1>5, <1>8, <2>1
  <2>. QED
    BY <1>1, <2>2 DEF Clean, v, said
<1>. QED
  BY <1>1, <1>5, <1>8, <1>9, <1>10, <1>11 DEF more, said, L

-----------------------------------------------------------------------------
(* What arrives, and the replies *)

\* Memory configuration loses nothing.
LEMMA LossyStays ==
  ASSUME [MemoryConfigNext]_mvars
  PROVE  lossy' = lossy
<1>1. CASE UNCHANGED mvars
  BY <1>1 DEF mvars, vars
<1>2. CASE Process
  BY <1>2 DEF Process, LccDatagramSend, vars
<1>3. ASSUME NEW q \in Requests, Ask(q[1], q[2]) PROVE lossy' = lossy
  BY <1>3 DEF Ask, LccDatagramSend
<1>4. ASSUME NEW n \in Nodes, Arrive(n) PROVE lossy' = lossy
  <2>1. Receive(n)
    BY <1>4 DEF Arrive
  <2>2. ASSUME NEW d, NEW f, LccDatagramFrame(n, d, f) \/ LccDatagramMessage(n, d, f) PROVE lossy' = lossy
    BY <2>2 DEF LccDatagramFrame, LccDatagramMessage
  <2>. QED
    BY <2>1, <2>2 DEF Receive
<1>5. ASSUME NEW n \in Nodes, RunTimers(n) PROVE lossy' = lossy
  BY <1>5 DEF RunTimers, LccDatagramRunTimers, ReassemblyTimeout, ResendHead, AckTimeout
<1>. QED
  BY <1>1, <1>2, <1>3, <1>4, <1>5 DEF MemoryConfigNext

\* While no frame is lost only the last frame of a datagram is answered.
LEMMA FrameEffect ==
  ASSUME LockInv, lossy' = {}, DeliveryInv', NEW n \in Nodes, NEW d \in Nodes, wire[n] # <<>>,
         LccDatagramFrame(n, d, Head(wire[n]))
  PROVE  LET f == Head(wire[n]) IN
         /\ UNCHANGED <<alias, tx, verdict>> /\ f.kind # "answer"
         /\ \/ Handle(n, d, <<>>) /\ log' = log
            \/ /\ Closing(f)
               /\ \E code \in Verdicts \cup Transport :
                    /\ Handle(n, d, Answer(Alias(d), f, code)) /\ WireGood(d, Answer(Alias(d), f, code))
                    /\ IF code = "ok" THEN /\ Taken(n)' = Taken(n) \cup {f.num}
                                           /\ \A m \in Nodes \ {n} : Taken(m)' = Taken(m)
                                      ELSE log' = log
<1>. DEFINE f == Head(wire[n])
<1>1. /\ WiresGood /\ RxTypeOK /\ alias \in [Nodes -> Nat] /\ DeliveryInv
  BY TalkFacts DEF LockInv, TalkInv
<1>2. f \in Frame /\ f.src[1] = n
  BY <1>1, NextFrame
<1>3. /\ UNCHANGED <<alias, tx, verdict>> /\ f.kind # "answer"
      /\ IF Completes(d, f) THEN \E code \in Verdicts : Decided(n, d, f, code) ELSE Undecided(n, d, f)
  BY <1>1, FrameDecides
<1>4. LccDatagramFrame(n, d, f)
  OBVIOUS
<1>. HIDE DEF f
<1>5. \A code \in Verdicts \cup Transport : WireGood(d, Answer(Alias(d), f, code))
  BY <1>1, <1>2, AnswerGood
<1>6. CASE Completes(d, f)
  <2>1. PICK code \in Verdicts : Decided(n, d, f, code)
    BY <1>3, <1>6
  <2>2. PICK buf \in Seq(Nat \X Nat) :
          /\ LastNum(buf) = f.num
          /\ log' = IF code = "ok" THEN [log EXCEPT ![n] = Append(@, buf)] ELSE log
    BY <2>1 DEF Decided
  <2>3. code = "ok" => /\ Taken(n)' = Taken(n) \cup {f.num}
                       /\ \A m \in Nodes \ {n} : Taken(m)' = Taken(m)
    BY <1>1, <2>2, TakenMore
  <2>4. Closing(f) /\ Handle(n, d, Answer(Alias(d), f, code))
    BY <2>1 DEF Decided
  <2>. QED
    BY <1>3, <1>5, <2>2, <2>3, <2>4 DEF f
<1>7. CASE ~Completes(d, f)
  <2>1. Undecided(n, d, f)
    BY <1>3, <1>7
  <2>2. log' = log
    BY <2>1 DEF Undecided
  <2>3. CASE Handle(n, d, <<>>)
    BY <1>3, <2>2, <2>3 DEF f
  <2>4. ASSUME Closing(f), NEW code \in Transport, Handle(n, d, Answer(Alias(d), f, code))
        PROVE  \E c \in Verdicts \cup Transport :
                 /\ Handle(n, d, Answer(Alias(d), f, c)) /\ WireGood(d, Answer(Alias(d), f, c))
                 /\ c # "ok"
    BY <1>5, <2>4 DEF Transport
  <2>5. ASSUME ~Closing(f), ~Handle(n, d, <<>>) PROVE FALSE
    <3>. DEFINE out == Answer(Alias(d), f, "invalid_args")
    <3>1. Handle(n, d, out)
      BY <1>3, <1>4, <2>5 DEF LccDatagramFrame, Closing
    <3>2. "invalid_args" \in Verdicts \cup Transport
      BY DEF Transport
    <3>3. /\ WireGood(d, out) /\ AnsweredOn(Range(out), Alias(d), f.src)
          /\ \A g \in Range(out) : g.dst = f.src /\ g.code = "invalid_args"
      BY <1>1, <1>2, <3>2, AnswerGood
    <3>4. Moved({n}, d, out)
      BY <1>1, <3>1, <3>3, HandleMoves
    <3>. HIDE DEF out
    <3>5. PICK g \in Range(wire'[d]) : g.kind = "answer" /\ g.dst = f.src /\ g.code = "invalid_args"
      BY <3>3, <3>4 DEF Moved, AnsweredOn
    <3>6. Fair(g)'
      BY <3>5 DEF DeliveryInv, Delivery, AnswersFair
    <3>7. g.dst[1] \in Intact'
      BY <1>2, <3>5 DEF Intact
    <3>. QED
      BY <3>5, <3>6, <3>7 DEF Fair, Temporary, Verdicts
  <2>. QED
    BY <1>3, <2>1, <2>2, <2>3, <2>4, <2>5 DEF Undecided, f
<1>. QED
  BY <1>6, <1>7

\* Nothing changes for any tool while nothing that decides is sent.
LEMMA DueAllStays ==
  ASSUME WiresGood, DueInv, NEW taken, NEW d, NEW out, Exchange(taken, d, out),
         tx[Server].inFlight => tx'[Server].inFlight /\ tx'[Server].queue[1] = tx[Server].queue[1],
         Taken(Server) \subseteq Taken(Server)',
         \A t \in Tools : Clean(t)' => Clean(t),
         \A t \in Tools : /\ d = Server => Range(out) \cap Final(t) = {}
                          /\ d = t => Range(out) \cap AnswerFrame = {}
  PROVE  DueInv'
<1>. SUFFICES ASSUME NEW t \in Tools, Clean(t)' PROVE Due(t)'
  BY DEF DueInv
<1>1. Due(t)
  BY DEF DueInv
<1>. QED
  BY <1>1, DueStays

\* A frame of a datagram arrives.
LEMMA FrameDue ==
  ASSUME LockInv, Waiting, Acknowledged, DueInv, lossy' = {}, DeliveryInv', UNCHANGED sent,
         NEW n \in Nodes, wire[n] # <<>>, LccDatagramFrame(n, Head(wire[n]).dst[1], Head(wire[n]))
  PROVE  Waiting' /\ Acknowledged' /\ DueInv'
<1>. DEFINE f == Head(wire[n])
            d == f.dst[1]
<1>1. /\ f \in Frame /\ d \in Nodes /\ f.dst = Alias(d) /\ d # n
      /\ (n \in Tools /\ d = Server) \/ (n = Server /\ d \in Tools)
  BY ArrivalFacts DEF LockInv, TalkInv
<1>2. /\ WiresGood /\ Server \in Nodes /\ Tools \subseteq Nodes /\ Server \notin Tools
      /\ \A m \in Nodes : Alias(m) = <<m, 0>>
  BY ReplyFacts
<1>3. /\ UNCHANGED <<alias, tx, verdict>> /\ f.kind # "answer"
      /\ \/ Handle(n, d, <<>>) /\ log' = log
         \/ /\ Closing(f)
            /\ \E code \in Verdicts \cup Transport :
                 /\ Handle(n, d, Answer(Alias(d), f, code)) /\ WireGood(d, Answer(Alias(d), f, code))
                 /\ IF code = "ok" THEN /\ Taken(n)' = Taken(n) \cup {f.num}
                                        /\ \A m \in Nodes \ {n} : Taken(m)' = Taken(m)
                                   ELSE log' = log
  BY <1>1, FrameEffect
<1>4. f = Head(wire[n])
  OBVIOUS
<1>. HIDE DEF d, f
<1>5. Taken(Server) \subseteq Taken(Server)'
  <2>1. log' = log => Taken(Server)' = Taken(Server)
    BY DEF Taken
  <2>. QED
    BY <1>2, <1>3, <2>1
<1>6. Waiting' /\ Acknowledged' /\ \A t : Clean(t)' => Clean(t)
  BY <1>3, <1>5, RepliesStay
<1>7. PICK taken : taken = {n}
  OBVIOUS
<1>8. CASE Handle(n, d, <<>>)
  <2>1. PICK none : none = <<>>
    OBVIOUS
  <2>2. Exchange(taken, d, none) /\ Range(none) = {}
    BY <1>1, <1>2, <1>7, <1>8, <2>1, NothingGood, HandleExchange
  <2>. QED
    BY <1>2, <1>3, <1>5, <1>6, <2>2, DueAllStays
<1>9. ASSUME NEW code, Closing(f), Handle(n, d, Answer(Alias(d), f, code)), WireGood(d, Answer(Alias(d), f, code)),
              code = "ok" => Taken(n)' = Taken(n) \cup {f.num}
       PROVE  DueInv'
  <2>. SUFFICES ASSUME NEW t \in Tools, Clean(t)' PROVE Due(t)'
    BY DEF DueInv
  <2>1. Due(t)
    BY <1>6 DEF DueInv
  <2>2. CASE d = t
    <3>1. n = Server /\ f.dst = <<t, 0>> /\ tx'[Server] = tx[Server]
      BY <1>1, <1>2, <1>3, <2>2
    <3>. QED
      BY <1>2, <1>4, <1>9, <2>1, <2>2, <3>1, DueAnswered
  <2>3. CASE d # t
    <3>1. PICK out : out = Answer(Alias(d), f, code)
      OBVIOUS
    <3>2. \A g \in Range(out) : g.kind = "answer"
      BY <3>1, AnswerOrdered
    <3>3. Range(out) \cap Final(t) = {}
      BY <3>2 DEF Final, Closing
    <3>4. Exchange(taken, d, out)
      BY <1>1, <1>2, <1>7, <1>9, <3>1, HandleExchange
    <3>. QED
      BY <1>2, <1>3, <1>5, <2>1, <2>3, <3>3, <3>4, DueStays
  <2>. QED
    BY <2>2, <2>3
<1>. QED
  BY <1>3, <1>6, <1>8, <1>9

\* What pop_head sends is what is in flight then.
LEMMA NextOut ==
  ASSUME LockInv, tx[Server].queue # <<>>, NEW result, Pop(Server, result),
         NEW out, out = PopSends(Server, tx[Server])
  PROVE  /\ WireGood(Server, out)
         /\ \/ out = <<>>
            \/ \E e \in Entry : /\ out = FramesOf(Alias(Server), e)
                                /\ tx'[Server].inFlight /\ tx'[Server].queue[1] = e
<1>. DEFINE q == tx[Server].queue
<1>1. /\ Server \in Nodes /\ tx \in [Nodes -> TxType] /\ Good(tx[Server]) /\ alias \in [Nodes -> Nat]
      /\ q \in Seq(Entry) /\ Len(q) \in Nat /\ \A k \in 1..Len(q) : q[k] \in Entry
  BY ReplyFacts, TalkFacts DEF LockInv, TalkInv
<1>2. WireGood(Server, out)
  BY <1>1, PopGoesOn
<1>3. tx'[Server] = PopHead(tx[Server])
  BY <1>1 DEF Pop
<1>4. CASE Len(q) <= 1
  BY <1>2, <1>4 DEF PopSends
<1>5. CASE ~(Len(q) <= 1)
  <2>1. tx'[Server].inFlight /\ tx'[Server].queue = Tail(q)
    BY <1>3, <1>5 DEF PopHead, TransmitHead, Sender
  <2>2. Tail(q)[1] = q[2] /\ q[2] \in Entry
    <3>1. q # <<>> /\ Len(Tail(q)) = Len(q) - 1 /\ \A k \in 1..Len(Tail(q)) : Tail(q)[k] = q[k + 1]
      BY <1>1, HeadTailProperties
    <3>2. 1 \in 1..Len(Tail(q)) /\ 2 \in 1..Len(q) /\ 1 + 1 = 2
      BY <1>1, <1>5, <3>1
    <3>. HIDE DEF q
    <3>. QED
      BY <1>1, <3>1, <3>2
  <2>3. out = FramesOf(Alias(Server), q[2])
    BY <1>5 DEF PopSends
  <2>. QED
    BY <1>2, <2>1, <2>2, <2>3
<1>. QED
  BY <1>4, <1>5

\* An answer arrives.
LEMMA MessageDue ==
  ASSUME LockInv, Waiting, Acknowledged, DueInv, UNCHANGED sent,
         NEW n \in Nodes, wire[n] # <<>>, LccDatagramMessage(n, Head(wire[n]).dst[1], Head(wire[n]))
  PROVE  Waiting' /\ Acknowledged' /\ DueInv'
<1>. DEFINE f == Head(wire[n])
            d == f.dst[1]
            q == tx[Server].queue
<1>1. /\ f \in Range(wire[n]) /\ f.src = Alias(n) /\ d \in Nodes /\ d # n
      /\ (n \in Tools /\ d = Server) \/ (n = Server /\ d \in Tools)
  BY ArrivalFacts DEF LockInv, TalkInv
<1>2. /\ WiresGood /\ Server \in Nodes /\ Tools \subseteq Nodes /\ Server \notin Tools
      /\ tx \in [Nodes -> TxType] /\ verdict \in [Nodes -> Seq({"queued", "acked", "failed"})]
      /\ alias \in [Nodes -> Nat] /\ \A m \in Nodes : Alias(m) = <<m, 0>> /\ Good(tx[m])
      /\ q \in Seq(Entry)
  BY ReplyFacts, TalkFacts DEF LockInv, TalkInv
<1>3. LccDatagramMessage(n, d, f) /\ f = Head(wire[n])
  OBVIOUS
<1>. HIDE DEF d, f
<1>4. UNCHANGED <<alias, log>> /\ f.kind = "answer"
  BY <1>3 DEF LccDatagramMessage
<1>5. Taken(Server)' = Taken(Server)
  BY <1>4 DEF Taken
<1>6. PICK taken : taken = {n}
  OBVIOUS
<1>7. PICK none : none = <<>>
  OBVIOUS
<1>8. WireGood(d, none) /\ Range(none) = {}
  BY <1>7, NothingGood
<1>9. CASE Handle(n, d, <<>>) /\ UNCHANGED <<tx, verdict>>
  <2>1. Waiting' /\ Acknowledged' /\ \A t : Clean(t)' => Clean(t)
    BY <1>5, <1>9, RepliesStay
  <2>2. Exchange(taken, d, none)
    BY <1>1, <1>2, <1>6, <1>7, <1>8, <1>9, HandleExchange
  <2>3. \A F : Range(none) \cap F = {}
    BY <1>8
  <2>4. tx' = tx
    BY <1>9
  <2>. QED
    BY <1>2, <1>5, <2>1, <2>2, <2>3, <2>4, DueAllStays
<1>10. CASE d # Server
  <2>1. n = Server /\ d \in Tools
    BY <1>1, <1>10
  <2>2. ASSUME NEW out, WireGood(d, out), Handle(n, d, out), Range(out) \cap AnswerFrame = {},
               tx'[Server] = tx[Server], verdict'[Server] = verdict[Server]
        PROVE  Waiting' /\ Acknowledged' /\ DueInv'
    <3>1. Waiting' /\ Acknowledged' /\ \A t : Clean(t)' => Clean(t)
      BY <1>5, <2>2, RepliesStay
    <3>2. Exchange(taken, d, out)
      BY <1>1, <1>2, <1>6, <2>2, HandleExchange
    <3>. QED
      BY <1>2, <1>5, <1>10, <2>2, <3>1, <3>2, DueAllStays
  <2>3. ASSUME NEW result, tx[d].queue # <<>>, Pop(d, result), Handle(n, d, PopSends(d, tx[d]))
        PROVE  Waiting' /\ Acknowledged' /\ DueInv'
    <3>1. /\ WireGood(d, PopSends(d, tx[d]))
          /\ \A g \in Range(PopSends(d, tx[d])) : g.kind # "answer"
      BY <1>1, <1>2, <2>3, PopGoesOn
    <3>2. tx'[Server] = tx[Server] /\ verdict'[Server] = verdict[Server]
      BY <1>2, <1>10, <2>3 DEF Pop
    <3>3. Range(PopSends(d, tx[d])) \cap AnswerFrame = {}
      BY <3>1 DEF AnswerFrame
    <3>. QED
      BY <2>2, <2>3, <3>1, <3>2, <3>3
  <2>4. ASSUME tx' = [tx EXCEPT ![d] = Postpone(tx[d])], Handle(n, d, <<>>), UNCHANGED verdict
        PROVE  Waiting' /\ Acknowledged' /\ DueInv'
    <3>1. tx'[Server] = tx[Server]
      BY <1>2, <1>10, <2>4
    <3>2. Handle(n, d, none) /\ Range(none) \cap AnswerFrame = {}
      BY <1>7, <1>8, <2>4
    <3>. QED
      BY <1>8, <2>2, <2>4, <3>1, <3>2
  <2>. QED
    BY <1>3, <1>9, <2>3, <2>4 DEF LccDatagramMessage
<1>11. CASE d = Server
  <2>1. n \in Tools
    BY <1>1, <1>11
  <2>2. ASSUME q # <<>>, tx[Server].inFlight, Head(q).dst = f.src
        PROVE  /\ q[1].dst = <<n, 0>>
               /\ \A t \in Tools : Clean(t) => Gone(taken, t)
               /\ f.code = "ok" => \A t \in Tools : q[1].dst = <<t, 0>> /\ Clean(t) => q[1].num \in Taken(Server)
    <3>1. q[1].dst = <<n, 0>>
      BY <1>1, <1>2, <2>2, EmptySeq
    <3>2. ASSUME NEW t \in Tools, Clean(t) PROVE Gone(taken, t)
      <4>1. Due(t)
        BY <3>2 DEF DueInv
      <4>2. CASE t = n
        <5>1. wire[t] # <<>> /\ Head(wire[t]).kind = "answer" /\ taken = {t}
          BY <1>3, <1>4, <1>6, <4>2
        <5>. QED
          BY <1>2, <4>1, <5>1, AnswerTaken
      <4>3. CASE t # n
        <5>1. ~(tx[Server].inFlight /\ tx[Server].queue[1].dst = <<t, 0>>)
          BY <3>1, <4>3
        <5>2. Pending(t) = {}
          BY <4>1, <5>1 DEF Due
        <5>3. t \in Nodes /\ Server \in Nodes /\ t \notin taken /\ Server \notin taken
          BY <1>2, <1>6, <2>1, <4>3
        <5>. QED
          BY <5>2, <5>3 DEF Gone, Kept, Pending
      <4>. QED
        BY <4>2, <4>3
    <3>3. ASSUME f.code = "ok", NEW t \in Tools, q[1].dst = <<t, 0>>, Clean(t)
          PROVE  q[1].num \in Taken(Server)
      <4>1. t = n
        BY <3>1, <3>3
      <4>2. f \in AnswerFrame
        <5>1. WireGood(n, wire[n])
          BY <1>2 DEF WiresGood
        <5>. QED
          BY <1>1, <1>2, <1>3, <1>4, NextFrame DEF AnswerFrame
      <4>3. f \in Pending(t)
        BY <1>1, <4>1, <4>2 DEF Pending
      <4>4. f.num = q[1].num /\ f.num \in Taken(Server)
        BY <1>4, <3>3, <4>3 DEF DueInv, Due
      <4>. QED
        BY <4>4
    <3>. QED
      BY <3>1, <3>2, <3>3
  <2>3. ASSUME q # <<>>, tx[Server].inFlight, Head(q).dst = f.src, NEW result \in {"acked", "failed"},
               result = "acked" => f.code = "ok", Pop(Server, result), Handle(n, Server, PopSends(Server, tx[Server]))
        PROVE  Waiting' /\ Acknowledged' /\ DueInv'
    <3>1. /\ \A t \in Tools : Clean(t) => Gone(taken, t)
          /\ f.code = "ok" => \A t \in Tools : q[1].dst = <<t, 0>> /\ Clean(t) => q[1].num \in Taken(Server)
      BY <2>2, <2>3
    <3>2. /\ Waiting' /\ Acknowledged'
          /\ \A t \in Tools : Clean(t)' => Clean(t)
      BY <1>4, <2>3, <3>1, ReplyDecided
    <3>3. PICK out : out = PopSends(Server, tx[Server])
      OBVIOUS
    <3>4. /\ WireGood(Server, out)
          /\ \/ out = <<>>
             \/ \E e \in Entry : /\ out = FramesOf(Alias(Server), e)
                                 /\ tx'[Server].inFlight /\ tx'[Server].queue[1] = e
      BY <2>3, <3>3, NextOut
    <3>5. Exchange(taken, Server, out)
      BY <1>2, <1>6, <2>3, <3>3, <3>4, HandleExchange
    <3>6. ASSUME NEW t \in Tools, Clean(t)' PROVE Due(t)'
      <4>1. Gone(taken, t)
        BY <3>1, <3>2, <3>6
      <4>. QED
        BY <1>2, <3>4, <3>5, <4>1, DueAnew
    <3>. QED
      BY <3>2, <3>6 DEF DueInv
  <2>4. ASSUME q # <<>>, tx[Server].inFlight, Head(q).dst = f.src,
               tx' = [tx EXCEPT ![Server] = Postpone(tx[Server])], Handle(n, Server, <<>>), UNCHANGED verdict
        PROVE  Waiting' /\ Acknowledged' /\ DueInv'
    <3>1. tx'[Server].queue = q
      BY <1>2, <2>4 DEF Postpone, Sender
    <3>2. Waiting' /\ Acknowledged' /\ \A t : Clean(t)' => Clean(t)
      BY <1>5, <2>4, <3>1, RepliesStay
    <3>3. Exchange(taken, Server, none)
      BY <1>2, <1>6, <1>7, <1>8, <1>11, <2>4, HandleExchange
    <3>4. ASSUME NEW t \in Tools, Clean(t)' PROVE Due(t)'
      <4>1. Gone(taken, t)
        BY <2>2, <2>4, <3>2, <3>4
      <4>. QED
        BY <1>2, <1>7, <3>3, <4>1, DueAnew
    <3>. QED
      BY <3>2, <3>4 DEF DueInv
  <2>. QED
    BY <1>3, <1>9, <1>11, <2>3, <2>4 DEF LccDatagramMessage
<1>. QED
  BY <1>10, <1>11

\* The timers: a reply that is sent again, or given up, is not pending.
LEMMA TimersDue ==
  ASSUME LockInv, Waiting, Acknowledged, DueInv, UNCHANGED sent,
         NEW n \in Nodes, LccDatagramRunTimers(n)
  PROVE  Waiting' /\ Acknowledged' /\ DueInv'
<1>. DEFINE q == tx[Server].queue
<1>1. /\ WiresGood /\ Server \in Nodes /\ Tools \subseteq Nodes /\ Server \notin Tools
      /\ tx \in [Nodes -> TxType] /\ verdict \in [Nodes -> Seq({"queued", "acked", "failed"})]
      /\ alias \in [Nodes -> Nat] /\ \A m \in Nodes : Good(tx[m])
      /\ q \in Seq(Entry) /\ Len(q) \in Nat /\ \A k \in 1..Len(q) : q[k] \in Entry /\ q[k].dst \in Tools \X {0}
      /\ \A t \in Tools : Line(t)
  BY ReplyFacts, TalkFacts DEF LockInv, TalkInv
<1>2. UNCHANGED log
  BY DEF LccDatagramRunTimers, ReassemblyTimeout, ResendHead, AckTimeout
<1>3. Taken(Server)' = Taken(Server)
  BY <1>2 DEF Taken
<1>4. PICK taken : taken = {}
  OBVIOUS
<1>5. taken \in SUBSET Nodes /\ \A m \in taken : wire[m] # <<>>
  BY <1>4
<1>6. n = Server \/ (n \in Tools /\ n # Server)
  BY DEF Tools
<1>7. ASSUME NEW t \in Tools, Clean(t), ~(tx[Server].inFlight /\ q[1].dst = <<t, 0>>) PROVE Gone(taken, t)
  <2>1. Pending(t) = {}
    BY <1>7 DEF DueInv, Due
  <2>. QED
    BY <1>4, <2>1 DEF Gone, Kept, Pending
<1>8. CASE ReassemblyTimeout(n)
  <2>1. UNCHANGED <<tx, wire, verdict>>
    BY <1>8 DEF ReassemblyTimeout
  <2>2. Waiting' /\ Acknowledged' /\ \A t : Clean(t)' => Clean(t)
    BY <1>3, <2>1, RepliesStay
  <2>3. PICK none : none = <<>>
    OBVIOUS
  <2>4. Exchange(taken, n, none) /\ Range(none) = {}
    BY <1>1, <1>4, <1>5, <2>1, <2>3, StayMoves, NothingGood DEF Exchange
  <2>5. \A F : Range(none) \cap F = {}
    BY <2>4
  <2>6. tx' = tx
    BY <2>1
  <2>. QED
    BY <1>1, <1>3, <2>2, <2>4, <2>5, <2>6, DueAllStays
<1>9. CASE ResendHead(n)
  <2>. DEFINE out == FramesOf(Alias(Server), q[1])
  <2>1. n = Server
    BY <1>1, <1>6, <1>9 DEF ResendHead, Line
  <2>2. q # <<>> /\ ~tx[Server].inFlight
    BY <1>1, <1>9, <2>1 DEF ResendHead, Good, Driven
  <2>3. 1 \in 1..Len(q) /\ Head(q) = q[1] /\ q[1] \in Entry
    BY <1>1, <2>2, EmptySeq
  <2>4. /\ UNCHANGED verdict /\ tx' = [tx EXCEPT ![Server] = TransmitHead(@)]
        /\ wire' = [wire EXCEPT ![Server] = @ \o out]
    BY <1>9, <2>1, <2>3 DEF ResendHead
  <2>5. tx'[Server].queue = q /\ tx'[Server].inFlight
    BY <1>1, <2>4 DEF TransmitHead, Sender
  <2>6. WireGood(Server, out)
    BY <1>1, <2>3, FramesGood
  <2>7. Exchange(taken, Server, out)
    BY <1>1, <1>4, <1>5, <2>4, <2>6, SendMoves DEF Exchange
  <2>8. Waiting' /\ Acknowledged' /\ \A t : Clean(t)' => Clean(t)
    BY <1>3, <2>4, <2>5, RepliesStay
  <2>9. \E e \in Entry : /\ out = FramesOf(Alias(Server), e)
                         /\ tx'[Server].inFlight /\ tx'[Server].queue[1] = e
    BY <2>3, <2>5
  <2>. HIDE DEF out
  <2>10. ASSUME NEW t \in Tools, Clean(t)' PROVE Due(t)'
    <3>1. Gone(taken, t)
      BY <1>7, <2>2, <2>8, <2>10
    <3>. QED
      BY <1>1, <2>7, <2>9, <3>1, DueAnew
  <2>. QED
    BY <2>8, <2>10 DEF DueInv
<1>10. CASE AckTimeout(n) /\ n # Server
  <2>. DEFINE out == PopSends(n, tx[n])
  <2>1. tx[n].queue # <<>> /\ Pop(n, "failed") /\ wire' = [wire EXCEPT ![n] = @ \o out]
    BY <1>1, <1>10 DEF AckTimeout, Good, Driven
  <2>2. tx'[Server] = tx[Server] /\ verdict'[Server] = verdict[Server]
    BY <1>1, <1>10, <2>1 DEF Pop
  <2>3. WireGood(n, out) /\ Range(out) \cap AnswerFrame = {}
    BY <1>1, <2>1, PopGoesOn DEF AnswerFrame
  <2>4. Exchange(taken, n, out)
    BY <1>1, <1>4, <1>5, <2>1, <2>3, SendMoves DEF Exchange
  <2>5. Waiting' /\ Acknowledged' /\ \A t : Clean(t)' => Clean(t)
    BY <1>3, <2>2, RepliesStay
  <2>. HIDE DEF out
  <2>. QED
    BY <1>1, <1>3, <1>10, <2>2, <2>3, <2>4, <2>5, DueAllStays
<1>11. CASE AckTimeout(n) /\ n = Server
  <2>1. PICK out : out = PopSends(Server, tx[Server])
    OBVIOUS
  <2>2. q # <<>> /\ Pop(Server, "failed") /\ wire' = [wire EXCEPT ![Server] = @ \o out]
    BY <1>1, <1>11, <2>1 DEF AckTimeout, Good, Driven
  <2>3. /\ WireGood(Server, out)
        /\ \/ out = <<>>
           \/ \E e \in Entry : /\ out = FramesOf(Alias(Server), e)
                               /\ tx'[Server].inFlight /\ tx'[Server].queue[1] = e
    BY <2>1, <2>2, NextOut
  <2>4. Exchange(taken, Server, out)
    BY <1>1, <1>4, <1>5, <2>2, <2>3, SendMoves DEF Exchange
  <2>5. PICK result \in {"acked", "failed"} : result = "failed"
    OBVIOUS
  <2>6. /\ Waiting' /\ Acknowledged'
        /\ \A t \in Tools : Clean(t)' => Clean(t) /\ q[1].dst # <<t, 0>>
    BY <1>2, <2>2, <2>5, ReplyDecided
  <2>7. ASSUME NEW t \in Tools, Clean(t)' PROVE Due(t)'
    <3>1. Gone(taken, t)
      BY <1>7, <2>6, <2>7
    <3>. QED
      BY <1>1, <2>3, <2>4, <3>1, DueAnew
  <2>. QED
    BY <2>6, <2>7 DEF DueInv
<1>. QED
  BY <1>8, <1>9, <1>10, <1>11 DEF LccDatagramRunTimers

\* A reply is queued, and goes out when no other is waiting.
LEMMA ReplyDue ==
  ASSUME LockInv, Waiting, Acknowledged, DueInv, NEW to \in Tools, NEW len \in Lengths, NEW reply,
         reply.to = to, LccDatagramSend(Server, to, len),
         sent' = [sent EXCEPT ![Server] = Append(sent[Server], reply)]
  PROVE  Waiting' /\ Acknowledged' /\ DueInv'
<1>. DEFINE q == tx[Server].queue
            e == [dst |-> Alias(to), num |-> Len(verdict[Server]) + 1, len |-> len]
            s == Enqueue(tx[Server], e)
            p == Append(q, e)
<1>1. /\ WiresGood /\ Server \in Nodes /\ Tools \subseteq Nodes /\ tx \in [Nodes -> TxType]
      /\ alias \in [Nodes -> Nat] /\ Good(tx[Server]) /\ \A m \in Nodes : Alias(m) = <<m, 0>>
      /\ q \in Seq(Entry) /\ Len(q) \in Nat /\ Len(verdict[Server]) \in Nat
  BY ReplyFacts, TalkFacts DEF LockInv, TalkInv
<1>2. Waiting' /\ Acknowledged' /\ \A t : Clean(t)' => Clean(t)
  BY ReplyQueued
<1>3. e \in Entry
  BY <1>1 DEF Entry, Aliases
<1>4. /\ UNCHANGED log
      /\ Len(s.queue) = 1 => /\ tx' = [tx EXCEPT ![Server] = TransmitHead(s)]
                             /\ wire' = [wire EXCEPT ![Server] = @ \o FramesOf(Alias(Server), e)]
      /\ Len(s.queue) # 1 => tx' = [tx EXCEPT ![Server] = s] /\ wire' = wire
  BY DEF LccDatagramSend
<1>5. /\ s.queue = p /\ s.inFlight = tx[Server].inFlight
      /\ TransmitHead(s).queue = p /\ TransmitHead(s).inFlight
  BY DEF Enqueue, TransmitHead, Sender
<1>. HIDE DEF e, s
<1>6. Len(p) = Len(q) + 1 /\ p[Len(q) + 1] = e /\ \A k \in 1..Len(q) : p[k] = q[k]
  BY <1>1, <1>3, AppendProperties
<1>7. Taken(Server)' = Taken(Server)
  BY <1>4 DEF Taken
<1>8. PICK taken : taken = {}
  OBVIOUS
<1>9. taken \in SUBSET Nodes /\ \A m \in taken : wire[m] # <<>>
  BY <1>8
<1>10. CASE q = <<>>
  <2>1. ~tx[Server].inFlight
    BY <1>1, <1>10 DEF Good, Driven
  <2>2. Len(q) = 0
    BY <1>10
  <2>. HIDE DEF p, q
  <2>3. Len(p) = 1 /\ p[1] = e
    BY <1>6, <2>2
  <2>4. PICK out : out = FramesOf(Alias(Server), e)
    OBVIOUS
  <2>5. WireGood(Server, out)
    BY <1>1, <1>3, <2>4, FramesGood
  <2>6. /\ tx'[Server].queue = p /\ tx'[Server].inFlight
        /\ wire' = [wire EXCEPT ![Server] = @ \o out]
    BY <1>1, <1>4, <1>5, <2>3, <2>4
  <2>7. Exchange(taken, Server, out)
    BY <1>1, <1>8, <1>9, <2>5, <2>6, SendMoves DEF Exchange
  <2>8. \E x \in Entry : /\ out = FramesOf(Alias(Server), x)
                         /\ tx'[Server].inFlight /\ tx'[Server].queue[1] = x
    BY <1>3, <2>3, <2>4, <2>6
  <2>9. ASSUME NEW t \in Tools, Clean(t)' PROVE Due(t)'
    <3>1. Pending(t) = {}
      BY <1>2, <2>1, <2>9 DEF DueInv, Due
    <3>2. Gone(taken, t)
      BY <1>8, <3>1 DEF Gone, Kept, Pending
    <3>. QED
      BY <1>1, <2>7, <2>8, <3>2, DueAnew
  <2>. QED
    BY <1>2, <2>9 DEF DueInv
<1>11. CASE q # <<>>
  <2>1. Len(q) > 0
    BY <1>1, <1>11, EmptySeq
  <2>. HIDE DEF p, q
  <2>2. Len(p) # 1 /\ p[1] = q[1]
    BY <1>1, <1>6, <2>1
  <2>3. tx'[Server] = s /\ wire' = wire
    BY <1>1, <1>4, <1>5, <2>2
  <2>4. tx'[Server].queue[1] = tx[Server].queue[1] /\ tx'[Server].inFlight = tx[Server].inFlight
    BY <1>5, <2>2, <2>3 DEF q
  <2>5. PICK none : none = <<>>
    OBVIOUS
  <2>6. Exchange(taken, Server, none) /\ Range(none) = {}
    BY <1>1, <1>8, <1>9, <2>3, <2>5, StayMoves, NothingGood DEF Exchange
  <2>7. \A F : Range(none) \cap F = {}
    BY <2>6
  <2>. QED
    BY <1>1, <1>2, <1>7, <2>4, <2>6, <2>7, DueAllStays
<1>. QED
  BY <1>10, <1>11

\* A tool asks.
LEMMA AskDue ==
  ASSUME LockInv, Waiting, Acknowledged, DueInv, NEW q \in Requests, Ask(q[1], q[2])
  PROVE  Waiting' /\ Acknowledged' /\ DueInv'
<1>. DEFINE d == q[1]
            e == [dst |-> Alias(Server), num |-> Len(verdict[d]) + 1, len |-> 1]
            sends == FramesOf(Alias(d), e)
<1>1. /\ WiresGood /\ Server \in Nodes /\ Tools \subseteq Nodes /\ Server \notin Tools
      /\ tx \in [Nodes -> TxType] /\ verdict \in [Nodes -> Seq({"queued", "acked", "failed"})]
      /\ alias \in [Nodes -> Nat] /\ \A m \in Nodes : Alias(m) = <<m, 0>>
      /\ \A m \in Nodes : Len(verdict[m]) \in Nat
      /\ sent = [m \in Nodes |-> sent[m]]
  BY ReplyFacts, TalkFacts DEF LockInv, TalkInv, SentOK
<1>2. d \in Tools /\ d \in Nodes /\ d # Server
  BY <1>1, MemoryConfigAssumption
<1>3. LccDatagramSend(d, Server, 1)
  BY DEF Ask
<1>4. /\ UNCHANGED log /\ tx'[Server] = tx[Server] /\ verdict'[Server] = verdict[Server]
      /\ wire' = [wire EXCEPT ![d] = @ \o sends] \/ wire' = wire
  BY <1>1, <1>2, <1>3 DEF LccDatagramSend
<1>5. sent'[Server] = sent[Server]
  BY <1>1, <1>2 DEF Ask
<1>6. Taken(Server)' = Taken(Server)
  BY <1>4 DEF Taken
<1>7. Waiting' /\ Acknowledged' /\ \A t : Clean(t)' => Clean(t)
  BY <1>4, <1>5, <1>6, RepliesStay
<1>8. e \in Entry
  BY <1>1, <1>2, MemoryConfigAssumption DEF Entry, Aliases
<1>9. WireGood(d, sends) /\ Range(sends) \cap AnswerFrame = {}
  <2>1. WireGood(d, sends)
    BY <1>1, <1>2, <1>8, FramesGood
  <2>. QED
    BY <1>2, <1>8, <2>1, LoneFrames
<1>. HIDE DEF e, sends, d
<1>10. PICK taken : taken = {}
  OBVIOUS
<1>11. taken \in SUBSET Nodes /\ \A m \in taken : wire[m] # <<>>
  BY <1>10
<1>12. ASSUME NEW out, Exchange(taken, d, out), Range(out) \cap AnswerFrame = {} PROVE DueInv'
  BY <1>1, <1>2, <1>4, <1>6, <1>7, <1>12, DueAllStays
<1>13. CASE wire' = [wire EXCEPT ![d] = @ \o sends]
  <2>1. Exchange(taken, d, sends)
    BY <1>1, <1>2, <1>9, <1>10, <1>11, <1>13, SendMoves DEF Exchange
  <2>. QED
    BY <1>7, <1>9, <1>12, <2>1
<1>14. CASE wire' = wire
  <2>1. PICK none : none = <<>>
    OBVIOUS
  <2>2. Exchange(taken, d, none) /\ Range(none) = {}
    BY <1>1, <1>2, <1>10, <1>11, <1>14, <2>1, StayMoves, NothingGood DEF Exchange
  <2>. QED
    BY <1>7, <1>12, <2>2
<1>. QED
  BY <1>4, <1>13, <1>14

-----------------------------------------------------------------------------
(* Every query that was taken *)

\* Nothing is said; a request may be taken.
LEMMA RepliedStays ==
  ASSUME LockInv, Replied, UNCHANGED <<sent, unsaid>>,
         NothingTaken \/ \E t \in Tools, k \in Nat : Takes(t, k)
  PROVE  Replied'
<1>. SUFFICES ASSUME NEW t \in Tools, NEW k \in Taken(t)', sent[t][k].cmd \in Queries
              PROVE  \/ request' = <<t, k>> \/ <<t, k>> \in unsaid
                     \/ \E i \in DOMAIN sent[Server] : sent[Server][i].req = <<t, k>>
  BY DEF Replied
<1>1. CASE NothingTaken
  BY <1>1 DEF NothingTaken, Replied
<1>2. ASSUME NEW u \in Tools, NEW j \in Nat, Takes(u, j)
      PROVE  \/ request' = <<t, k>> \/ <<t, k>> \in unsaid
             \/ \E i \in DOMAIN sent[Server] : sent[Server][i].req = <<t, k>>
  <2>1. request # <<t, k>>
    BY <1>2 DEF Takes, NoRequest
  <2>2. k \in Taken(t) \/ (t = u /\ k = j)
    BY <1>2 DEF Takes
  <2>. QED
    BY <1>2, <2>1, <2>2 DEF Takes, Replied
<1>. QED
  BY <1>1, <1>2

\* A tool asks.
LEMMA AskReplied ==
  ASSUME LockInv, Replied, NEW q \in Requests, Ask(q[1], q[2])
  PROVE  Replied'
<1>. DEFINE d == q[1]
<1>1. /\ Tools \subseteq Nodes /\ Server \in Nodes /\ Server \notin Tools
      /\ \A n \in Nodes : /\ Len(verdict[n]) \in Nat /\ DOMAIN verdict[n] = 1..Len(verdict[n])
                          /\ DOMAIN sent[n] = DOMAIN verdict[n] /\ Taken(n) \subseteq DOMAIN verdict[n]
  BY SaidFacts DEF LockInv
<1>2. /\ sent = [n \in Nodes |-> sent[n]]
      /\ \A n \in Nodes : sent[n] = [j \in DOMAIN verdict[n] |-> sent[n][j]]
  BY DEF LockInv, TalkInv, SentOK
<1>3. d \in Tools /\ d # Server /\ UNCHANGED <<log, request, unsaid>>
  BY <1>1, MemoryConfigAssumption DEF Ask, LccDatagramSend
<1>4. PICK x : sent' = [sent EXCEPT ![d] = Append(@, x)]
  BY DEF Ask
<1>5. sent'[Server] = sent[Server] /\ \A t \in Tools \ {d} : sent'[t] = sent[t]
  BY <1>1, <1>2, <1>3, <1>4
<1>6. \A k \in DOMAIN sent[d] : sent'[d][k] = sent[d][k]
  <2>. DEFINE L == Len(verdict[d])
              f == sent[d]
  <2>1. L \in Nat /\ f = [k \in 1..L |-> f[k]] /\ DOMAIN f = 1..L
    BY <1>1, <1>2, <1>3
  <2>2. sent'[d] = Append(f, x)
    BY <1>1, <1>2, <1>3, <1>4
  <2>. HIDE DEF L, f
  <2>. QED
    BY <2>1, <2>2, SentMore DEF f
<1>7. \A t \in Tools : Taken(t)' = Taken(t) /\ Taken(t) \subseteq DOMAIN sent[t]
  BY <1>1, <1>3 DEF Taken
<1>8. \A t \in Tools : \A k \in Taken(t) : sent'[t][k] = sent[t][k]
  BY <1>5, <1>6, <1>7
<1>. SUFFICES ASSUME NEW t \in Tools, NEW k \in Taken(t)', sent'[t][k].cmd \in Queries
              PROVE  \/ request' = <<t, k>> \/ <<t, k>> \in unsaid'
                     \/ \E i \in DOMAIN sent'[Server] : sent'[Server][i].req = <<t, k>>
  BY DEF Replied
<1>9. k \in Taken(t) /\ sent[t][k].cmd \in Queries
  BY <1>7, <1>8
<1>. QED
  BY <1>3, <1>5, <1>9 DEF Replied

\* What is processed is answered, or finds the queue full.
LEMMA ProcessReplied ==
  ASSUME QueryInv, Process
  PROVE  Waiting' /\ Acknowledged' /\ DueInv' /\ Replied'
<1>. DEFINE to == From(request)
            k == request[2]
            r == Asked(request)
            reply == [to |-> to, req |-> request, says |-> Reply(r, to)]
<1>1. LockInv /\ Waiting /\ Acknowledged /\ Replied /\ DueInv
  BY DEF QueryInv
<1>2. request # NoRequest /\ request' = NoRequest /\ UNCHANGED log
  BY DEF Process, LccDatagramSend, vars
<1>3. /\ to \in Tools /\ request = <<to, k>> /\ r \in AskType /\ r = sent[to][k]
  BY <1>1, <1>2, RequestKnown DEF LockInv
<1>4. /\ Tools \subseteq Nodes /\ Server \in Nodes /\ Server \notin Tools
  BY <1>1, ReplyFacts
<1>5. \A n : Taken(n)' = Taken(n)
  BY <1>2 DEF Taken
<1>6. PICK len \in Lengths : len = ReplyLength(r)
  BY <1>3, ReplyFits
<1>7. \/ /\ LccDatagramSend(Server, to, len) /\ UNCHANGED unsaid
         /\ sent' = [sent EXCEPT ![Server] = Append(sent[Server], reply)]
      \/ /\ UNCHANGED <<vars, sent>>
         /\ \/ unsaid' = unsaid \cup {request}
            \/ r.cmd \notin Queries /\ UNCHANGED unsaid
  BY <1>6 DEF Process, Answered, Queued
<1>8. reply.to = to /\ reply.req = request
  OBVIOUS
<1>. HIDE DEF reply, r, to, k
<1>9. CASE /\ LccDatagramSend(Server, to, len) /\ UNCHANGED unsaid
           /\ sent' = [sent EXCEPT ![Server] = Append(sent[Server], reply)]
  <2>1. Waiting' /\ Acknowledged' /\ DueInv'
    BY <1>1, <1>3, <1>8, <1>9, ReplyDue
  <2>2. /\ DOMAIN sent'[Server] = DOMAIN sent[Server] \cup {Len(verdict[Server]) + 1}
        /\ sent'[Server][Len(verdict[Server]) + 1] = reply
        /\ \A j \in DOMAIN sent[Server] : sent'[Server][j] = sent[Server][j]
    BY <1>1, <1>3, <1>8, <1>9, ReplyQueued
  <2>3. \A t \in Tools : sent'[t] = sent[t]
    BY <1>1, <1>4, <1>9 DEF LockInv, TalkInv, SentOK
  <2>4. ASSUME NEW t \in Tools, NEW j \in Taken(t), sent[t][j].cmd \in Queries
        PROVE  <<t, j>> \in unsaid \/ \E i \in DOMAIN sent'[Server] : sent'[Server][i].req = <<t, j>>
    <3>1. CASE request = <<t, j>>
      BY <1>8, <2>2, <3>1
    <3>2. CASE request # <<t, j>>
      BY <1>1, <2>2, <2>4, <3>2 DEF Replied
    <3>. QED
      BY <3>1, <3>2
  <2>. QED
    BY <1>5, <1>9, <2>1, <2>3, <2>4 DEF Replied
<1>10. CASE /\ UNCHANGED <<vars, sent>>
            /\ \/ unsaid' = unsaid \cup {request}
               \/ r.cmd \notin Queries /\ UNCHANGED unsaid
  <2>1. UNCHANGED <<alias, tx, wire, verdict, sent>>
    BY <1>10 DEF vars
  <2>2. Waiting' /\ Acknowledged' /\ \A t : Clean(t)' => Clean(t)
    BY <1>1, <1>5, <2>1, RepliesStay
  <2>3. \A t : Due(t)' <=> Due(t)
    BY <1>5, <2>1 DEF Due, Pending
  <2>4. DueInv'
    BY <1>1, <2>2, <2>3 DEF DueInv
  <2>5. ASSUME NEW t \in Tools, NEW j \in Taken(t), sent[t][j].cmd \in Queries
        PROVE  <<t, j>> \in unsaid' \/ \E i \in DOMAIN sent[Server] : sent[Server][i].req = <<t, j>>
    <3>1. CASE request = <<t, j>>
      <4>1. t = to /\ j = k
        BY <1>3, <3>1
      <4>. QED
        BY <1>3, <1>10, <2>5, <3>1, <4>1
    <3>2. CASE request # <<t, j>>
      BY <1>1, <1>10, <2>5, <3>2 DEF Replied
    <3>. QED
      BY <3>1, <3>2
  <2>. QED
    BY <1>5, <2>1, <2>2, <2>4, <2>5 DEF Replied
<1>. QED
  BY <1>7, <1>9, <1>10

-----------------------------------------------------------------------------
(* Every query is answered *)

LEMMA QueryInit == MemoryConfigInit => QueryInv
<1>. SUFFICES ASSUME MemoryConfigInit PROVE QueryInv
  OBVIOUS
<1>1. LockInv /\ Init /\ sent = [n \in Nodes |-> <<>>]
  BY LockInit DEF MemoryConfigInit
<1>2. /\ lossy = {} /\ tx = [n \in Nodes |-> Idle] /\ wire = [n \in Nodes |-> <<>>]
      /\ log = [n \in Nodes |-> <<>>] /\ verdict = [n \in Nodes |-> <<>>]
  BY <1>1 DEF Init
<1>3. Tools \subseteq Nodes /\ Server \in Nodes
  BY MemoryConfigAssumption DEF Tools
<1>4. DOMAIN <<>> = {} /\ Len(<<>>) = 0 /\ Range(<<>>) = {} /\ <<>> \in Seq(Frame) /\ 1..0 = {}
  BY NothingGood, NothingOrdered
<1>5. /\ tx[Server].queue = <<>> /\ \A n \in Nodes : wire[n] = <<>> /\ log[n] = <<>> /\ sent[n] = <<>> /\ verdict[n] = <<>>
  BY <1>1, <1>2, <1>3 DEF Idle, Sender
<1>6. \A n \in Nodes : Taken(n) = {} /\ DOMAIN sent[n] = {} /\ DOMAIN verdict[n] = {}
  <2>1. \A n \in Nodes : DOMAIN log[n] = {} /\ DOMAIN sent[n] = {} /\ DOMAIN verdict[n] = {}
    BY <1>4, <1>5
  <2>. QED
    BY <2>1 DEF Taken
<1>7. Waiting
  <2>1. 1..Len(tx[Server].queue) = {}
    BY <1>4, <1>5
  <2>. QED
    BY <1>3, <1>6, <2>1 DEF Waiting
<1>8. Acknowledged /\ Replied
  BY <1>3, <1>6 DEF Acknowledged, Replied
<1>9. DueInv
  <2>. SUFFICES ASSUME NEW t \in Tools PROVE Due(t)
    BY DEF DueInv
  <2>1. Range(wire[Server]) = {} /\ Range(wire[t]) = {} /\ wire[Server] \in Seq(Frame) /\ wire[t] \in Seq(Frame)
    BY <1>3, <1>4, <1>5
  <2>2. Lone(wire[Server], Final(t)) /\ Lone(wire[t], AnswerFrame)
    BY <2>1, LoneNone
  <2>. QED
    BY <2>1, <2>2 DEF Due, Pending
<1>. QED
  BY <1>1, <1>2, <1>7, <1>8, <1>9 DEF QueryInv

LEMMA QueryNext == QueryInv /\ [MemoryConfigNext]_mvars => QueryInv'
<1>. SUFFICES ASSUME QueryInv, [MemoryConfigNext]_mvars PROVE QueryInv'
  OBVIOUS
<1>1. /\ LockInv /\ lossy = {} /\ Waiting /\ Acknowledged /\ Replied /\ DueInv
      /\ TalkInv /\ DeliveryInv /\ BusInv
  BY DEF QueryInv, LockInv, TalkInv
<1>2. LockInv' /\ DeliveryInv' /\ lossy' = {}
  BY <1>1, LockNext, DeliveryKept, LossyStays
<1>3. SUFFICES Waiting' /\ Acknowledged' /\ DueInv' /\ Replied'
  BY <1>2 DEF QueryInv
<1>4. CASE UNCHANGED mvars
  <2>1. UNCHANGED <<alias, tx, wire, log, verdict, sent, request, unsaid>>
    BY <1>4 DEF mvars, vars, memconfig
  <2>2. \A n : Taken(n)' = Taken(n)
    BY <2>1 DEF Taken
  <2>3. Waiting' /\ Acknowledged' /\ \A t : Clean(t)' => Clean(t)
    BY <1>1, <2>1, <2>2, RepliesStay
  <2>4. \A t : Due(t)' <=> Due(t)
    BY <2>1, <2>2 DEF Due, Pending
  <2>5. DueInv'
    BY <1>1, <2>3, <2>4 DEF DueInv
  <2>6. Replied'
    BY <1>1, <2>1, <2>2 DEF Replied
  <2>. QED
    BY <2>3, <2>5, <2>6
<1>5. CASE Process
  BY <1>5, ProcessReplied
<1>6. ASSUME NEW q \in Requests, Ask(q[1], q[2]) PROVE Waiting' /\ Acknowledged' /\ DueInv' /\ Replied'
  BY <1>1, <1>6, AskDue, AskReplied
<1>7. ASSUME NEW n \in Nodes, Arrive(n) PROVE Waiting' /\ Acknowledged' /\ DueInv' /\ Replied'
  <2>. DEFINE f == Head(wire[n])
              d == f.dst[1]
  <2>1. UNCHANGED <<sent, unsaid>> /\ wire[n] # <<>> /\ Receive(n)
    BY <1>7 DEF Arrive
  <2>2. NothingTaken \/ \E t \in Tools, k \in Nat : Takes(t, k)
    BY <1>1, <1>7, ArriveBus
  <2>3. Replied'
    BY <1>1, <2>1, <2>2, RepliedStays
  <2>4. /\ d \in Nodes /\ f.dst = Alias(d) /\ \A m \in Nodes : f.dst = Alias(m) => m = d
    BY <1>1, <2>1, ArrivalFacts
  <2>5. LccDatagramFrame(n, d, f) \/ LccDatagramMessage(n, d, f)
    BY <2>1, <2>4 DEF Receive
  <2>. QED
    BY <1>1, <1>2, <2>1, <2>3, <2>5, FrameDue, MessageDue
<1>8. ASSUME NEW n \in Nodes, RunTimers(n) PROVE Waiting' /\ Acknowledged' /\ DueInv' /\ Replied'
  <2>1. UNCHANGED <<sent, request, unsaid>> /\ LccDatagramRunTimers(n)
    BY <1>8 DEF RunTimers, memconfig
  <2>2. UNCHANGED log
    BY <1>1, <2>1, TimersBus
  <2>3. NothingTaken
    BY <2>1, <2>2 DEF NothingTaken, Taken
  <2>. QED
    BY <1>1, <2>1, <2>3, TimersDue, RepliedStays
<1>. QED
  BY <1>4, <1>5, <1>6, <1>7, <1>8 DEF MemoryConfigNext

\* When the bus is at rest no reply is undecided: each was taken by the tool it is for,
\* or it or one before it was given up.
LEMMA RestAnswers == QueryInv => QueriesAnswered
<1>. SUFFICES ASSUME QueryInv, AtRest, NEW t \in Tools, NEW k \in Handled(t), sent[t][k].cmd \in Queries,
                     <<t, k>> \notin unsaid
              PROVE  \/ Answers(t, k) # {}
                     \/ \E i \in DOMAIN sent[Server] :
                          /\ sent[Server][i].req = <<t, k>>
                          /\ \E j \in 1..i : sent[Server][j].to = t /\ verdict[Server][j] = "failed"
  BY DEF QueriesAnswered
<1>1. LockInv /\ Waiting /\ Acknowledged /\ Replied
  BY DEF QueryInv
<1>2. /\ Server \in Nodes /\ Tools \subseteq Nodes /\ Len(verdict[Server]) \in Nat
      /\ verdict[Server] \in Seq({"queued", "acked", "failed"})
      /\ DOMAIN verdict[Server] = 1..Len(verdict[Server])
      /\ DOMAIN sent[Server] = 1..Len(verdict[Server])
  BY <1>1, ReplyFacts
<1>3. request = NoRequest /\ tx[Server].queue = <<>>
  BY <1>2 DEF AtRest
<1>4. k \in Taken(t) /\ request # <<t, k>>
  BY <1>3 DEF Handled, Taken, NoRequest
<1>5. PICK i \in DOMAIN sent[Server] : sent[Server][i].req = <<t, k>>
  BY <1>1, <1>4 DEF Replied
<1>6. sent[Server][i].to = t
  <2>1. ReplyOK(sent[Server][i])
    BY <1>1 DEF LockInv, TalkInv, Replies
  <2>. QED
    BY <1>5, <2>1 DEF ReplyOK, From
<1>7. CASE \E j \in 1..i : sent[Server][j].to = t /\ verdict[Server][j] = "failed"
  BY <1>5, <1>7
<1>8. CASE \A j \in 1..i : sent[Server][j].to = t => verdict[Server][j] # "failed"
  <2>1. i \in 1..i /\ i \in DOMAIN verdict[Server]
    BY <1>2
  <2>2. verdict[Server][i] # "queued"
    <3>1. 1..Len(tx[Server].queue) = {}
      BY <1>3
    <3>. QED
      BY <1>1, <2>1, <3>1 DEF Waiting
  <2>3. verdict[Server][i] = "acked"
    <3>1. verdict[Server][i] \in {"queued", "acked", "failed"}
      BY <1>2, <2>1, ElementOfSeq
    <3>. QED
      BY <1>6, <1>8, <2>1, <2>2, <3>1
  <2>4. i \in Taken(Server)
    BY <1>1, <1>6, <1>8, <2>3 DEF Acknowledged, CleanTo
  <2>5. i \in Answers(t, k)
    BY <1>5, <1>6, <2>4 DEF Answers, Handled, Taken
  <2>. QED
    BY <2>5
<1>. QED
  BY <1>7, <1>8

\* Every query that memconfig.c takes gets its reply (memconfig.c:167), once the bus is
\* at rest: the tool has taken it, unless the send queue was full (memconfig.c:243), or
\* this reply to the tool or an earlier one was given up.  Nobody's answer is taken for
\* another's before that.
THEOREM QueriesGetReplies == MemoryConfigSpec => []QueriesAnswered
<1>1. MemoryConfigSpec => []QueryInv
  BY QueryInit, QueryNext, PTL DEF MemoryConfigSpec
<1>. QED
  BY <1>1, RestAnswers, PTL
=============================================================================
