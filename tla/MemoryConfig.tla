----------------------------- MODULE MemoryConfig -----------------------------
(***************************************************************************)
(* Memory configuration, lib/lcc/src/memconfig.c, over the datagram        *)
(* transport of module Datagram: tools on the bus read and write the       *)
(* spaces of a node, ask what they are, and take and release its lock.     *)
(*                                                                         *)
(* A request that is taken is answered by Datagram Received OK, and a      *)
(* query by a datagram of the node's own as well, which needs room in its  *)
(* send queue.  Writes that concern the firmware and the commands that     *)
(* start something else in the node are those of modules FirmwareUpdate    *)
(* and Settings.                                                           *)
(*                                                                         *)
(* Of a space the model keeps how often it has been written, and of an     *)
(* address whether it is inside.                                           *)
(***************************************************************************)
EXTENDS Datagram

CONSTANTS
  Server,       \* the node
  Spaces,       \* its spaces
  Writable,     \* those that may be written
  Requests,     \* what the tools may ask of it, <<tool, request>>
  MaxRequests   \* bound: how often

Tools == Nodes \ {Server}
Queries == {"read", "info", "options", "lock", "unlock"}

ASSUME MemoryConfigAssumption ==
  /\ Server \in Nodes
  /\ Writable \subseteq Spaces
  /\ Requests \subseteq Tools \X [cmd : Queries \cup {"write"}, space : Spaces \cup {"unknown"},
                                inside : BOOLEAN, len : Lengths]
  /\ MaxRequests \in Nat
  /\ \A t \in Tools : {<<t, Server>>, <<Server, t>>} \subseteq Routes
  /\ 1 \in Lengths
  /\ NoAlias \notin Nodes

VARIABLES
  sent,     \* sent[n]: what each datagram of n says
  request,  \* the request the node has taken and has not processed yet, or NoRequest
  memory,   \* memory[sp]: how often the space has been written
  holder,   \* lock_holder, or NoAlias
  unsaid    \* history: the queries whose answer found no room in the queue

memconfig == <<sent, request, memory, holder, unsaid>>
mvars == <<vars, memconfig>>

NoRequest == <<>>

\* The tool that sent a request, and what it asked
From(req) == req[1]
Asked(req) == sent[req[1]][req[2]]

-----------------------------------------------------------------------------
(* The node *)

\* accept: the code for a request
Accept(r) ==
  IF r.cmd = "write" /\ (r.space \notin Writable \/ ~r.inside) THEN "refused" ELSE "ok"

\* A bug to catch: a tool that asks for the lock gets it
LockTaken(r, t) == IF r.cmd = "unlock" THEN NoAlias ELSE t

\* do_lock: who holds the lock after a request.  Anybody may release it.
LockHolder(r, t) ==
  IF r.cmd = "unlock" THEN NoAlias ELSE IF holder = NoAlias THEN t ELSE holder

\* A bug to catch: a read that fails is not answered
AnsweredIfRead(r) == r.cmd \in Queries /\ (r.cmd = "read" => r.space \in Spaces /\ r.inside)

\* A reply is due: process sends one for each of these commands
Answered(r) == r.cmd \in Queries

\* do_read finds the data
Readable(r) == r.space \in Spaces /\ r.inside

\* What do_read, do_options, do_space_info and do_lock answer
ReadReply(r) == IF Readable(r) THEN <<"data", memory[r.space]>> ELSE <<"failed">>
OptionsReply == <<"spaces", Spaces>>
SpaceInfoReply(r) ==
  IF r.space \in Spaces THEN <<"present", r.space \in Writable>> ELSE <<"absent">>
LockReply(r, t) == <<"lock", LockHolder(r, t)>>

Reply(r, t) ==
  CASE r.cmd = "read"             -> ReadReply(r)
    [] r.cmd = "options"          -> OptionsReply
    [] r.cmd = "info"             -> SpaceInfoReply(r)
    [] r.cmd \in {"lock", "unlock"} -> LockReply(r, t)

\* do_write: a write is done before its space is read again
Written(r) == IF r.cmd = "write" THEN [memory EXCEPT ![r.space] = @ + 1] ELSE memory

\* Only the data of a space may take more than a frame
ReplyLength(r) == IF r.cmd = "read" /\ Readable(r) THEN r.len ELSE 1

\* A bug to catch: the queue keeps a pointer to the one buffer for replies
BufferShared(reply) ==
  Append([k \in DOMAIN sent[Server] |->
            IF verdict[Server][k] = "queued" THEN [reply EXCEPT !.to = sent[Server][k].to]
            ELSE sent[Server][k]],
         reply)

\* The queue keeps a copy of each reply
Queued(reply) == Append(sent[Server], reply)

\* process, once the OK is out: nothing else happens in the node meanwhile
Process ==
  LET t == From(request)
      r == Asked(request)
  IN
  /\ request # NoRequest
  /\ request' = NoRequest
  /\ memory' = Written(r)
  /\ holder' = IF r.cmd \in {"lock", "unlock"} THEN LockHolder(r, t) ELSE holder
  /\ \/ /\ Answered(r) /\ Room(tx[Server])
        /\ LccDatagramSend(Server, t, ReplyLength(r))
        /\ sent' = [sent EXCEPT ![Server] =
                      Queued([to |-> t, req |-> request, says |-> Reply(r, t)])]
        /\ UNCHANGED unsaid
     \/ /\ Answered(r) /\ ~Room(tx[Server])
        /\ unsaid' = unsaid \cup {request}
        /\ UNCHANGED <<vars, sent>>
     \/ /\ ~Answered(r)
        /\ UNCHANGED <<vars, sent, unsaid>>

-----------------------------------------------------------------------------
(* The bus *)

\* Frame f completes a datagram at node d, which a handler gets
Completes(d, f) ==
  f.kind = "one" \/ (f.kind = "final" /\ Ours(rx[d], f)
                     /\ Fits(Append(rx[d].buf, <<f.num, f.part>>)))

\* What the handler of node d answers to datagram k of node n.  Tools take what they
\* are sent.
Verdict(n, k, d) == IF d = Server THEN Accept(sent[n][k]) ELSE "ok"

\* The head of wire[n] arrives
Arrive(n) ==
  /\ wire[n] # <<>>
  /\ LET f == Head(wire[n])
         d == f.dst[1]
         code == wire'[d][Len(wire'[d])].code
     IN
     /\ d = Server => request = NoRequest
     /\ Receive(n)
     /\ IF Completes(d, f)
        THEN /\ code = Verdict(n, f.num, d)
             /\ request' = IF d = Server /\ code = "ok" THEN <<n, f.num>> ELSE request
        ELSE UNCHANGED request
  /\ UNCHANGED <<sent, memory, holder, unsaid>>

\* The timers of node n
RunTimers(n) ==
  /\ n = Server => request = NoRequest
  /\ LccDatagramRunTimers(n)
  /\ UNCHANGED memconfig

-----------------------------------------------------------------------------
(* The tools *)

\* What tool t has asked of the lock last
LockRequests(t) == {k \in DOMAIN sent[t] : sent[t][k].cmd \in {"lock", "unlock"}}

\* Tool t has got the answer to its request k
Handled(n) == {LastNum(log[n][i]) : i \in DOMAIN log[n]}
Answers(t, k) == {i \in Handled(Server) : sent[Server][i].to = t /\ sent[Server][i].req = <<t, k>>}

\* Tool t has the lock, as far as it knows
Holds(t) ==
  \E k \in LockRequests(t) :
    /\ \A j \in LockRequests(t) : j <= k
    /\ sent[t][k].cmd = "lock"
    /\ \E i \in Answers(t, k) : sent[Server][i].says = <<"lock", t>>

\* A tool asks; it releases only a lock it has
Ask(t, r) ==
  /\ Cardinality(UNION {{u} \X DOMAIN sent[u] : u \in Tools}) < MaxRequests
  /\ r.cmd = "unlock" => Holds(t)
  /\ LccDatagramSend(t, Server, 1)
  /\ sent' = [sent EXCEPT ![t] =
                Append(@, [cmd |-> r.cmd, space |-> r.space, inside |-> r.inside, len |-> r.len,
                           since |-> IF r.cmd = "read" /\ r.space \in Spaces
                                     THEN memory[r.space] ELSE 0])]
  /\ UNCHANGED <<request, memory, holder, unsaid>>

-----------------------------------------------------------------------------
MemoryConfigInit ==
  /\ Init
  /\ sent = [n \in Nodes |-> <<>>]
  /\ request = NoRequest
  /\ memory = [sp \in Spaces |-> 0]
  /\ holder = NoAlias
  /\ unsaid = {}

MemoryConfigNext ==
  \/ Process
  \/ \E q \in Requests : Ask(q[1], q[2])
  \/ \E n \in Nodes : Arrive(n) \/ RunTimers(n)

\* As in Datagram: what arrives is handled, and every armed timer fires
MemoryConfigSpec ==
  /\ MemoryConfigInit /\ [][MemoryConfigNext]_mvars
  /\ WF_mvars(Process)
  /\ \A n \in Nodes : WF_mvars(Arrive(n)) /\ WF_mvars(RunTimers(n))

-----------------------------------------------------------------------------
(* Properties *)

\* A tool gets the answer to its own request, and what it reads is not older than
\* the request, however long the answer waited in the queue.
OwnAnswers ==
  \A i \in Handled(Server) :
    LET reply == sent[Server][i]
        r     == Asked(reply.req)
    IN  /\ From(reply.req) = reply.to
        /\ reply.says[1] = "data" => reply.says[2] >= r.since

\* The node and the bus are at rest
AtRest ==
  /\ request = NoRequest
  /\ \A n \in Nodes : wire[n] = <<>> /\ tx[n].queue = <<>>

\* Every query the node has taken is answered, one that fails as well
\* (memconfig.c:167), unless the send queue was full (memconfig.c:243), or the tool did
\* not answer in time, to this reply or to an earlier one: its late answer to that one
\* then counts for this one (datagram.c:215).
QueriesAnswered ==
  AtRest =>
    \A t \in Tools : \A k \in Handled(t) :
      \/ sent[t][k].cmd \notin Queries
      \/ Answers(t, k) # {} \/ <<t, k>> \in unsaid
      \/ \E i \in DOMAIN sent[Server] :
           /\ sent[Server][i].req = <<t, k>>
           /\ \E j \in 1..i : sent[Server][j].to = t /\ verdict[Server][j] = "failed"

\* The lock is held by one tool at a time, as the tools know from the answers they
\* got, early or late (test_lcc.c:864), as long as each releases only its own.
LockExclusive == \A t, u \in Tools : Holds(t) /\ Holds(u) => t = u

\* A tool that asks much or answers late does not stop the node's replies: the queue
\* always empties, though an OK that comes too late is taken for the next reply's.
RepliesLeave == (tx[Server].queue # <<>>) ~> (tx[Server].queue = <<>>)
=============================================================================
