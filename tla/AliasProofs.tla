----------------------------- MODULE AliasProofs -----------------------------
(***************************************************************************)
(* Proofs about Alias for any number of nodes, any node IDs and any        *)
(* sequences of aliases: as long as no frame is lost, no two nodes use one *)
(* alias.                                                                  *)
(***************************************************************************)
EXTENDS Alias, SequenceTheorems, TLAPS

Frames ==
  [kind : {"CID", "RID", "AMR", "ID", "VERIFY", "MSG"}, src : Nat, id : {Id[n] : n \in Nodes}]

Using(n) == state[n] \in {"checking", "permitted"}

\* The variables have their types, and a node that checks or uses an alias has one.
TypeOK ==
  /\ state \in [Nodes -> {"idle", "checking", "permitted", "released"}]
  /\ step \in [Nodes -> Nat]
  /\ conflict \in [Nodes -> BOOLEAN]
  /\ reported \in [Nodes -> BOOLEAN]
  /\ DOMAIN wire = Nodes
  /\ \A n \in Nodes : DOMAIN wire[n] = Others(n) /\ \A m \in Others(n) : wire[n][m] \in Seq(Frames)
  /\ losses \in Nat
  /\ restarts \in Nat
  /\ \A n \in Nodes : Using(n) => step[n] \in 1..Len(AliasOf[n])

\* A frame in q carries alias a, or asks whether it is in use
Names(q, a) == \E i \in DOMAIN q : q[i].src = a
Asks(q, a) == \E i \in DOMAIN q : q[i].src = a /\ q[i].kind = "CID"

\* Node n that checks the alias m uses will hear of it before its wait is over:
\* its question is still on the way to m, or the answer on the way back, or in.
Warned(n, m) ==
  state[n] = "checking" /\ state[m] = "permitted" /\ MyAlias(n) = MyAlias(m) =>
    conflict[n] \/ Asks(wire[n][m], MyAlias(n)) \/ Names(wire[m][n], MyAlias(n))

\* What holds between two nodes while nothing is lost
Apart(n, m) == ~Sharing(n, m) /\ ~Sharing(m, n) /\ Warned(n, m) /\ Warned(m, n)

\* The inductive invariant
AliasInv == TypeOK /\ (losses = 0 => \A n \in Nodes : \A m \in Others(n) : Apart(n, m))

-----------------------------------------------------------------------------
(* Frames on a wire *)

\* Taking a frame off a wire leaves what the others say.
LEMMA TailKeeps ==
  ASSUME NEW q \in Seq(Frames), q # <<>>
  PROVE  /\ Head(q) \in Frames /\ Tail(q) \in Seq(Frames)
         /\ \A a : Names(q, a) => Head(q).src = a \/ Names(Tail(q), a)
         /\ \A a : Asks(q, a) => (Head(q).src = a /\ Head(q).kind = "CID") \/ Asks(Tail(q), a)
<1>1. /\ Head(q) \in Frames /\ Tail(q) \in Seq(Frames)
      /\ Len(Tail(q)) = Len(q) - 1 /\ Len(q) \in Nat
      /\ Head(q) = q[1]
      /\ DOMAIN q = 1..Len(q) /\ DOMAIN Tail(q) = 1..(Len(q) - 1)
  BY HeadTailProperties, LenProperties
<1>2. \A i \in DOMAIN q : i = 1 \/ (i - 1 \in DOMAIN Tail(q) /\ Tail(q)[i - 1] = q[i])
  BY <1>1, HeadTailProperties
<1>. QED
  BY <1>1, <1>2 DEF Names, Asks

\* What is said on a wire after more frames were sent on it
LEMMA ConcatSays ==
  ASSUME NEW q \in Seq(Frames), NEW r \in Seq(Frames)
  PROVE  /\ q \o r \in Seq(Frames)
         /\ \A a : Names(q \o r, a) <=> Names(q, a) \/ Names(r, a)
         /\ \A a : Asks(q \o r, a) <=> Asks(q, a) \/ Asks(r, a)
<1>1. /\ q \o r \in Seq(Frames)
      /\ Len(q) \in Nat /\ Len(r) \in Nat
      /\ DOMAIN q = 1..Len(q) /\ DOMAIN r = 1..Len(r)
      /\ DOMAIN (q \o r) = 1..(Len(q) + Len(r))
  BY ConcatProperties, LenProperties
<1>2. \A i \in DOMAIN q : i \in DOMAIN (q \o r) /\ (q \o r)[i] = q[i]
  BY <1>1, ConcatProperties
<1>3. \A i \in DOMAIN r : Len(q) + i \in DOMAIN (q \o r) /\ (q \o r)[Len(q) + i] = r[i]
  BY <1>1, ConcatProperties
<1>4. \A i \in DOMAIN (q \o r) :
        \/ i \in DOMAIN q /\ (q \o r)[i] = q[i]
        \/ i - Len(q) \in DOMAIN r /\ (q \o r)[i] = r[i - Len(q)]
  BY <1>1, ConcatProperties
<1>5. ASSUME NEW P, P \subseteq Frames
      PROVE  (\E i \in DOMAIN (q \o r) : (q \o r)[i] \in P) <=>
               (\E i \in DOMAIN q : q[i] \in P) \/ (\E i \in DOMAIN r : r[i] \in P)
  BY <1>2, <1>3, <1>4
<1>6. ASSUME NEW a
      PROVE  /\ Names(q \o r, a) <=> Names(q, a) \/ Names(r, a)
             /\ Asks(q \o r, a) <=> Asks(q, a) \/ Asks(r, a)
  <2>1. \A s \in Seq(Frames) :
          /\ Names(s, a) <=> \E i \in DOMAIN s : s[i] \in {f \in Frames : f.src = a}
          /\ Asks(s, a) <=> \E i \in DOMAIN s : s[i] \in {f \in Frames : f.src = a /\ f.kind = "CID"}
    BY DEF Names, Asks
  <2>. QED
    BY <1>1, <1>5, <2>1
<1>. QED
  BY <1>1, <1>6

\* The wires after node n has handled the next frame from m and sent some
LEMMA HandleWires ==
  ASSUME TypeOK, NEW n \in Nodes, NEW m \in Nodes, m # n => wire[m][n] # <<>>,
         NEW out \in Seq(Frames), Handle(n, m, out)
  PROVE  /\ DOMAIN wire' = Nodes
         /\ \A i \in Nodes : DOMAIN wire'[i] = Others(i)
         /\ \A i \in Nodes : \A j \in Others(i) : wire'[i][j] \in Seq(Frames)
         /\ \A l \in Others(n) : wire'[n][l] = wire[n][l] \o out
         /\ \A l \in Others(n) : wire'[l][n] = IF l = m THEN Tail(wire[l][n]) ELSE wire[l][n]
         /\ \A i \in Others(n) : \A j \in Others(i) \ {n} : wire'[i][j] = wire[i][j]
<1>. DEFINE kept(i, j) == IF i = m /\ j = n THEN Tail(wire[i][j]) ELSE wire[i][j]
            more(i) == IF i = n THEN out ELSE <<>>
<1>1. wire' = [i \in Nodes |-> [j \in Others(i) |-> kept(i, j) \o more(i)]]
  BY DEF Handle
<1>2. ASSUME NEW i \in Nodes, NEW j \in Others(i)
      PROVE  /\ wire'[i][j] = kept(i, j) \o more(i)
             /\ wire'[i][j] \in Seq(Frames)
             /\ i # n => wire'[i][j] = kept(i, j)
  <2>1. wire[i][j] \in Seq(Frames)
    BY DEF TypeOK
  <2>2. i = m /\ j = n => Tail(wire[i][j]) \in Seq(Frames)
    BY <2>1, TailKeeps DEF Others
  <2>3. kept(i, j) \in Seq(Frames)
    BY <2>1, <2>2
  <2>4. more(i) \in Seq(Frames)
    BY EmptySeq
  <2>5. wire'[i][j] = kept(i, j) \o more(i)
    BY <1>1
  <2>. HIDE DEF kept, more
  <2>6. kept(i, j) \o more(i) \in Seq(Frames) /\ kept(i, j) \o <<>> = kept(i, j)
    BY <2>3, <2>4, ConcatSays, ConcatEmptySeq
  <2>7. i # n => more(i) = <<>>
    BY DEF more
  <2>. QED
    BY <2>5, <2>6, <2>7
<1>. HIDE DEF kept, more
<1>3. \A i \in Nodes : \A j \in Others(i) : wire'[i][j] \in Seq(Frames)
  BY <1>2
<1>4. \A i \in Others(n) : \A j \in Others(i) : wire'[i][j] = kept(i, j)
  BY <1>2 DEF Others
<1>5. \A l \in Others(n) : wire'[n][l] = wire[n][l] \o out
  BY <1>2 DEF Others, kept, more
<1>6. \A l \in Others(n) : n \in Others(l) /\ l \in Nodes
  BY DEF Others
<1>. QED
  BY <1>1, <1>3, <1>4, <1>5, <1>6 DEF kept

\* What node n and another hear of each other after n has handled a frame
LEMMA Heard ==
  ASSUME TypeOK, NEW n \in Nodes, NEW m \in Nodes, m # n => wire[m][n] # <<>>,
         NEW out \in Seq(Frames), Handle(n, m, out), NEW l \in Others(n), NEW a
  PROVE  /\ Names(wire[n][l], a) \/ Names(out, a) => Names(wire'[n][l], a)
         /\ Asks(wire[n][l], a) \/ Asks(out, a) => Asks(wire'[n][l], a)
         /\ Names(wire[l][n], a) => Names(wire'[l][n], a) \/ (l = m /\ Head(wire[m][n]).src = a)
         /\ Asks(wire[l][n], a) =>
              \/ Asks(wire'[l][n], a)
              \/ l = m /\ Head(wire[m][n]).src = a /\ Head(wire[m][n]).kind = "CID"
<1>1. wire'[n][l] = wire[n][l] \o out /\ wire'[l][n] = IF l = m THEN Tail(wire[l][n]) ELSE wire[l][n]
  BY HandleWires
<1>2. wire[n][l] \in Seq(Frames) /\ wire[l][n] \in Seq(Frames)
  BY DEF TypeOK, Others
<1>3. l = m => wire[l][n] # <<>>
  BY DEF Others
<1>4. CASE l = m
  BY <1>1, <1>2, <1>3, <1>4, ConcatSays, TailKeeps
<1>5. CASE l # m
  BY <1>1, <1>2, <1>5, ConcatSays
<1>. QED
  BY <1>4, <1>5

-----------------------------------------------------------------------------
(* Frames that are sent *)

\* What a node says of its alias is a frame.
LEMMA FrameTyped ==
  ASSUME NEW n \in Nodes, NEW k \in 1..Len(AliasOf[n]),
         NEW kind \in {"CID", "RID", "AMR", "ID", "VERIFY", "MSG"}
  PROVE  Frame(kind, AliasOf[n][k], n) \in Frames
<1>1. AliasOf[n][k] \in Nat
  BY AliasAssumption
<1>. QED
  BY <1>1 DEF Frame, Frames

\* The next alias in turn exists.
LEMMA NextAlias ==
  ASSUME TypeOK, NEW n \in Nodes
  PROVE  (step[n] % Len(AliasOf[n])) + 1 \in 1..Len(AliasOf[n])
<1>1. Len(AliasOf[n]) \in Nat /\ Len(AliasOf[n]) > 0 /\ step[n] \in Nat
  BY AliasAssumption DEF TypeOK
<1>2. step[n] % Len(AliasOf[n]) \in 0..(Len(AliasOf[n]) - 1)
  BY <1>1
<1>. QED
  BY <1>1, <1>2

\* The frames n sends when it begins to check an alias, and what they say
LEMMA CheckFrames ==
  ASSUME NEW n \in Nodes, NEW k \in 1..Len(AliasOf[n]), NEW first \in Seq(Frames)
  PROVE  /\ Append(first, Frame("CID", AliasOf[n][k], n)) \in Seq(Frames)
         /\ Asks(Append(first, Frame("CID", AliasOf[n][k], n)), AliasOf[n][k])
<1>. DEFINE f == Frame("CID", AliasOf[n][k], n)
            q == Append(first, f)
<1>1. f \in Frames /\ f.src = AliasOf[n][k] /\ f.kind = "CID"
  BY FrameTyped DEF Frame
<1>. HIDE DEF f
<1>2. q \in Seq(Frames) /\ q[Len(first) + 1] = f /\ Len(q) = Len(first) + 1
  BY <1>1, AppendProperties
<1>3. Len(first) + 1 \in DOMAIN q
  BY <1>2
<1>. HIDE DEF q
<1>4. Asks(q, AliasOf[n][k])
  BY <1>1, <1>2, <1>3 DEF Asks
<1>. QED
  BY <1>2, <1>4 DEF q, f

\* A function on 1..k is a sequence.
LEMMA FunctionIsSeq ==
  ASSUME NEW S, NEW k \in Nat, NEW q \in [1..k -> S]
  PROVE  q \in Seq(S)
OBVIOUS

\* The frames n sends when it claims its alias name it.
LEMMA ClaimNames ==
  ASSUME NEW n \in Nodes, step[n] \in 1..Len(AliasOf[n])
  PROVE  ClaimFrames(n) \in Seq(Frames) /\ Names(ClaimFrames(n), MyAlias(n))
<1>. DEFINE q == ClaimFrames(n)
<1>1. \A kind \in {"RID", "ID", "VERIFY"} : Frame(kind, MyAlias(n), n) \in Frames
  BY FrameTyped DEF MyAlias
<1>2. \A i \in 1..3 : <<"RID", "ID", "VERIFY">>[i] \in {"RID", "ID", "VERIFY"}
  OBVIOUS
<1>3. q \in [1..3 -> Frames]
  BY <1>1, <1>2 DEF ClaimFrames
<1>4. q \in Seq(Frames)
  BY <1>3, FunctionIsSeq
<1>5. 1 \in DOMAIN q /\ q[1].src = MyAlias(n)
  BY DEF ClaimFrames, Frame
<1>. QED
  BY <1>4, <1>5 DEF Names

\* A single frame that names an alias
LEMMA OneFrame ==
  ASSUME NEW f \in Frames
  PROVE  <<f>> \in Seq(Frames) /\ Names(<<f>>, f.src)
<1>1. <<f>> \in Seq(Frames) /\ 1 \in DOMAIN <<f>> /\ <<f>>[1] = f
  OBVIOUS
<1>. QED
  BY <1>1 DEF Names

-----------------------------------------------------------------------------
(* The steps.  Each concerns one node n, which may handle a frame from m. *)

\* If only node n moves, what holds between any two others goes on to hold.
LEMMA OneNode ==
  ASSUME AliasInv, losses = 0, NEW n \in Nodes,
         \A k \in Others(n) :
           /\ state'[k] = state[k] /\ step'[k] = step[k] /\ conflict'[k] = conflict[k]
           /\ \A l \in Others(k) \ {n} : wire'[k][l] = wire[k][l],
         \A l \in Others(n) : Apart(n, l)'
  PROVE  \A k \in Nodes : \A l \in Others(k) : Apart(k, l)'
<1>. SUFFICES ASSUME NEW k \in Nodes, NEW l \in Others(k)
              PROVE  Apart(k, l)'
  OBVIOUS
<1>1. CASE k = n
  BY <1>1
<1>2. CASE l = n
  <2>1. Apart(l, k)'
    BY <1>2 DEF Others
  <2>. QED
    BY <2>1 DEF Apart
<1>3. CASE k # n /\ l # n
  <2>1. Apart(k, l)
    BY DEF AliasInv
  <2>2. k \in Others(n) /\ l \in Others(n) /\ l \in Others(k) \ {n} /\ k \in Others(l) \ {n}
    BY <1>3 DEF Others
  <2>3. /\ state'[k] = state[k] /\ step'[k] = step[k] /\ conflict'[k] = conflict[k]
        /\ state'[l] = state[l] /\ step'[l] = step[l] /\ conflict'[l] = conflict[l]
        /\ wire'[k][l] = wire[k][l] /\ wire'[l][k] = wire[l][k]
    BY <2>2
  <2>. QED
    BY <2>1, <2>3 DEF Apart, Sharing, Warned, MyAlias
<1>. QED
  BY <1>1, <1>2, <1>3

\* The wires and the types after a step that handles a frame
LEMMA HandleTyped ==
  ASSUME TypeOK, NEW n \in Nodes, NEW m \in Nodes, m # n => wire[m][n] # <<>>,
         NEW out \in Seq(Frames), Handle(n, m, out),
         state' \in [Nodes -> {"idle", "checking", "permitted", "released"}],
         step' \in [Nodes -> Nat],
         conflict' \in [Nodes -> BOOLEAN],
         reported' \in [Nodes -> BOOLEAN],
         losses' \in Nat, restarts' \in Nat,
         \A k \in Nodes : Using(k)' => step'[k] \in 1..Len(AliasOf[k])
  PROVE  /\ TypeOK'
         /\ \A k \in Others(n) : \A l \in Others(k) \ {n} : wire'[k][l] = wire[k][l]
<1>1. /\ DOMAIN wire' = Nodes
      /\ \A i \in Nodes : DOMAIN wire'[i] = Others(i)
      /\ \A i \in Nodes : \A j \in Others(i) : wire'[i][j] \in Seq(Frames)
      /\ \A i \in Others(n) : \A j \in Others(i) \ {n} : wire'[i][j] = wire[i][j]
  BY HandleWires
<1>. QED
  BY <1>1 DEF TypeOK

\* Node n does not move, and sends something with its alias if it has been asked.
LEMMA StayStep ==
  ASSUME AliasInv, NEW n \in Nodes, NEW m \in Nodes, m # n => wire[m][n] # <<>>,
         NEW out \in Seq(Frames), Handle(n, m, out),
         UNCHANGED <<state, step, conflict, losses, restarts>>,
         reported' \in [Nodes -> BOOLEAN],
         m # n /\ Using(n) /\ Head(wire[m][n]).src = MyAlias(n) =>
           /\ state[n] = "permitted"
           /\ Names(out, MyAlias(n))
  PROVE  AliasInv'
<1>1. TypeOK' /\ \A k \in Others(n) : \A l \in Others(k) \ {n} : wire'[k][l] = wire[k][l]
  BY HandleTyped DEF AliasInv, TypeOK, Using
<1>2. ASSUME losses = 0, NEW l \in Others(n)
      PROVE  Apart(n, l)'
  <2>. DEFINE a == MyAlias(n)
  <2>1. Apart(n, l)
    BY <1>2 DEF AliasInv
  <2>2. UNCHANGED <<MyAlias(n), MyAlias(l), state, conflict>>
    BY DEF MyAlias
  <2>3. /\ Names(wire[n][l], a) \/ Names(out, a) => Names(wire'[n][l], a)
        /\ Asks(wire[n][l], a) => Asks(wire'[n][l], a)
        /\ Names(wire[l][n], a) => Names(wire'[l][n], a) \/ (l = m /\ Head(wire[m][n]).src = a)
        /\ Asks(wire[l][n], a) => Asks(wire'[l][n], a) \/ (l = m /\ Head(wire[m][n]).src = a)
    BY Heard DEF AliasInv
  <2>4. l = m => m # n
    BY DEF Others
  <2>5. Warned(n, l)'
    BY <2>1, <2>2, <2>3, <2>4 DEF Apart, Warned, Using
  <2>6. Warned(l, n)'
    BY <2>1, <2>2, <2>3, <2>4 DEF Apart, Warned, Using
  <2>. QED
    BY <2>1, <2>2, <2>5, <2>6 DEF Apart, Sharing
<1>3. losses = 0 => \A k \in Nodes : \A l \in Others(k) : Apart(k, l)'
  BY <1>1, <1>2, OneNode
<1>. QED
  BY <1>1, <1>3 DEF AliasInv

\* Node n is not permitted after the step, and what it checks it has asked for.
LEMMA MoveStep ==
  ASSUME AliasInv, TypeOK', NEW n \in Nodes,
         \A k \in Others(n) :
           /\ state'[k] = state[k] /\ step'[k] = step[k] /\ conflict'[k] = conflict[k]
           /\ \A l \in Others(k) \ {n} : wire'[k][l] = wire[k][l],
         state'[n] # "permitted", losses' = losses,
         state'[n] = "checking" =>
           conflict'[n] \/ \A l \in Others(n) : Asks(wire'[n][l], MyAlias(n)')
  PROVE  AliasInv'
<1>1. \A l \in Others(n) : Apart(n, l)'
  BY DEF Apart, Sharing, Warned
<1>2. losses = 0 => \A k \in Nodes : \A l \in Others(k) : Apart(k, l)'
  BY <1>1, OneNode
<1>. QED
  BY <1>2 DEF AliasInv

\* Node n goes on to its next alias.
LEMMA CheckStep ==
  ASSUME AliasInv, NEW n \in Nodes, NEW m \in Nodes, m # n => wire[m][n] # <<>>,
         NEW first \in Seq(Frames), BeginChecking(n, m, first),
         UNCHANGED <<reported, losses, restarts>>
  PROVE  AliasInv'
<1>. DEFINE k == (step[n] % Len(AliasOf[n])) + 1
            out == Append(first, Frame("CID", AliasOf[n][k], n))
<1>1. TypeOK /\ k \in 1..Len(AliasOf[n]) /\ Len(AliasOf[n]) \in Nat
  BY NextAlias, AliasAssumption DEF AliasInv
<1>2. step' = [step EXCEPT ![n] = k] /\ step'[n] = k
  BY <1>1 DEF BeginChecking, TypeOK
<1>3. out \in Seq(Frames) /\ Asks(out, AliasOf[n][k])
  BY <1>1, CheckFrames
<1>4. Handle(n, m, out)
  BY <1>2 DEF BeginChecking
<1>. HIDE DEF out, k
<1>5. /\ state' = [state EXCEPT ![n] = "checking"]
      /\ conflict' = [conflict EXCEPT ![n] = FALSE]
  BY DEF BeginChecking, ConflictAfresh
<1>6. \A i \in Nodes : Using(i)' => step'[i] \in 1..Len(AliasOf[i])
  BY <1>1, <1>2, <1>5 DEF TypeOK, Using
<1>7. /\ state' \in [Nodes -> {"idle", "checking", "permitted", "released"}]
      /\ step' \in [Nodes -> Nat] /\ conflict' \in [Nodes -> BOOLEAN]
  BY <1>1, <1>2, <1>5 DEF TypeOK
<1>8. TypeOK' /\ \A i \in Others(n) : \A l \in Others(i) \ {n} : wire'[i][l] = wire[i][l]
  BY <1>1, <1>3, <1>4, <1>6, <1>7, HandleTyped DEF TypeOK
<1>9. \A l \in Others(n) : Asks(wire'[n][l], MyAlias(n)')
  BY <1>1, <1>2, <1>3, <1>4, Heard DEF MyAlias
<1>10. \A i \in Others(n) : state'[i] = state[i] /\ step'[i] = step[i] /\ conflict'[i] = conflict[i]
  BY <1>2, <1>5, <1>1 DEF Others, TypeOK
<1>11. state'[n] = "checking" /\ losses' = losses
  BY <1>1, <1>5 DEF TypeOK
<1>. QED
  BY <1>8, <1>9, <1>10, <1>11, MoveStep

\* Node n has waited, has heard of nobody with its alias, and claims it.
LEMMA ClaimStep ==
  ASSUME AliasInv, NEW n \in Nodes, state[n] = "checking", Settled(n), ~conflict[n],
         ClaimAlias(n), UNCHANGED <<reported, losses, restarts>>
  PROVE  AliasInv'
<1>. DEFINE a == MyAlias(n)
            out == ClaimFrames(n)
<1>1. TypeOK /\ step[n] \in 1..Len(AliasOf[n])
  BY DEF AliasInv, TypeOK, Using
<1>2. out \in Seq(Frames) /\ Names(out, a)
  BY <1>1, ClaimNames
<1>3. /\ Handle(n, n, out) /\ state' = [state EXCEPT ![n] = "permitted"]
      /\ UNCHANGED <<step, conflict>>
  BY DEF ClaimAlias, Send
<1>. HIDE DEF out
<1>4. \A i \in Nodes : Using(i)' => step'[i] \in 1..Len(AliasOf[i])
  BY <1>1, <1>3 DEF TypeOK, Using
<1>5. state' \in [Nodes -> {"idle", "checking", "permitted", "released"}]
  BY <1>1, <1>3 DEF TypeOK
<1>6. TypeOK' /\ \A i \in Others(n) : \A l \in Others(i) \ {n} : wire'[i][l] = wire[i][l]
  BY <1>1, <1>2, <1>3, <1>4, <1>5, HandleTyped DEF TypeOK
<1>7. ASSUME losses = 0, NEW l \in Others(n)
      PROVE  Apart(n, l)'
  <2>1. l \in Nodes /\ l # n /\ Apart(n, l)
    BY <1>7 DEF AliasInv, Others
  <2>2. ~Names(wire[n][l], a) /\ ~Names(wire[l][n], a)
    BY <2>1 DEF Settled, Names, Others
  <2>3. ~Asks(wire[n][l], a)
    BY <2>2 DEF Asks, Names
  <2>4. state[l] = "permitted" => MyAlias(l) # a
    BY <2>1, <2>2, <2>3 DEF Apart, Warned
  <2>5. state'[n] = "permitted" /\ state'[l] = state[l] /\ UNCHANGED <<MyAlias(n), MyAlias(l)>>
    BY <1>1, <1>3, <2>1 DEF TypeOK, MyAlias
  <2>6. Names(wire'[n][l], a)
    BY <1>1, <1>2, <1>3, Heard
  <2>7. ~Sharing(n, l)' /\ ~Sharing(l, n)'
    BY <2>4, <2>5 DEF Sharing
  <2>8. Warned(n, l)' /\ Warned(l, n)'
    BY <2>5, <2>6 DEF Warned
  <2>. QED
    BY <2>7, <2>8 DEF Apart
<1>8. \A i \in Others(n) : state'[i] = state[i] /\ step'[i] = step[i] /\ conflict'[i] = conflict[i]
  BY <1>1, <1>3 DEF Others, TypeOK
<1>9. losses = 0 => \A i \in Nodes : \A l \in Others(i) : Apart(i, l)'
  BY <1>6, <1>7, <1>8, OneNode
<1>. QED
  BY <1>6, <1>9 DEF AliasInv

\* A node that checks an alias hears of another node with it.
LEMMA ConflictStep ==
  ASSUME AliasInv, NEW n \in Nodes, NEW m \in Others(n), wire[m][n] # <<>>, Handle(n, m, <<>>),
         state[n] = "checking", conflict' = [conflict EXCEPT ![n] = TRUE],
         UNCHANGED <<state, step, reported, losses, restarts>>
  PROVE  AliasInv'
<1>1. TypeOK /\ m \in Nodes /\ <<>> \in Seq(Frames)
  BY EmptySeq DEF AliasInv, Others
<1>2. TypeOK' /\ \A i \in Others(n) : \A l \in Others(i) \ {n} : wire'[i][l] = wire[i][l]
  BY <1>1, HandleTyped DEF TypeOK, Using
<1>3. \A i \in Others(n) : state'[i] = state[i] /\ step'[i] = step[i] /\ conflict'[i] = conflict[i]
  BY <1>1 DEF Others, TypeOK
<1>4. state'[n] # "permitted" /\ conflict'[n] /\ losses' = losses
  BY <1>1 DEF TypeOK
<1>. QED
  BY <1>2, <1>3, <1>4, MoveStep

\* A frame reaches node n.
LEMMA ReceiveStep ==
  ASSUME AliasInv, NEW n \in Nodes, NEW m \in Others(n), LccFrameReceived(n, m)
  PROVE  AliasInv'
<1>. DEFINE f == Head(wire[m][n])
<1>1. /\ TypeOK /\ m \in Nodes /\ m # n /\ <<>> \in Seq(Frames)
      /\ wire[m][n] # <<>> /\ UNCHANGED <<losses, restarts>>
  BY EmptySeq DEF AliasInv, Others, LccFrameReceived
<1>2. \A kind \in {"RID", "AMR", "MSG", "ID"} : Using(n) =>
        /\ <<Frame(kind, MyAlias(n), n)>> \in Seq(Frames)
        /\ Names(<<Frame(kind, MyAlias(n), n)>>, MyAlias(n))
  <2>. SUFFICES ASSUME NEW kind \in {"RID", "AMR", "MSG", "ID"}, Using(n)
                PROVE  /\ <<Frame(kind, MyAlias(n), n)>> \in Seq(Frames)
                       /\ Names(<<Frame(kind, MyAlias(n), n)>>, MyAlias(n))
    OBVIOUS
  <2>1. Frame(kind, MyAlias(n), n) \in Frames /\ Frame(kind, MyAlias(n), n).src = MyAlias(n)
    BY <1>1, FrameTyped DEF TypeOK, MyAlias, Frame
  <2>. QED
    BY <2>1, OneFrame
<1>3. CASE Handle(n, m, <<>>) /\ UNCHANGED <<state, step, conflict, reported>>
           /\ (Using(n) => f.src # MyAlias(n))
  BY <1>1, <1>3, StayStep DEF TypeOK
<1>4. CASE state[n] = "checking" /\ conflict' = [conflict EXCEPT ![n] = TRUE] /\ Handle(n, m, <<>>)
           /\ UNCHANGED <<state, step, reported>>
  BY <1>1, <1>4, ConflictStep
<1>5. CASE state[n] = "permitted" /\ Handle(n, m, Defence(n))
           /\ UNCHANGED <<state, step, conflict, reported>>
  <2>1. Defence(n) \in Seq(Frames) /\ Names(Defence(n), MyAlias(n))
    BY <1>2, <1>5 DEF Defence, Using
  <2>. QED
    BY <1>1, <1>5, <2>1, StayStep DEF TypeOK
<1>6. CASE BeginChecking(n, m, <<Frame("AMR", MyAlias(n), n)>>) /\ state[n] = "permitted"
           /\ UNCHANGED reported
  BY <1>1, <1>2, <1>6, CheckStep DEF Using
<1>7. CASE /\ state[n] = "permitted" /\ f.src # MyAlias(n)
           /\ reported' = [reported EXCEPT ![n] = @ \/ Duplicate(n, f)]
           /\ Handle(n, m, Reply(n, f))
           /\ UNCHANGED <<state, step, conflict>>
  <2>1. Reply(n, f) \in Seq(Frames)
    BY <1>1, <1>2, <1>7 DEF Reply, Using
  <2>2. reported' \in [Nodes -> BOOLEAN]
    BY <1>1, <1>7 DEF TypeOK, Duplicate
  <2>. QED
    BY <1>1, <1>7, <2>1, <2>2, StayStep DEF TypeOK
<1>. QED
  BY <1>3, <1>4, <1>5, <1>6, <1>7 DEF LccFrameReceived, AliasCollision, Using

\* The node starts over.
LEMMA RestartStep ==
  ASSUME AliasInv, NEW n \in Nodes, Restart(n)
  PROVE  AliasInv'
<1>. USE DEF Restart
<1>1. TypeOK
  BY DEF AliasInv
<1>2. /\ state'[n] = "idle" /\ UNCHANGED losses
      /\ \A i \in Others(n) : state'[i] = state[i] /\ step'[i] = step[i] /\ conflict'[i] = conflict[i]
  BY <1>1 DEF TypeOK, Others
<1>3. /\ DOMAIN wire' = Nodes
      /\ \A i \in Nodes : DOMAIN wire'[i] = Others(i)
      /\ \A i \in Nodes : \A j \in Others(i) : wire'[i][j] = IF j = n THEN <<>> ELSE wire[i][j]
  OBVIOUS
<1>4. \A i \in Nodes : \A j \in Others(i) : wire'[i][j] \in Seq(Frames)
  BY <1>1, <1>3, EmptySeq DEF TypeOK
<1>5. \A i \in Nodes : Using(i)' => step'[i] \in 1..Len(AliasOf[i])
  BY <1>1 DEF TypeOK, Using
<1>6. TypeOK'
  BY <1>1, <1>3, <1>4, <1>5 DEF TypeOK
<1>7. \A i \in Others(n) : \A l \in Others(i) \ {n} : wire'[i][l] = wire[i][l]
  BY <1>3 DEF Others
<1>. QED
  BY <1>2, <1>6, <1>7, MoveStep

\* The node gives its alias up before a reboot.
LEMMA ReleaseStep ==
  ASSUME AliasInv, NEW n \in Nodes, LccReleaseAlias(n)
  PROVE  AliasInv'
<1>. DEFINE out == IF state[n] = "permitted" THEN <<Frame("AMR", MyAlias(n), n)>> ELSE <<>>
<1>1. TypeOK /\ Using(n) /\ UNCHANGED <<step, conflict, reported, losses, restarts>>
  BY DEF AliasInv, LccReleaseAlias, Using
<1>2. state' = [state EXCEPT ![n] = "released"] /\ Handle(n, n, out)
  BY DEF LccReleaseAlias, Send
<1>3. out \in Seq(Frames)
  <2>1. Frame("AMR", MyAlias(n), n) \in Frames
    BY <1>1, FrameTyped DEF TypeOK, MyAlias
  <2>. QED
    BY <2>1, OneFrame, EmptySeq
<1>. HIDE DEF out
<1>4. /\ state'[n] = "released"
      /\ \A i \in Others(n) : state'[i] = state[i] /\ step'[i] = step[i] /\ conflict'[i] = conflict[i]
  BY <1>1, <1>2 DEF TypeOK, Others
<1>5. \A i \in Nodes : Using(i)' => step'[i] \in 1..Len(AliasOf[i])
  BY <1>1, <1>2 DEF TypeOK, Using
<1>6. state' \in [Nodes -> {"idle", "checking", "permitted", "released"}]
  BY <1>1, <1>2 DEF TypeOK
<1>7. TypeOK' /\ \A i \in Others(n) : \A l \in Others(i) \ {n} : wire'[i][l] = wire[i][l]
  BY <1>1, <1>2, <1>3, <1>5, <1>6, HandleTyped DEF TypeOK
<1>. QED
  BY <1>1, <1>4, <1>7, MoveStep

LEMMA AliasInvInit == Init => AliasInv
<1>. SUFFICES ASSUME Init PROVE AliasInv
  OBVIOUS
<1>1. TypeOK
  BY EmptySeq DEF Init, TypeOK, Using
<1>2. \A n \in Nodes : \A m \in Others(n) : Apart(n, m)
  BY DEF Init, Apart, Sharing, Warned, Others
<1>. QED
  BY <1>1, <1>2 DEF AliasInv

LEMMA AliasInvNext == AliasInv /\ [Next]_vars => AliasInv'
<1>. SUFFICES ASSUME AliasInv, [Next]_vars PROVE AliasInv'
  OBVIOUS
<1>. USE EmptySeq
<1>1. ASSUME NEW n \in Nodes, LccStart(n)
      PROVE  AliasInv'
  BY <1>1, CheckStep DEF LccStart
<1>2. ASSUME NEW n \in Nodes, CidTimer(n)
      PROVE  AliasInv'
  BY <1>2, CheckStep, ClaimStep DEF CidTimer, Contested
<1>3. ASSUME NEW n \in Nodes, SendMessage(n)
      PROVE  AliasInv'
  <2>1. Frame("MSG", MyAlias(n), n) \in Frames
    BY <1>3, FrameTyped DEF SendMessage, AliasInv, TypeOK, Using, MyAlias
  <2>. QED
    BY <1>3, <2>1, OneFrame, StayStep DEF SendMessage, Send, AliasInv, TypeOK
<1>4. ASSUME NEW n \in Nodes, LccReleaseAlias(n)
      PROVE  AliasInv'
  BY <1>4, ReleaseStep
<1>5. ASSUME NEW n \in Nodes, Restart(n)
      PROVE  AliasInv'
  BY <1>5, RestartStep
<1>6. ASSUME NEW n \in Nodes, NEW m \in Others(n), LccFrameReceived(n, m)
      PROVE  AliasInv'
  BY <1>6, ReceiveStep
<1>7. ASSUME NEW n \in Nodes, NEW m \in Others(n), Lose(n, m)
      PROVE  AliasInv'
  <2>1. TypeOK /\ m \in Nodes /\ losses' \in Nat /\ losses' # 0
    BY <1>7 DEF AliasInv, Others, Lose, TypeOK
  <2>2. TypeOK'
    BY <1>7, <2>1, HandleTyped DEF Lose, TypeOK, Using
  <2>. QED
    BY <2>1, <2>2 DEF AliasInv
<1>8. CASE UNCHANGED vars
  BY <1>8 DEF vars, AliasInv, TypeOK, Using, Apart, Sharing, Warned, MyAlias
<1>. QED
  BY <1>1, <1>2, <1>3, <1>4, <1>5, <1>6, <1>7, <1>8 DEF Next

\* Two nodes never use one alias as long as no frame is lost, on a bus with any number
\* of nodes that want any aliases in any order, whenever they start, restart, give their
\* alias up, or collide: the exchange of Check ID and Reserve ID of node.c is enough.
THEOREM AliasesAreUnique == Spec => []UniqueAlias
<1>1. AliasInv => UniqueAlias
  BY DEF AliasInv, UniqueAlias, Apart, Others, Sharing
<1>. QED
  BY <1>1, AliasInvInit, AliasInvNext, PTL DEF Spec

=============================================================================
